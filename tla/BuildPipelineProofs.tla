------------------------- MODULE BuildPipelineProofs -------------------------
(***************************************************************************)
(* Proofs about BuildPipeline, for every number of requests, workers, API  *)
(* processes, keys and jobs and every choice of events and failures.       *)
(***************************************************************************)
EXTENDS BuildPipelineLifecycle, WellFoundedInduction, SequenceTheorems, TLAPS

USE SessionsAssumption, ProcsAssumption, ConfigAssumption, BoundsAssumption, NoneAssumption

-----------------------------------------------------------------------------
(* Facts about the operators the actions are built from.                   *)

(* A validation leads from a status to a status. *)
LEMMA ValidationType ==
    ASSUME NEW st \in Status, NEW valid \in BOOLEAN
    PROVE  StatusAfterValidation(st, valid) \in Status
BY DEF StatusAfterValidation, Status

(* A new spec version and its validation make a row of a row, of the same job. *)
LEMMA NewVersionType ==
    ASSUME NEW r \in Row, r.spec.version < MaxVersion
    PROVE  NewVersion(r) \in Row /\ NewVersion(r).status = r.status /\ NewVersion(r).job = r.job
<1>1. r.spec \in SpecRecord /\ r.spec.version \in 1 .. MaxVersion
  BY DEF Row, SpecRecord
<1>2. r.spec.version + 1 \in 1 .. MaxVersion
  BY <1>1
<1>3. [r.spec EXCEPT !.version = @ + 1] \in SpecRecord
  BY <1>1, <1>2 DEF SpecRecord
<1> QED BY <1>3 DEF NewVersion, Row

(* A validation makes a row of a row, of the same job. *)
LEMMA ValidatedType ==
    ASSUME NEW r \in Row, NEW valid \in BOOLEAN
    PROVE  Validated(r, valid) \in Row /\ Validated(r, valid).job = r.job
<1>1. [r.spec EXCEPT !.valid = valid] \in SpecRecord
  BY DEF Row, SpecRecord
<1>2. StatusAfterValidation(r.status, valid) \in Status
  BY ValidationType DEF Row
<1> QED BY <1>1, <1>2 DEF Validated, Row

(* A row merged at COMMIT is a row. *)
LEMMA MergeType ==
    ASSUME NEW cur \in Row, NEW was \in Row, NEW now \in Row
    PROVE  Merge(cur, was, now) \in Row
BY DEF Merge, Written, Row

(* The placeholder of idle sessions is a row. *)
LEMMA NoRowType == NoRow \in Row
BY ValidationType DEF NoRow, CreatedRow, Row, SpecRecord, Job, StatusAfterValidation, Status

(* A run written with a new status leaves a ledger of runs. *)
LEMMA RunWrittenType ==
    ASSUME TypeOK, NEW s \in Sessions, NEW st \in {"QUEUED", "SUCCEEDED", "FAILED"}
    PROVE  RunWritten(s, st) \in Seq(Run)
<1> DEFINE i == held[s].at
<1>1. CASE i \in DOMAIN runs /\ held[s].was # st
  <2>1. i \in 1 .. Len(runs) /\ runs[i] \in Run
    BY <1>1 DEF TypeOK
  <2>2. [runs[i] EXCEPT !.status = st] \in Run
    BY <2>1 DEF Run
  <2>3. [runs EXCEPT ![i] = [runs[i] EXCEPT !.status = st]] \in Seq(Run)
    BY <2>1, <2>2, ExceptSeq DEF TypeOK
  <2>4. RunWritten(s, st) = [runs EXCEPT ![i] = [runs[i] EXCEPT !.status = st]]
    BY <1>1 DEF RunWritten
  <2> QED BY <2>3, <2>4
<1>2. CASE ~(i \in DOMAIN runs /\ held[s].was # st)
  BY <1>2 DEF RunWritten, TypeOK
<1> QED BY <1>1, <1>2

(* The run a callback or a worker holds is a run of the ledger or none. *)
LEMMA LatestRunType ==
    ASSUME TypeOK PROVE LatestRun \in Held
<1>1. CASE runs = << >>
  BY <1>1 DEF LatestRun, NoHeld, Held
<1>2. CASE runs # << >>
  <2>1. Len(runs) \in DOMAIN runs /\ runs[Len(runs)] \in Run /\ Len(runs) \in Nat
    BY <1>2, EmptySeq, LenProperties DEF TypeOK
  <2> QED BY <1>2, <2>1 DEF LatestRun, Held, Run
<1> QED BY <1>1, <1>2

(* Every set of naturals that is not empty has a smallest element. *)
LEMMA SmallestOfSet ==
    ASSUME NEW T \in SUBSET Nat, T # {}
    PROVE  \E d \in T : \A m \in T : d <= m
<1> DEFINE less == OpToRel(<, Nat)
<1>1. \A x, y \in Nat : y < x => <<y, x>> \in less
  BY DEF OpToRel
<1>2. IsWellFoundedOn(less, Nat)
  BY NatLessThanWellFounded
<1> HIDE DEF less
<1>3. PICK d \in T : \A m \in T : <<m, d>> \notin less
  BY <1>2, WFMin
<1>4. ASSUME NEW m \in T PROVE d <= m
  <2>1. ~(m < d)
    BY <1>1, <1>3
  <2> QED BY <2>1
<1> QED BY <1>4

(* The newest run of a job exists when the job has runs. *)
LEMMA NewestRun ==
    ASSUME TypeOK, NEW j \in Job, RunsOf(j) # {}
    PROVE  \E i \in RunsOf(j) : \A n \in RunsOf(j) : n <= i
<1>1. Len(runs) \in Nat /\ DOMAIN runs = 1 .. Len(runs)
  BY LenProperties DEF TypeOK
<1> DEFINE fromEnd == {Len(runs) - i : i \in RunsOf(j)}
<1>2. RunsOf(j) \in SUBSET (1 .. Len(runs))
  BY <1>1 DEF RunsOf
<1>3. fromEnd \in SUBSET Nat /\ fromEnd # {}
  BY <1>1, <1>2
<1>4. PICK d \in fromEnd : \A m \in fromEnd : d <= m
  BY <1>3, SmallestOfSet
<1>5. PICK i \in RunsOf(j) : d = Len(runs) - i
  BY <1>4
<1>6. ASSUME NEW n \in RunsOf(j) PROVE n <= i
  <2>1. Len(runs) - n \in fromEnd
    OBVIOUS
  <2>2. Len(runs) - i <= Len(runs) - n
    BY <2>1, <1>4, <1>5
  <2> QED BY <2>2, <1>1, <1>2
<1> QED BY <1>6

(* What a worker holds is a run of the ledger, or none. *)
LEMMA RunForJobType ==
    ASSUME TypeOK, NEW j \in Job PROVE RunForJob(j) \in Held
<1>1. CASE j = 0 \/ RunsOf(j) = {}
  BY <1>1 DEF RunForJob, NoHeld, Held
<1>2. CASE ~(j = 0 \/ RunsOf(j) = {})
  <2> DEFINE newest == CHOOSE i \in RunsOf(j) : \A n \in RunsOf(j) : n <= i
  <2>1. newest \in RunsOf(j)
    BY <1>2, NewestRun
  <2>2. newest \in Nat /\ runs[newest] \in Run
    BY <2>1, LenProperties DEF RunsOf, TypeOK
  <2>3. RunForJob(j) = [at |-> newest, was |-> runs[newest].status]
    BY <1>2 DEF RunForJob
  <2> HIDE DEF newest
  <2> QED BY <2>2, <2>3 DEF Held, Run
<1> QED BY <1>1, <1>2

(* Opening a transaction keeps the types of a session's state. *)
LEMMA BeginType ==
    ASSUME TypeOK, NEW s \in Sessions, NEW label \in PC, NEW new \in Row, Begin(s, label, new)
    PROVE  /\ pc' \in [Sessions -> PC]
           /\ loaded' \in [Sessions -> Row]
           /\ local' \in [Sessions -> Row]
BY DEF Begin, Goto, TypeOK

(* Ending a transaction keeps the types of a session's state. *)
LEMMA EndType ==
    ASSUME TypeOK, NEW s \in Sessions, End(s)
    PROVE  /\ pc' \in [Sessions -> PC]
           /\ loaded' \in [Sessions -> Row]
           /\ local' \in [Sessions -> Row]
           /\ call' \in [Sessions -> Call \cup {None}]
           /\ held' \in [Sessions -> Held]
BY NoRowType DEF End, Goto, TypeOK, PC, Held, NoHeld

-----------------------------------------------------------------------------
(* The inductive invariant: types, the row lock, room for the job a build  *)
(* request is about to enqueue, and the delivery behind each callback.     *)

RoomForJob ==
    \A s \in Requests :
        pc[s] = "build_locked" /\ loaded[s].status = "READY_FOR_BUILD" => jobs < MaxJobs

Locked   == {"build_locked", "build_enqueued", "closing"}
Callback == {"cb_read", "cb_await", "cb_commit"}

CallbackHasCall == \A s \in Sessions : pc[s] \in Callback => call[s] \in Call

LockInv == TypeOK /\ LockedRowIsCurrent /\ RoomForJob /\ CallbackHasCall

(* A request that loads the row into a transaction without the lock. *)
LEMMA BeginStep ==
    ASSUME LockInv, NEW s \in Sessions, NEW label \in PC \ Locked, NEW new \in Row,
           Begin(s, label, new), UNCHANGED <<row, lock, jobs>>,
           \/ label \notin Callback /\ UNCHANGED call
           \/ \E c \in Call : call' = [call EXCEPT ![s] = c]
    PROVE  LockedRowIsCurrent' /\ RoomForJob' /\ CallbackHasCall'
<1>1. LockedRowIsCurrent' /\ RoomForJob'
  BY DEF LockInv, TypeOK, LockedRowIsCurrent, RoomForJob, Locked, Begin, Goto, Sessions
<1>2. CallbackHasCall'
  BY DEF LockInv, TypeOK, CallbackHasCall, Begin, Goto
<1> QED BY <1>1, <1>2

(* A transaction that ends, releasing the lock when it holds it, and       *)
(* changes the row only when nobody else has the lock.                     *)
LEMMA EndStep ==
    ASSUME LockInv, NEW s \in Sessions, End(s),
           lock' = IF lock = s THEN None ELSE lock,
           row' # row => CanWrite(s),
           UNCHANGED jobs
    PROVE  LockedRowIsCurrent' /\ RoomForJob' /\ CallbackHasCall'
<1>1. LockedRowIsCurrent' /\ RoomForJob'
  BY DEF LockInv, TypeOK, LockedRowIsCurrent, RoomForJob, End, Goto, Sessions, CanWrite
<1>2. CallbackHasCall'
  BY DEF LockInv, TypeOK, CallbackHasCall, Callback, End, Goto
<1> QED BY <1>1, <1>2

(* A transaction without the lock that ends, and writes the row only when  *)
(* nobody else has the lock.                                               *)
LEMMA WriteStep ==
    ASSUME LockInv, NEW s \in Sessions, pc[s] \notin Locked, End(s),
           row' # row => CanWrite(s),
           UNCHANGED <<lock, jobs>>
    PROVE  LockedRowIsCurrent' /\ RoomForJob' /\ CallbackHasCall'
<1>1. LockedRowIsCurrent' /\ RoomForJob'
  BY DEF LockInv, TypeOK, LockedRowIsCurrent, RoomForJob, End, Goto, Sessions, CanWrite, Locked
<1>2. CallbackHasCall'
  BY DEF LockInv, TypeOK, CallbackHasCall, Callback, End, Goto
<1> QED BY <1>1, <1>2

(* A step of a request that takes or has the lock and ends nothing.        *)
LEMMA HolderStep ==
    ASSUME LockInv, NEW s \in Requests, NEW label \in Locked,
           pc' = [pc EXCEPT ![s] = label],
           \/ pc[s] = "idle" /\ lock = None /\ lock' = s /\ loaded' = [loaded EXCEPT ![s] = row]
           \/ pc[s] \in Locked /\ UNCHANGED <<lock, loaded>>,
           UNCHANGED <<row, call>>
    PROVE  LockedRowIsCurrent' /\ CallbackHasCall'
<1>1. LockedRowIsCurrent'
  BY DEF LockInv, TypeOK, LockedRowIsCurrent, Locked, Sessions
<1>2. CallbackHasCall'
  BY DEF LockInv, TypeOK, CallbackHasCall, Locked, Callback, Sessions
<1> QED BY <1>1, <1>2

-----------------------------------------------------------------------------

(* Nobody holds the row lock at first. *)
LEMMA InitLockInv == Init => LockInv
<1> SUFFICES ASSUME Init PROVE LockInv
  OBVIOUS
<1>1. \A valid \in BOOLEAN : CreatedRow(valid) \in Row
  BY ValidationType DEF CreatedRow, Row, SpecRecord, Job, StatusAfterValidation, Status
<1>2. row \in Row
  BY <1>1 DEF Init
<1>3. TypeOK
  BY <1>2, NoRowType DEF Init, TypeOK, Job, PC, Held, NoHeld
<1>4. LockedRowIsCurrent /\ RoomForJob /\ CallbackHasCall
  BY DEF Init, LockedRowIsCurrent, RoomForJob, CallbackHasCall, Callback, Sessions
<1> QED BY <1>3, <1>4 DEF LockInv

(* The handlers that read the row and write it back.                       *)
LEMMA WriterSteps ==
    ASSUME LockInv, NEW s \in Requests,
           \/ \E valid \in BOOLEAN : PatchSpec(s, valid) \/ Revalidate(s, valid)
           \/ \E user \in Users : Approve(s, user)
           \/ CommitWrite(s)
    PROVE  LockInv'
<1>0. s \in Sessions /\ TypeOK /\ "writing" \in PC \ (Locked \cup Callback) /\ row \in Row
  BY DEF Sessions, LockInv, TypeOK, PC, Locked, Callback
<1>1. ASSUME NEW valid \in BOOLEAN, PatchSpec(s, valid) PROVE LockInv'
  <2>1. Validated(NewVersion(row), valid) \in Row
    BY <1>0, <1>1, NewVersionType, ValidatedType DEF PatchSpec
  <2>2. Begin(s, "writing", Validated(NewVersion(row), valid))
    BY <1>1 DEF PatchSpec
  <2>3. LockedRowIsCurrent' /\ RoomForJob' /\ CallbackHasCall'
    BY <1>0, <1>1, <2>1, <2>2, BeginStep DEF PatchSpec
  <2>4. TypeOK'
    BY <1>0, <1>1, <2>1, <2>2, BeginType DEF PatchSpec, TypeOK
  <2> QED BY <2>3, <2>4 DEF LockInv
<1>2. ASSUME NEW valid \in BOOLEAN, Revalidate(s, valid) PROVE LockInv'
  <2>1. Validated(row, valid) \in Row
    BY <1>0, ValidatedType
  <2>2. Begin(s, "writing", Validated(row, valid))
    BY <1>2 DEF Revalidate
  <2>3. LockedRowIsCurrent' /\ RoomForJob' /\ CallbackHasCall'
    BY <1>0, <1>2, <2>1, <2>2, BeginStep DEF Revalidate
  <2>4. TypeOK'
    BY <1>0, <1>2, <2>1, <2>2, BeginType DEF Revalidate, TypeOK
  <2> QED BY <2>3, <2>4 DEF LockInv
<1>3. ASSUME NEW user \in Users, Approve(s, user) PROVE LockInv'
  <2> DEFINE new == [row EXCEPT !.status = ActionResult["approve"], !.approver = user]
  <2>1. new \in Row
    BY <1>0 DEF Row, ActionResult, Status
  <2>2. Begin(s, "writing", new)
    BY <1>3 DEF Approve
  <2>3. LockedRowIsCurrent' /\ RoomForJob' /\ CallbackHasCall'
    BY <1>0, <1>3, <2>1, <2>2, BeginStep DEF Approve
  <2>4. TypeOK'
    BY <1>0, <1>3, <2>1, <2>2, BeginType DEF Approve, TypeOK
  <2> QED BY <2>3, <2>4 DEF LockInv
<1>4. CASE CommitWrite(s)
  <2>1. LockedRowIsCurrent' /\ RoomForJob' /\ CallbackHasCall'
    BY <1>0, <1>4, WriteStep DEF CommitWrite, Locked
  <2>2. row' \in Row
    BY <1>0, <1>4, MergeType DEF CommitWrite, TypeOK
  <2>3. TypeOK'
    BY <1>0, <1>4, <2>2, EndType DEF CommitWrite, TypeOK
  <2> QED BY <2>1, <2>3 DEF LockInv
<1> QED BY <1>1, <1>2, <1>3, <1>4

(* The handlers of start_build: they hold the row lock throughout.         *)
LEMMA BuildSteps ==
    ASSUME LockInv, NEW s \in Requests,
           \/ BuildLock(s) \/ BuildReuse(s) \/ BuildReject(s) \/ CloseSession(s)
           \/ \E user \in Users : BuildEnqueue(s, user)
           \/ BuildEnqueueFails(s) \/ BuildCommit(s)
    PROVE  LockInv'
<1>0. s \in Sessions /\ TypeOK /\ row \in Row /\ Locked \subseteq PC
  BY DEF Sessions, LockInv, TypeOK, PC, Locked, Callback
<1>1. CASE BuildLock(s)
  <2>1. Begin(s, "build_locked", row)
    BY <1>1 DEF BuildLock
  <2>2. LockedRowIsCurrent' /\ CallbackHasCall'
    BY <1>0, <1>1, HolderStep DEF BuildLock, Begin, Goto, Locked
  <2>3. RoomForJob'
    BY <1>0, <1>1 DEF BuildLock, Begin, Goto, RoomForJob, LockInv, TypeOK
  <2>4. TypeOK'
    BY <1>0, <1>1, <2>1, BeginType DEF BuildLock, TypeOK, Locked
  <2> QED BY <2>2, <2>3, <2>4 DEF LockInv
<1>2. CASE BuildReuse(s) \/ CloseSession(s) \/ BuildEnqueueFails(s)
  <2>1. End(s) /\ Unlock(s) /\ UNCHANGED <<row, receipts, runs, loop, acks, queued, jobs>>
    BY <1>2 DEF BuildReuse, CloseSession, BuildEnqueueFails
  <2>2. LockedRowIsCurrent' /\ RoomForJob' /\ CallbackHasCall'
    BY <1>0, <2>1, EndStep DEF Unlock
  <2>3. TypeOK'
    BY <1>0, <2>1, EndType DEF Unlock, TypeOK
  <2> QED BY <2>2, <2>3 DEF LockInv
<1>3. CASE BuildReject(s)
  <2>1. LockedRowIsCurrent' /\ CallbackHasCall'
    BY <1>0, <1>3, HolderStep DEF BuildReject, Goto, Locked
  <2>2. RoomForJob'
    BY <1>0, <1>3 DEF BuildReject, Goto, RoomForJob, LockInv, TypeOK
  <2>3. TypeOK'
    BY <1>0, <1>3 DEF BuildReject, Goto, TypeOK, Locked
  <2> QED BY <2>1, <2>2, <2>3 DEF LockInv
<1>4. ASSUME NEW user \in Users, BuildEnqueue(s, user) PROVE LockInv'
  <2>1. LockedRowIsCurrent' /\ CallbackHasCall'
    BY <1>0, <1>4, HolderStep DEF BuildEnqueue, Goto, Locked
  <2>2. \A t \in Requests : pc'[t] = "build_locked" => t # s /\ pc[t] = "build_locked"
    BY <1>0, <1>4 DEF BuildEnqueue, Goto, TypeOK, Sessions
  <2>3. \A t \in Requests : pc[t] = "build_locked" => t = s
    BY <1>4 DEF BuildEnqueue, LockInv, LockedRowIsCurrent
  <2>4. RoomForJob'
    BY <2>2, <2>3 DEF RoomForJob
  <2>5. jobs + 1 \in Job
    <3>1. jobs < MaxJobs
      BY <1>4 DEF BuildEnqueue, LockInv, RoomForJob
    <3> QED BY <1>0, <3>1 DEF TypeOK, Job
  <2>6. queued + 1 \in Nat
    BY <1>0 DEF TypeOK
  <2>7. [loaded[s].spec EXCEPT !.builder = user] \in SpecRecord
    BY <1>0 DEF TypeOK, Row, SpecRecord
  <2>8. Started(loaded[s], jobs + 1, user) \in Row
    BY <1>0, <2>5, <2>7 DEF TypeOK, Row, Status, ActionResult, Started
  <2>9. local' \in [Sessions -> Row]
    BY <1>0, <1>4, <2>8 DEF BuildEnqueue, TypeOK
  <2>10. TypeOK'
    BY <1>0, <1>4, <2>5, <2>6, <2>9 DEF BuildEnqueue, Goto, TypeOK, Locked
  <2> QED BY <2>1, <2>4, <2>10 DEF LockInv
<1>5. CASE BuildCommit(s)
  <2>1. lock = s
    BY <1>5 DEF BuildCommit, LockInv, LockedRowIsCurrent
  <2>2. LockedRowIsCurrent' /\ RoomForJob' /\ CallbackHasCall'
    BY <1>0, <1>5, <2>1, EndStep DEF BuildCommit, Unlock, CanWrite
  <2>3. row' \in Row
    BY <1>0, <1>5, MergeType DEF BuildCommit, TypeOK
  <2>4. [job |-> local[s].job, status |-> "QUEUED"] \in Run
    BY <1>0 DEF TypeOK, Row, Run
  <2>5. runs' \in Seq(Run)
    BY <1>0, <1>5, <2>4, AppendProperties DEF BuildCommit, TypeOK
  <2>6. TypeOK'
    BY <1>0, <1>5, <2>3, <2>5, EndType DEF BuildCommit, Unlock, TypeOK
  <2> QED BY <2>2, <2>6 DEF LockInv
<1> QED BY <1>1, <1>2, <1>3, <1>4, <1>5

(* A callback loads a status of the lifecycle into its row.                *)
LEMMA AppliedType ==
    ASSUME NEW r \in Row, NEW e \in Events
    PROVE  Applied(r, e) \in Row
<1>1. e \in AllEvents
  OBVIOUS
<1>2. CallbackStatus[e] \in Status
  BY <1>1 DEF CallbackStatus, AllEvents, Status
<1>3. (IF e = "pr_opened" THEN r.job ELSE 0) \in Job
  BY DEF Row, Job
<1> QED BY <1>2, <1>3 DEF Applied, Row

(* The callbacks: they never have the row lock.                            *)
LEMMA CallbackSteps ==
    ASSUME LockInv, NEW s \in Requests,
           \/ \E k \in Keys, e \in Events : CallbackReplay(s, k, e) \/ CallbackRead(s, k, e)
           \/ CallbackConflict(s) \/ CallbackRefused(s)
           \/ \E yields \in BOOLEAN : CallbackApply(s, yields)
           \/ CallbackResume(s) \/ CallbackCommit(s)
    PROVE  LockInv'
<1>0. /\ s \in Sessions /\ TypeOK /\ row \in Row
      /\ {"cb_read", "cb_await", "cb_commit"} \subseteq PC \ Locked
  BY DEF Sessions, LockInv, TypeOK, PC, Locked, Callback
<1>1. ASSUME NEW k \in Keys, NEW e \in Events, CallbackReplay(s, k, e) PROVE LockInv'
  <2>1. acks' \subseteq Keys \X Events
    BY <1>0, <1>1 DEF CallbackReplay, Replayed, TypeOK
  <2>2. UNCHANGED <<row, receipts, runs, lock, queued, jobs, loop, pc, loaded, local, call, held>>
    BY <1>1 DEF CallbackReplay
  <2> QED BY <1>0, <2>1, <2>2 DEF LockInv, TypeOK, LockedRowIsCurrent, RoomForJob, CallbackHasCall
<1>2. ASSUME NEW k \in Keys, NEW e \in Events, CallbackRead(s, k, e) PROVE LockInv'
  <2>1. Begin(s, "cb_read", row)
    BY <1>2 DEF CallbackRead
  <2>2. [key |-> k, event |-> e] \in Call
    BY DEF Call
  <2>3. LockedRowIsCurrent' /\ RoomForJob' /\ CallbackHasCall'
    BY <1>0, <1>2, <2>1, <2>2, BeginStep DEF CallbackRead
  <2>4. TypeOK'
    BY <1>0, <1>2, <2>1, <2>2, BeginType DEF CallbackRead, TypeOK
  <2> QED BY <2>3, <2>4 DEF LockInv
<1>3. CASE CallbackConflict(s) \/ CallbackRefused(s)
  <2>1. /\ pc[s] = "cb_read" /\ End(s) /\ LeaveLoop(s)
        /\ UNCHANGED <<row, receipts, runs, lock, queued, jobs>>
    BY <1>3 DEF CallbackConflict, CallbackRefused, CanInsert
  <2>2. LockedRowIsCurrent' /\ RoomForJob' /\ CallbackHasCall'
    BY <1>0, <2>1, WriteStep
  <2>3. acks' \subseteq Keys \X Events
    <3>1. CASE CallbackRefused(s)
      BY <1>0, <3>1 DEF CallbackRefused, TypeOK
    <3>2. CASE CallbackConflict(s)
      <4>1. Replayed(call[s].key, call[s].event)
        BY <3>2 DEF CallbackConflict
      <4>2. call[s] \in Call
        BY <1>0, <2>1 DEF LockInv, CallbackHasCall, Callback
      <4> QED BY <1>0, <4>1, <4>2 DEF Replayed, TypeOK, Call
    <3> QED BY <1>3, <3>1, <3>2
  <2>4. loop' \in [Procs -> Requests \cup {None}]
    BY <1>0, <2>1 DEF LeaveLoop, TypeOK
  <2>5. TypeOK'
    BY <1>0, <2>1, <2>3, <2>4, EndType DEF TypeOK
  <2> QED BY <2>2, <2>5 DEF LockInv
<1>4. ASSUME NEW yields \in BOOLEAN, CallbackApply(s, yields) PROVE LockInv'
  <2>1. pc[s] = "cb_read"
    BY <1>4 DEF CallbackApply, CanInsert
  <2>2. call[s] \in Call /\ call[s].event \in Events
    BY <1>0, <2>1 DEF LockInv, CallbackHasCall, Callback, Call
  <2>3. local' \in [Sessions -> Row]
    BY <1>0, <1>4, <2>2, AppliedType DEF CallbackApply, TypeOK
  <2>4. held' \in [Sessions -> Held]
    BY <1>0, <1>4, LatestRunType DEF CallbackApply, TypeOK
  <2>5. loop' \in [Procs -> Requests \cup {None}]
    BY <1>0, <1>4 DEF CallbackApply, LeaveLoop, TypeOK
  <2>6. \E label \in {"cb_await", "cb_commit"} : pc' = [pc EXCEPT ![s] = label]
    BY <1>4 DEF CallbackApply, Goto
  <2>7. TypeOK'
    BY <1>0, <1>4, <2>3, <2>4, <2>5, <2>6 DEF CallbackApply, TypeOK
  <2>8. LockedRowIsCurrent' /\ RoomForJob' /\ CallbackHasCall'
    BY <1>0, <1>4, <2>1, <2>2, <2>6
    DEF CallbackApply, LockInv, LockedRowIsCurrent, RoomForJob, CallbackHasCall, TypeOK
  <2> QED BY <2>7, <2>8 DEF LockInv
<1>5. CASE CallbackResume(s)
  <2>1. TypeOK'
    BY <1>0, <1>5 DEF CallbackResume, Goto, TypeOK
  <2>2. LockedRowIsCurrent' /\ RoomForJob' /\ CallbackHasCall'
    BY <1>0, <1>5
    DEF CallbackResume, Goto, LockInv, LockedRowIsCurrent, RoomForJob, CallbackHasCall, Callback, TypeOK
  <2> QED BY <2>1, <2>2 DEF LockInv
<1>6. CASE CallbackCommit(s)
  <2>1. LockedRowIsCurrent' /\ RoomForJob' /\ CallbackHasCall'
    BY <1>0, <1>6, WriteStep DEF CallbackCommit
  <2>2. call[s] \in Call /\ call[s].event \in Events /\ call[s].key \in Keys
    BY <1>0, <1>6 DEF CallbackCommit, LockInv, CallbackHasCall, Callback, Call
  <2>3. row' \in Row
    BY <1>0, <1>6, MergeType DEF CallbackCommit, TypeOK
  <2>4. runs' \in Seq(Run)
    BY <1>0, <1>6, RunWrittenType DEF CallbackCommit, CallbackRunStatus
  <2>5. receipts' \in [Keys -> Events \cup {None}] /\ acks' \subseteq Keys \X Events
    BY <1>0, <1>6, <2>2 DEF CallbackCommit, TypeOK
  <2>6. loop' \in [Procs -> Requests \cup {None}]
    BY <1>0, <1>6 DEF CallbackCommit, LeaveLoop, TypeOK
  <2>7. TypeOK'
    BY <1>0, <1>6, <2>3, <2>4, <2>5, <2>6, EndType DEF CallbackCommit, TypeOK
  <2> QED BY <2>1, <2>7 DEF LockInv
<1> QED BY <1>1, <1>2, <1>3, <1>4, <1>5, <1>6

(* The workers: a build is one transaction, without the row lock.          *)
LEMMA WorkerSteps ==
    ASSUME LockInv, NEW w \in Workers, Build(w)
    PROVE  LockInv'
<1>0. w \in Sessions /\ TypeOK /\ row \in Row /\ "building" \in PC \ (Locked \cup Callback)
  BY DEF Sessions, LockInv, TypeOK, PC, Locked, Callback
<1>1. CASE WorkerStart(w)
  <2> DEFINE new == [row EXCEPT !.status = "BUILDING"]
  <2>1. new \in Row
    BY <1>0 DEF Row, Status
  <2>2. Begin(w, "building", new)
    BY <1>1 DEF WorkerStart
  <2>3. LockedRowIsCurrent' /\ RoomForJob' /\ CallbackHasCall'
    BY <1>0, <1>1, <2>1, <2>2, BeginStep DEF WorkerStart
  <2>4. queued' \in Nat
    BY <1>0, <1>1 DEF WorkerStart, TypeOK
  <2>5. held' \in [Sessions -> Held]
    <3>1. RunForJob(row.job) \in Held
      BY <1>0, RunForJobType DEF Row
    <3> QED BY <1>0, <1>1, <3>1 DEF WorkerStart, TypeOK
  <2>6. TypeOK'
    BY <1>0, <1>1, <2>1, <2>2, <2>4, <2>5, BeginType DEF WorkerStart, TypeOK
  <2> QED BY <2>3, <2>6 DEF LockInv
<1>2. CASE WorkerReject(w)
  <2>1. queued' \in Nat
    BY <1>0, <1>2 DEF WorkerReject, TypeOK
  <2>2. UNCHANGED <<row, receipts, runs, lock, jobs, loop, pc, loaded, local, call, held, acks>>
    BY <1>2 DEF WorkerReject
  <2> QED BY <1>0, <2>1, <2>2 DEF LockInv, TypeOK, LockedRowIsCurrent, RoomForJob, CallbackHasCall
<1>3. CASE WorkerUnprepared(w)
  <2>1. LockedRowIsCurrent' /\ RoomForJob' /\ CallbackHasCall'
    BY <1>0, <1>3, WriteStep DEF WorkerUnprepared
  <2>2. TypeOK'
    BY <1>0, <1>3, EndType DEF WorkerUnprepared, TypeOK
  <2> QED BY <2>1, <2>2 DEF LockInv
<1>4. ASSUME NEW st \in Status, NEW result \in {"SUCCEEDED", "FAILED"}, WorkerCommit(w, st, result)
      PROVE  LockInv'
  <2>1. LockedRowIsCurrent' /\ RoomForJob' /\ CallbackHasCall'
    BY <1>0, <1>4, WriteStep DEF WorkerCommit
  <2>2. [local[w] EXCEPT !.status = st, !.job = 0] \in Row
    <3>1. local[w] \in Row /\ 0 \in Job
      BY <1>0 DEF TypeOK, Job
    <3> QED BY <3>1 DEF Row
  <2>3. row' \in Row
    BY <1>0, <1>4, <2>2, MergeType DEF WorkerCommit, TypeOK
  <2>4. runs' \in Seq(Run)
    <3>1. [job |-> loaded[w].job, status |-> result] \in Run
      BY <1>0 DEF TypeOK, Row, Run
    <3>2. Append(runs, [job |-> loaded[w].job, status |-> result]) \in Seq(Run)
      BY <1>0, <3>1, AppendProperties DEF TypeOK
    <3>3. RunWritten(w, result) \in Seq(Run)
      BY <1>0, RunWrittenType
    <3> QED BY <1>4, <3>2, <3>3 DEF WorkerCommit
  <2>5. TypeOK'
    BY <1>0, <1>4, <2>3, <2>4, EndType DEF WorkerCommit, TypeOK
  <2> QED BY <2>1, <2>5 DEF LockInv
<1>5. CASE WorkerMisconfigured(w) \/ WorkerSucceeds(w) \/ WorkerFails(w)
  <2>1. \E st \in Status, result \in {"SUCCEEDED", "FAILED"} : WorkerCommit(w, st, result)
    BY <1>5 DEF WorkerMisconfigured, WorkerSucceeds, WorkerFails, Status, ActionResult
  <2> QED BY <2>1, <1>4
<1> QED BY <1>1, <1>2, <1>3, <1>5 DEF Build

(* A crash ends the transactions of one process and changes nothing that   *)
(* was committed.                                                          *)
LEMMA CrashSteps ==
    ASSUME LockInv, NEW S \in SUBSET Sessions, Crash(S)
    PROVE  LockInv'
<1>0. TypeOK
  BY DEF LockInv
<1>1. TypeOK'
  <2>1. pc' \in [Sessions -> PC] /\ held' \in [Sessions -> Held]
    BY <1>0 DEF Crash, TypeOK, PC, Held, NoHeld
  <2>2. loaded' \in [Sessions -> Row] /\ local' \in [Sessions -> Row]
    BY <1>0, NoRowType DEF Crash, TypeOK
  <2>3. call' \in [Sessions -> Call \cup {None}]
    BY <1>0 DEF Crash, TypeOK
  <2>4. lock' \in Requests \cup {None} /\ loop' \in [Procs -> Requests \cup {None}]
    BY <1>0 DEF Crash, TypeOK
  <2> QED BY <1>0, <2>1, <2>2, <2>3, <2>4 DEF Crash, TypeOK
<1>2. LockedRowIsCurrent' /\ RoomForJob' /\ CallbackHasCall'
  <2>1. \A s \in Sessions : pc'[s] # "idle" =>
            s \notin S /\ pc'[s] = pc[s] /\ loaded'[s] = loaded[s] /\ call'[s] = call[s]
    BY <1>0 DEF Crash, TypeOK
  <2>2. \A s \in Sessions : s \notin S /\ lock = s => lock' = s
    BY DEF Crash
  <2>3. UNCHANGED <<row, jobs>>
    BY DEF Crash
  <2> QED BY <2>1, <2>2, <2>3
          DEF LockInv, LockedRowIsCurrent, RoomForJob, CallbackHasCall, Callback, Sessions
<1> QED BY <1>1, <1>2 DEF LockInv

-----------------------------------------------------------------------------

(* The invariant is inductive. *)
LEMMA LockInvInductive == LockInv /\ [Next]_vars => LockInv'
<1> SUFFICES ASSUME LockInv, [Next]_vars PROVE LockInv'
  OBVIOUS
<1>1. ASSUME NEW s \in Requests, Request(s) \/ Proceed(s) PROVE LockInv'
  BY <1>1, WriterSteps, BuildSteps, CallbackSteps DEF Request, Proceed
<1>2. ASSUME NEW w \in Workers, Build(w) PROVE LockInv'
  BY <1>2, WorkerSteps
<1>3. ASSUME NEW w \in Workers, WorkerCrash(w) PROVE LockInv'
  BY <1>3, CrashSteps DEF WorkerCrash, Sessions
<1>4. ASSUME NEW p \in Procs, ApiCrash(p) PROVE LockInv'
  BY <1>4, CrashSteps DEF ApiCrash, Sessions
<1>5. CASE UNCHANGED vars
  BY <1>5 DEF vars, LockInv, TypeOK, LockedRowIsCurrent, RoomForJob, CallbackHasCall
<1> QED BY <1>1, <1>2, <1>3, <1>4, <1>5 DEF Next

(* Every variable stays in its set, whatever the number of sessions. *)
THEOREM TypeCorrect == Spec => []TypeOK
<1>1. LockInv => TypeOK
  BY DEF LockInv
<1> QED BY InitLockInv, LockInvInductive, <1>1, PTL DEF Spec

(* Nothing commits to the row while a build request decides on it: the     *)
(* SELECT FOR UPDATE of start_build protects the row up to its commit      *)
(* against every handler, callback and worker that read without a lock.    *)
THEOREM LockedRowStaysCurrent == Spec => []LockedRowIsCurrent
<1>1. LockInv => LockedRowIsCurrent
  BY DEF LockInv
<1> QED BY InitLockInv, LockInvInductive, <1>1, PTL DEF Spec

-----------------------------------------------------------------------------
(* Callback receipts: what a sender was answered stays recorded, and a key *)
(* has an effect at most once, whatever deliveries race in however many    *)
(* API processes and wherever they are suspended or crash.  The inductive  *)
(* invariant: an inserted receipt is new and alone.                        *)

NewReceipt(s) ==
    pc[s] \in {"cb_await", "cb_commit"} =>
        /\ receipts[call[s].key] = None
        /\ \A t \in Requests : t # s => ~Inserted(t, call[s].key)

ReceiptInv == LockInv /\ AnsweredMeansRecorded /\ \A s \in Requests : NewReceipt(s)

Receipts == AnsweredMeansRecorded /\ \A s \in Requests : NewReceipt(s)

(* Steps that insert no receipt: sessions may end, nothing else of them    *)
(* matters as long as the committed receipts and the answers stay.         *)
LEMMA NoInsert ==
    ASSUME ReceiptInv, UNCHANGED <<receipts, acks>>,
           \A t \in Requests : \/ pc'[t] \notin {"cb_await", "cb_commit"}
                               \/ pc[t] \in {"cb_await", "cb_commit"} /\ call'[t] = call[t]
    PROVE  Receipts'
<1>1. AnsweredMeansRecorded'
  BY DEF ReceiptInv, AnsweredMeansRecorded
<1>2. ASSUME NEW s \in Requests PROVE NewReceipt(s)'
  BY DEF ReceiptInv, NewReceipt, Inserted
<1> QED BY <1>1, <1>2 DEF Receipts

(* An answer to a replay is given only when the receipt says the same.     *)
LEMMA ReplayedRecorded ==
    ASSUME ReceiptInv, NEW k \in Keys, NEW e \in Events, Replayed(k, e), UNCHANGED receipts
    PROVE  AnsweredMeansRecorded'
BY DEF ReceiptInv, AnsweredMeansRecorded, Replayed

(* The steps of a delivery insert a receipt once and answer truthfully. *)
LEMMA CallbackReceipts ==
    ASSUME ReceiptInv, NEW s \in Requests,
           \/ \E k \in Keys, e \in Events : CallbackReplay(s, k, e) \/ CallbackRead(s, k, e)
           \/ CallbackConflict(s) \/ CallbackRefused(s)
           \/ \E yields \in BOOLEAN : CallbackApply(s, yields)
           \/ CallbackResume(s) \/ CallbackCommit(s)
    PROVE  Receipts'
<1>0. s \in Sessions /\ LockInv /\ TypeOK /\ Requests \subseteq Sessions
  BY DEF ReceiptInv, LockInv, Sessions
<1>1. ASSUME NEW k \in Keys, NEW e \in Events, CallbackReplay(s, k, e) PROVE Receipts'
  <2>1. AnsweredMeansRecorded'
    BY <1>1, ReplayedRecorded DEF CallbackReplay
  <2>2. ASSUME NEW t \in Requests PROVE NewReceipt(t)'
    BY <1>1 DEF CallbackReplay, ReceiptInv, NewReceipt, Inserted
  <2> QED BY <2>1, <2>2 DEF Receipts
<1>2. ASSUME NEW k \in Keys, NEW e \in Events, CallbackRead(s, k, e) PROVE Receipts'
  BY <1>0, <1>2, NoInsert DEF CallbackRead, Begin, Goto, TypeOK
<1>3. CASE CallbackConflict(s)
  <2>1. call[s] \in Call /\ call[s].key \in Keys /\ call[s].event \in Events
    BY <1>0, <1>3 DEF CallbackConflict, CanInsert, LockInv, CallbackHasCall, Callback, Call
  <2>2. AnsweredMeansRecorded'
    BY <1>3, <2>1, ReplayedRecorded DEF CallbackConflict
  <2>3. ASSUME NEW t \in Requests PROVE NewReceipt(t)'
    BY <1>0, <1>3 DEF CallbackConflict, End, Goto, TypeOK, ReceiptInv, NewReceipt, Inserted
  <2> QED BY <2>2, <2>3 DEF Receipts
<1>4. CASE CallbackRefused(s)
  BY <1>0, <1>4, NoInsert DEF CallbackRefused, End, Goto, TypeOK
<1>5. ASSUME NEW yields \in BOOLEAN, CallbackApply(s, yields) PROVE Receipts'
  <2>1. /\ \A t \in Requests : t # s => ~Inserted(t, call[s].key)
        /\ receipts[call[s].key] = None
        /\ UNCHANGED <<receipts, acks, call>>
    BY <1>5 DEF CallbackApply, CanInsert
  <2>2. \A t \in Requests : t # s => pc'[t] = pc[t]
    BY <1>0, <1>5 DEF CallbackApply, Goto, TypeOK
  <2>3. AnsweredMeansRecorded'
    BY <2>1 DEF ReceiptInv, AnsweredMeansRecorded
  <2>4. NewReceipt(s)'
    BY <2>1, <2>2 DEF NewReceipt, Inserted
  <2>5. ASSUME NEW t \in Requests, t # s PROVE NewReceipt(t)'
    BY <2>1, <2>2, <2>5 DEF ReceiptInv, NewReceipt, Inserted
  <2> QED BY <2>3, <2>4, <2>5 DEF Receipts
<1>6. CASE CallbackResume(s)
  BY <1>0, <1>6, NoInsert DEF CallbackResume, Goto, TypeOK
<1>7. CASE CallbackCommit(s)
  <2> DEFINE k == call[s].key
             e == call[s].event
  <2>1. call[s] \in Call /\ k \in Keys /\ e \in Events /\ e # None
    BY <1>0, <1>7, ConfigAssumption, NoneAssumption
    DEF CallbackCommit, LockInv, CallbackHasCall, Callback, Call
  <2>2. receipts[k] = None /\ \A t \in Requests : t # s => ~Inserted(t, k)
    BY <1>7 DEF CallbackCommit, ReceiptInv, NewReceipt
  <2>3. receipts' = [receipts EXCEPT ![k] = e] /\ acks' = acks \cup {<<k, e>>}
    BY <1>7 DEF CallbackCommit
  <2>4. \A a \in acks : a[1] # k
    <3>1. \A a \in acks : a[2] \in Events /\ receipts[a[1]] = a[2]
      BY <1>0 DEF ReceiptInv, AnsweredMeansRecorded, TypeOK
    <3>2. None \notin Events
      BY ConfigAssumption, NoneAssumption
    <3> QED BY <2>2, <3>1, <3>2
  <2>5. AnsweredMeansRecorded'
    <3>1. \A a \in acks : receipts'[a[1]] = a[2]
      BY <1>0, <2>3, <2>4 DEF ReceiptInv, AnsweredMeansRecorded, TypeOK
    <3>2. receipts'[k] = e
      BY <1>0, <2>1, <2>3 DEF TypeOK
    <3> QED BY <2>3, <3>1, <3>2 DEF AnsweredMeansRecorded
  <2>6. \A t \in Requests : t # s => pc'[t] = pc[t] /\ call'[t] = call[t]
    BY <1>0, <1>7 DEF CallbackCommit, End, Goto, TypeOK
  <2>7. pc'[s] = "idle"
    BY <1>0, <1>7 DEF CallbackCommit, End, Goto, TypeOK
  <2>8. ASSUME NEW t \in Requests PROVE NewReceipt(t)'
    <3>1. CASE t = s
      BY <2>7, <3>1 DEF NewReceipt
    <3>2. CASE t # s /\ pc[t] \in {"cb_await", "cb_commit"}
      <4>1. call[t].key # k
        BY <2>2, <3>2 DEF Inserted
      <4>2. receipts'[call[t].key] = receipts[call[t].key]
        BY <1>0, <2>3, <4>1 DEF TypeOK
      <4>3. \A u \in Requests : Inserted(u, call[t].key)' => Inserted(u, call[t].key) \/ u = t
        BY <2>6, <2>7, <3>2 DEF Inserted
      <4> QED BY <2>6, <3>2, <4>2, <4>3 DEF ReceiptInv, NewReceipt, Inserted
    <3>3. CASE t # s /\ pc[t] \notin {"cb_await", "cb_commit"}
      BY <2>6, <3>3 DEF NewReceipt
    <3> QED BY <3>1, <3>2, <3>3
  <2> QED BY <2>5, <2>8 DEF Receipts
<1> QED BY <1>1, <1>2, <1>3, <1>4, <1>5, <1>6, <1>7

(* No other handler and no worker touches a receipt or an answer. *)
LEMMA OtherReceipts ==
    ASSUME ReceiptInv,
           \/ \E s \in Requests :
                 \/ \E valid \in BOOLEAN : PatchSpec(s, valid) \/ Revalidate(s, valid)
                 \/ \E user \in Users : Approve(s, user)
                 \/ CommitWrite(s)
                 \/ BuildLock(s) \/ BuildReuse(s) \/ BuildReject(s) \/ CloseSession(s)
                 \/ \E user \in Users : BuildEnqueue(s, user)
                 \/ BuildEnqueueFails(s) \/ BuildCommit(s)
           \/ \E w \in Workers : Build(w)
           \/ \E S \in SUBSET Sessions : Crash(S)
    PROVE  Receipts'
<1>0. TypeOK /\ Requests \subseteq Sessions /\ Workers \subseteq Sessions /\ Requests \cap Workers = {}
  BY SessionsAssumption DEF ReceiptInv, LockInv, Sessions
<1> DEFINE quiet == \A t \in Requests : \/ pc'[t] \notin {"cb_await", "cb_commit"}
                                        \/ pc[t] \in {"cb_await", "cb_commit"} /\ call'[t] = call[t]
<1>1. ASSUME NEW s \in Sessions, NEW label \in PC \ Callback, Goto(s, label), UNCHANGED call
      PROVE  quiet
  <2>1. pc' = [pc EXCEPT ![s] = label] /\ label \notin {"cb_await", "cb_commit"}
    BY <1>1 DEF Goto, Callback
  <2>2. pc'[s] = label /\ \A t \in Sessions \ {s} : pc'[t] = pc[t] /\ call'[t] = call[t]
    BY <1>0, <1>1, <2>1 DEF TypeOK
  <2>3. ASSUME NEW t \in Requests
        PROVE  \/ pc'[t] \notin {"cb_await", "cb_commit"}
               \/ pc[t] \in {"cb_await", "cb_commit"} /\ call'[t] = call[t]
    <3>1. CASE t = s
      BY <2>1, <2>2, <3>1
    <3>2. CASE t # s
      BY <1>0, <2>2, <3>2
    <3> QED BY <3>1, <3>2
  <2> QED BY <2>3
<1>2. ASSUME NEW s \in Sessions, End(s) PROVE quiet
  <2>1. pc' = [pc EXCEPT ![s] = "idle"] /\ call' = [call EXCEPT ![s] = None]
    BY <1>2 DEF End, Goto
  <2>2. pc'[s] = "idle" /\ \A t \in Sessions \ {s} : pc'[t] = pc[t] /\ call'[t] = call[t]
    BY <1>0, <2>1 DEF TypeOK
  <2>3. ASSUME NEW t \in Requests
        PROVE  \/ pc'[t] \notin {"cb_await", "cb_commit"}
               \/ pc[t] \in {"cb_await", "cb_commit"} /\ call'[t] = call[t]
    <3>1. CASE t = s
      BY <2>2, <3>1
    <3>2. CASE t # s
      BY <1>0, <2>2, <3>2
    <3> QED BY <3>1, <3>2
  <2> QED BY <2>3
<1>3. ASSUME NEW s \in Requests,
             \/ \E valid \in BOOLEAN : PatchSpec(s, valid) \/ Revalidate(s, valid)
             \/ \E user \in Users : Approve(s, user)
             \/ BuildLock(s) \/ BuildReject(s)
             \/ \E user \in Users : BuildEnqueue(s, user)
      PROVE  Receipts'
  <2>1. /\ \E label \in PC \ Callback : Goto(s, label)
        /\ UNCHANGED <<receipts, acks, call>>
    BY <1>3 DEF PatchSpec, Revalidate, Approve, BuildLock, BuildReject, BuildEnqueue, Begin, PC, Callback
  <2> QED BY <1>0, <1>1, <2>1, NoInsert
<1>4. ASSUME NEW s \in Requests,
             CommitWrite(s) \/ BuildReuse(s) \/ CloseSession(s) \/ BuildEnqueueFails(s) \/ BuildCommit(s)
      PROVE  Receipts'
  <2>1. End(s) /\ UNCHANGED <<receipts, acks>>
    BY <1>4 DEF CommitWrite, BuildReuse, CloseSession, BuildEnqueueFails, BuildCommit
  <2> QED BY <1>0, <1>2, <2>1, NoInsert
<1>5. ASSUME NEW w \in Workers, Build(w) PROVE Receipts'
  <2>1. UNCHANGED <<receipts, acks>>
    BY <1>5 DEF Build, WorkerStart, WorkerReject, WorkerUnprepared, WorkerMisconfigured,
                WorkerSucceeds, WorkerFails, WorkerCommit
  <2>2. quiet
    <3>1. CASE WorkerStart(w)
      BY <1>0, <1>1, <3>1 DEF WorkerStart, Begin, PC, Callback
    <3>2. CASE WorkerReject(w)
      BY <3>2 DEF WorkerReject
    <3>3. CASE ~WorkerStart(w) /\ ~WorkerReject(w)
      <4>1. End(w)
        BY <1>5, <3>3 DEF Build, WorkerUnprepared, WorkerMisconfigured, WorkerSucceeds,
                          WorkerFails, WorkerCommit
      <4> QED BY <1>0, <1>2, <4>1
    <3> QED BY <3>1, <3>2, <3>3
  <2> QED BY <2>1, <2>2, NoInsert
<1>6. ASSUME NEW S \in SUBSET Sessions, Crash(S) PROVE Receipts'
  BY <1>0, <1>6, NoInsert DEF Crash
<1> QED BY <1>3, <1>4, <1>5, <1>6

-----------------------------------------------------------------------------

(* At first no key has a receipt and nobody was answered. *)
LEMMA InitReceiptInv == Init => ReceiptInv
<1> SUFFICES ASSUME Init PROVE ReceiptInv
  OBVIOUS
<1>1. AnsweredMeansRecorded /\ \A s \in Requests : NewReceipt(s)
  BY DEF Init, AnsweredMeansRecorded, NewReceipt, Sessions
<1> QED BY <1>1, InitLockInv DEF ReceiptInv

(* Every step of the pipeline keeps the receipt invariant. *)
LEMMA ReceiptInvInductive == ReceiptInv /\ [Next]_vars => ReceiptInv'
<1> SUFFICES ASSUME ReceiptInv, [Next]_vars PROVE ReceiptInv'
  OBVIOUS
<1>1. LockInv'
  BY LockInvInductive DEF ReceiptInv
<1>2. ASSUME NEW s \in Requests, Request(s) \/ Proceed(s) PROVE Receipts'
  BY <1>2, CallbackReceipts, OtherReceipts DEF Request, Proceed
<1>3. ASSUME NEW w \in Workers, Build(w) PROVE Receipts'
  BY <1>3, OtherReceipts
<1>4. ASSUME NEW w \in Workers, WorkerCrash(w) PROVE Receipts'
  BY <1>4, OtherReceipts DEF WorkerCrash, Sessions
<1>5. ASSUME NEW p \in Procs, ApiCrash(p) PROVE Receipts'
  BY <1>5, OtherReceipts DEF ApiCrash, Sessions
<1>6. ASSUME UNCHANGED vars PROVE Receipts'
  BY <1>6 DEF vars, Receipts, ReceiptInv, AnsweredMeansRecorded, NewReceipt, Inserted
<1>7. Receipts'
  BY <1>2, <1>3, <1>4, <1>5, <1>6 DEF Next
<1> QED BY <1>1, <1>7 DEF ReceiptInv, Receipts

(* A callback that was answered 200 is on record with the payload it had.  *)
THEOREM AnswersAreRecorded == Spec => []AnsweredMeansRecorded
<1>1. ReceiptInv => AnsweredMeansRecorded
  BY DEF ReceiptInv
<1> QED BY InitReceiptInv, ReceiptInvInductive, <1>1, PTL DEF Spec

(* Only the transaction that commits the receipt of a key changes the row  *)
(* or a run on behalf of a callback with that key.                         *)
LEMMA EffectStep == ReceiptInv /\ [Next]_vars => [\A s \in Requests : EffectIsFirst(s)]_vars
<1> SUFFICES ASSUME ReceiptInv, Next, NEW s \in Requests,
                    pc[s] \in {"cb_read", "cb_commit"}, pc'[s] = "idle",
                    <<row, runs>>' # <<row, runs>>
             PROVE  receipts[call[s].key] = None /\ receipts'[call[s].key] = call[s].event
  BY DEF EffectIsFirst
<1>0. TypeOK /\ s \in Sessions /\ s \notin Workers /\ LockInv
  BY SessionsAssumption DEF ReceiptInv, LockInv, Sessions
<1>1. CASE CallbackCommit(s)
  <2>1. call[s].key \in Keys /\ receipts[call[s].key] = None
    BY <1>0, <1>1 DEF CallbackCommit, ReceiptInv, NewReceipt, LockInv, CallbackHasCall, Callback, Call
  <2> QED BY <1>0, <1>1, <2>1 DEF CallbackCommit, TypeOK
<1>2. ASSUME NEW t \in Requests, Request(t) PROVE FALSE
  BY <1>2 DEF Request, PatchSpec, Revalidate, Approve, BuildLock, CallbackReplay, CallbackRead
<1>3. ASSUME NEW t \in Requests, Proceed(t), ~CallbackCommit(s) PROVE FALSE
  <2>1. CASE t = s
    BY <1>3, <2>1 DEF Proceed, CommitWrite, BuildReuse, BuildReject, CloseSession, BuildEnqueue,
         BuildEnqueueFails, BuildCommit, CallbackConflict, CallbackRefused, CallbackApply, CallbackResume
  <2>2. CASE t # s
    <3>1. \E label \in PC : pc' = [pc EXCEPT ![t] = label]
      BY <1>3 DEF Proceed, CommitWrite, BuildReuse, BuildReject, CloseSession, BuildEnqueue,
           BuildEnqueueFails, BuildCommit, CallbackConflict, CallbackRefused, CallbackApply,
           CallbackResume, CallbackCommit, Goto, End, PC
    <3> QED BY <1>0, <2>2, <3>1 DEF TypeOK
  <2> QED BY <2>1, <2>2
<1>4. ASSUME NEW w \in Workers, Build(w) PROVE FALSE
  <2>1. \E label \in PC : pc' = [pc EXCEPT ![w] = label] \/ pc' = pc
    BY <1>4 DEF Build, WorkerStart, WorkerReject, WorkerUnprepared, WorkerMisconfigured,
                WorkerSucceeds, WorkerFails, WorkerCommit, Begin, Goto, End, PC
  <2>2. w # s
    BY <1>0, <1>4
  <2> QED BY <1>0, <2>1, <2>2 DEF TypeOK
<1>5. ASSUME NEW S, Crash(S) PROVE FALSE
  BY <1>5 DEF Crash
<1> QED BY <1>1, <1>2, <1>3, <1>4, <1>5 DEF Next, WorkerCrash, ApiCrash

(* A replayed or conflicting callback never has a second effect. *)
THEOREM CallbacksTakeEffectOnce == Spec => EffectsOncePerKey
BY InitReceiptInv, ReceiptInvInductive, EffectStep, PTL DEF Spec, EffectsOncePerKey

-----------------------------------------------------------------------------
(***************************************************************************)
(* Builds and their run ledger: however stale the rows are that handlers,  *)
(* callbacks and workers write back, no transaction but the one that holds *)
(* the row lock starts a build, and every job keeps exactly one run.       *)
(***************************************************************************)

-----------------------------------------------------------------------------
(* The inductive invariant: what each transaction has staged.              *)

(* The ledger names only jobs that were enqueued. *)
JobsKnown == \A i \in DOMAIN runs : runs[i].job <= jobs

(* A build request between its enqueue and its commit has a new job. *)
EnqueuedBuild(s) ==
    pc[s] = "build_enqueued" =>
        /\ loaded[s].status = "READY_FOR_BUILD"
        /\ local[s].status = "BUILDING" /\ local[s].job = jobs
        /\ RunsOf(jobs) = {}

(* Writers and callbacks neither start a build nor attach a job. *)
StagedChange(s) ==
    pc[s] \in {"writing", "cb_await", "cb_commit"} =>
        /\ local[s].job \in {0, loaded[s].job}
        /\ local[s].status = "BUILDING" => loaded[s].status = "BUILDING"

(* A worker that loaded a job id holds the run of that job. *)
HoldsRun(w) ==
    pc[w] = "building" =>
        /\ held[w].at = 0 => loaded[w].job = 0
        /\ CanStart(loaded[w].status)

Staged(s) == (s \in Requests => EnqueuedBuild(s) /\ StagedChange(s)) /\ (s \in Workers => HoldsRun(s))

LedgerInv == LockInv /\ JobsKnown /\ OneRunPerJob /\ \A s \in Sessions : Staged(s)

-----------------------------------------------------------------------------
(* The ledger.                                                             *)

(* Runs are never renumbered, and keep their job. *)
SameJobs == DOMAIN runs' = DOMAIN runs /\ \A i \in DOMAIN runs : runs'[i].job = runs[i].job

(* Writing the status of a run leaves every run with its job. *)
LEMMA RunWrittenKeepsJobs ==
    ASSUME TypeOK, NEW s \in Sessions, NEW st \in {"QUEUED", "SUCCEEDED", "FAILED"},
           runs' = RunWritten(s, st)
    PROVE  SameJobs
<1>1. CASE held[s].at \in DOMAIN runs /\ held[s].was # st
  <2>1. \A i \in DOMAIN runs : runs[i] \in Run
    BY LenProperties, ElementOfSeq DEF TypeOK
  <2>2. runs' = [runs EXCEPT ![held[s].at] = [runs[held[s].at] EXCEPT !.status = st]]
    BY <1>1 DEF RunWritten
  <2> QED BY <2>1, <2>2 DEF SameJobs, Run
<1>2. CASE ~(held[s].at \in DOMAIN runs /\ held[s].was # st)
  BY <1>2 DEF RunWritten, SameJobs
<1> QED BY <1>1, <1>2

(* Recording a run leaves the others where they are. *)
LEMMA RunAppended ==
    ASSUME TypeOK, NEW r \in Run, runs' = Append(runs, r)
    PROVE  \E n \in Nat : /\ n \notin DOMAIN runs
                          /\ DOMAIN runs' = DOMAIN runs \cup {n}
                          /\ runs'[n] = r
                          /\ \A i \in DOMAIN runs : runs'[i] = runs[i]
<1>1. Len(runs) \in Nat /\ DOMAIN runs = 1 .. Len(runs)
  BY LenProperties DEF TypeOK
<1>2. runs' \in Seq(Run) /\ Len(runs') = Len(runs) + 1
  BY AppendProperties DEF TypeOK
<1>3. DOMAIN runs' = 1 .. (Len(runs) + 1)
  BY <1>2, LenProperties
<1>4. runs'[Len(runs) + 1] = r /\ \A i \in 1 .. Len(runs) : runs'[i] = runs[i]
  BY AppendProperties DEF TypeOK
<1> QED BY <1>1, <1>3, <1>4

(* The job of the row has a run when the row had it before, or has none.   *)
LEMMA LedgerFrame ==
    ASSUME LedgerInv, NEW s \in Sessions, UNCHANGED jobs, SameJobs, row'.job \in {row.job, 0},
           \A t \in Sessions \ {s} : /\ pc'[t] = pc[t] /\ held'[t] = held[t]
                                     /\ loaded'[t] = loaded[t] /\ local'[t] = local[t],
           Staged(s)'
    PROVE  JobsKnown' /\ OneRunPerJob' /\ \A t \in Sessions : Staged(t)'
<1>1. \A j : RunsOf(j)' = RunsOf(j)
  BY DEF SameJobs, RunsOf
<1>2. JobsKnown'
  BY DEF LedgerInv, JobsKnown, SameJobs
<1>3. OneRunPerJob'
  BY <1>1 DEF LedgerInv, OneRunPerJob, SameJobs
<1>4. ASSUME NEW t \in Sessions PROVE Staged(t)'
  <2>1. CASE t = s
    BY <2>1
  <2>2. CASE t # s
    BY <1>1, <2>2 DEF LedgerInv, Staged, EnqueuedBuild, StagedChange, HoldsRun
  <2> QED BY <2>1, <2>2
<1> QED BY <1>2, <1>3, <1>4

(* A commit that staged no job of its own leaves the row's job or clears it. *)
LEMMA MergeJob ==
    ASSUME NEW cur \in Row, NEW was \in Row, NEW now \in Row, now.job \in {0, was.job}
    PROVE  Merge(cur, was, now).job \in {cur.job, 0}
BY DEF Merge, Written

-----------------------------------------------------------------------------
(* The steps.                                                              *)

Ledger == JobsKnown /\ OneRunPerJob /\ \A s \in Sessions : Staged(s)

(* A transaction that ends stages nothing. *)
LEMMA EndStaged ==
    ASSUME TypeOK, NEW s \in Sessions, End(s)
    PROVE  /\ Staged(s)'
           /\ \A t \in Sessions \ {s} : /\ pc'[t] = pc[t] /\ held'[t] = held[t]
                                        /\ loaded'[t] = loaded[t] /\ local'[t] = local[t]
BY DEF TypeOK, End, Goto, Staged, EnqueuedBuild, StagedChange, HoldsRun

(* A validation never leads to BUILDING. *)
LEMMA ValidationStartsNothing ==
    ASSUME NEW r \in Row, NEW valid \in BOOLEAN, Validated(r, valid).status = "BUILDING"
    PROVE  r.status = "BUILDING"
<1>1. Validated(r, valid).status = StatusAfterValidation(r.status, valid)
  BY DEF Validated, Row
<1> QED BY <1>1 DEF StatusAfterValidation

(* Spec updates, validations and approvals keep the run ledger exact. *)
LEMMA WriterLedger ==
    ASSUME LedgerInv, NEW s \in Requests,
           \/ \E valid \in BOOLEAN : PatchSpec(s, valid) \/ Revalidate(s, valid)
           \/ \E user \in Users : Approve(s, user)
           \/ CommitWrite(s)
    PROVE  Ledger'
<1>0. s \in Sessions /\ s \notin Workers /\ TypeOK /\ row \in Row
  BY SessionsAssumption DEF LedgerInv, LockInv, TypeOK, Sessions
<1>1. ASSUME NEW new \in Row, Begin(s, "writing", new), new.job = row.job,
             new.status = "BUILDING" => row.status = "BUILDING",
             UNCHANGED <<row, runs, jobs, held>>
      PROVE  Ledger'
  <2>1. Staged(s)'
    BY <1>0, <1>1 DEF Begin, Goto, TypeOK, Staged, EnqueuedBuild, StagedChange
  <2>2. \A t \in Sessions \ {s} : /\ pc'[t] = pc[t] /\ held'[t] = held[t]
                                 /\ loaded'[t] = loaded[t] /\ local'[t] = local[t]
    BY <1>0, <1>1 DEF Begin, Goto, TypeOK
  <2>3. SameJobs
    BY <1>1 DEF SameJobs
  <2> QED BY <1>0, <1>1, <2>1, <2>2, <2>3, LedgerFrame DEF Ledger
<1>2. ASSUME NEW valid \in BOOLEAN, PatchSpec(s, valid) PROVE Ledger'
  <2>1. Begin(s, "writing", Validated(NewVersion(row), valid)) /\ UNCHANGED <<row, runs, jobs, held>>
    BY <1>2 DEF PatchSpec
  <2>2. NewVersion(row) \in Row /\ NewVersion(row).status = row.status /\ NewVersion(row).job = row.job
    BY <1>0, <1>2, NewVersionType DEF PatchSpec
  <2> QED BY <1>1, <2>1, <2>2, ValidatedType, ValidationStartsNothing
<1>3. ASSUME NEW valid \in BOOLEAN, Revalidate(s, valid) PROVE Ledger'
  <2>1. Begin(s, "writing", Validated(row, valid)) /\ UNCHANGED <<row, runs, jobs, held>>
    BY <1>3 DEF Revalidate
  <2> QED BY <1>0, <1>1, <2>1, ValidatedType, ValidationStartsNothing
<1>4. ASSUME NEW user \in Users, Approve(s, user) PROVE Ledger'
  <2> DEFINE new == [row EXCEPT !.status = ActionResult["approve"], !.approver = user]
  <2>1. Begin(s, "writing", new) /\ UNCHANGED <<row, runs, jobs, held>>
    BY <1>4 DEF Approve
  <2>2. new \in Row /\ new.job = row.job /\ new.status # "BUILDING"
    BY <1>0 DEF Row, ActionResult, Status
  <2> QED BY <2>1, <2>2, <1>1
<1>5. CASE CommitWrite(s)
  <2>1. local[s].job \in {0, loaded[s].job}
    BY <1>0, <1>5 DEF CommitWrite, LedgerInv, Staged, StagedChange
  <2>2. row'.job \in {row.job, 0}
    BY <1>0, <1>5, <2>1, MergeJob DEF CommitWrite, TypeOK
  <2>3. End(s) /\ SameJobs /\ UNCHANGED jobs
    BY <1>5 DEF CommitWrite, SameJobs
  <2> QED BY <1>0, <2>2, <2>3, EndStaged, LedgerFrame DEF Ledger
<1> QED BY <1>2, <1>3, <1>4, <1>5

(* Deliveries of callbacks keep the run ledger exact. *)
LEMMA CallbackLedger ==
    ASSUME LedgerInv, NEW s \in Requests,
           \/ \E k \in Keys, e \in Events : CallbackReplay(s, k, e) \/ CallbackRead(s, k, e)
           \/ CallbackConflict(s) \/ CallbackRefused(s)
           \/ \E yields \in BOOLEAN : CallbackApply(s, yields)
           \/ CallbackResume(s) \/ CallbackCommit(s)
    PROVE  Ledger'
<1>0. s \in Sessions /\ s \notin Workers /\ LockInv /\ TypeOK /\ row \in Row
  BY SessionsAssumption DEF LedgerInv, LockInv, TypeOK, Sessions
<1> DEFINE others == \A t \in Sessions \ {s} : /\ pc'[t] = pc[t] /\ held'[t] = held[t]
                                             /\ loaded'[t] = loaded[t] /\ local'[t] = local[t]
<1>1. ASSUME NEW k \in Keys, NEW e \in Events, CallbackReplay(s, k, e) PROVE Ledger'
  BY <1>1 DEF CallbackReplay, Ledger, LedgerInv, JobsKnown, OneRunPerJob, RunsOf, Staged,
              EnqueuedBuild, StagedChange, HoldsRun
<1>2. ASSUME NEW k \in Keys, NEW e \in Events, CallbackRead(s, k, e) PROVE Ledger'
  <2>1. Staged(s)' /\ others
    BY <1>0, <1>2 DEF CallbackRead, Begin, Goto, TypeOK, Staged, EnqueuedBuild, StagedChange
  <2>2. UNCHANGED <<jobs, row>> /\ SameJobs
    BY <1>2 DEF CallbackRead, SameJobs
  <2> QED BY <1>0, <2>1, <2>2, LedgerFrame DEF Ledger
<1>3. CASE CallbackConflict(s) \/ CallbackRefused(s)
  <2>1. End(s) /\ UNCHANGED <<jobs, row>> /\ SameJobs
    BY <1>3 DEF CallbackConflict, CallbackRefused, SameJobs
  <2> QED BY <1>0, <2>1, EndStaged, LedgerFrame DEF Ledger
<1>4. ASSUME NEW yields \in BOOLEAN, CallbackApply(s, yields) PROVE Ledger'
  <2>1. call[s] \in Call /\ call[s].event \in Events
    BY <1>0, <1>4 DEF CallbackApply, CanInsert, LockInv, CallbackHasCall, Callback, Call
  <2>2. CallbackStatus[call[s].event] # "BUILDING"
    <3>1. call[s].event \in AllEvents
      BY <2>1, ConfigAssumption
    <3> QED BY <3>1 DEF CallbackStatus, AllEvents
  <2>3. local'[s] = Applied(loaded[s], call[s].event) /\ loaded[s] \in Row
    BY <1>0, <1>4 DEF CallbackApply, TypeOK
  <2>4. local'[s].job \in {0, loaded[s].job} /\ local'[s].status # "BUILDING"
    BY <2>2, <2>3 DEF Applied, Row
  <2>5. \E label \in {"cb_await", "cb_commit"} : pc' = [pc EXCEPT ![s] = label]
    BY <1>4 DEF CallbackApply, Goto
  <2>6. Staged(s)' /\ others
    BY <1>0, <1>4, <2>4, <2>5 DEF CallbackApply, TypeOK, Staged, EnqueuedBuild, StagedChange
  <2>7. UNCHANGED <<jobs, row>> /\ SameJobs
    BY <1>4 DEF CallbackApply, SameJobs
  <2> QED BY <1>0, <2>6, <2>7, LedgerFrame DEF Ledger
<1>5. CASE CallbackResume(s)
  <2>1. Staged(s)' /\ others
    BY <1>0, <1>5 DEF CallbackResume, Goto, TypeOK, LedgerInv, Staged, EnqueuedBuild, StagedChange
  <2>2. UNCHANGED <<jobs, row>> /\ SameJobs
    BY <1>5 DEF CallbackResume, SameJobs
  <2> QED BY <1>0, <2>1, <2>2, LedgerFrame DEF Ledger
<1>6. CASE CallbackCommit(s)
  <2>1. local[s].job \in {0, loaded[s].job}
    BY <1>0, <1>6 DEF CallbackCommit, LedgerInv, Staged, StagedChange
  <2>2. row'.job \in {row.job, 0}
    BY <1>0, <1>6, <2>1, MergeJob DEF CallbackCommit, TypeOK
  <2>3. SameJobs
    BY <1>0, <1>6, RunWrittenKeepsJobs DEF CallbackCommit, CallbackRunStatus
  <2>4. End(s) /\ UNCHANGED jobs
    BY <1>6 DEF CallbackCommit
  <2> QED BY <1>0, <2>2, <2>3, <2>4, EndStaged, LedgerFrame DEF Ledger
<1> QED BY <1>1, <1>2, <1>3, <1>4, <1>5, <1>6

(* start_build: the enqueue picks a job no run has, and the commit records *)
(* the run of that job; nothing comes in between because of the row lock.  *)
LEMMA BuildLedger ==
    ASSUME LedgerInv, NEW s \in Requests,
           \/ BuildLock(s) \/ BuildReuse(s) \/ BuildReject(s) \/ CloseSession(s)
           \/ \E user \in Users : BuildEnqueue(s, user)
           \/ BuildEnqueueFails(s) \/ BuildCommit(s)
    PROVE  Ledger'
<1>0. /\ s \in Sessions /\ s \notin Workers /\ LockInv /\ TypeOK /\ row \in Row
      /\ Workers \subseteq Sessions /\ Requests \subseteq Sessions
  BY SessionsAssumption DEF LedgerInv, LockInv, TypeOK, Sessions
<1> DEFINE others == \A t \in Sessions \ {s} : /\ pc'[t] = pc[t] /\ held'[t] = held[t]
                                             /\ loaded'[t] = loaded[t] /\ local'[t] = local[t]
<1>1. CASE BuildLock(s) \/ BuildReject(s)
  <2>1. \E label \in {"build_locked", "closing"} : pc' = [pc EXCEPT ![s] = label]
    BY <1>1 DEF BuildLock, BuildReject, Begin, Goto
  <2>2. Staged(s)'
    BY <1>0, <2>1 DEF TypeOK, Staged, EnqueuedBuild, StagedChange
  <2>3. others
    BY <1>0, <1>1 DEF BuildLock, BuildReject, Begin, Goto, TypeOK
  <2>4. UNCHANGED <<jobs, row>> /\ SameJobs
    BY <1>1 DEF BuildLock, BuildReject, SameJobs
  <2> QED BY <1>0, <2>2, <2>3, <2>4, LedgerFrame DEF Ledger
<1>2. CASE BuildReuse(s) \/ CloseSession(s) \/ BuildEnqueueFails(s)
  <2>1. End(s) /\ UNCHANGED <<jobs, row>> /\ SameJobs
    BY <1>2 DEF BuildReuse, CloseSession, BuildEnqueueFails, SameJobs
  <2> QED BY <1>0, <2>1, EndStaged, LedgerFrame DEF Ledger
<1>3. ASSUME NEW user \in Users, BuildEnqueue(s, user) PROVE Ledger'
  <2>1. /\ pc[s] = "build_locked" /\ loaded[s].status = "READY_FOR_BUILD"
        /\ jobs' = jobs + 1 /\ UNCHANGED <<row, runs, loaded, held>>
        /\ pc' = [pc EXCEPT ![s] = "build_enqueued"]
        /\ local' = [local EXCEPT ![s] = Started(loaded[s], jobs + 1, user)]
    BY <1>3 DEF BuildEnqueue, Goto
  <2>2. jobs \in Nat /\ \A i \in DOMAIN runs : runs[i].job \in Nat
    <3>1. \A i \in DOMAIN runs : runs[i] \in Run
      BY <1>0, LenProperties, ElementOfSeq DEF TypeOK
    <3> QED BY <1>0, <3>1, BoundsAssumption DEF TypeOK, Job, Run
  <2>3. \A i \in DOMAIN runs : runs[i].job <= jobs' /\ runs[i].job # jobs'
    BY <2>1, <2>2 DEF LedgerInv, JobsKnown
  <2>4. JobsKnown' /\ RunsOf(jobs)' = {} /\ OneRunPerJob'
    BY <2>1, <2>3 DEF LedgerInv, JobsKnown, OneRunPerJob, RunsOf
  <2>5. Staged(s)'
    <3>1. local'[s].status = "BUILDING" /\ local'[s].job = jobs'
      BY <1>0, <2>1 DEF TypeOK, Started, ActionResult, Row
    <3>2. pc'[s] = "build_enqueued" /\ loaded'[s].status = "READY_FOR_BUILD"
      BY <1>0, <2>1 DEF TypeOK
    <3>3. EnqueuedBuild(s)'
      BY <2>4, <3>1, <3>2 DEF EnqueuedBuild, RunsOf
    <3> QED BY <1>0, <3>2, <3>3 DEF Staged, StagedChange
  <2>6. ASSUME NEW t \in Sessions, t # s PROVE Staged(t)'
    <3>1. pc'[t] = pc[t] /\ loaded'[t] = loaded[t] /\ local'[t] = local[t] /\ held'[t] = held[t]
      BY <1>0, <2>1, <2>6 DEF TypeOK
    <3>2. t \in Requests => pc[t] # "build_enqueued"
      BY <1>0, <2>1, <2>6 DEF LockInv, LockedRowIsCurrent
    <3> QED BY <3>1, <3>2 DEF LedgerInv, Staged, EnqueuedBuild, StagedChange, HoldsRun
  <2> QED BY <2>4, <2>5, <2>6 DEF Ledger
<1>4. CASE BuildCommit(s)
  <2>1. /\ lock = s /\ loaded[s] = row /\ local[s].job = jobs /\ RunsOf(jobs) = {}
    BY <1>0, <1>4 DEF BuildCommit, LockInv, LockedRowIsCurrent, LedgerInv, Staged, EnqueuedBuild
  <2> DEFINE r == [job |-> jobs, status |-> "QUEUED"]
  <2>2. r \in Run /\ runs' = Append(runs, r) /\ End(s) /\ UNCHANGED jobs
    BY <1>0, <1>4, <2>1 DEF BuildCommit, TypeOK, Run
  <2>3. PICK n \in Nat : /\ n \notin DOMAIN runs /\ DOMAIN runs' = DOMAIN runs \cup {n}
                         /\ runs'[n] = r /\ \A i \in DOMAIN runs : runs'[i] = runs[i]
    BY <1>0, <2>2, RunAppended
  <2>4. JobsKnown'
    BY <1>0, <2>2, <2>3 DEF LedgerInv, JobsKnown, TypeOK, Job
  <2>5. \A i \in DOMAIN runs : runs[i].job # jobs
    BY <2>1 DEF RunsOf
  <2>6. row'.job = jobs
    <3>1. row'.job = Written(row.job, row.job, jobs)
      BY <1>4, <2>1 DEF BuildCommit, Merge
    <3> QED BY <3>1 DEF Written
  <2>7. OneRunPerJob'
    <3>1. n \in RunsOf(jobs)'
      BY <2>2, <2>3 DEF RunsOf
    <3> QED BY <2>3, <2>5, <2>6, <3>1, <2>2 DEF LedgerInv, OneRunPerJob, RunsOf
  <2>8. ASSUME NEW t \in Sessions, t # s PROVE Staged(t)'
    <3>1. pc'[t] = pc[t] /\ loaded'[t] = loaded[t] /\ local'[t] = local[t] /\ held'[t] = held[t]
      BY <1>0, <2>2, <2>8, EndStaged
    <3>2. t \in Requests => pc[t] # "build_enqueued"
      BY <1>0, <2>1, <2>8 DEF LockInv, LockedRowIsCurrent
    <3> QED BY <3>1, <3>2 DEF LedgerInv, Staged, EnqueuedBuild, StagedChange, HoldsRun
  <2> QED BY <1>0, <2>2, <2>4, <2>7, <2>8, EndStaged DEF Ledger
<1> QED BY <1>1, <1>2, <1>3, <1>4

(* A worker adds a run of its own only for a row without a job. *)
LEMMA WorkerLedger ==
    ASSUME LedgerInv, NEW w \in Workers, Build(w)
    PROVE  Ledger'
<1>0. /\ w \in Sessions /\ w \notin Requests /\ LockInv /\ TypeOK /\ row \in Row
  BY SessionsAssumption DEF LedgerInv, LockInv, TypeOK, Sessions
<1>1. CASE WorkerStart(w)
  <2>1. /\ pc' = [pc EXCEPT ![w] = "building"] /\ loaded' = [loaded EXCEPT ![w] = row]
        /\ held' = [held EXCEPT ![w] = RunForJob(row.job)]
        /\ CanStart(row.status)
        /\ \E new : local' = [local EXCEPT ![w] = new]
    BY <1>1 DEF WorkerStart, Begin, Goto
  <2>2. row.job = 0 \/ RunForJob(row.job).at # 0
    <3>1. CASE row.job # 0
      <4>1. RunsOf(row.job) # {} /\ row.job \in Job
        BY <1>0, <3>1 DEF LedgerInv, OneRunPerJob, Row
      <4> DEFINE newest == CHOOSE i \in RunsOf(row.job) : \A n \in RunsOf(row.job) : n <= i
      <4>2. newest \in RunsOf(row.job)
        BY <1>0, <4>1, NewestRun
      <4>3. \A i \in RunsOf(row.job) : i # 0
        BY <1>0, LenProperties DEF RunsOf, TypeOK
      <4>4. RunForJob(row.job) = [at |-> newest, was |-> runs[newest].status]
        BY <3>1, <4>1 DEF RunForJob
      <4> HIDE DEF newest
      <4> QED BY <4>2, <4>3, <4>4
    <3> QED BY <3>1
  <2>3. Staged(w)'
    BY <1>0, <2>1, <2>2 DEF TypeOK, Staged, HoldsRun
  <2>4. \A t \in Sessions \ {w} : /\ pc'[t] = pc[t] /\ held'[t] = held[t]
                                 /\ loaded'[t] = loaded[t] /\ local'[t] = local[t]
    BY <1>0, <2>1 DEF TypeOK
  <2>5. UNCHANGED <<jobs, row>> /\ SameJobs
    BY <1>1 DEF WorkerStart, SameJobs
  <2> QED BY <1>0, <2>3, <2>4, <2>5, LedgerFrame DEF Ledger
<1>2. CASE WorkerReject(w)
  BY <1>2 DEF WorkerReject, Ledger, LedgerInv, JobsKnown, OneRunPerJob, RunsOf, Staged,
              EnqueuedBuild, StagedChange, HoldsRun
<1>3. CASE WorkerUnprepared(w)
  <2>1. End(w) /\ UNCHANGED <<jobs, row>> /\ SameJobs
    BY <1>3 DEF WorkerUnprepared, SameJobs
  <2> QED BY <1>0, <2>1, EndStaged, LedgerFrame DEF Ledger
<1>4. ASSUME NEW st \in Status, NEW result \in {"SUCCEEDED", "FAILED"}, WorkerCommit(w, st, result)
      PROVE  Ledger'
  <2> DEFINE new == [local[w] EXCEPT !.status = st, !.job = 0]
  <2>1. End(w) /\ UNCHANGED jobs /\ row' = Merge(row, loaded[w], new)
    BY <1>4 DEF WorkerCommit
  <2>2. new \in Row /\ new.job = 0
    <3>1. local[w] \in Row /\ 0 \in Job
      BY <1>0, BoundsAssumption DEF TypeOK, Job
    <3> QED BY <3>1 DEF Row
  <2>3. row'.job \in {row.job, 0}
    <3>1. loaded[w] \in Row
      BY <1>0 DEF TypeOK
    <3> HIDE DEF new
    <3> QED BY <1>0, <2>1, <2>2, <3>1, MergeJob
  <2>4. CASE held[w].at # 0
    <3>1. runs' = RunWritten(w, result)
      BY <1>4, <2>4 DEF WorkerCommit
    <3>2. SameJobs
      BY <1>0, <3>1, RunWrittenKeepsJobs
    <3> QED BY <1>0, <2>1, <2>3, <3>2, EndStaged, LedgerFrame DEF Ledger
  <2>5. CASE held[w].at = 0
    <3> DEFINE r == [job |-> 0, status |-> result]
    <3>1. loaded[w].job = 0
      BY <1>0, <1>4, <2>5 DEF WorkerCommit, LedgerInv, Staged, HoldsRun
    <3>2. r \in Run /\ runs' = Append(runs, r)
      BY <1>4, <2>5, <3>1, BoundsAssumption DEF WorkerCommit, Run, Job
    <3>3. PICK n \in Nat : /\ n \notin DOMAIN runs /\ DOMAIN runs' = DOMAIN runs \cup {n}
                           /\ runs'[n] = r /\ \A i \in DOMAIN runs : runs'[i] = runs[i]
      BY <1>0, <3>2, RunAppended
    <3>4. \A j : j # 0 => RunsOf(j)' = RunsOf(j)
      BY <3>3 DEF RunsOf
    <3>5. jobs \in Nat
      BY <1>0, BoundsAssumption DEF TypeOK, Job
    <3>6. JobsKnown'
      BY <2>1, <3>3, <3>5 DEF LedgerInv, JobsKnown
    <3>7. OneRunPerJob'
      BY <2>3, <3>3, <3>4 DEF LedgerInv, OneRunPerJob
    <3>8. ASSUME NEW t \in Sessions, t # w PROVE Staged(t)'
      <4>1. pc'[t] = pc[t] /\ loaded'[t] = loaded[t] /\ local'[t] = local[t] /\ held'[t] = held[t]
        BY <1>0, <2>1, <3>8, EndStaged
      <4>2. t \in Requests => pc[t] # "build_enqueued"
        BY <1>0, <1>4, <3>8, SessionsAssumption DEF WorkerCommit, CanWrite, LockInv, LockedRowIsCurrent
      <4> QED BY <4>1, <4>2 DEF LedgerInv, Staged, EnqueuedBuild, StagedChange, HoldsRun
    <3> QED BY <1>0, <2>1, <3>6, <3>7, <3>8, EndStaged DEF Ledger
  <2> QED BY <2>4, <2>5
<1>5. CASE WorkerMisconfigured(w) \/ WorkerSucceeds(w) \/ WorkerFails(w)
  <2>1. \E st \in Status, result \in {"SUCCEEDED", "FAILED"} : WorkerCommit(w, st, result)
    BY <1>5 DEF WorkerMisconfigured, WorkerSucceeds, WorkerFails, Status, ActionResult
  <2> QED BY <2>1, <1>4
<1> QED BY <1>1, <1>2, <1>3, <1>5 DEF Build

(* A crash of any set of sessions leaves the ledger as it was. *)
LEMMA CrashLedger ==
    ASSUME LedgerInv, NEW S \in SUBSET Sessions, Crash(S)
    PROVE  Ledger'
<1>1. UNCHANGED <<row, runs, jobs>>
  BY DEF Crash
<1>2. JobsKnown' /\ OneRunPerJob'
  BY <1>1 DEF LedgerInv, JobsKnown, OneRunPerJob, RunsOf
<1>3. ASSUME NEW s \in Sessions PROVE Staged(s)'
  <2>1. CASE s \in S
    BY <2>1 DEF Crash, Staged, EnqueuedBuild, StagedChange, HoldsRun
  <2>2. CASE s \notin S
    <3>1. pc'[s] = pc[s] /\ loaded'[s] = loaded[s] /\ local'[s] = local[s] /\ held'[s] = held[s]
      BY <2>2 DEF Crash
    <3> QED BY <1>1, <3>1 DEF LedgerInv, Staged, EnqueuedBuild, StagedChange, HoldsRun, RunsOf
  <2> QED BY <2>1, <2>2
<1> QED BY <1>2, <1>3 DEF Ledger

-----------------------------------------------------------------------------

(* A new feature has no job and no runs. *)
LEMMA InitLedgerInv == Init => LedgerInv
<1> SUFFICES ASSUME Init PROVE LedgerInv
  OBVIOUS
<1>1. runs = << >> /\ row.job = 0
  BY DEF Init, CreatedRow
<1>2. JobsKnown /\ OneRunPerJob
  BY <1>1 DEF JobsKnown, OneRunPerJob
<1>3. \A s \in Sessions : Staged(s)
  BY DEF Init, Staged, EnqueuedBuild, StagedChange, HoldsRun
<1> QED BY <1>2, <1>3, InitLockInv DEF LedgerInv

(* Every step of the pipeline keeps the ledger invariant. *)
LEMMA LedgerInvInductive == LedgerInv /\ [Next]_vars => LedgerInv'
<1> SUFFICES ASSUME LedgerInv, [Next]_vars PROVE LedgerInv'
  OBVIOUS
<1>1. LockInv'
  BY LockInvInductive DEF LedgerInv
<1>2. ASSUME NEW s \in Requests, Request(s) \/ Proceed(s) PROVE Ledger'
  BY <1>2, WriterLedger, BuildLedger, CallbackLedger DEF Request, Proceed
<1>3. ASSUME NEW w \in Workers, Build(w) PROVE Ledger'
  BY <1>3, WorkerLedger
<1>4. ASSUME NEW w \in Workers, WorkerCrash(w) PROVE Ledger'
  BY <1>4, CrashLedger DEF WorkerCrash, Sessions
<1>5. ASSUME NEW p \in Procs, ApiCrash(p) PROVE Ledger'
  BY <1>5, CrashLedger DEF ApiCrash, Sessions
<1>6. ASSUME UNCHANGED vars PROVE Ledger'
  BY <1>6 DEF vars, Ledger, LedgerInv, JobsKnown, OneRunPerJob, RunsOf, Staged,
              EnqueuedBuild, StagedChange, HoldsRun
<1>7. Ledger'
  BY <1>2, <1>3, <1>4, <1>5, <1>6 DEF Next
<1> QED BY <1>1, <1>7 DEF Ledger, LedgerInv

(* Every job the row ever names has exactly one run, for any number of     *)
(* build requests, workers and stale writers.                              *)
THEOREM LedgerIsExact == Spec => []OneRunPerJob
<1>1. LedgerInv => OneRunPerJob
  BY DEF LedgerInv
<1> QED BY InitLedgerInv, LedgerInvInductive, <1>1, PTL DEF Spec

-----------------------------------------------------------------------------
(* Who may write BUILDING.                                                 *)

(* A merge that writes BUILDING has staged it over another status. *)
LEMMA MergeStatus ==
    ASSUME NEW cur \in Row, NEW was \in Row, NEW now \in Row,
           Merge(cur, was, now).status = "BUILDING", cur.status # "BUILDING"
    PROVE  now.status = "BUILDING" /\ was.status # "BUILDING"
BY DEF Merge, Written

(* A worker never commits BUILDING. *)
LEMMA WorkerOutcome ==
    ASSUME NEW w \in Workers, WorkerMisconfigured(w) \/ WorkerSucceeds(w) \/ WorkerFails(w)
    PROVE  \E st \in {"FAILED_BUILD", "PR_OPENED", "PREVIEW_READY"}, result \in {"SUCCEEDED", "FAILED"} :
               WorkerCommit(w, st, result)
<1>1. CASE WorkerFails(w)
  <2>1. CanPerform("BUILDING", "fail_build") /\ ActionResult["fail_build"] = "FAILED_BUILD"
    BY DEF CanPerform, ActionResult, Allowed, Successors
  <2>2. PICK reached \in {"BUILDING", "PR_OPENED", "PREVIEW_READY"} :
            WorkerCommit(w, IF CanPerform(reached, "fail_build") THEN ActionResult["fail_build"]
                                                                  ELSE reached, "FAILED")
    BY <1>1 DEF WorkerFails
  <2> QED BY <2>1, <2>2
<1>2. CASE WorkerMisconfigured(w) \/ WorkerSucceeds(w)
  BY <1>2 DEF WorkerMisconfigured, WorkerSucceeds, ActionResult
<1> QED BY <1>1, <1>2

(* A commit that makes the row say BUILDING is the commit of start_build. *)
LEMMA OnlyBuildCommitStarts ==
    ASSUME LedgerInv, Next, row'.status = "BUILDING", row.status # "BUILDING"
    PROVE  \E s \in Requests : BuildCommit(s)
<1>0. /\ LockInv /\ TypeOK /\ row \in Row /\ row' # row
      /\ \A s \in Sessions : loaded[s] \in Row /\ local[s] \in Row
      /\ Workers \subseteq Sessions /\ Requests \subseteq Sessions
  BY DEF LedgerInv, LockInv, TypeOK, Sessions
<1>2. ASSUME NEW s \in Requests, CommitWrite(s) \/ CallbackCommit(s) PROVE FALSE
  <2>1. s \in Sessions /\ row' = Merge(row, loaded[s], local[s])
        /\ pc[s] \in {"writing", "cb_commit"}
    BY <1>0, <1>2 DEF CommitWrite, CallbackCommit
  <2>2. local[s].status = "BUILDING" => loaded[s].status = "BUILDING"
    BY <2>1, <1>2 DEF LedgerInv, Staged, StagedChange
  <2> QED BY <1>0, <2>1, <2>2, MergeStatus
<1>3. ASSUME NEW w \in Workers, WorkerMisconfigured(w) \/ WorkerSucceeds(w) \/ WorkerFails(w)
      PROVE FALSE
  <2>1. PICK st \in {"FAILED_BUILD", "PR_OPENED", "PREVIEW_READY"}, result \in {"SUCCEEDED", "FAILED"} :
            WorkerCommit(w, st, result)
    BY <1>3, WorkerOutcome
  <2> DEFINE new == [local[w] EXCEPT !.status = st, !.job = 0]
  <2>2. new \in Row /\ new.status # "BUILDING" /\ loaded[w] \in Row
    <3>1. local[w] \in Row /\ loaded[w] \in Row /\ 0 \in Job
      BY <1>0, BoundsAssumption DEF Job
    <3> QED BY <2>1, <3>1 DEF Row, Status
  <2>3. row' = Merge(row, loaded[w], new)
    BY <2>1 DEF WorkerCommit
  <2> HIDE DEF new
  <2> QED BY <1>0, <2>2, <2>3, MergeStatus
<1>4. ASSUME NEW S, Crash(S) PROVE FALSE
  BY <1>0, <1>4 DEF Crash
<1>5. ASSUME NEW s \in Requests, Request(s) PROVE FALSE
  BY <1>0, <1>5 DEF Request, PatchSpec, Revalidate, Approve, BuildLock, CallbackReplay, CallbackRead
<1>6. ASSUME NEW s \in Requests, Proceed(s) PROVE BuildCommit(s)
  <2>1. CASE CommitWrite(s) \/ CallbackCommit(s) \/ BuildCommit(s)
    BY <2>1, <1>2
  <2>2. CASE ~(CommitWrite(s) \/ CallbackCommit(s) \/ BuildCommit(s))
    BY <1>0, <1>6, <2>2 DEF Proceed, BuildReuse, BuildReject, CloseSession, BuildEnqueue,
         BuildEnqueueFails, CallbackConflict, CallbackRefused, CallbackApply, CallbackResume
  <2> QED BY <2>1, <2>2
<1>7. ASSUME NEW w \in Workers, Build(w) PROVE FALSE
  BY <1>0, <1>3, <1>7 DEF Build, WorkerStart, WorkerReject, WorkerUnprepared
<1> QED BY <1>4, <1>5, <1>6, <1>7 DEF Next, WorkerCrash, ApiCrash

(* That commit has its job and its run from start_build. *)
LEMMA StartsOnceStep == LedgerInv /\ [Next]_vars => [StartsOnce]_vars
<1> SUFFICES ASSUME LedgerInv, Next, row'.status = "BUILDING", row.status # "BUILDING"
             PROVE  StartsOnce
  BY DEF StartsOnce
<1>0. LockInv /\ TypeOK /\ Requests \subseteq Sessions
  BY DEF LedgerInv, LockInv, Sessions
<1>1. ASSUME NEW s \in Requests, BuildCommit(s) PROVE StartsOnce
  <2>1. /\ loaded[s] = row /\ local[s].job = jobs /\ RunsOf(jobs) = {}
        /\ row.status = "READY_FOR_BUILD"
    BY <1>0, <1>1 DEF BuildCommit, LockInv, LockedRowIsCurrent, LedgerInv, Staged, EnqueuedBuild
  <2>2. row'.job = jobs
    BY <1>1, <2>1 DEF BuildCommit, Merge, Written
  <2> DEFINE r == [job |-> jobs, status |-> "QUEUED"]
  <2>3. r \in Run /\ runs' = Append(runs, r)
    BY <1>0, <1>1, <2>1 DEF BuildCommit, TypeOK, Run
  <2>4. \E i \in DOMAIN runs' : runs'[i] = r
    BY <1>0, <2>3, RunAppended
  <2> QED BY <2>1, <2>2, <2>4 DEF StartsOnce
<1> QED BY <1>1, OnlyBuildCommitStarts

(* A build starts only from READY_FOR_BUILD, with a job of its own and the *)
(* run of that job, whatever stale rows other transactions write back.     *)
THEOREM BuildsStartOnce == Spec => BuildStartsOnce
BY InitLedgerInv, LedgerInvInductive, StartsOnceStep, PTL DEF Spec, BuildStartsOnce

-----------------------------------------------------------------------------
(* Who moves a BUILDING feature on.                                        *)

Builder      == queued > 0 \/ \E w \in Workers : pc[w] = "building"
NeedsBuilder == row.status = "BUILDING" \/ \E s \in Requests : pc[s] = "build_enqueued"

(* The message is in the queue before the row says BUILDING, so a worker   *)
(* may be done with it before the row does; the row lock makes it wait.    *)
BuilderInv ==
    LedgerInv /\ (Failures \cap {"workspace", "crash"} = {} /\ NeedsBuilder => Builder)

(* A worker starts from READY_FOR_BUILD or BUILDING only. *)
LEMMA StartStatuses ==
    ASSUME NEW st \in Status
    PROVE  CanStart(st) <=> st \in {"READY_FOR_BUILD", "BUILDING"}
BY DEF CanStart, CanPerform, Allowed, Successors, ActionResult, Status

(* Whatever a request does, the messages and the workers stay. *)
LEMMA RequestKeepsBuilder ==
    ASSUME LockInv, NEW s \in Requests, Request(s) \/ Proceed(s), Builder
    PROVE  Builder'
<1>0. TypeOK /\ s \in Sessions /\ s \notin Workers /\ Workers \subseteq Sessions /\ queued \in Nat
  BY SessionsAssumption DEF LockInv, TypeOK, Sessions
<1>1. queued' = queued \/ queued' = queued + 1
  BY DEF Request, PatchSpec, Revalidate, Approve, BuildLock, CallbackReplay, CallbackRead,
         Proceed, CommitWrite, BuildReuse, BuildReject, CloseSession, BuildEnqueue,
         BuildEnqueueFails, BuildCommit, CallbackConflict, CallbackRefused, CallbackApply,
         CallbackResume, CallbackCommit
<1>2. \A w \in Workers : pc'[w] = pc[w]
  <2>1. pc' = pc \/ \E label \in PC : pc' = [pc EXCEPT ![s] = label]
    BY DEF Request, PatchSpec, Revalidate, Approve, BuildLock, CallbackReplay, CallbackRead,
           Proceed, CommitWrite, BuildReuse, BuildReject, CloseSession, BuildEnqueue,
           BuildEnqueueFails, BuildCommit, CallbackConflict, CallbackRefused, CallbackApply,
           CallbackResume, CallbackCommit, Begin, Goto, End, PC
  <2> QED BY <1>0, <2>1 DEF TypeOK
<1>3. CASE queued > 0
  BY <1>0, <1>1, <1>3 DEF Builder
<1>4. CASE \E w \in Workers : pc[w] = "building"
  BY <1>2, <1>4 DEF Builder
<1> QED BY <1>3, <1>4 DEF Builder

(* Every step leaves a BUILDING feature with somebody to move it on. *)
LEMMA BuilderStep == BuilderInv /\ [Next]_vars => BuilderInv'
<1> SUFFICES ASSUME BuilderInv, Next, Failures \cap {"workspace", "crash"} = {}, NeedsBuilder'
             PROVE  Builder'
  <2>1. BuilderInv /\ [Next]_vars => LedgerInv'
    BY LedgerInvInductive DEF BuilderInv
  <2>2. ASSUME BuilderInv, UNCHANGED vars PROVE BuilderInv'
    BY <2>1, <2>2 DEF vars, BuilderInv, NeedsBuilder, Builder
  <2> QED BY <2>1, <2>2 DEF BuilderInv
<1>0. /\ LedgerInv /\ LockInv /\ TypeOK /\ row \in Row /\ queued \in Nat
      /\ Workers \subseteq Sessions /\ Requests \subseteq Sessions /\ Requests \cap Workers = {}
      /\ NeedsBuilder => Builder
  BY SessionsAssumption DEF BuilderInv, LedgerInv, LockInv, TypeOK, Sessions
<1>1. row.status # "BUILDING" /\ row'.status = "BUILDING" => \E s \in Requests : BuildCommit(s)
  BY <1>0, OnlyBuildCommitStarts
<1>2. ASSUME NEW s \in Requests, Request(s) \/ Proceed(s) PROVE Builder'
  <2>1. CASE NeedsBuilder
    BY <1>0, <1>2, <2>1, RequestKeepsBuilder
  <2>2. CASE ~NeedsBuilder
    <3>1. row.status # "BUILDING" /\ \A t \in Requests : pc[t] # "build_enqueued"
      BY <2>2 DEF NeedsBuilder
    <3>2. row'.status # "BUILDING"
      BY <1>1, <3>1 DEF BuildCommit
    <3>3. PICK t \in Requests : pc'[t] = "build_enqueued"
      BY <3>2 DEF NeedsBuilder
    <3>4. pc[t] # "build_enqueued" /\ pc \in [Sessions -> PC] /\ t \in Sessions
      BY <1>0, <3>1 DEF TypeOK
    <3>5. ASSUME Request(s) PROVE FALSE
      BY <3>3, <3>4, <3>5 DEF Request, PatchSpec, Revalidate, Approve, BuildLock,
         CallbackReplay, CallbackRead, Begin, Goto
    <3>6. ASSUME CommitWrite(s) \/ BuildReuse(s) \/ BuildReject(s) \/ CloseSession(s)
                 \/ BuildEnqueueFails(s) \/ BuildCommit(s) PROVE FALSE
      BY <3>3, <3>4, <3>6 DEF CommitWrite, BuildReuse, BuildReject, CloseSession,
         BuildEnqueueFails, BuildCommit, Begin, Goto, End
    <3>7. ASSUME CallbackConflict(s) \/ CallbackRefused(s) \/ (\E yields \in BOOLEAN : CallbackApply(s, yields))
                 \/ CallbackResume(s) \/ CallbackCommit(s) PROVE FALSE
      BY <3>3, <3>4, <3>7 DEF CallbackConflict, CallbackRefused, CallbackApply,
         CallbackResume, CallbackCommit, Begin, Goto, End
    <3>8. \E user \in Users : BuildEnqueue(s, user)
      BY <1>2, <3>5, <3>6, <3>7 DEF Proceed
    <3> QED BY <1>0, <3>8 DEF BuildEnqueue, Builder
  <2> QED BY <2>1, <2>2
<1>3. ASSUME NEW w \in Workers, Build(w) PROVE Builder'
  <2>1. CASE WorkerStart(w)
    BY <1>0, <2>1 DEF WorkerStart, Begin, Goto, TypeOK, Builder
  <2>2. CASE WorkerReject(w)
    <3>1. row.status \in {"READY_FOR_BUILD", "BUILDING"}
      BY <1>0, <2>2 DEF WorkerReject, NeedsBuilder, LockInv, LockedRowIsCurrent, LedgerInv,
                        Staged, EnqueuedBuild
    <3> QED BY <1>0, <2>2, <3>1, StartStatuses DEF WorkerReject, Row
  <2>3. CASE WorkerUnprepared(w)
    BY <2>3 DEF WorkerUnprepared
  <2>4. CASE WorkerMisconfigured(w) \/ WorkerSucceeds(w) \/ WorkerFails(w)
    <3>1. PICK st \in {"FAILED_BUILD", "PR_OPENED", "PREVIEW_READY"},
               result \in {"SUCCEEDED", "FAILED"} : WorkerCommit(w, st, result)
      BY <2>4, WorkerOutcome
    <3>2. loaded[w].status \in {"READY_FOR_BUILD", "BUILDING"}
      BY <1>0, <3>1, StartStatuses DEF WorkerCommit, LedgerInv, Staged, HoldsRun, TypeOK, Row
    <3> DEFINE new == [local[w] EXCEPT !.status = st, !.job = 0]
    <3>3. row' = Merge(row, loaded[w], new) /\ new.status = st
      BY <1>0, <3>1 DEF WorkerCommit, TypeOK, Row
    <3>4. row'.status = st
      <4> HIDE DEF new
      <4> QED BY <3>2, <3>3 DEF Merge, Written
    <3>5. \A s \in Requests : pc'[s] # "build_enqueued"
      <4>1. \A s \in Requests : pc[s] # "build_enqueued"
        BY <1>0, <3>1, SessionsAssumption DEF WorkerCommit, CanWrite, LockInv, LockedRowIsCurrent
      <4>2. \A s \in Requests : pc'[s] = pc[s]
        BY <1>0, <3>1 DEF WorkerCommit, End, Goto, TypeOK
      <4> QED BY <4>1, <4>2
    <3> QED BY <3>4, <3>5 DEF NeedsBuilder
  <2> QED BY <1>3, <2>1, <2>2, <2>3, <2>4 DEF Build
<1>4. ASSUME NEW S, Crash(S) PROVE FALSE
  BY <1>4 DEF Crash
<1> QED BY <1>2, <1>3, <1>4 DEF Next, WorkerCrash, ApiCrash

(* Without crashes and pre-build exceptions, a feature that says BUILDING  *)
(* has a message in the queue or a worker at work.                         *)
THEOREM BuildersExist == Spec => []BuildingHasABuilder
<1>1. Init => BuilderInv
  <2>1. Init => ~NeedsBuilder
    BY DEF Init, NeedsBuilder, CreatedRow, StatusAfterValidation, Sessions
  <2> QED BY <2>1, InitLedgerInv DEF BuilderInv
<1>2. BuilderInv => BuildingHasABuilder
  BY DEF BuilderInv, NeedsBuilder, Builder, BuildingHasABuilder
<1> QED BY <1>1, <1>2, BuilderStep, PTL DEF Spec

-----------------------------------------------------------------------------
(***************************************************************************)
(* The pipeline against the feature lifecycle, for every number of         *)
(* sessions and every choice of failures: whatever a transaction stages is *)
(* a step of the lifecycle from the row it loaded, so a commit that leaves *)
(* the lifecycle is one over a row that changed since.                     *)
(***************************************************************************)

-----------------------------------------------------------------------------
(* Steps of the lifecycle, from a row to a row.                            *)

Steady(r) == r.job # 0 => r.status \in {"BUILDING", "PR_OPENED"}

Validates(a, b) ==
    /\ \E valid \in BOOLEAN : b.status = StatusAfterValidation(a.status, valid)
    /\ b.job = a.job /\ b.approver = a.approver

Starts(a, b) ==
    /\ a.status = "READY_FOR_BUILD" /\ b.status = "BUILDING"
    /\ b.job # 0 /\ b.approver = a.approver

Opens(a, b) ==
    /\ a.status = "BUILDING" /\ b.status = "PR_OPENED"
    /\ b.job \in {0, a.job} /\ b.approver = a.approver

Settles(a, b) ==
    /\ b.status \in {"PREVIEW_READY", "FAILED_BUILD", "FAILED_PREVIEW"}
    /\ \/ a.status \in {"BUILDING", "PR_OPENED"} /\ b.status # "FAILED_PREVIEW"
       \/ a.status = "PR_OPENED" /\ b.status = "FAILED_PREVIEW"
       \/ a.status = b.status
    /\ b.job = 0 /\ b.approver = a.approver

BuildsAtOnce(a, b) ==
    /\ a.status = "READY_FOR_BUILD" /\ b.status \in {"PR_OPENED", "PREVIEW_READY", "FAILED_BUILD"}
    /\ b.job = 0 /\ b.approver = a.approver

Approves(a, b) ==
    /\ a.status = "PREVIEW_READY" /\ b.status = "PRODUCT_APPROVED"
    /\ b.approver \in Users /\ b.job = a.job

Same(a, b) == b.status = a.status /\ b.job = a.job /\ b.approver = a.approver

Moves(a, b) ==
    \/ Validates(a, b) \/ Starts(a, b) \/ Opens(a, b) \/ Settles(a, b)
    \/ BuildsAtOnce(a, b) \/ Approves(a, b) \/ Same(a, b)

(* A validation leaves alone a feature that is being built.                *)
LEMMA ValidationKeeps ==
    ASSUME NEW st \in {"BUILDING", "PR_OPENED"}, NEW valid \in BOOLEAN
    PROVE  StatusAfterValidation(st, valid) = st
BY DEF StatusAfterValidation

(* A step of the lifecycle leaves a job only with a build.                 *)
LEMMA MovesSteady ==
    ASSUME NEW a \in Row, NEW b \in Row, Steady(a), Moves(a, b)
    PROVE  Steady(b)
<1>1. CASE Validates(a, b)
  BY <1>1, ValidationKeeps DEF Validates, Steady
<1>2. CASE Starts(a, b) \/ Opens(a, b) \/ Settles(a, b) \/ BuildsAtOnce(a, b)
  BY <1>2 DEF Starts, Opens, Settles, BuildsAtOnce, Steady
<1>3. CASE Approves(a, b) \/ Same(a, b)
  BY <1>3 DEF Approves, Same, Steady
<1> QED BY <1>1, <1>2, <1>3 DEF Moves

(* What the transition table, as FeatureLifecycle sees it, says of them.   *)
LEMMA Table ==
    /\ Lifecycle!CanPerform("READY_FOR_BUILD", "start_build")
    /\ Lifecycle!CanPerform("BUILDING", "opened_pr") /\ Lifecycle!CanPerform("PREVIEW_READY", "approve")
    /\ Lifecycle!Allowed("BUILDING", "PR_OPENED") /\ Lifecycle!Allowed("BUILDING", "FAILED_BUILD")
    /\ Lifecycle!Allowed("PR_OPENED", "PREVIEW_READY") /\ Lifecycle!Allowed("PR_OPENED", "FAILED_BUILD")
    /\ Lifecycle!Allowed("PR_OPENED", "FAILED_PREVIEW")
    /\ Lifecycle!Status = Status
BY DEF Lifecycle!CanPerform, Lifecycle!Allowed, Lifecycle!Successors, Lifecycle!ActionResult,
       Lifecycle!Status, Status

(* Both see the same validation.                                           *)
LEMMA SameValidation ==
    ASSUME NEW st, NEW valid
    PROVE  Lifecycle!StatusAfterValidation(st, valid) = StatusAfterValidation(st, valid)
BY DEF Lifecycle!StatusAfterValidation, StatusAfterValidation

(* The actions the table allows in one status only.                        *)
LEMMA OnlyFrom ==
    ASSUME NEW st \in Status
    PROVE  /\ CanPerform(st, "start_build") => st = "READY_FOR_BUILD"
           /\ CanPerform(st, "approve") => st = "PREVIEW_READY"
BY DEF CanPerform, Allowed, Successors, ActionResult, Status

(* A committed step of the lifecycle is one of FeatureLifecycle.           *)
LEMMA MovesIsLifecycle ==
    ASSUME row \in Row, row' \in Row, Moves(row, row')
    PROVE  [Lifecycle!LifecycleNext]_(Lifecycle!lifecycleVars)
<1>0. row.status \in Status /\ row'.status \in Status
  BY DEF Row
<1>1. CASE Validates(row, row')
  <2>1. \E valid \in BOOLEAN : Lifecycle!ValidateSpec(valid)
    BY <1>1, SameValidation DEF Validates, Lifecycle!ValidateSpec
  <2> QED BY <2>1 DEF Lifecycle!LifecycleNext
<1>2. CASE Starts(row, row')
  <2>1. Lifecycle!StartBuild
    BY <1>2, Table DEF Starts, Lifecycle!StartBuild
  <2> QED BY <2>1 DEF Lifecycle!LifecycleNext
<1>3. CASE Opens(row, row')
  <2>1. Lifecycle!OpenPr
    BY <1>3, Table DEF Opens, Lifecycle!OpenPr
  <2> QED BY <2>1 DEF Lifecycle!LifecycleNext
<1>4. CASE Settles(row, row')
  <2>1. Lifecycle!Settle(row'.status)
    BY <1>4, Table DEF Settles, Lifecycle!Settle
  <2> QED BY <1>0, <2>1, Table DEF Lifecycle!LifecycleNext
<1>5. CASE BuildsAtOnce(row, row')
  <2>1. Lifecycle!BuildAtOnce(row'.status)
    BY <1>5, Table DEF BuildsAtOnce, Lifecycle!BuildAtOnce
  <2> QED BY <1>0, <2>1, Table DEF Lifecycle!LifecycleNext
<1>6. CASE Approves(row, row')
  <2>1. \E user \in Users : Lifecycle!ApproveProduct(user)
    BY <1>6, Table DEF Approves, Lifecycle!ApproveProduct
  <2> QED BY <2>1 DEF Lifecycle!LifecycleNext
<1>7. CASE Same(row, row')
  BY <1>7 DEF Same, Lifecycle!lifecycleVars
<1> QED BY <1>1, <1>2, <1>3, <1>4, <1>5, <1>6, <1>7 DEF Moves

-----------------------------------------------------------------------------
(* What the handlers stage.                                                *)

(* A validation, of a new version or not.                                  *)
LEMMA ValidatedMoves ==
    ASSUME NEW r \in Row, NEW valid \in BOOLEAN
    PROVE  /\ Moves(r, Validated(r, valid))
           /\ r.spec.version < MaxVersion => Moves(r, Validated(NewVersion(r), valid))
<1>1. ASSUME NEW q \in Row PROVE Validates(q, Validated(q, valid))
  BY DEF Validates, Validated, Row
<1>2. ASSUME r.spec.version < MaxVersion PROVE Validates(r, Validated(NewVersion(r), valid))
  <2>1. NewVersion(r) \in Row /\ NewVersion(r).status = r.status /\ NewVersion(r).job = r.job
    BY <1>2, NewVersionType
  <2>2. NewVersion(r).approver = r.approver
    BY DEF NewVersion, Row
  <2>3. Validates(NewVersion(r), Validated(NewVersion(r), valid))
    BY <1>1, <2>1
  <2> QED BY <2>1, <2>2, <2>3 DEF Validates
<1> QED BY <1>1, <1>2 DEF Moves

(* A callback whose event the status accepts.                              *)
LEMMA AppliedMoves ==
    ASSUME NEW r \in Row, NEW e \in AllEvents, Accepts(e, r.status)
    PROVE  Moves(r, Applied(r, e))
<1> DEFINE b == Applied(r, e)
<1>1. /\ b.status = CallbackStatus[e] /\ b.approver = r.approver
      /\ b.job = IF e = "pr_opened" THEN r.job ELSE 0
  BY DEF Applied, Row
<1> HIDE DEF b
<1>2. ASSUME e = "pr_opened" PROVE Moves(r, b)
  <2>1. r.status \in {"BUILDING", "PR_OPENED"} /\ b.status = "PR_OPENED" /\ b.job = r.job
    BY <1>1, <1>2 DEF Accepts, CallbackStatus
  <2> QED BY <1>1, <2>1 DEF Moves, Opens, Same
<1>3. ASSUME e = "preview_ready" PROVE Moves(r, b)
  <2>1. r.status \in {"BUILDING", "PR_OPENED", "PREVIEW_READY"} /\ b.status = "PREVIEW_READY" /\ b.job = 0
    BY <1>1, <1>3 DEF Accepts, CallbackStatus
  <2> QED BY <1>1, <2>1 DEF Moves, Settles
<1>4. ASSUME e = "build_failed" PROVE Moves(r, b)
  <2>1. r.status \in {"BUILDING", "PR_OPENED", "FAILED_BUILD"} /\ b.status = "FAILED_BUILD" /\ b.job = 0
    BY <1>1, <1>4 DEF Accepts, CallbackStatus
  <2> QED BY <1>1, <2>1 DEF Moves, Settles
<1>5. ASSUME e = "preview_failed" PROVE Moves(r, b)
  <2>1. r.status \in {"PR_OPENED", "FAILED_PREVIEW"} /\ b.status = "FAILED_PREVIEW" /\ b.job = 0
    BY <1>1, <1>5 DEF Accepts, CallbackStatus
  <2> QED BY <1>1, <2>1 DEF Moves, Settles
<1> QED BY <1>2, <1>3, <1>4, <1>5 DEF AllEvents, b

(* A build of a feature that was ready or building.                        *)
LEMMA BuiltMoves ==
    ASSUME NEW a \in Row, CanStart(a.status),
           NEW st \in {"FAILED_BUILD", "PR_OPENED", "PREVIEW_READY"},
           NEW b \in Row, b.status = st, b.job = 0, b.approver = a.approver
    PROVE  Moves(a, b)
<1>1. a.status \in {"READY_FOR_BUILD", "BUILDING"}
  BY StartStatuses DEF Row
<1> QED BY <1>1 DEF Moves, BuildsAtOnce, Opens, Settles

-----------------------------------------------------------------------------
(* The invariant: every transaction has staged a step of the lifecycle.    *)

Intent(s) ==
    /\ pc[s] \in {"writing", "build_enqueued", "cb_await", "cb_commit"} => Moves(loaded[s], local[s])
    /\ pc[s] = "building" =>
        CanStart(loaded[s].status) /\ local[s] = [loaded[s] EXCEPT !.status = "BUILDING"]

Intents == \A s \in Sessions : Intent(s)

LifeInv == LockInv /\ Intents

(* The row moves along the lifecycle, or a stale commit moves it.          *)
Moved == (row' = row \/ Moves(row, row') \/ StaleCommit) /\ Intents'

(* One session changes what it intends.                                    *)
LEMMA OthersIntend ==
    ASSUME Intents, NEW s \in Sessions, Intent(s)',
           \A t \in Sessions \ {s} : pc'[t] = pc[t] /\ loaded'[t] = loaded[t] /\ local'[t] = local[t]
    PROVE  Intents'
<1> SUFFICES ASSUME NEW t \in Sessions PROVE Intent(t)'
  BY DEF Intents
<1>1. CASE t = s
  BY <1>1
<1>2. CASE t # s
  BY <1>2 DEF Intents, Intent
<1> QED BY <1>1, <1>2

(* A transaction begins.                                                   *)
LEMMA BeginMoved ==
    ASSUME LifeInv, NEW s \in Sessions, NEW label, NEW new, Begin(s, label, new), UNCHANGED row,
           label \in {"writing", "build_enqueued", "cb_await", "cb_commit"} => Moves(row, new),
           label = "building" => CanStart(row.status) /\ new = [row EXCEPT !.status = "BUILDING"]
    PROVE  Moved
<1>1. /\ pc'[s] = label /\ loaded'[s] = row /\ local'[s] = new
      /\ \A t \in Sessions \ {s} : pc'[t] = pc[t] /\ loaded'[t] = loaded[t] /\ local'[t] = local[t]
  BY DEF Begin, Goto, LifeInv, LockInv, TypeOK
<1>2. Intent(s)'
  BY <1>1 DEF Intent, LifeInv
<1>3. Intents'
  BY <1>1, <1>2, OthersIntend DEF LifeInv
<1> QED BY <1>3 DEF Moved

(* A transaction ends and writes nothing to the row.                       *)
LEMMA EndMoved ==
    ASSUME LifeInv, NEW s \in Sessions, End(s), UNCHANGED row
    PROVE  Moved
<1>1. /\ pc'[s] = "idle"
      /\ \A t \in Sessions \ {s} : pc'[t] = pc[t] /\ loaded'[t] = loaded[t] /\ local'[t] = local[t]
  BY DEF End, Goto, LifeInv, LockInv, TypeOK
<1>2. Intent(s)'
  BY <1>1 DEF Intent
<1>3. Intents'
  BY <1>1, <1>2, OthersIntend DEF LifeInv
<1> QED BY <1>3 DEF Moved

(* Over a fresh row a commit writes what was staged.                       *)
LEMMA MergeFresh ==
    ASSUME NEW r \in Row, NEW now \in Row
    PROVE  Merge(r, r, now) = now
BY DEF Merge, Written, Row

(* A transaction ends with a commit.                                       *)
LEMMA CommitMoved ==
    ASSUME LifeInv, NEW s \in Sessions, End(s), pc[s] # "idle", NEW now \in Row,
           row' = Merge(row, loaded[s], now), Moves(loaded[s], now)
    PROVE  Moved
<1>1. CASE row' = row
  BY <1>1, EndMoved
<1>2. CASE row' # row
  <2>1. /\ pc'[s] = "idle" /\ row \in Row /\ loaded[s] \in Row
        /\ \A t \in Sessions \ {s} : pc'[t] = pc[t] /\ loaded'[t] = loaded[t] /\ local'[t] = local[t]
    BY DEF End, Goto, LifeInv, LockInv, TypeOK
  <2>2. Moves(row, row') \/ StaleCommit
    <3>1. CASE loaded[s] = row
      BY <2>1, <3>1, MergeFresh
    <3>2. CASE loaded[s] # row
      BY <1>2, <2>1, <3>2 DEF StaleCommit
    <3> QED BY <3>1, <3>2
  <2>3. Intent(s)'
    BY <2>1 DEF Intent
  <2>4. Intents'
    BY <2>1, <2>3, OthersIntend DEF LifeInv
  <2> QED BY <2>2, <2>4 DEF Moved
<1> QED BY <1>1, <1>2

-----------------------------------------------------------------------------
(* The steps.                                                              *)

(* Spec updates, validations and approvals.                                *)
LEMMA WriterMoves ==
    ASSUME LifeInv, NEW s \in Requests,
           \/ \E valid \in BOOLEAN : PatchSpec(s, valid) \/ Revalidate(s, valid)
           \/ \E user \in Users : Approve(s, user)
           \/ CommitWrite(s)
    PROVE  Moved
<1>0. s \in Sessions /\ row \in Row /\ row.status \in Status
  BY DEF Sessions, LifeInv, LockInv, TypeOK, Row
<1>1. ASSUME NEW valid \in BOOLEAN, PatchSpec(s, valid) PROVE Moved
  BY <1>0, <1>1, ValidatedMoves, BeginMoved DEF PatchSpec
<1>2. ASSUME NEW valid \in BOOLEAN, Revalidate(s, valid) PROVE Moved
  BY <1>0, <1>2, ValidatedMoves, BeginMoved DEF Revalidate
<1>3. ASSUME NEW user \in Users, Approve(s, user) PROVE Moved
  <2> DEFINE new == [row EXCEPT !.status = ActionResult["approve"], !.approver = user]
  <2>1. Begin(s, "writing", new) /\ UNCHANGED row
    BY <1>3 DEF Approve
  <2>2. row.status = "PREVIEW_READY"
    BY <1>0, <1>3, OnlyFrom DEF Approve
  <2>3. new.status = "PRODUCT_APPROVED" /\ new.approver = user /\ new.job = row.job
    BY <1>0 DEF Row, ActionResult
  <2>4. Moves(row, new)
    BY <2>2, <2>3 DEF Moves, Approves
  <2> HIDE DEF new
  <2> QED BY <1>0, <2>1, <2>4, BeginMoved
<1>4. CASE CommitWrite(s)
  <2>1. Moves(loaded[s], local[s]) /\ local[s] \in Row
    BY <1>0, <1>4 DEF CommitWrite, LifeInv, LockInv, TypeOK, Intents, Intent
  <2> QED BY <1>0, <1>4, <2>1, CommitMoved DEF CommitWrite
<1> QED BY <1>1, <1>2, <1>3, <1>4

(* The handlers of start_build.                                            *)
LEMMA StarterMoves ==
    ASSUME LifeInv, NEW s \in Requests,
           \/ BuildLock(s) \/ BuildReuse(s) \/ BuildReject(s) \/ CloseSession(s)
           \/ \E user \in Users : BuildEnqueue(s, user)
           \/ BuildEnqueueFails(s) \/ BuildCommit(s)
    PROVE  Moved
<1>0. s \in Sessions /\ row \in Row /\ LockInv /\ TypeOK
  BY DEF Sessions, LifeInv, LockInv, TypeOK
<1>1. CASE BuildLock(s)
  BY <1>0, <1>1, BeginMoved DEF BuildLock
<1>2. CASE BuildReuse(s) \/ CloseSession(s) \/ BuildEnqueueFails(s)
  <2>1. End(s) /\ UNCHANGED row
    BY <1>2 DEF BuildReuse, CloseSession, BuildEnqueueFails
  <2> QED BY <1>0, <2>1, EndMoved
<1>3. CASE BuildReject(s)
  <2>1. /\ pc'[s] = "closing" /\ pc[s] = "build_locked" /\ UNCHANGED <<row, loaded, local>>
        /\ \A t \in Sessions \ {s} : pc'[t] = pc[t]
    BY <1>0, <1>3 DEF BuildReject, Goto, TypeOK
  <2>2. Intent(s)'
    BY <1>0, <2>1 DEF LifeInv, Intents, Intent
  <2>3. Intents'
    BY <1>0, <2>1, <2>2, OthersIntend DEF LifeInv
  <2> QED BY <2>1, <2>3 DEF Moved
<1>4. ASSUME NEW user \in Users, BuildEnqueue(s, user) PROVE Moved
  <2>1. /\ pc'[s] = "build_enqueued" /\ pc[s] = "build_locked" /\ UNCHANGED <<row, loaded>>
        /\ \A t \in Sessions \ {s} : pc'[t] = pc[t] /\ local'[t] = local[t]
        /\ local'[s] = Started(loaded[s], jobs + 1, user) /\ loaded[s].status = "READY_FOR_BUILD"
    BY <1>0, <1>4 DEF BuildEnqueue, Goto, TypeOK
  <2>2. jobs + 1 # 0
    BY <1>0, BoundsAssumption DEF TypeOK, Job
  <2>3. Starts(loaded[s], local'[s])
    <3>1. loaded[s] \in Row
      BY <1>0 DEF TypeOK
    <3> QED BY <2>1, <2>2, <3>1 DEF Starts, Started, Row, ActionResult
  <2>4. Intent(s)'
    BY <1>0, <2>1, <2>3 DEF LifeInv, Intents, Intent, Moves
  <2>5. Intents'
    BY <1>0, <2>1, <2>4, OthersIntend DEF LifeInv
  <2> QED BY <2>1, <2>5 DEF Moved
<1>5. CASE BuildCommit(s)
  <2>1. Moves(loaded[s], local[s]) /\ local[s] \in Row
    BY <1>0, <1>5 DEF BuildCommit, LifeInv, TypeOK, Intents, Intent
  <2> QED BY <1>0, <1>5, <2>1, CommitMoved DEF BuildCommit
<1> QED BY <1>1, <1>2, <1>3, <1>4, <1>5

(* The callbacks.                                                          *)
LEMMA CallbackMoves ==
    ASSUME LifeInv, NEW s \in Requests,
           \/ \E k \in Keys, e \in Events : CallbackReplay(s, k, e) \/ CallbackRead(s, k, e)
           \/ CallbackConflict(s) \/ CallbackRefused(s)
           \/ \E yields \in BOOLEAN : CallbackApply(s, yields)
           \/ CallbackResume(s) \/ CallbackCommit(s)
    PROVE  Moved
<1>0. s \in Sessions /\ row \in Row /\ LockInv /\ TypeOK
  BY DEF Sessions, LifeInv, LockInv, TypeOK
<1>1. ASSUME NEW k \in Keys, NEW e \in Events, CallbackReplay(s, k, e) PROVE Moved
  BY <1>1 DEF CallbackReplay, Moved, LifeInv, Intents, Intent
<1>2. ASSUME NEW k \in Keys, NEW e \in Events, CallbackRead(s, k, e) PROVE Moved
  BY <1>0, <1>2, BeginMoved DEF CallbackRead
<1>3. CASE CallbackConflict(s) \/ CallbackRefused(s)
  <2>1. End(s) /\ UNCHANGED row
    BY <1>3 DEF CallbackConflict, CallbackRefused
  <2> QED BY <1>0, <2>1, EndMoved
<1>4. ASSUME NEW yields \in BOOLEAN, CallbackApply(s, yields) PROVE Moved
  <2>1. pc[s] = "cb_read" /\ call[s] \in Call
    BY <1>0, <1>4 DEF CallbackApply, CanInsert, LockInv, CallbackHasCall, Callback
  <2>2. call[s].event \in AllEvents /\ Accepts(call[s].event, loaded[s].status)
    BY <1>4, <2>1, ConfigAssumption DEF CallbackApply, Call
  <2>3. /\ pc'[s] \in {"cb_await", "cb_commit"} /\ UNCHANGED <<row, loaded>>
        /\ \A t \in Sessions \ {s} : pc'[t] = pc[t] /\ local'[t] = local[t]
        /\ local'[s] = Applied(loaded[s], call[s].event) /\ loaded[s] \in Row
    BY <1>0, <1>4 DEF CallbackApply, Goto, TypeOK
  <2>4. Moves(loaded[s], local'[s])
    BY <2>2, <2>3, AppliedMoves
  <2>5. Intent(s)'
    BY <2>3, <2>4 DEF Intent
  <2>6. Intents'
    BY <1>0, <2>3, <2>5, OthersIntend DEF LifeInv
  <2> QED BY <2>3, <2>6 DEF Moved
<1>5. CASE CallbackResume(s)
  <2>1. /\ pc'[s] = "cb_commit" /\ pc[s] = "cb_await" /\ UNCHANGED <<row, loaded, local>>
        /\ \A t \in Sessions \ {s} : pc'[t] = pc[t]
    BY <1>0, <1>5 DEF CallbackResume, Goto, TypeOK
  <2>2. Intent(s)'
    BY <1>0, <2>1 DEF LifeInv, Intents, Intent
  <2>3. Intents'
    BY <1>0, <2>1, <2>2, OthersIntend DEF LifeInv
  <2> QED BY <2>1, <2>3 DEF Moved
<1>6. CASE CallbackCommit(s)
  <2>1. Moves(loaded[s], local[s]) /\ local[s] \in Row
    BY <1>0, <1>6 DEF CallbackCommit, LifeInv, TypeOK, Intents, Intent
  <2> QED BY <1>0, <1>6, <2>1, CommitMoved DEF CallbackCommit
<1> QED BY <1>1, <1>2, <1>3, <1>4, <1>5, <1>6

(* The workers.                                                            *)
LEMMA WorkerMoves ==
    ASSUME LifeInv, NEW w \in Workers, Build(w)
    PROVE  Moved
<1>0. w \in Sessions /\ row \in Row /\ LockInv /\ TypeOK
  BY DEF Sessions, LifeInv, LockInv, TypeOK
<1>1. CASE WorkerStart(w)
  BY <1>0, <1>1, BeginMoved DEF WorkerStart
<1>2. CASE WorkerReject(w)
  BY <1>2 DEF WorkerReject, Moved, LifeInv, Intents, Intent
<1>3. CASE WorkerUnprepared(w)
  BY <1>0, <1>3, EndMoved DEF WorkerUnprepared
<1>4. CASE WorkerMisconfigured(w) \/ WorkerSucceeds(w) \/ WorkerFails(w)
  <2>1. PICK st \in {"FAILED_BUILD", "PR_OPENED", "PREVIEW_READY"}, result \in {"SUCCEEDED", "FAILED"} :
            WorkerCommit(w, st, result)
    BY <1>4, WorkerOutcome
  <2> DEFINE new == [local[w] EXCEPT !.status = st, !.job = 0]
  <2>2. /\ pc[w] = "building" /\ End(w) /\ row' = Merge(row, loaded[w], new)
    BY <2>1 DEF WorkerCommit
  <2>3. /\ CanStart(loaded[w].status) /\ loaded[w] \in Row
        /\ local[w] = [loaded[w] EXCEPT !.status = "BUILDING"]
    BY <1>0, <2>2 DEF LifeInv, Intents, Intent, TypeOK
  <2>4. new \in Row /\ new.status = st /\ new.job = 0 /\ new.approver = loaded[w].approver
    <3>1. 0 \in Job /\ st \in Status
      BY BoundsAssumption DEF Job, Status
    <3> QED BY <2>3, <3>1 DEF Row
  <2> HIDE DEF new
  <2>5. Moves(loaded[w], new)
    BY <2>3, <2>4, BuiltMoves
  <2> QED BY <1>0, <2>2, <2>4, <2>5, CommitMoved
<1> QED BY <1>1, <1>2, <1>3, <1>4 DEF Build

(* A crash forgets what its sessions staged.                               *)
LEMMA CrashMoves ==
    ASSUME LifeInv, NEW S \in SUBSET Sessions, Crash(S)
    PROVE  Moved
<1>1. UNCHANGED row
  BY DEF Crash
<1>2. ASSUME NEW s \in Sessions PROVE Intent(s)'
  <2>1. CASE s \in S
    BY <2>1 DEF Crash, Intent
  <2>2. CASE s \notin S
    <3>1. pc'[s] = pc[s] /\ loaded'[s] = loaded[s] /\ local'[s] = local[s]
      BY <2>2 DEF Crash
    <3> QED BY <3>1 DEF LifeInv, Intents, Intent
  <2> QED BY <2>1, <2>2
<1> QED BY <1>1, <1>2 DEF Moved, LifeInv, Intents

(* Every step moves the row along the lifecycle, or commits over a row     *)
(* that changed.                                                           *)
LEMMA StepMoves == LifeInv /\ [Next]_vars => Moved
<1> SUFFICES ASSUME LifeInv, [Next]_vars PROVE Moved
  OBVIOUS
<1>1. ASSUME NEW s \in Requests, Request(s) \/ Proceed(s) PROVE Moved
  BY <1>1, WriterMoves, StarterMoves, CallbackMoves DEF Request, Proceed
<1>2. ASSUME NEW w \in Workers, Build(w) PROVE Moved
  BY <1>2, WorkerMoves
<1>3. ASSUME NEW w \in Workers, WorkerCrash(w) PROVE Moved
  BY <1>3, CrashMoves DEF WorkerCrash, Sessions
<1>4. ASSUME NEW p \in Procs, ApiCrash(p) PROVE Moved
  BY <1>4, CrashMoves DEF ApiCrash, Sessions
<1>5. CASE UNCHANGED vars
  BY <1>5 DEF vars, Moved, LifeInv, Intents, Intent
<1> QED BY <1>1, <1>2, <1>3, <1>4, <1>5 DEF Next

(* LifeInv is inductive.                                                   *)
LEMMA LifeInvInductive ==
    /\ Init => LifeInv
    /\ LifeInv /\ [Next]_vars => LifeInv'
<1>1. Init => LifeInv
  <2> SUFFICES ASSUME Init PROVE LifeInv
    OBVIOUS
  <2>1. \A s \in Sessions : pc[s] = "idle"
    BY DEF Init
  <2> QED BY <2>1, InitLockInv DEF LifeInv, Intents, Intent
<1>2. LifeInv /\ [Next]_vars => LifeInv'
  <2> SUFFICES ASSUME LifeInv, [Next]_vars PROVE LifeInv'
    OBVIOUS
  <2>1. LockInv'
    BY LockInvInductive DEF LifeInv
  <2> QED BY <2>1, StepMoves DEF Moved, LifeInv
<1> QED BY <1>1, <1>2

(* A commit of the code, as it is.                                         *)
LEMMA LifecycleStep ==
    LifeInv /\ [Next]_vars =>
        /\ [Lifecycle!LifecycleNext \/ StaleCommit]_(Lifecycle!lifecycleVars)
        /\ JobOnlyWhileBuilding => JobOnlyWhileBuilding' \/ StaleCommit
<1> SUFFICES ASSUME LifeInv, [Next]_vars
             PROVE  /\ [Lifecycle!LifecycleNext \/ StaleCommit]_(Lifecycle!lifecycleVars)
                    /\ JobOnlyWhileBuilding => JobOnlyWhileBuilding' \/ StaleCommit
  OBVIOUS
<1>1. row \in Row /\ row' \in Row
  BY LifeInvInductive DEF LifeInv, LockInv, TypeOK
<1>2. /\ JobOnlyWhileBuilding <=> Steady(row)
      /\ JobOnlyWhileBuilding' <=> Steady(row')
  BY DEF JobOnlyWhileBuilding, Lifecycle!JobOnlyWhileBuilding, Steady
<1>3. CASE row' = row
  BY <1>2, <1>3 DEF Lifecycle!lifecycleVars
<1>4. CASE Moves(row, row')
  <2>1. [Lifecycle!LifecycleNext]_(Lifecycle!lifecycleVars)
    BY <1>1, <1>4, MovesIsLifecycle
  <2>2. Steady(row) => Steady(row')
    BY <1>1, <1>4, MovesSteady
  <2> QED BY <1>2, <2>1, <2>2
<1>5. CASE StaleCommit
  BY <1>5
<1> QED BY <1>3, <1>4, <1>5, StepMoves DEF Moved

(* The guards of the handlers, the callbacks and the worker agree with the *)
(* transition table: in the code as it is, every commit is a step of the   *)
(* lifecycle, or the commit of a transaction whose row changed after it    *)
(* was loaded.                                                             *)
THEOREM OnlyStaleCommitsLeaveTheLifecycle == Spec => LifecycleUnlessStale
<1>1. LifeInv /\ [Next]_vars => [Lifecycle!LifecycleNext \/ StaleCommit]_(Lifecycle!lifecycleVars)
  BY LifecycleStep
<1> QED BY <1>1, LifeInvInductive, PTL DEF Spec, LifecycleUnlessStale

(* In the code as it is, only such a commit leaves a job id behind in a    *)
(* status that no build is behind.                                         *)
THEOREM OnlyStaleCommitsLeaveJobs == Spec => JobLeftOnlyByStale
<1>1. LifeInv /\ [Next]_vars => [JobOnlyWhileBuilding => JobOnlyWhileBuilding' \/ StaleCommit]_vars
  BY LifecycleStep
<1> QED BY <1>1, LifeInvInductive, PTL DEF Spec, JobLeftOnlyByStale

(* So a version column would be enough: a pipeline that refuses every      *)
(* stale commit, which the code does not, implements the lifecycle.        *)
THEOREM FreshPipelineImplementsLifecycle == FreshSpec => ImplementsLifecycle
<1>1. Init => Lifecycle!LifecycleInit
  BY DEF Init, CreatedRow, StatusAfterValidation, Lifecycle!LifecycleInit
<1>2. LifeInv /\ [Next /\ ~StaleCommit]_vars => [Lifecycle!LifecycleNext]_(Lifecycle!lifecycleVars)
  <2>1. UNCHANGED vars => UNCHANGED Lifecycle!lifecycleVars
    BY DEF vars, Lifecycle!lifecycleVars
  <2> QED BY <2>1, LifecycleStep
<1>3. LifeInv /\ [Next /\ ~StaleCommit]_vars => LifeInv'
  BY LifeInvInductive
<1> QED BY <1>1, <1>2, <1>3, LifeInvInductive, PTL DEF FreshSpec, ImplementsLifecycle, Lifecycle!LifecycleSpec
=============================================================================

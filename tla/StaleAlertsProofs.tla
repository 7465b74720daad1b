-------------------------- MODULE StaleAlertsProofs --------------------------
(***************************************************************************)
(* Proofs about StaleAlerts, for every number of features and rows per run *)
(* and every number of attempts to post.                                   *)
(***************************************************************************)
EXTENDS StaleAlerts, TLAPS

USE ThreadsAssumption, BoundsAssumption

(* A feature in the batch has nothing staged, one whose reminder is being  *)
(* posted has, and a sleeping worker has none of it.                       *)
RunInv ==
    /\ run.batch \cap run.staged = {}
    /\ run.thread \subseteq run.staged
    /\ run.at = "scanning" => run.thread = {}
    /\ run.at = "sleeping" => run.batch = {} /\ run.staged = {}

(* The reminder of a staged feature counts once it is no longer posted.    *)
Accounted ==
    \A f \in Features :
        posts[f] <= aborts + unsure[f] + (IF f \in run.staged THEN IF f \in run.thread THEN 0 ELSE 1
                                          ELSE alerted[f])

(* After a STOP only the reminder being posted may still appear.           *)
Quiet ==
    \A f \in Features :
        /\ f \notin muted => late[f] = 0
        /\ late[f] <= unsure[f] + (IF f \in run.thread THEN 0 ELSE 1)

AlertInv == TypeOK /\ RunInv /\ AlertedOnce /\ Accounted /\ Quiet

(* At first there are no events and no reminders. *)
LEMMA InitAlertInv == Init => AlertInv
BY DEF Init, AlertInv, TypeOK, Run, RunInv, AlertedOnce, Accounted, Quiet, Idle

(* A run without its last reminder, and one that tries again, are runs.    *)
LEMMA RunFields ==
    ASSUME TypeOK
    PROVE  /\ run \in Run /\ run.at \in {"sleeping", "scanning", "posting"}
           /\ run.batch \subseteq Features /\ run.staged \subseteq Features
           /\ run.thread \subseteq Features /\ run.attempt \in 0 .. MaxRetries
BY DEF TypeOK, Run

LEMMA AgainIsARun ==
    ASSUME TypeOK, NEW r, r \in {Posted, Again}
    PROVE  /\ r \in Run /\ r.batch = run.batch /\ r.staged = run.staged
           /\ \/ r.at = "scanning" /\ r.thread = {}
              \/ r.at = run.at /\ r.thread = run.thread
<1>1. CASE r = Posted
  <2>1. r = [at |-> "scanning", batch |-> run.batch, staged |-> run.staged, thread |-> {}, attempt |-> 0]
    BY <1>1, RunFields DEF Posted, Run
  <2> QED BY <2>1, RunFields DEF Run
<1>2. CASE r = [run EXCEPT !.attempt = run.attempt + 1] /\ run.attempt # MaxRetries
  <2>1. r = [at |-> run.at, batch |-> run.batch, staged |-> run.staged, thread |-> run.thread,
             attempt |-> run.attempt + 1]
    BY <1>2, RunFields DEF Run
  <2>2. run.attempt + 1 \in 0 .. MaxRetries
    BY <1>2, RunFields
  <2> QED BY <2>1, <2>2, RunFields DEF Run
<1> QED BY <1>1, <1>2 DEF Again

(* A message that appears is one more in its thread and in no other.       *)
LEMMA AppearsCounts ==
    ASSUME TypeOK, NEW f \in Features, Appears(f)
    PROVE  /\ posts' \in [Features -> Nat] /\ late' \in [Features -> Nat]
           /\ posts'[f] = posts[f] + 1
           /\ late'[f] = IF f \in muted THEN late[f] + 1 ELSE late[f]
           /\ \A g \in Features \ {f} : posts'[g] = posts[g] /\ late'[g] = late[g]
BY DEF TypeOK, Appears

(* An attempt to post: what it adds to the thread is covered by the answer *)
(* or by the attempt that goes without one.                                *)
LEMMA PostInductive ==
    ASSUME AlertInv, NEW f \in Features, Answered(f) \/ RateLimited(f) \/ Unanswered(f)
    PROVE  AlertInv'
<1>0. TypeOK /\ RunInv /\ AlertedOnce /\ Accounted /\ Quiet
  BY DEF AlertInv
<1>1. /\ f \in run.thread /\ run' \in {Posted, Again}
      /\ UNCHANGED <<now, opened, updated, alerted, muted, aborts>>
      /\ Appears(f) \/ UNCHANGED <<posts, late>>
  BY DEF Answered, RateLimited, Unanswered, slackVars
<1>2. /\ run' \in Run /\ run'.batch = run.batch /\ run'.staged = run.staged
      /\ \/ run'.at = "scanning" /\ run'.thread = {}
         \/ run'.at = run.at /\ run'.thread = run.thread
  BY <1>0, <1>1, AgainIsARun
<1>3. /\ posts' \in [Features -> Nat] /\ late' \in [Features -> Nat]
      /\ \A g \in Features \ {f} : posts'[g] = posts[g] /\ late'[g] = late[g]
      /\ \/ posts'[f] = posts[f] /\ late'[f] = late[f]
         \/ posts'[f] = posts[f] + 1 /\ late'[f] = IF f \in muted THEN late[f] + 1 ELSE late[f]
  BY <1>0, <1>1, AppearsCounts DEF TypeOK
<1>4. /\ unsure' \in [Features -> Nat]
      /\ \A g \in Features : unsure'[g] >= unsure[g]
      /\ \/ unsure'[f] = unsure[f] + 1
         \/ posts'[f] = posts[f] /\ late'[f] = late[f]
         \/ run'.thread = {}
  <2>1. CASE Answered(f)
    <3>1. run'.thread = {}
      <4>1. run \in Run
        BY <1>0, RunFields
      <4>2. Posted.thread = {}
        BY <4>1 DEF Posted, Run
      <4> QED BY <2>1, <4>2 DEF Answered
    <3> QED BY <2>1, <3>1, <1>0 DEF Answered, TypeOK
  <2>2. CASE RateLimited(f)
    BY <2>2, <1>0 DEF RateLimited, slackVars, TypeOK
  <2>3. CASE Unanswered(f)
    BY <2>3, <1>0 DEF Unanswered, TypeOK
  <2> QED BY <2>1, <2>2, <2>3
<1>5. TypeOK'
  BY <1>0, <1>1, <1>2, <1>3, <1>4 DEF TypeOK
<1>6. RunInv'
  BY <1>0, <1>2, RunFields DEF RunInv
<1>7. AlertedOnce'
  BY <1>0, <1>1, <1>2 DEF AlertedOnce
<1>8. ASSUME NEW g \in Features
      PROVE  posts'[g] <= aborts' + unsure'[g] + (IF g \in run'.staged THEN IF g \in run'.thread THEN 0 ELSE 1
                                                  ELSE alerted'[g])
  <2>0. /\ posts[g] \in Nat /\ posts'[g] \in Nat /\ unsure[g] \in Nat /\ unsure'[g] \in Nat
        /\ alerted[g] \in Nat /\ aborts \in Nat
    BY <1>0, <1>5 DEF TypeOK
  <2>1. posts[g] <= aborts + unsure[g] + (IF g \in run.staged THEN IF g \in run.thread THEN 0 ELSE 1
                                          ELSE alerted[g])
    BY <1>0 DEF Accounted
  <2>2. CASE g = f
    <3>1. f \in run.staged /\ posts[f] <= aborts + unsure[f]
      BY <1>0, <1>1, <2>0, <2>1, <2>2 DEF RunInv
    <3> QED BY <1>1, <1>2, <1>3, <1>4, <2>0, <2>2, <3>1
  <2>3. CASE g # f
    BY <1>1, <1>2, <1>3, <1>4, <2>0, <2>1, <2>3
  <2> QED BY <2>2, <2>3
<1>9. ASSUME NEW g \in Features
      PROVE  /\ g \notin muted' => late'[g] = 0
             /\ late'[g] <= unsure'[g] + (IF g \in run'.thread THEN 0 ELSE 1)
  <2>0. late[g] \in Nat /\ late'[g] \in Nat /\ unsure[g] \in Nat /\ unsure'[g] \in Nat
    BY <1>0, <1>5 DEF TypeOK
  <2>1. /\ g \notin muted => late[g] = 0
        /\ late[g] <= unsure[g] + (IF g \in run.thread THEN 0 ELSE 1)
    BY <1>0 DEF Quiet
  <2>2. CASE g = f
    BY <1>1, <1>2, <1>3, <1>4, <2>0, <2>1, <2>2
  <2>3. CASE g # f
    BY <1>1, <1>2, <1>3, <1>4, <2>0, <2>1, <2>3
  <2> QED BY <2>2, <2>3
<1> QED BY <1>5, <1>6, <1>7, <1>8, <1>9 DEF AlertInv, Accounted, Quiet

(* Every step of the alert run, and around it, accounts for its reminders. *)
LEMMA AlertInvInductive == AlertInv /\ [Next]_vars => AlertInv'
<1> SUFFICES ASSUME AlertInv, [Next]_vars PROVE AlertInv'
  OBVIOUS
<1>0. TypeOK /\ RunInv /\ AlertedOnce /\ Accounted /\ Quiet
  BY DEF AlertInv
<1>1. CASE Tick
  BY <1>0, <1>1 DEF Tick, slackVars, AlertInv, TypeOK, RunInv, AlertedOnce, Accounted, Quiet
<1>2. ASSUME NEW f \in Features, Update(f) PROVE AlertInv'
  <2>1. TypeOK'
    BY <1>0, <1>2 DEF Update, slackVars, TypeOK
  <2> QED BY <1>0, <1>2, <2>1 DEF Update, slackVars, AlertInv, RunInv, AlertedOnce, Accounted, Quiet
<1>3. ASSUME NEW f \in Features, Stop(f) PROVE AlertInv'
  BY <1>0, <1>3 DEF Stop, slackVars, AlertInv, TypeOK, RunInv, AlertedOnce, Accounted, Quiet
<1>4. CASE Select
  <2>1. PICK B \in SUBSET Features : run' = [Idle EXCEPT !.at = "scanning", !.batch = B]
    BY <1>4 DEF Select, Candidates
  <2>2. /\ run' = [at |-> "scanning", batch |-> B, staged |-> {}, thread |-> {}, attempt |-> 0]
        /\ run.staged = {} /\ run.thread = {}
        /\ UNCHANGED <<now, opened, updated, alerted, muted, posts, late, unsure, aborts>>
    BY <1>0, <1>4, <2>1 DEF Select, RunInv, Idle, slackVars
  <2>3. TypeOK'
    BY <1>0, <2>2 DEF TypeOK, Run
  <2> QED BY <1>0, <2>2, <2>3 DEF AlertInv, RunInv, AlertedOnce, Accounted, Quiet
<1>5. ASSUME NEW f \in Features, Skip(f) PROVE AlertInv'
  <2>1. /\ run' = [run EXCEPT !.batch = run.batch \ {f}]
        /\ UNCHANGED <<now, opened, updated, alerted, muted, posts, late, unsure, aborts>>
    BY <1>5 DEF Skip, slackVars
  <2>2. run' = [at |-> run.at, batch |-> run.batch \ {f}, staged |-> run.staged, thread |-> run.thread,
                attempt |-> run.attempt]
    BY <1>0, <2>1 DEF TypeOK, Run
  <2>3. TypeOK'
    BY <1>0, <2>1, <2>2, RunFields DEF TypeOK, Run
  <2> QED BY <1>0, <2>1, <2>2, <2>3 DEF AlertInv, RunInv, AlertedOnce, Accounted, Quiet
<1>6. ASSUME NEW f \in Features, Remind(f) PROVE AlertInv'
  <2>1. /\ run' = [run EXCEPT !.batch = run.batch \ {f}, !.staged = run.staged \cup {f},
                              !.at = IF f \in Threads THEN "posting" ELSE "scanning",
                              !.thread = {f} \cap Threads]
        /\ run.at = "scanning" /\ f \in run.batch /\ alerted[f] = 0 /\ f \notin muted
        /\ UNCHANGED <<now, opened, updated, alerted, muted, posts, late, unsure, aborts>>
    BY <1>6 DEF Remind, Due, slackVars
  <2>2. run' = [at |-> IF f \in Threads THEN "posting" ELSE "scanning", batch |-> run.batch \ {f},
                staged |-> run.staged \cup {f}, thread |-> {f} \cap Threads, attempt |-> run.attempt]
    BY <1>0, <2>1 DEF TypeOK, Run
  <2>3. TypeOK'
    <3>1. run' \in Run
      BY <1>0, <2>2, RunFields DEF Run
    <3> QED BY <1>0, <2>1, <3>1 DEF TypeOK
  <2>4. f \notin run.staged /\ run.thread = {} /\ RunInv'
    BY <1>0, <2>1, <2>2 DEF RunInv
  <2>5. AlertedOnce'
    BY <1>0, <2>1, <2>2 DEF AlertedOnce, TypeOK
  <2>6. ASSUME NEW g \in Features
        PROVE  posts[g] <= aborts + unsure[g] + (IF g \in run'.staged THEN IF g \in run'.thread THEN 0 ELSE 1
                                                 ELSE alerted[g])
    <3>1. posts[g] \in Nat /\ alerted[g] \in Nat /\ aborts \in Nat /\ unsure[g] \in Nat
      BY <1>0 DEF TypeOK
    <3>2. posts[g] <= aborts + unsure[g] + (IF g \in run.staged THEN 1 ELSE alerted[g])
      BY <1>0, <2>4 DEF Accounted
    <3> QED BY <2>1, <2>2, <2>4, <3>1, <3>2
  <2>7. \A g \in Features : late[g] <= unsure[g] + (IF g \in run'.thread THEN 0 ELSE 1)
    <3>1. late[f] = 0 /\ unsure \in [Features -> Nat]
      BY <1>0, <2>1 DEF Quiet, TypeOK
    <3> QED BY <1>0, <2>2, <2>4, <3>1 DEF Quiet
  <2> QED BY <1>0, <2>1, <2>3, <2>4, <2>5, <2>6, <2>7 DEF AlertInv, Accounted, Quiet
<1>7. CASE Commit
  <2>1. /\ run' = Idle /\ run.at = "scanning"
        /\ UNCHANGED <<now, opened, updated, muted, posts, late, unsure, aborts>>
        /\ \A f \in Features : alerted'[f] = IF f \in run.staged THEN alerted[f] + 1 ELSE alerted[f]
    BY <1>7 DEF Commit, slackVars
  <2>2. alerted' \in [Features -> Nat]
    BY <1>0, <1>7 DEF Commit, TypeOK
  <2>3. TypeOK'
    BY <1>0, <2>1, <2>2 DEF TypeOK, Run, Idle
  <2>4. (\A f \in Features : f \in run.staged => alerted[f] = 0) /\ run.thread = {}
    BY <1>0, <2>1 DEF AlertedOnce, TypeOK, RunInv
  <2> QED BY <1>0, <2>1, <2>3, <2>4 DEF AlertInv, RunInv, AlertedOnce, Accounted, Quiet, Idle, TypeOK
<1>8. CASE Abort
  <2>1. /\ aborts' = aborts + 1 /\ run' = Idle /\ aborts < MaxAborts
        /\ UNCHANGED <<now, opened, updated, alerted, muted, posts, late, unsure>>
    BY <1>8 DEF Abort, slackVars
  <2>2. TypeOK'
    BY <1>0, <2>1 DEF TypeOK, Run, Idle
  <2> QED BY <1>0, <2>1, <2>2 DEF AlertInv, RunInv, AlertedOnce, Accounted, Quiet, Idle, TypeOK
<1>9. CASE UNCHANGED vars
  BY <1>0, <1>9 DEF vars, slackVars, AlertInv, TypeOK, RunInv, AlertedOnce, Accounted, Quiet
<1>10. CASE Send
  BY <1>10, PostInductive DEF Send
<1> QED BY <1>1, <1>2, <1>3, <1>4, <1>5, <1>6, <1>7, <1>8, <1>9, <1>10 DEF Next, Scan

(* Clocks, events and batches hold what they are declared to hold.         *)
THEOREM AlertsTyped == Spec => []TypeOK
<1>1. AlertInv => TypeOK
  BY DEF AlertInv
<1> QED BY InitAlertInv, AlertInvInductive, <1>1, PTL DEF Spec

(* No feature is alerted twice, whatever the scans overlap with. *)
THEOREM FeaturesAlertedOnce == Spec => []AlertedOnce
<1>1. AlertInv => AlertedOnce
  BY DEF AlertInv
<1> QED BY InitAlertInv, AlertInvInductive, <1>1, PTL DEF Spec

(* Only a rolled back run, or an attempt that got no answer, can make a    *)
(* thread see a reminder again.                                            *)
THEOREM RemindersAccounted == Spec => []EveryReminderAccounted
<1>1. AlertInv => EveryReminderAccounted
  <2> SUFFICES ASSUME AlertInv, NEW f \in Features PROVE posts[f] <= 1 + aborts + unsure[f]
    BY DEF EveryReminderAccounted
  <2>1. posts[f] \in Nat /\ alerted[f] \in Nat /\ aborts \in Nat /\ unsure[f] \in Nat
    BY DEF AlertInv, TypeOK
  <2>2. alerted[f] <= 1
    BY <2>1 DEF AlertInv, AlertedOnce
  <2>3. posts[f] <= aborts + unsure[f] + (IF f \in run.staged THEN IF f \in run.thread THEN 0 ELSE 1
                                          ELSE alerted[f])
    BY DEF AlertInv, Accounted
  <2> QED BY <2>1, <2>2, <2>3
<1> QED BY InitAlertInv, AlertInvInductive, <1>1, PTL DEF Spec

(* After a STOP, only the reminder that was being posted can still appear. *)
THEOREM StopSilences == Spec => []QuietAfterStop
<1>1. AlertInv => QuietAfterStop
  <2> SUFFICES ASSUME AlertInv, NEW f \in Features PROVE late[f] <= 1 + unsure[f]
    BY DEF QuietAfterStop
  <2>1. late[f] \in Nat /\ unsure[f] \in Nat
    BY DEF AlertInv, TypeOK
  <2> QED BY <2>1 DEF AlertInv, Quiet
<1> QED BY InitAlertInv, AlertInvInductive, <1>1, PTL DEF Spec
=============================================================================

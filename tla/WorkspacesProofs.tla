-------------------------- MODULE WorkspacesProofs --------------------------
(***************************************************************************)
(* Proofs about Workspaces.  A running build's directory is no older than  *)
(* the build, and every retention is longer than a build: so what a run    *)
(* removes is used by nobody.                                              *)
(***************************************************************************)
EXTENDS Workspaces, TLAPS

BuildInv ==
    \A w \in Builders : Working(w) =>
        /\ build[w].dir \in here
        /\ info[build[w].dir].age <= build[w].time
        /\ build[w].pc = "cloned" => ~info[build[w].dir].empty

ScanInv ==
    /\ scan \subseteq here
    /\ \A d \in here : info[d].fresh => info[d].age = 0

IInv == TypeOK /\ BuildInv /\ ScanInv /\ TargetsIsolated

(* A record of a running build is not None.                                *)
LEMMA BuildIsNotNone == ASSUME NEW b \in Build PROVE b # None
  BY BuildAssumption

(* Before anything was built the invariant holds.                          *)
LEMMA InitInv == Init => IInv
  <1> SUFFICES ASSUME Init PROVE IInv
    OBVIOUS
  <1>1. Unused \in Info
    BY NamesAssumption, RetentionAssumption DEF Unused, Info
  <1>2. TypeOK
    BY <1>1, RetentionAssumption DEF Init, TypeOK
  <1> QED
    BY <1>2 DEF Init, IInv, BuildInv, ScanInv, TargetsIsolated, Working

(* What has expired is used by no build.                                   *)
LEMMA ExpiredIsUnused ==
    ASSUME IInv, NEW d \in scan, Expired(d), NEW w \in Builders, Working(w)
    PROVE  build[w].dir # d
  <1>1. build[w] \in Build
    BY DEF IInv, TypeOK, Working
  <1>2. build[w].time \in Nat /\ build[w].time <= BuildLimit
    BY <1>1, RetentionAssumption DEF Build
  <1>3. info[d].feature \in Features /\ info[d].age \in Nat
    BY RetentionAssumption DEF IInv, TypeOK, Info
  <1>4. Retention[class[info[d].feature]] \in Nat /\ Retention[class[info[d].feature]] > BuildLimit
    BY <1>3, RetentionAssumption DEF IInv, TypeOK
  <1>5. ASSUME build[w].dir = d PROVE FALSE
    <2>1. info[d].age <= build[w].time
      BY <1>5 DEF IInv, BuildInv
    <2> QED
      BY <1>2, <1>3, <1>4, <2>1, RetentionAssumption DEF Expired
  <1> QED
    BY <1>5

(* A new build: in a new directory that nobody knows yet, or in one of     *)
(* this second.                                                            *)
LEMMA PrepareInv ==
    ASSUME IInv, NEW w \in Builders, NEW f \in Features, NEW d \in Dirs, Prepare(w, f, d)
    PROVE  IInv'
  <1> DEFINE b == [pc |-> "prepared", dir |-> d, time |-> 0]
             i == [feature |-> f, age |-> 0, fresh |-> TRUE, empty |-> TRUE]
  <1>1. b \in Build /\ i \in Info
    BY RetentionAssumption DEF Build, Info
  <1>2. TypeOK'
    <2>1. older' \subseteq here' \X here' /\ here' \subseteq Dirs
      BY DEF IInv, TypeOK, Prepare, Newest
    <2> QED
      BY <1>1, <2>1 DEF IInv, TypeOK, Prepare
  <1>3. build' = [build EXCEPT ![w] = b] /\ ~Working(w)
    BY DEF Prepare, Hires
  <1>4. /\ d \in here' /\ info'[d].age = 0
        /\ here \subseteq here'
        /\ \A e \in here : info'[e] = info[e]
        /\ scan \subseteq here
    <2>1. CASE Free(d) /\ here' = here \cup {d} /\ info' = [info EXCEPT ![d] = i]
      BY <2>1 DEF Free, IInv, TypeOK, ScanInv
    <2>2. CASE d \in here /\ info[d].fresh /\ UNCHANGED <<here, info>>
      BY <2>2 DEF IInv, ScanInv
    <2> QED
      BY <2>1, <2>2 DEF Prepare
  <1>5. \A v \in Builders : Working(v)' => v = w \/ (Working(v) /\ build'[v] = build[v])
    BY <1>3 DEF Working, IInv, TypeOK
  <1>6. build'[w] = b
    BY <1>3 DEF IInv, TypeOK
  <1>7. BuildInv'
    BY <1>4, <1>5, <1>6 DEF BuildInv, IInv, Working
  <1>8. ScanInv'
    <2>1. \A e \in here' : info'[e].fresh => info'[e].age = 0
      BY <1>4 DEF Prepare, IInv, ScanInv, Free
    <2> QED
      BY <1>4, <2>1 DEF Prepare, IInv, ScanInv
  <1>9. TargetsIsolated'
    BY <1>5, <1>6 DEF TargetsIsolated, IInv
  <1> QED
    BY <1>2, <1>7, <1>8, <1>9 DEF IInv

(* Only the state of one build and its target change.                      *)
LEMMA CloneInv ==
    ASSUME IInv, NEW w \in Builders, CloneTarget(w)
    PROVE  IInv'
  <1> DEFINE d == build[w].dir
  <1>1. build[w] \in Build /\ d \in Dirs /\ d \in here /\ Working(w)
    BY DEF IInv, TypeOK, Working, BuildInv, CloneTarget, Build
  <1>2. /\ build' = [build EXCEPT ![w] = [build[w] EXCEPT !.pc = "cloned"]]
        /\ info' = [info EXCEPT ![d] = [info[d] EXCEPT !.empty = FALSE]]
    BY DEF CloneTarget
  <1>3. [build[w] EXCEPT !.pc = "cloned"] \in Build
    BY <1>1 DEF Build
  <1>4. [info[d] EXCEPT !.empty = FALSE] \in Info
    <2>1. info[d] \in Info
      BY <1>1 DEF IInv, TypeOK
    <2> QED
      BY <2>1 DEF Info
  <1>5. TypeOK'
    BY <1>2, <1>3, <1>4 DEF IInv, TypeOK, CloneTarget
  <1>6. \A e \in Dirs : /\ info'[e].age = info[e].age /\ info'[e].fresh = info[e].fresh
                        /\ info'[e].empty => info[e].empty
    BY <1>2 DEF IInv, TypeOK, Info
  <1>7. ~info'[d].empty
    BY <1>1, <1>2 DEF IInv, TypeOK, Info
  <1>8. \A v \in Builders :
          /\ Working(v)' => Working(v)
          /\ Working(v) => /\ build'[v].dir = build[v].dir /\ build'[v].time = build[v].time
                           /\ v # w => build'[v] = build[v]
    BY <1>1, <1>2 DEF IInv, TypeOK, Working, Build
  <1>9. BuildInv'
    <2> SUFFICES ASSUME NEW v \in Builders, Working(v)'
                 PROVE  /\ build'[v].dir \in here' /\ info'[build'[v].dir].age <= build'[v].time
                        /\ build'[v].pc = "cloned" => ~info'[build'[v].dir].empty
      BY DEF BuildInv
    <2>1. Working(v) /\ build[v].dir \in Dirs
      BY <1>8 DEF IInv, TypeOK, Working, Build
    <2> QED
      BY <1>1, <1>6, <1>7, <1>8, <2>1 DEF IInv, BuildInv, CloneTarget
  <1>10. ScanInv'
    BY <1>6 DEF IInv, TypeOK, ScanInv, CloneTarget
  <1>11. TargetsIsolated'
    <2>1. \A v \in Builders : Working(v) /\ v # w /\ build[v].pc = "cloned" => build[v].dir # d
      BY <1>1 DEF IInv, BuildInv, CloneTarget
    <2> QED
      BY <1>1, <1>8, <2>1 DEF IInv, TargetsIsolated
  <1> QED
    BY <1>5, <1>9, <1>10, <1>11 DEF IInv

(* A build that ends leaves its directory.                                 *)
LEMMA EndInv ==
    ASSUME IInv, NEW w \in Builders, EndBuild(w)
    PROVE  IInv'
  BY DEF IInv, TypeOK, BuildInv, ScanInv, TargetsIsolated, EndBuild, Working

(* A class that changes changes no build.                                  *)
LEMMA ReclassifyInv ==
    ASSUME IInv, NEW f \in Features, NEW c \in Classes, Reclassify(f, c)
    PROVE  IInv'
  <1>1. TypeOK'
    BY DEF IInv, TypeOK, Reclassify
  <1> QED
    BY <1>1 DEF IInv, BuildInv, ScanInv, TargetsIsolated, Reclassify, Working

(* When a unit passes, builds and their directories grow older together.   *)
LEMMA TickInv ==
    ASSUME IInv, Tick
    PROVE  IInv'
  <1>1. \A d \in Dirs : Aged(d) \in Info /\ Aged(d).empty = info[d].empty
                        /\ Aged(d).age <= info[d].age + 1 /\ (d \in here => ~Aged(d).fresh)
    <2> SUFFICES ASSUME NEW d \in Dirs
                 PROVE  Aged(d) \in Info /\ Aged(d).empty = info[d].empty
                        /\ Aged(d).age <= info[d].age + 1 /\ (d \in here => ~Aged(d).fresh)
      OBVIOUS
    <2>1. info[d] \in Info
      BY DEF IInv, TypeOK
    <2>2. info[d].age \in 0 .. Oldest /\ Oldest \in Nat
      BY <2>1, RetentionAssumption DEF Info
    <2>3. CASE d \notin here
      BY <2>1, <2>2, <2>3 DEF Aged
    <2>4. CASE d \in here
      <3> DEFINE a == IF info[d].age < Oldest THEN info[d].age + 1 ELSE info[d].age
      <3>1. a \in 0 .. Oldest /\ a <= info[d].age + 1
        BY <2>2
      <3>2. Aged(d) = [info[d] EXCEPT !.age = a, !.fresh = FALSE]
        BY <2>4 DEF Aged
      <3> HIDE DEF a
      <3> QED
        BY <2>1, <3>1, <3>2 DEF Info
    <2> QED
      BY <2>3, <2>4
  <1>2. \A w \in Builders : Working(w) =>
           /\ build[w] \in Build /\ build'[w] \in Build /\ build'[w].dir = build[w].dir
           /\ build'[w].pc = build[w].pc /\ build'[w].time = build[w].time + 1
    BY RetentionAssumption DEF IInv, TypeOK, Tick, Build, Working
  <1>3. \A w \in Builders : Working(w)' <=> Working(w)
    BY <1>2, BuildIsNotNone DEF Tick, Working
  <1>4. TypeOK'
    BY <1>1, <1>2 DEF IInv, TypeOK, Tick, Working
  <1>5. BuildInv'
    <2> SUFFICES ASSUME NEW w \in Builders, Working(w)'
                 PROVE  /\ build'[w].dir \in here' /\ info'[build'[w].dir].age <= build'[w].time
                        /\ build'[w].pc = "cloned" => ~info'[build'[w].dir].empty
      BY DEF BuildInv
    <2>1. /\ Working(w) /\ build[w].dir \in Dirs /\ build[w].time \in Nat
          /\ info[build[w].dir].age \in Nat /\ Aged(build[w].dir).age \in Nat
          /\ info[build[w].dir].age <= build[w].time
          /\ build[w].dir \in here
          /\ build[w].pc = "cloned" => ~info[build[w].dir].empty
      BY <1>1, <1>2, <1>3, RetentionAssumption DEF IInv, TypeOK, BuildInv, Build, Info
    <2>2. info'[build[w].dir] = Aged(build[w].dir)
      BY <2>1 DEF Tick
    <2> QED
      BY <1>1, <1>2, <2>1, <2>2 DEF Tick
  <1>6. ScanInv'
    BY <1>1 DEF IInv, TypeOK, ScanInv, Tick
  <1>7. TargetsIsolated'
    BY <1>2, <1>3 DEF IInv, TargetsIsolated
  <1> QED
    BY <1>4, <1>5, <1>6, <1>7 DEF IInv

(* A run begins with directories that exist.                               *)
LEMMA ScanStartInv ==
    ASSUME IInv, ScanStart
    PROVE  IInv'
  <1>1. scan' \subseteq here
    BY DEF ScanStart
  <1>2. TypeOK'
    BY <1>1, RetentionAssumption DEF IInv, TypeOK, ScanStart, Info
  <1> QED
    BY <1>1, <1>2 DEF IInv, TypeOK, BuildInv, ScanInv, TargetsIsolated, ScanStart, Working

(* What every visit does to the run.                                       *)
LEMMA VisitedReads ==
    ASSUME IInv, NEW d \in Dirs, Visited(d)
    PROVE  scan' = scan \ {d} /\ d \in scan /\ d \in here
  BY DEF IInv, ScanInv, Visited

(* A directory is kept.                                                    *)
LEMMA KeepInv ==
    ASSUME IInv, NEW d \in Dirs, Keep(d)
    PROVE  IInv'
  <1>1. Visited(d) /\ UNCHANGED <<here, older, info, class, build>>
    BY DEF Keep, Visited
  <1>2. TypeOK'
    BY <1>1, VisitedReads DEF IInv, TypeOK
  <1> QED
    BY <1>1, <1>2, VisitedReads DEF IInv, BuildInv, ScanInv, TargetsIsolated, Working

(* A directory that no build uses goes.                                    *)
LEMMA RemoveInv ==
    ASSUME IInv, NEW d \in Dirs, Remove(d)
    PROVE  IInv'
  <1>1. Visited(d) /\ Expired(d) /\ UNCHANGED <<class, build>> /\ d \in scan
    BY DEF Remove, Visited
  <1>2. \A w \in Builders : Working(w) => build[w].dir # d
    BY <1>1, ExpiredIsUnused
  <1>3. Unused \in Info
    BY NamesAssumption, RetentionAssumption DEF Unused, Info
  <1>4. TypeOK'
    BY <1>1, <1>3, VisitedReads DEF IInv, TypeOK, Remove
  <1>5. \A e \in Dirs \ {d} : info'[e] = info[e]
    BY DEF Remove, IInv, TypeOK
  <1>6. here' = here \ {d}
    BY DEF Remove
  <1>7. BuildInv'
    BY <1>1, <1>2, <1>5, <1>6 DEF IInv, TypeOK, BuildInv, Working, Build
  <1>8. ScanInv'
    BY <1>1, <1>5, <1>6, VisitedReads DEF IInv, TypeOK, ScanInv
  <1> QED
    BY <1>1, <1>4, <1>7, <1>8, VisitedReads DEF IInv, TargetsIsolated, Working

(* One that cannot be removed may look new afterwards.                     *)
LEMMA RemoveFailsInv ==
    ASSUME IInv, NEW d \in Dirs, RemoveFails(d)
    PROVE  IInv'
  <1>1. Visited(d) /\ Expired(d) /\ UNCHANGED <<here, class, build>> /\ d \in scan
    BY DEF RemoveFails, Visited
  <1>2. CASE UNCHANGED <<info, older>>
    <2>1. TypeOK'
      BY <1>1, <1>2, VisitedReads DEF IInv, TypeOK
    <2> QED
      BY <1>1, <1>2, <2>1, VisitedReads DEF IInv, BuildInv, ScanInv, TargetsIsolated, Working
  <1>3. CASE info' = [info EXCEPT ![d].age = 0] /\ older' = Newest(d, here)
    <2>1. \A w \in Builders : Working(w) => build[w].dir # d
      BY <1>1, ExpiredIsUnused
    <2>2. [info[d] EXCEPT !.age = 0] \in Info /\ info' = [info EXCEPT ![d] = [info[d] EXCEPT !.age = 0]]
      BY <1>3, RetentionAssumption DEF IInv, TypeOK, Info
    <2>3. Newest(d, here) \subseteq here \X here
      BY <1>1, VisitedReads DEF IInv, TypeOK, Newest
    <2>4. TypeOK'
      BY <1>1, <1>3, <2>2, <2>3, VisitedReads DEF IInv, TypeOK
    <2>5. (\A e \in Dirs \ {d} : info'[e] = info[e]) /\ info'[d].age = 0
      BY <2>2 DEF IInv, TypeOK, Info
    <2>6. BuildInv'
      BY <1>1, <2>1, <2>5 DEF IInv, TypeOK, BuildInv, Working, Build
    <2>7. ScanInv'
      BY <1>1, <2>5, VisitedReads DEF IInv, TypeOK, ScanInv
    <2> QED
      BY <1>1, <2>4, <2>6, <2>7, VisitedReads DEF IInv, TargetsIsolated, Working
  <1> QED
    BY <1>2, <1>3 DEF RemoveFails

(* Every step keeps the invariant.                                         *)
LEMMA NextInv == IInv /\ [Next]_vars => IInv'
  <1> SUFFICES ASSUME IInv, [Next]_vars PROVE IInv'
    OBVIOUS
  <1>1. ASSUME NEW w \in Builders, NEW f \in Features, NEW d \in Dirs, Prepare(w, f, d) PROVE IInv'
    BY <1>1, PrepareInv
  <1>2. ASSUME NEW w \in Builders, CloneTarget(w) \/ EndBuild(w) PROVE IInv'
    BY <1>2, CloneInv, EndInv
  <1>3. ASSUME NEW f \in Features, NEW c \in Classes, Reclassify(f, c) PROVE IInv'
    BY <1>3, ReclassifyInv
  <1>4. ASSUME NEW d \in Dirs, Keep(d) \/ Remove(d) \/ RemoveFails(d) PROVE IInv'
    BY <1>4, KeepInv, RemoveInv, RemoveFailsInv
  <1>5. CASE Tick \/ ScanStart
    BY <1>5, TickInv, ScanStartInv
  <1>6. CASE UNCHANGED vars
    BY <1>6 DEF vars, IInv, TypeOK, BuildInv, ScanInv, TargetsIsolated, Working
  <1> QED
    BY <1>1, <1>2, <1>3, <1>4, <1>5, <1>6 DEF Next

(* The invariant holds always.                                             *)
THEOREM WorkspacesInvariant == Spec => []IInv
  BY InitInv, NextInv, PTL DEF Spec

(* The types of Workspaces are right.                                      *)
THEOREM WorkspacesTyped == Spec => []TypeOK
  <1>1. IInv => TypeOK
    BY DEF IInv
  <1> QED
    BY <1>1, WorkspacesInvariant, PTL

(* Cleanup never takes a directory from a running build, whatever its      *)
(* feature's row says and whatever other builds do.                        *)
THEOREM RunningBuildsKeepTheirDirectory == Spec => []RunningKept
  <1>1. IInv => RunningKept
    BY DEF IInv, BuildInv, RunningKept
  <1> QED
    BY <1>1, WorkspacesInvariant, PTL

(* No two running builds have cloned into one directory.                   *)
THEOREM BuildsAreIsolated == Spec => []TargetsIsolated
  <1>1. IInv => TargetsIsolated
    BY DEF IInv
  <1> QED
    BY <1>1, WorkspacesInvariant, PTL
=============================================================================

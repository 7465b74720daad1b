----------------------------- MODULE Workspaces -----------------------------
(***************************************************************************)
(* The directories builds work in.  A worker makes one per build, named    *)
(* for its feature and the second, fills it with reference snapshots and a *)
(* clone of the target, and leaves it.  The cleanup worker removes old     *)
(* directories, a batch of the oldest at a time, each after the time its   *)
(* feature's row grants it at the moment it is visited.                    *)
(*                                                                         *)
(* Time is counted in units, and an age stops counting once it exceeds     *)
(* every retention.  A build ends within its job timeout.                  *)
(***************************************************************************)
EXTENDS Naturals, FiniteSets

CONSTANTS
    Features,
    Dirs,         \* directory names
    Builders,     \* workers
    Classes,      \* what a row says of its feature: it has a PR, failed, or neither
    Retention,    \* units each class is kept
    Oldest,       \* bound: ages are counted up to here
    BuildLimit,   \* units a build may take: RQ's job timeout
    MaxPerRun,    \* workspace_cleanup_max_per_run
    Undeletable,  \* directories that rmtree fails on
    None

ASSUME RetentionAssumption ==
    /\ Retention \in [Classes -> 1 .. Oldest] /\ Oldest \in Nat
    /\ BuildLimit \in Nat /\ \A c \in Classes : BuildLimit < Retention[c]
    /\ MaxPerRun \in Nat
ASSUME NamesAssumption == Features # {} /\ None \notin Classes

VARIABLES
    here,    \* the directories that exist
    older,   \* pairs of them in the order of their modification times
    info,    \* of a directory: feature, age, made in this second, target empty
    class,   \* what each feature's row says
    build,   \* what each worker does
    scan     \* directories the cleanup run has still to visit

vars == <<here, older, info, class, build, scan>>

Info  == [feature : Features, age : 0 .. Oldest, fresh : BOOLEAN, empty : BOOLEAN]
Build == [pc : {"prepared", "cloned"}, dir : Dirs, time : 0 .. BuildLimit]

ASSUME BuildAssumption == None \notin Build

Unused == [feature |-> CHOOSE f \in Features : TRUE, age |-> 0, fresh |-> FALSE, empty |-> TRUE]

TypeOK ==
    /\ here \subseteq Dirs
    /\ older \subseteq here \X here
    /\ info \in [Dirs -> Info]
    /\ class \in [Features -> Classes]
    /\ build \in [Builders -> Build \cup {None}]
    /\ scan \subseteq Dirs

Init ==
    /\ here = {} /\ older = {}
    /\ info = [d \in Dirs |-> Unused]
    /\ class \in [Features -> Classes]
    /\ build = [w \in Builders |-> None]
    /\ scan = {}

Working(w) == build[w] # None

(* A directory that is made, or changed in its top level, is the newest.   *)
Newest(d, others) == {p \in older : d \notin {p[1], p[2]}} \cup {<<o, d>> : o \in others \ {d}}

-----------------------------------------------------------------------------
(* Builds.                                                                 *)

(* Idle workers are alike, and so are free names.                          *)
Hires(w) == ~Working(w) /\ w = CHOOSE v \in Builders : ~Working(v)
Free(d)  == d \notin here /\ (d \notin Undeletable => d = CHOOSE e \in Dirs : e \notin here \cup Undeletable)

(* prepare_workspace makes the directory, unless a build of the feature in *)
(* the same second has made it already, copies or clones the references    *)
(* into it, each of which may fail, and writes the manifest.               *)
Prepare(w, f, d) ==
    /\ Hires(w)
    /\ \/ /\ Free(d)
          /\ here' = here \cup {d}
          /\ info' = [info EXCEPT ![d] = [feature |-> f, age |-> 0, fresh |-> TRUE, empty |-> TRUE]]
       \/ /\ d \in here /\ info[d].feature = f /\ info[d].fresh
          /\ UNCHANGED <<here, info>>
    /\ older' = Newest(d, here)
    /\ build' = [build EXCEPT ![w] = [pc |-> "prepared", dir |-> d, time |-> 0]]
    /\ UNCHANGED <<class, scan>>

(* Mutation: the target is not looked at.                                  *)
CloneTargetMutant(w) ==
    /\ Working(w) /\ build[w].pc = "prepared"
    /\ build' = [build EXCEPT ![w].pc = "cloned"]
    /\ info' = [info EXCEPT ![build[w].dir].empty = FALSE]
    /\ UNCHANGED <<here, older, class, scan>>

(* The code runner clones the target into an empty directory only.         *)
CloneTarget(w) ==
    /\ Working(w) /\ build[w].pc = "prepared" /\ info[build[w].dir].empty
    /\ build' = [build EXCEPT ![w].pc = "cloned"]
    /\ info' = [info EXCEPT ![build[w].dir].empty = FALSE]
    /\ UNCHANGED <<here, older, class, scan>>

(* A build succeeds, fails (at the latest on a target that is not empty),  *)
(* times out or dies; its directory stays.                                 *)
EndBuild(w) ==
    /\ Working(w)
    /\ build' = [build EXCEPT ![w] = None]
    /\ UNCHANGED <<here, older, info, class, scan>>

(* Some other transaction changes what the row says.                       *)
Reclassify(f, c) ==
    /\ class' = [class EXCEPT ![f] = c]
    /\ UNCHANGED <<here, older, info, build, scan>>

Aged(d) ==
    IF d \notin here THEN info[d] ELSE [info[d] EXCEPT !.age = IF @ < Oldest THEN @ + 1 ELSE @, !.fresh = FALSE]

(* Mutation: nothing ends a build at its timeout.                          *)
TickMutant ==
    /\ scan = {}
    /\ info' = [d \in Dirs |-> Aged(d)]
    /\ build' = [w \in Builders |-> IF ~Working(w) \/ build[w].time = BuildLimit THEN build[w]
                                    ELSE [build[w] EXCEPT !.time = @ + 1]]
    /\ UNCHANGED <<here, older, class, scan>>

(* A unit passes; a cleanup run does not last that long, and a build is    *)
(* ended at its timeout.                                                   *)
Tick ==
    /\ scan = {}
    /\ \A w \in Builders : Working(w) => build[w].time < BuildLimit
    /\ info' = [d \in Dirs |-> Aged(d)]
    /\ build' = [w \in Builders |-> IF Working(w) THEN [build[w] EXCEPT !.time = @ + 1] ELSE build[w]]
    /\ UNCHANGED <<here, older, class, scan>>

-----------------------------------------------------------------------------
(* The cleanup worker.                                                     *)

(* Mutation: the newest directories.                                       *)
BatchMutant(B) ==
    /\ B \subseteq here
    /\ Cardinality(B) = MaxPerRun \/ (B = here /\ Cardinality(here) < MaxPerRun)
    /\ \A b \in B, o \in here \ B : <<o, b>> \in older

(* candidates[:max_per_run]: the oldest directories.                       *)
Batch(B) ==
    /\ B \subseteq here
    /\ Cardinality(B) = MaxPerRun \/ (B = here /\ Cardinality(here) < MaxPerRun)
    /\ \A b \in B, o \in here \ B : <<b, o>> \in older

ScanStart ==
    /\ scan = {} /\ here # {}
    /\ \E B \in SUBSET here : Batch(B) /\ scan' = B
    /\ UNCHANGED <<here, older, info, class, build>>

(* The age and the retention are read when the directory is visited: the   *)
(* session keeps no row between two directories.                           *)
Expired(d) == info[d].age >= Retention[class[info[d].feature]]

Visited(d) ==
    /\ d \in scan
    /\ scan' = scan \ {d}
    /\ UNCHANGED <<class, build>>

Keep(d) == Visited(d) /\ ~Expired(d) /\ UNCHANGED <<here, older, info>>

(* Mutation: what was removed is still listed.                             *)
RemoveMutant(d) ==
    /\ Visited(d) /\ Expired(d) /\ d \notin Undeletable
    /\ here' = here \ {d}
    /\ info' = [info EXCEPT ![d] = Unused] /\ UNCHANGED older

Remove(d) ==
    /\ Visited(d) /\ Expired(d) /\ d \notin Undeletable
    /\ here' = here \ {d}
    /\ older' = {p \in older : d \notin {p[1], p[2]}}
    /\ info' = [info EXCEPT ![d] = Unused]

(* rmtree fails, before or after it has removed something.                 *)
RemoveFails(d) ==
    /\ Visited(d) /\ Expired(d) /\ d \in Undeletable
    /\ \/ UNCHANGED <<info, older>>
       \/ info' = [info EXCEPT ![d].age = 0] /\ older' = Newest(d, here)
    /\ UNCHANGED here

Visit == \E d \in Dirs : Keep(d) \/ Remove(d) \/ RemoveFails(d)

Next ==
    \/ \E w \in Builders :
        \/ \E f \in Features, d \in Dirs : Prepare(w, f, d)
        \/ CloneTarget(w) \/ EndBuild(w)
    \/ \E f \in Features, c \in Classes : Reclassify(f, c)
    \/ Tick \/ ScanStart
    \/ \E d \in Dirs : Keep(d) \/ Remove(d) \/ RemoveFails(d)

Spec == Init /\ [][Next]_vars

(* Time passes, builds end (at the job timeout), and the cleanup worker    *)
(* runs its batch to the end, sleeps and starts again.                     *)
FairSpec ==
    /\ Spec
    /\ SF_vars(Tick) /\ WF_vars(ScanStart) /\ WF_vars(Visit)
    /\ \A w \in Builders : WF_vars(EndBuild(w))

-----------------------------------------------------------------------------
(* No build loses its directory while it runs, although the age counts     *)
(* from the last change of the directory's top level, the clone does not   *)
(* change that, and the class that decides may be anything.                *)
RunningKept == \A w \in Builders : Working(w) => build[w].dir \in here

(* Two builds never work on one target, also when they are of one feature  *)
(* and start in one second.                                                *)
TargetsIsolated ==
    \A v, w \in Builders :
        Working(v) /\ Working(w) /\ v # w /\ build[v].pc = "cloned" /\ build[w].pc = "cloned" =>
            build[v].dir # build[w].dir

(* Every directory goes in the end: those kept longer do not fill the      *)
(* batch for ever, and neither do those that cannot be removed as long as  *)
(* they are fewer than a batch.                                            *)
EveryDirectoryGoes == \A d \in Dirs \ Undeletable : d \in here ~> d \notin here
=============================================================================

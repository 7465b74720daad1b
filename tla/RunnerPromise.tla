--------------------------- MODULE RunnerPromise ---------------------------
(***************************************************************************)
(* What a code runner promises the build worker: it opens at most one      *)
(* pull request, with a tree it has accepted, reports success only of one  *)
(* that exists, and then does nothing more.                                *)
(***************************************************************************)
CONSTANTS Trees, None

VARIABLES accepted, pr, outcome

Init == accepted = None /\ pr = None /\ outcome = "running"

Accept(t) ==
    /\ outcome = "running" /\ pr = None
    /\ accepted' = t /\ UNCHANGED <<pr, outcome>>

(* A runner may fail or die before it learns that it has opened one.       *)
Open ==
    /\ outcome = "running" /\ pr = None /\ accepted # None
    /\ pr' = accepted /\ outcome' \in {"running", "opened", "failed"}
    /\ UNCHANGED accepted

End(o) ==
    /\ outcome = "running" /\ (o = "opened" => pr # None)
    /\ outcome' = o /\ UNCHANGED <<accepted, pr>>

Next ==
    \/ \E t \in Trees : Accept(t)
    \/ Open
    \/ \E o \in {"opened", "failed", "dead"} : End(o)

Spec == Init /\ [][Next]_<<accepted, pr, outcome>>
=============================================================================

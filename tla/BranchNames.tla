---------------------------- MODULE BranchNames ----------------------------
(***************************************************************************)
(* How a base branch is chosen when a request names none, and in which     *)
(* order branches are offered.  The code runner and the branch catalogue   *)
(* each hold a copy of the rules.                                          *)
(*                                                                         *)
(* A name stands for all its spellings: the code compares lower case.      *)
(***************************************************************************)
EXTENDS Integers, Sequences, FiniteSets

CONSTANTS
    Names,
    Candidates,   \* STABLE_BASE_BRANCH_CANDIDATES, best first
    Generated     \* the names under one of the prefixes of pushed branches

ASSUME BranchNamesAssumption ==
    Candidates \in Seq(Names) /\ Generated \subseteq Names /\ "" \notin Names

Among(bs)   == {bs[i] : i \in 1 .. Len(bs)}
At(bs, b)   == CHOOSE i \in 1 .. Len(bs) : bs[i] = b /\ \A j \in 1 .. i - 1 : bs[j] # b
Best(bs, P) == bs[CHOOSE i \in 1 .. Len(bs) : bs[i] \in P /\ \A j \in 1 .. i - 1 : bs[j] \notin P]

(* stable_branch_fallback: the default unless it is generated, else the    *)
(* best candidate there is, else the first branch that is not generated.   *)
StableFallback(bs, default) ==
    LET fit == Among(bs) \ Generated IN
    IF default # "" /\ default \notin Generated THEN default
    ELSE IF Among(Candidates) \cap fit # {} THEN Best(Candidates, fit)
    ELSE IF fit # {} THEN Best(bs, fit) ELSE ""

(* Mutation: candidates and worktrees rank whatever their names.           *)
BucketMutant(b, default, worktree) ==
    IF b = default THEN <<0, 0>>
    ELSE IF b \in worktree THEN <<1, 0>>
    ELSE IF b \in Among(Candidates) THEN <<2, At(Candidates, b)>>
    ELSE IF b \notin Generated THEN <<3, 0>> ELSE <<5, 0>>

(* sort_branch_names_for_selection: _bucket.                               *)
Bucket(b, default, worktree) ==
    IF b = default THEN <<0, 0>>
    ELSE IF b \in worktree /\ b \notin Generated THEN <<1, 0>>
    ELSE IF b \in Among(Candidates) \ Generated THEN <<2, At(Candidates, b)>>
    ELSE IF b \notin Generated THEN <<3, 0>>
    ELSE IF b \in worktree THEN <<4, 0>> ELSE <<5, 0>>

Sooner(p, q) == p[1] < q[1] \/ (p[1] = q[1] /\ p[2] < q[2])

(* What was listed first of each bucket comes first.                       *)
Precedes(bs, default, worktree, a, b) ==
    LET p == Bucket(a, default, worktree)
        q == Bucket(b, default, worktree)
    IN Sooner(p, q) \/ (p = q /\ At(bs, a) < At(bs, b))

(* bs holds no name twice.                                                 *)
Sorted(bs, default, worktree) ==
    [i \in 1 .. Len(bs) |->
        CHOOSE b \in Among(bs) :
            Cardinality({a \in Among(bs) : Precedes(bs, default, worktree, a, b)}) = i - 1]
=============================================================================

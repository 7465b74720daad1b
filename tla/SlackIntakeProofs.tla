-------------------------- MODULE SlackIntakeProofs --------------------------
(***************************************************************************)
(* Proofs about SlackIntake, for any number of handlers, texts, events and *)
(* faults.  Its thirty-odd actions are first reduced to a few shapes, by   *)
(* what a step does to the handler, the session object, the cache, the row *)
(* and the thread; the invariants are then shown shape by shape.           *)
(***************************************************************************)
EXTENDS SlackIntake, FiniteSetTheorems, FunctionTheorems, TLAPS

-----------------------------------------------------------------------------
(* Queues and questions.                                                    *)

(* Numbers of a finite set are ranked 0, 1, ... without a gap.             *)
LEMMA Ranks ==
    ASSUME NEW I \in SUBSET Nat, IsFiniteSet(I)
    PROVE  /\ Cardinality(I) \in Nat
           /\ \A k \in 1 .. Cardinality(I) : \E i \in I : Cardinality({j \in I : j < i}) = k - 1
<1> DEFINE n == Cardinality(I)
           Below(i) == {j \in I : j < i}
           rank == [i \in I |-> Cardinality(Below(i))]
<1>1. n \in Nat
  BY FS_CardinalityType
<1>2. ASSUME NEW i \in I
      PROVE  IsFiniteSet(Below(i)) /\ Cardinality(Below(i)) \in 0 .. n - 1
  <2>1. Below(i) \in SUBSET I /\ Below(i) # I
    OBVIOUS
  <2>2. IsFiniteSet(Below(i)) /\ Cardinality(Below(i)) <= n /\ Cardinality(Below(i)) # n
    BY <2>1, FS_Subset
  <2>3. Cardinality(Below(i)) \in Nat
    BY <2>2, FS_CardinalityType
  <2> QED BY <1>1, <2>2, <2>3
<1>3. ASSUME NEW i \in I, NEW j \in I, i < j PROVE rank[i] < rank[j]
  <2>1. Below(i) \in SUBSET Below(j) /\ i \in Below(j) /\ i \notin Below(i)
    <3>1. i \in Nat /\ j \in Nat /\ \A k \in I : k \in Nat
      OBVIOUS
    <3>2. \A k \in I : k < i => k < j
      BY <1>3, <3>1
    <3>3. Below(i) \in SUBSET Below(j)
      BY <3>2
    <3> QED BY <1>3, <3>1, <3>3
  <2>2. Cardinality(Below(i)) <= Cardinality(Below(j)) /\ Cardinality(Below(i)) # Cardinality(Below(j))
    BY <1>2, <2>1, FS_Subset
  <2>3. Cardinality(Below(i)) \in Nat /\ Cardinality(Below(j)) \in Nat
    BY <1>2, <1>1
  <2> QED BY <2>2, <2>3
<1>4. rank \in [I -> 0 .. n - 1]
  BY <1>2
<1>5. \A i, j \in I : rank[i] = rank[j] => i = j
  BY <1>1, <1>3, <1>4
<1>6. rank \in Injection(I, 0 .. n - 1)
  BY <1>4, <1>5, Fun_IsInj
<1>7. IsFiniteSet(0 .. n - 1) /\ Cardinality(0 .. n - 1) = n
  <2>1. 0 \in Int /\ n - 1 \in Int /\ ~(0 > n - 1 /\ n # 0) /\ n - 1 - 0 + 1 = n /\ (n = 0 => 0 > n - 1)
    BY <1>1
  <2> HIDE DEF n
  <2> QED BY <1>1, <2>1, FS_Interval
<1>8. rank \in Surjection(I, 0 .. n - 1)
  BY <1>6, <1>7, FS_Injection
<1>9. ASSUME NEW k \in 1 .. n PROVE \E i \in I : Cardinality(Below(i)) = k - 1
  <2>1. k - 1 \in 0 .. n - 1
    BY <1>1
  <2> HIDE DEF n
  <2>2. PICK i \in I : rank[i] = k - 1
    <3> DEFINE T == 0 .. n - 1
    <3> HIDE DEF rank, T
    <3>1. rank \in Surjection(I, T) /\ k - 1 \in T
      BY <1>8, <2>1 DEF T
    <3>2. \A t \in T : \E s \in I : rank[s] = t
      BY <3>1, Fun_SurjectionProperties
    <3> QED BY <3>1, <3>2
  <2> QED BY <2>2
<1> QED BY <1>1, <1>9

(* Only keeps the fields of F, in their order.                              *)
LEMMA OnlyInOrder ==
    ASSUME NEW q \in Seq(Fields), NEW F
    PROVE  Only(q, F) \in Seq(Fields)
<1> DEFINE kept == {i \in DOMAIN q : q[i] \in F}
           n == Cardinality(kept)
           At(k) == CHOOSE i \in kept : Cardinality({j \in kept : j < i}) = k - 1
<1>1. kept \in SUBSET Nat /\ IsFiniteSet(kept)
  <2>1. kept \in SUBSET (1 .. Len(q)) /\ Len(q) \in Nat
    OBVIOUS
  <2>2. IsFiniteSet(1 .. Len(q))
    BY <2>1, FS_Interval
  <2>3. kept \in SUBSET Nat
    BY <2>1
  <2> HIDE DEF kept
  <2> DEFINE S == 1 .. Len(q)
  <2> HIDE DEF S
  <2>4. kept \in SUBSET S /\ IsFiniteSet(S)
    BY <2>1, <2>2 DEF S
  <2> QED BY <2>3, <2>4, FS_Subset
<1>2. n \in Nat /\ \A k \in 1 .. n : \E i \in kept : Cardinality({j \in kept : j < i}) = k - 1
  <2> HIDE DEF kept
  <2> QED BY <1>1, Ranks
<1>3. ASSUME NEW k \in 1 .. n PROVE q[At(k)] \in Fields
  <2>1. At(k) \in kept
    BY <1>2
  <2> HIDE DEF At, n
  <2> QED BY <2>1
<1>4. [k \in 1 .. n |-> q[At(k)]] \in Seq(Fields)
  <2> HIDE DEF n, At
  <2> QED BY <1>2, <1>3
<1> QED BY <1>4 DEF Only

(* First is the least number of a set that is not empty.                    *)
LEMMA FirstIsLeast ==
    ASSUME NEW I \in SUBSET Nat, IsFiniteSet(I), I # {}
    PROVE  First(I) \in I /\ \A j \in I : First(I) <= j
<1>1. Cardinality(I) \in Nat /\ Cardinality(I) # 0
  BY FS_CardinalityType, FS_EmptySet
<1>2. PICK i \in I : Cardinality({j \in I : j < i}) = 0
  BY <1>1, Ranks
<1>3. {j \in I : j < i} = {}
  <2>1. IsFiniteSet({j \in I : j < i})
    BY FS_Subset
  <2> QED BY <1>2, <2>1, FS_EmptySet
<1>4. \A j \in I : i <= j
  BY <1>3
<1> QED BY <1>4 DEF First

(* Two sessions that differ in their answers and their queue at most, or   *)
(* in what a dropdown records.                                             *)
Alike(s, t) ==
    /\ t \in Session
    /\ t.mode = s.mode /\ t.flow = s.flow /\ t.base = s.base /\ t.awaiting = s.awaiting
    /\ t.confirmed = s.confirmed /\ t.editing = s.editing /\ t.target = s.target

(* A session whose queue is replaced is a session.                          *)
LEMMA QueueReplaced ==
    ASSUME NEW s \in Session, NEW q \in Seq(Fields)
    PROVE  LET t == [s EXCEPT !.queue = q]
           IN  Alike(s, t) /\ t.queue = q /\ t.ans = s.ans /\ t.dev = s.dev /\ t.asked = s.asked
<1>1. [s EXCEPT !.queue = q] \in Session
  BY DEF Session
<1> QED BY <1>1 DEF Session, Alike

(* A session's queue is a sequence of fields.                               *)
LEMMA QueueIs ==
    ASSUME NEW s \in Session
    PROVE  s.queue \in Seq(Fields) /\ Len(s.queue) \in Nat
<1>1. s.queue \in Seq(Fields)
  BY DEF Session
<1> QED BY <1>1

(* The questions that still apply are numbers of the queue.                 *)
LEMMA Pendings ==
    ASSUME NEW s \in Session
    PROVE  /\ Pending(s) \in SUBSET Nat /\ IsFiniteSet(Pending(s))
           /\ Pending(s) \in SUBSET (1 .. Len(s.queue))
           /\ Pending(s) # {} => /\ First(Pending(s)) \in Pending(s)
                                 /\ \A j \in Pending(s) : First(Pending(s)) <= j
<1>1. s.queue \in Seq(Fields) /\ Len(s.queue) \in Nat
  BY QueueIs
<1>2. Pending(s) \in SUBSET (1 .. Len(s.queue))
  BY <1>1 DEF Pending
<1>3. Pending(s) \in SUBSET Nat /\ IsFiniteSet(Pending(s))
  <2>1. IsFiniteSet(1 .. Len(s.queue)) /\ Pending(s) \in SUBSET Nat
    BY <1>1, <1>2, FS_Interval
  <2> QED BY <1>2, <2>1, FS_Subset
<1> QED BY <1>2, <1>3, FirstIsLeast

(* Peek is empty when no question applies, and a question of the queue     *)
(* otherwise.                                                              *)
LEMMA PeekIs ==
    ASSUME NEW s \in Session
    PROVE  /\ Peek(s) = "" <=> Pending(s) = {}
           /\ Peek(s) # "" => Peek(s) \in Fields /\ s.queue # <<>>
<1>1. CASE Pending(s) = {}
  BY <1>1 DEF Peek
<1>2. CASE Pending(s) # {}
  <2>1. First(Pending(s)) \in 1 .. Len(s.queue)
    BY <1>2, Pendings
  <2>2. s.queue[First(Pending(s))] \in Fields
    BY <2>1, QueueIs
  <2>3. s.queue # <<>>
    BY <2>1
  <2>4. Peek(s) \in Fields /\ "" \notin Fields
    BY <1>2, <2>2 DEF Peek, Fields
  <2> QED BY <1>2, <2>3, <2>4
<1> QED BY <1>1, <1>2

(* Pruning changes nothing but the queue, and nothing a second time.       *)
LEMMA PruningIs ==
    ASSUME NEW s \in Session
    PROVE  /\ Alike(s, Pruned(s)) /\ Pruned(s).ans = s.ans /\ Pruned(s).dev = s.dev
           /\ Pruned(s).asked = s.asked
           /\ Pruned(s) = [s EXCEPT !.queue = Pruned(s).queue]
           /\ Pending(Pruned(s)) = {} <=> Pending(s) = {}
           /\ Pruned(Pruned(s)) = Pruned(s)
<1> DEFINE q == s.queue
           t == Pruned(s)
           n == Len(q)
<1>1. q \in Seq(Fields) /\ n \in Nat
  BY QueueIs
<1>2. CASE Pending(s) = {}
  <2>1. t = [s EXCEPT !.queue = <<>>]
    BY <1>2 DEF Pruned
  <2>2. <<>> \in Seq(Fields)
    OBVIOUS
  <2>3. Alike(s, t) /\ t.ans = s.ans /\ t.queue = <<>> /\ t.dev = s.dev /\ t.asked = s.asked
    <3> HIDE DEF t
    <3> QED BY <2>1, <2>2, QueueReplaced
  <2>4. t = [s EXCEPT !.queue = t.queue]
    BY <2>1, <2>3
  <2>5. Pending(t) = {}
    BY <2>3 DEF Pending
  <2>6. Pruned(t) = t
    <3>1. Pruned(t) = [t EXCEPT !.queue = <<>>]
      BY <2>5 DEF Pruned
    <3>2. [t EXCEPT !.queue = <<>>] = t
      BY <2>1 DEF Session
    <3> QED BY <3>1, <3>2
  <2> QED BY <1>2, <2>3, <2>4, <2>5, <2>6
<1>3. CASE Pending(s) # {}
  <2> DEFINE k == First(Pending(s))
             r == SubSeq(q, k, n)
  <2>1. k \in 1 .. n /\ Applies(s, q[k])
    BY <1>3, Pendings DEF Pending
  <2>2. r \in Seq(Fields) /\ Len(r) = n - k + 1 /\ r[1] = q[k] /\ 1 \in DOMAIN r
    BY <1>1, <2>1
  <2>3. t = [s EXCEPT !.queue = r]
    BY <1>3 DEF Pruned
  <2>4. Alike(s, t) /\ t.ans = s.ans /\ t.queue = r /\ t.dev = s.dev /\ t.asked = s.asked
    <3> HIDE DEF r, t
    <3> QED BY <2>2, <2>3, QueueReplaced
  <2>5. t = [s EXCEPT !.queue = t.queue]
    BY <2>3, <2>4
  <2>6. Applies(t, r[1])
    <3> HIDE DEF t, r, k
    <3> QED BY <2>1, <2>2, <2>4 DEF Applies, Value, Reuse, Alike
  <2>7. 1 \in Pending(t)
    <3> HIDE DEF t, r, k
    <3> QED BY <2>2, <2>4, <2>6 DEF Pending
  <2>8. First(Pending(t)) = 1
    <3> HIDE DEF t, r, k
    <3>1. t \in Session
      BY <2>4 DEF Alike
    <3>2. First(Pending(t)) \in Nat /\ First(Pending(t)) <= 1 /\ First(Pending(t)) \in 1 .. Len(t.queue)
      BY <2>7, <3>1, Pendings
    <3> QED BY <3>2
  <2>9. Pruned(t) = t
    <3>1. SubSeq(r, 1, Len(r)) = r
      <4> HIDE DEF r
      <4> QED BY <2>2
    <3>2. Pruned(t) = [t EXCEPT !.queue = r]
      <4> HIDE DEF t, r
      <4> QED BY <2>4, <2>7, <2>8, <3>1 DEF Pruned
    <3>3. [t EXCEPT !.queue = r] = t
      <4> HIDE DEF t, r
      <4> QED BY <2>3, <2>4 DEF Session
    <3> QED BY <3>2, <3>3
  <2> QED
    <3> HIDE DEF t, r, k
    <3>1. Pending(t) # {}
      BY <2>7
    <3> QED BY <1>3, <2>4, <2>5, <2>9, <3>1 DEF t
<1> QED BY <1>2, <1>3

-----------------------------------------------------------------------------
(* Answers, texts, specs.                                                   *)

(* A question dropped: nothing else of the session changes.                 *)
LEMMA Dropping ==
    ASSUME NEW s \in Session, NEW f
    PROVE  /\ Alike(s, Drop(s, f)) /\ Drop(s, f).ans = s.ans /\ Drop(s, f).dev = s.dev
           /\ Drop(s, f).asked = s.asked
<1>1. Only(s.queue, Fields \ {f}) \in Seq(Fields)
  BY QueueIs, OnlyInOrder
<1> QED BY <1>1, QueueReplaced DEF Drop

(* The answers and the set of the fields asked are replaced.               *)
With(s, a, A) == [s EXCEPT !.ans = a, !.asked = A]

(* A session whose answers are replaced is a session.                       *)
LEMMA AnswersReplaced ==
    ASSUME NEW s \in Session, NEW a \in Answers, NEW A \in SUBSET Fields
    PROVE  LET t == With(s, a, A)
           IN  Alike(s, t) /\ t.ans = a /\ t.queue = s.queue /\ t.dev = s.dev
<1>1. With(s, a, A) \in Session
  BY DEF Session, With
<1> QED BY <1>1 DEF Session, Alike, With

(* An answer changes that answer and what was asked.                        *)
LEMMA AnswerIs ==
    ASSUME NEW s \in Session, NEW f \in Fields, NEW v \in Words
    PROVE  LET b == [s.ans EXCEPT ![f] = v]
           IN  /\ b \in Answers /\ s.asked \in SUBSET Fields
               /\ Answer(s, f, v) = With(s, b, s.asked \cup {f})
               /\ [s EXCEPT !.ans[f] = v] = With(s, b, s.asked)
               /\ \A A : [s EXCEPT !.ans[f] = v, !.asked = A] = With(s, b, A)
<1>1. s.ans \in Answers /\ s.asked \in SUBSET Fields
  BY DEF Session
<1>2. [s.ans EXCEPT ![f] = v] \in Answers
  BY <1>1 DEF Answers
<1>3. Answer(s, f, v) = With(s, [s.ans EXCEPT ![f] = v], s.asked \cup {f})
  BY DEF Answer, With, Session
<1>4. [s EXCEPT !.ans[f] = v] = With(s, [s.ans EXCEPT ![f] = v], s.asked)
  BY DEF With, Session
<1>5. \A A : [s EXCEPT !.ans[f] = v, !.asked = A] = With(s, [s.ans EXCEPT ![f] = v], A)
  BY DEF With, Session
<1> QED BY <1>1, <1>2, <1>3, <1>4, <1>5

(* An answer keeps what the properties tell apart.                          *)
LEMMA Answered ==
    ASSUME NEW s \in Session, NEW f \in Fields, NEW v \in Words
    PROVE  LET t == Answer(s, f, v)
           IN  Alike(s, t) /\ t.queue = s.queue /\ t.dev = s.dev /\ t.ans = [s.ans EXCEPT ![f] = v]
<1> DEFINE b == [s.ans EXCEPT ![f] = v]
           A == s.asked \cup {f}
<1>1. b \in Answers /\ s.asked \in SUBSET Fields /\ Answer(s, f, v) = With(s, b, A)
  BY AnswerIs
<1>0. A \in SUBSET Fields
  BY <1>1
<1> HIDE DEF b, A
<1>2. LET t == With(s, b, A) IN Alike(s, t) /\ t.ans = b /\ t.queue = s.queue /\ t.dev = s.dev
  BY <1>0, <1>1, AnswersReplaced
<1> QED BY <1>1, <1>2 DEF b

(* What may be typed, chosen or read is a word.                             *)
LEMMA WordsAre ==
    /\ Texts \in SUBSET Words /\ Repos \in SUBSET Words
    /\ {"", "absent", "scratch", "reuse", "auto"} \in SUBSET Words
  BY TextsAssumption DEF Words

(* What a text taken as an answer leaves as it was.                        *)
LEMMA Capturing ==
    ASSUME NEW s \in Session, NEW f \in Fields, NEW t \in Texts
    PROVE  LET c == Captured(s, f, t)
           IN  Alike(s, c) /\ c.queue = s.queue /\ c.dev = s.dev
<1> DEFINE Good(w) == Alike(s, w) /\ w.queue = s.queue /\ w.dev = s.dev
           bare == [s EXCEPT !.ans["source_repos"] = "absent", !.ans["edit_scope"] = "absent",
                             !.asked = @ \ {"source_repos", "edit_scope"}]
           plain == [s EXCEPT !.ans[f] = ""]
<1>1. t \in Words /\ "" \in Words /\ "auto" \in Words /\ "absent" \in Words
  BY WordsAre
<1>2. Good(s)
  BY DEF Alike
<1>3. \A u \in Words : Good(Answer(s, f, u))
  BY Answered
<1>4. Good(plain)
  <2> DEFINE b == [s.ans EXCEPT ![f] = ""]
  <2>1. b \in Answers /\ s.asked \in SUBSET Fields /\ plain = With(s, b, s.asked)
    BY <1>1, AnswerIs
  <2> HIDE DEF b, plain
  <2>2. Good(With(s, b, s.asked))
    BY <2>1, AnswersReplaced
  <2> QED BY <2>1, <2>2
<1>5. Good(bare)
  <2> DEFINE a == [[s.ans EXCEPT !["source_repos"] = "absent"] EXCEPT !["edit_scope"] = "absent"]
             A == s.asked \ {"source_repos", "edit_scope"}
  <2>1. s.ans \in Answers /\ A \in SUBSET Fields
    BY DEF Session
  <2>2. a \in Answers
    BY <1>1, <2>1 DEF Answers, Fields
  <2>3. bare = With(s, a, A)
    BY DEF With
  <2> HIDE DEF a, A, bare
  <2>4. Good(With(s, a, A))
    BY <2>1, <2>2, AnswersReplaced
  <2> QED BY <2>3, <2>4
<1>6. Good(Answer(bare, f, t))
  <2> HIDE DEF bare
  <2>1. bare \in Session
    BY <1>5 DEF Alike
  <2>2. LET w == Answer(bare, f, t) IN Alike(bare, w) /\ w.queue = bare.queue /\ w.dev = bare.dev
    BY <1>1, <2>1, Answered
  <2> QED BY <1>5, <2>2 DEF Alike
<1>7. Captured(s, f, t) \in {Answer(s, f, t), Answer(s, f, ""), Answer(s, f, "auto"), plain, s, Answer(bare, f, t)}
  BY DEF Captured
<1>8. \A c \in {Answer(s, f, t), Answer(s, f, ""), Answer(s, f, "auto"), plain, s, Answer(bare, f, t)} : Good(c)
  <2> HIDE DEF Good, plain, bare
  <2> QED BY <1>1, <1>2, <1>3, <1>4, <1>6
<1>9. Good(Captured(s, f, t))
  <2> HIDE DEF Good, plain, bare
  <2> QED BY <1>7, <1>8
<1> QED BY <1>9

(* Another repository keeps what the properties tell apart.                 *)
LEMMA Rechosen ==
    ASSUME NEW s \in Session, NEW old
    PROVE  Alike(s, RepoChanged(s, old))
<1> DEFINE bare == [s EXCEPT !.ans["base_branch"] = "absent", !.asked = @ \ {"base_branch"}]
           d    == Drop(bare, "base_branch")
           asks == [d EXCEPT !.queue = <<"base_branch">> \o @]
<1>1. bare \in Session /\ Alike(s, bare)
  <2>1. s.asked \ {"base_branch"} \in SUBSET Fields /\ "base_branch" \in Fields /\ "absent" \in Words
    BY DEF Session, Fields, Words
  <2> DEFINE b == [s.ans EXCEPT !["base_branch"] = "absent"]
             A == s.asked \ {"base_branch"}
  <2>2. b \in Answers
    BY <2>1, AnswerIs
  <2>0. bare = With(s, b, A)
    BY DEF With
  <2> HIDE DEF b, A, bare
  <2>3. Alike(s, With(s, b, A))
    BY <2>1, <2>2, AnswersReplaced DEF A
  <2> QED BY <2>0, <2>3 DEF Alike
<1> HIDE DEF bare
<1>2. d \in Session /\ Alike(bare, d)
  BY <1>1, Dropping DEF Alike
<1> HIDE DEF d
<1>3. Alike(d, asks)
  <2>1. <<"base_branch">> \o d.queue \in Seq(Fields)
    <3>1. d.queue \in Seq(Fields) /\ "base_branch" \in Fields
      BY <1>2, QueueIs DEF Fields
    <3> QED BY <3>1
  <2>2. asks = [d EXCEPT !.queue = <<"base_branch">> \o d.queue]
    OBVIOUS
  <2>3. Alike(d, [d EXCEPT !.queue = <<"base_branch">> \o d.queue])
    BY <1>2, <2>1, QueueReplaced
  <2> QED BY <2>2, <2>3
<1> HIDE DEF asks
<1>4. Alike(s, s) /\ Alike(s, bare) /\ Alike(s, asks)
  BY <1>1, <1>2, <1>3 DEF Alike
<1>5. RepoChanged(s, old) \in {s, bare, asks}
  BY DEF RepoChanged, bare, d, asks
<1> QED BY <1>4, <1>5

(* The spec sent to the API is a function of the answers.                   *)
LEMMA SpecIs ==
    ASSUME NEW s \in Session
    PROVE  SpecOf(s) \in Answers /\ \A t : t.ans = s.ans => SpecOf(t) = SpecOf(s)
<1>1. s.ans \in [Fields -> Words]
  BY DEF Session, Answers
<1>2. \A f \in Fields : SpecOf(s)[f] \in Words
  BY <1>1, WordsAre DEF SpecOf
<1>3. SpecOf(s) \in Answers
  <2>1. SpecOf(s) = [f \in Fields |-> SpecOf(s)[f]]
    BY DEF SpecOf
  <2> QED BY <1>2, <2>1 DEF Answers
<1>4. \A t : t.ans = s.ans => SpecOf(t) = SpecOf(s)
  BY DEF SpecOf
<1> QED BY <1>3, <1>4

(* A patched spec is a spec.                                                *)
LEMMA PatchedIs ==
    ASSUME NEW s \in Session, NEW a \in Answers
    PROVE  Patched(s, a) \in Answers
  BY DEF Patched, Session, Answers

(* Both queues of questions are sequences of fields.                        *)
LEMMA QueuesAre ==
    /\ CreateQueue \in Seq(Fields) /\ UpdateQueue \in Seq(Fields)
    /\ CreateQueue # <<>> /\ CreateQueue[1] = "title"
<1> DEFINE all == IF Minimal THEN <<"title", "repo", "base_branch">>
                  ELSE <<"title", "implementation_mode", "edit_scope", "problem", "repo",
                         "base_branch", "acceptance_criteria", "links">>
           F == IF RequireRepo THEN Fields ELSE Fields \ {"repo", "base_branch"}
           q == Only(all, F)
<1>1. all \in Seq(Fields) /\ all # <<>> /\ all[1] = "title" /\ "title" \in F
  <2>1. CASE Minimal
    BY <2>1 DEF Fields
  <2>2. CASE ~Minimal
    <3>1. <<"title", "implementation_mode", "edit_scope", "problem", "repo", "base_branch",
            "acceptance_criteria", "links">> \in Seq(Fields)
      BY DEF Fields
    <3>2. "title" \in F
      BY DEF Fields
    <3> QED BY <2>2, <3>1, <3>2
  <2> QED BY <2>1, <2>2
<1>2. CreateQueue = q
  BY DEF CreateQueue
<1>3. q \in Seq(Fields)
  <2> HIDE DEF all, F
  <2> QED BY <1>1, OnlyInOrder
<1>4. q # <<>> /\ q[1] = "title"
  <2> HIDE DEF all, F, q
  <2> DEFINE kept == {i \in DOMAIN all : all[i] \in F}
             n    == Cardinality(kept)
             Below(i) == {j \in kept : j < i}
  <2>1. kept \in SUBSET (1 .. Len(all)) /\ Len(all) \in Nat /\ kept \in SUBSET Nat /\ 1 \in kept
    BY <1>1
  <2>2. IsFiniteSet(kept)
    <3> DEFINE S == 1 .. Len(all)
    <3> HIDE DEF kept
    <3>1. IsFiniteSet(S)
      BY <2>1, FS_Interval
    <3> HIDE DEF S
    <3>2. kept \in SUBSET S
      BY <2>1 DEF S
    <3> QED BY <3>1, <3>2, FS_Subset
  <2>3. n \in Nat /\ n >= 1
    <3> HIDE DEF kept
    <3>1. n \in Nat /\ n # 0
      BY <2>1, <2>2, FS_CardinalityType, FS_EmptySet
    <3> QED BY <3>1
  <2>4. \A i \in kept : Cardinality(Below(i)) = 0 <=> i = 1
    <3>1. \A i \in kept : Below(i) = {} <=> i = 1
      BY <2>1
    <3>2. \A i \in kept : IsFiniteSet(Below(i))
      <4> HIDE DEF kept
      <4>1. \A i \in kept : Below(i) \in SUBSET kept
        OBVIOUS
      <4> QED BY <2>2, <4>1, FS_Subset
    <3> HIDE DEF kept, Below
    <3> QED BY <3>1, <3>2, FS_EmptySet
  <2>5. (CHOOSE i \in kept : Cardinality(Below(i)) = 1 - 1) = 1
    <3> HIDE DEF kept, Below
    <3> QED BY <2>1, <2>4
  <2>6. q = [k \in 1 .. n |-> all[CHOOSE i \in kept : Cardinality(Below(i)) = k - 1]]
    BY DEF q, Only
  <2>7. q[1] = all[1] /\ 1 \in DOMAIN q
    <3> HIDE DEF n, kept, Below
    <3> QED BY <2>3, <2>5, <2>6
  <2> QED BY <1>1, <2>7
<1>5. UpdateQueue \in Seq(Fields)
  <2> DEFINE seven == <<"title", "problem", "business_justification", "acceptance_criteria",
                        "implementation_mode", "source_repos", "edit_scope">>
             others == <<"repo", "base_branch", "implementation_mode", "edit_scope", "source_repos", "problem",
               "business_justification", "acceptance_criteria", "proposed_solution", "links">>
  <2>1. seven \in Seq(Fields) /\ others \in Seq(Fields)
    BY DEF Fields
  <2>2. Only(seven, Missing) \in Seq(Fields)
    <3> HIDE DEF seven
    <3> QED BY <2>1, OnlyInOrder
  <2>3. UpdateQueue = IF Only(seven, Missing) # <<>> THEN Only(seven, Missing) ELSE others
    BY DEF UpdateQueue
  <2> HIDE DEF seven, others
  <2> QED BY <2>1, <2>2, <2>3
<1> HIDE DEF q
<1> QED BY <1>2, <1>3, <1>4, <1>5

(* A new session is a session: plain, neither awaiting nor confirmed.       *)
LEMMA NewIs ==
    ASSUME NEW mode \in {"create", "update"}, NEW flow \in {"model", "hardcoded", "none"},
           NEW q \in Seq(Fields), NEW base \in Answers
    PROVE  LET s == NewSession(mode, flow, q, base)
           IN  /\ s \in Session /\ Plain(s) /\ ~s.confirmed /\ ~s.awaiting
               /\ s.mode = mode /\ s.queue = q
<1>1. Blank \in Answers
  BY DEF Blank, Answers, Words
<1>2. NewSession(mode, flow, q, base) \in Session
  BY <1>1 DEF NewSession, Session
<1> QED BY <1>2 DEF NewSession, Plain

-----------------------------------------------------------------------------
(* The invariant that everything rests on.                                  *)

Finishing  == {"finalize", "review", "send", "drop"}
At(S)      == \E h \in Handlers : hs[h].pc \in S
HasNext(s) == ~(Plain(s) /\ Peek(s) = "")
Now        == heap[cache]
Sure(D)    == disturbed \cap D = {}

Fine(r) ==
    /\ r.pc = "idle" => r = Idle
    /\ r.pc # "idle" => r.ref \in Objects /\ r.event # <<>>
    /\ r.pc = "capture" => r.via = "model"
    /\ r.via = "model" => r.event[1] = "message"
    /\ r.pc \in {"review", "send"} => r.spec \in Answers

HandlersInv ==
    \A h \in Handlers :
        /\ Fine(hs[h])
        /\ hs[h].pc # "idle" => heap[hs[h].ref] \in Session
        /\ hs[h].pc # "idle" /\ Kind(h) = "confirm" => shown # None

LinkInv ==
    /\ \A o \in Objects : heap[o] # None => o = cache \/ \E h \in Handlers : hs[h].ref = o
    /\ \A o \in Objects : heap[o] # None /\ heap[o].mode = "update" => feature # None
    /\ row # None /\ row.mode = "update" => feature # None
    /\ "details" \in buttons => feature # None
    /\ "confirm" \in buttons => shown # None
    /\ events = 0 => /\ cache = 0 /\ row = None /\ Busy = {} /\ shown = None /\ confirms = 0
                     /\ requests = [m \in {"create", "update"} |-> 0]

BaseInv == TypeOK /\ HandlersInv /\ LinkInv

(* What the model is asked about, without another handler's work.          *)
ThinkInv ==
    Sure({"overlap"}) =>
        \A h \in Handlers :
            /\ hs[h].pc = "think" /\ hs[h].via = "seed" => Ses(h).queue = CreateQueue
            /\ hs[h].pc \in {"think", "capture"} /\ hs[h].via = "model" /\ "slack" \notin disturbed => Plain(Ses(h))

-----------------------------------------------------------------------------
Moved(h, to) ==
    /\ hs' = [hs EXCEPT ![h] = hs'[h]]
    /\ hs'[h] \in Handler /\ Fine(hs'[h]) /\ hs'[h].pc = to
    /\ to # "idle" => hs'[h].ref = hs[h].ref /\ hs'[h].event = hs[h].event

(* What a busy handler holds.                                               *)
LEMMA HandlerIs ==
    ASSUME BaseInv, NEW h \in Handlers, hs[h].pc # "idle"
    PROVE  /\ hs[h] \in Handler /\ hs[h].ref \in Objects /\ Ses(h) \in Session
           /\ hs[h].event \in ({"message", "start"} \X Texts) \cup Clicks
           /\ Fine(hs[h])
<1>1. hs[h] \in Handler /\ Fine(hs[h])
  BY DEF BaseInv, TypeOK, HandlersInv
<1>2. hs[h].ref \in Objects /\ Ses(h) \in Session /\ hs[h].event # <<>>
  BY DEF BaseInv, HandlersInv, Fine, Ses
<1>3. hs[h].event \in {<<>>} \cup ({"message", "start"} \X Texts) \cup Clicks
  BY <1>1 DEF Handler
<1> QED BY <1>1, <1>2, <1>3

(* What the second part of an event may be.                                 *)
LEMMA EventIs ==
    ASSUME NEW e \in ({"message", "start"} \X Texts) \cup Clicks
    PROVE  /\ e[1] \in {"message", "start"} => e[2] \in Texts
           /\ e[1] = "accept" => e[2] \in Repos
           /\ e[1] \in {"repo", "branch"} => e[2] \in Repos \cup {"none", "new"}
<1>1. CASE e \in {"message", "start"} \X Texts
  BY <1>1
<1>2. CASE e \in {<<k, "">> : k \in Kinds \ {"message", "repo", "accept", "branch"}}
  <2>1. PICK k \in Kinds \ {"message", "repo", "accept", "branch"} : e = <<k, "">>
    BY <1>2
  <2>2. e[1] \in Kinds \ {"message", "repo", "accept", "branch"}
    BY <2>1
  <2> QED BY <2>2 DEF Kinds
<1>3. CASE e \in {"accept"} \X Repos
  BY <1>3
<1>4. CASE e \in {"repo"} \X (Repos \cup {"none", "new"})
  BY <1>4
<1>5. CASE e \in {"branch"} \X (Repos \cup {"none", "new"})
  BY <1>5
<1> QED BY <1>1, <1>2, <1>3, <1>4, <1>5 DEF Clicks

(* Goes moves one handler.                                                  *)
LEMMA Goings ==
    ASSUME BaseInv, NEW h \in Handlers, hs[h].pc # "idle",
           NEW to \in {"idle", "think", "capture", "advance", "finalize", "drop"},
           to = "capture" => hs[h].via = "model",
           Goes(h, to)
    PROVE  Moved(h, to) /\ (to # "idle" => hs'[h].via = hs[h].via)
<1>1. hs \in [Handlers -> Handler] /\ hs[h] \in Handler /\ Fine(hs[h])
  BY HandlerIs DEF BaseInv, TypeOK
<1>2. CASE to = "idle"
  <2>1. hs'[h] = Idle /\ hs' = [hs EXCEPT ![h] = hs'[h]]
    BY <1>1, <1>2 DEF Goes
  <2>2. Idle \in Handler /\ Fine(Idle) /\ Idle.pc = "idle"
    BY DEF Idle, Handler, Fine
  <2> QED BY <1>2, <2>1, <2>2 DEF Moved
<1>3. CASE to # "idle"
  <2>1. hs'[h] = [hs[h] EXCEPT !.pc = to] /\ hs' = [hs EXCEPT ![h] = hs'[h]]
    BY <1>1, <1>3 DEF Goes
  <2>2. hs'[h] \in Handler
    BY <1>1, <2>1 DEF Handler
  <2>3. hs'[h].pc = to /\ hs'[h].ref = hs[h].ref /\ hs'[h].event = hs[h].event /\ hs'[h].via = hs[h].via
    BY <1>1, <2>1 DEF Handler
  <2>4. Fine(hs'[h])
    BY <1>1, <1>3, <2>3 DEF Fine
  <2> QED BY <2>1, <2>2, <2>3, <2>4 DEF Moved
<1> QED BY <1>2, <1>3

(* A turn to the model or to the next question moves one handler.           *)
LEMMA Turns ==
    ASSUME BaseInv, NEW h \in Handlers, hs[h].pc # "idle",
           NEW to \in {"think", "advance"}, NEW via \in {"direct", "model", "frontier", "affirm"},
           via = "model" => Kind(h) = "message",
           hs' = [hs EXCEPT ![h] = [@ EXCEPT !.pc = to, !.via = via]]
    PROVE  Moved(h, to) /\ hs'[h].via = via
<1>1. hs \in [Handlers -> Handler] /\ hs[h] \in Handler /\ Fine(hs[h])
  BY HandlerIs DEF BaseInv, TypeOK
<1>2. hs'[h] = [hs[h] EXCEPT !.pc = to, !.via = via] /\ hs' = [hs EXCEPT ![h] = hs'[h]]
  BY <1>1
<1>3. hs'[h] \in Handler
  BY <1>1, <1>2 DEF Handler
<1>4. hs'[h].pc = to /\ hs'[h].ref = hs[h].ref /\ hs'[h].event = hs[h].event /\ hs'[h].via = via
  BY <1>1, <1>2 DEF Handler
<1>5. Fine(hs'[h])
  BY <1>1, <1>4 DEF Fine, Kind
<1> QED BY <1>2, <1>3, <1>4, <1>5 DEF Moved

(* The beginning of a summary or of a request moves one handler.            *)
LEMMA Endings ==
    ASSUME BaseInv, NEW h \in Handlers, hs[h].pc # "idle",
           NEW to \in {"review", "send"}, NEW spec \in Answers, Ends(h, to, spec)
    PROVE  Moved(h, to) /\ hs'[h].spec = spec
<1>1. hs \in [Handlers -> Handler] /\ hs[h] \in Handler /\ Fine(hs[h])
  BY HandlerIs DEF BaseInv, TypeOK
<1>2. hs'[h] = [hs[h] EXCEPT !.pc = to, !.spec = spec] /\ hs' = [hs EXCEPT ![h] = hs'[h]]
  BY <1>1 DEF Ends
<1>3. hs'[h] \in Handler
  BY <1>1, <1>2 DEF Handler
<1>4. /\ hs'[h].pc = to /\ hs'[h].ref = hs[h].ref /\ hs'[h].event = hs[h].event
      /\ hs'[h].via = hs[h].via /\ hs'[h].spec = spec
  BY <1>1, <1>2 DEF Handler
<1>5. Fine(hs'[h])
  BY <1>1, <1>4 DEF Fine
<1> QED BY <1>2, <1>3, <1>4, <1>5 DEF Moved

-----------------------------------------------------------------------------
(* A session that a dropdown was shown for.                                *)
Dressed(s, t) == Alike(s, t) /\ t.ans = s.ans /\ t.queue = s.queue /\ (s.dev => t.dev)

(* A dropdown shown takes no next step away.                                *)
LEMMA DressedNext ==
    ASSUME NEW s \in Session, NEW t, Dressed(s, t)
    PROVE  /\ Pending(t) = {} => Pending(s) = {}
           /\ Peek(t) = "" => Peek(s) = ""
           /\ HasNext(s) => HasNext(t)
           /\ Plain(t) <=> Plain(s)
<1>1. t \in Session /\ t.queue = s.queue
  BY DEF Dressed, Alike
<1>2. \A f : Applies(s, f) => Applies(t, f)
  BY DEF Dressed, Alike, Applies, Value, Reuse
<1>3. Pending(t) = {} => Pending(s) = {}
  BY <1>1, <1>2 DEF Pending
<1>4. Peek(t) = "" => Peek(s) = ""
  BY <1>1, <1>3, PeekIs
<1>5. Plain(t) <=> Plain(s)
  BY DEF Dressed, Alike, Plain
<1> QED BY <1>3, <1>4, <1>5 DEF HasNext

(* Questions that do not apply are no next step: pruning keeps it.          *)
LEMMA PrunedNext ==
    ASSUME NEW s \in Session
    PROVE  /\ Peek(Pruned(s)) = "" <=> Peek(s) = ""
           /\ HasNext(Pruned(s)) <=> HasNext(s)
           /\ Plain(Pruned(s)) <=> Plain(s)
<1>1. Alike(s, Pruned(s)) /\ (Pending(Pruned(s)) = {} <=> Pending(s) = {})
  BY PruningIs
<1>2. Peek(Pruned(s)) = "" <=> Peek(s) = ""
  BY <1>1, PeekIs DEF Alike
<1>3. Plain(Pruned(s)) <=> Plain(s)
  BY <1>1 DEF Alike, Plain
<1> QED BY <1>2, <1>3 DEF HasNext

(* Two sessions that are the same once pruned differ in their queue only.  *)
LEMMA PrunedSame ==
    ASSUME NEW s \in Session, NEW t \in Session, Pruned(s) = Pruned(t)
    PROVE  /\ Alike(s, t) /\ t.ans = s.ans
           /\ HasNext(s) <=> HasNext(t)
           /\ Plain(s) <=> Plain(t)
           /\ SpecOf(t) = SpecOf(s)
<1>1. Alike(s, Pruned(s)) /\ Pruned(s).ans = s.ans /\ Alike(t, Pruned(t)) /\ Pruned(t).ans = t.ans
  BY PruningIs
<1>2. Alike(s, t) /\ t.ans = s.ans
  BY <1>1 DEF Alike
<1>3. HasNext(s) <=> HasNext(t)
  BY PrunedNext
<1>4. Plain(s) <=> Plain(t)
  BY PrunedNext
<1>5. SpecOf(t) = SpecOf(s)
  BY <1>2, SpecIs
<1> QED BY <1>2, <1>3, <1>4, <1>5

Panels == Kinds \ {"confirm", "edit", "cancel"}

(* Waiting for GitHub dresses a session.                                    *)
LEMMA Waiting ==
    ASSUME NEW s \in Session
    PROVE  Dressed(s, Wait(s))
<1>1. Wait(s) \in Session
  BY DEF Wait, Session
<1> QED BY <1>1 DEF Wait, Session, Dressed, Alike

(* So does a dropdown of repositories.                                      *)
LEMMA RepoDropdowns ==
    ASSUME NEW s \in Session, NEW S \in SUBSET (Repos \cup {""}), NEW d \in RepoDropdown(s, S)
    PROVE  Dressed(s, d[1]) /\ d[2] \in SUBSET Panels
<1>1. CASE d = <<Wait(s), {"github"}>>
  <2>1. {"github"} \in SUBSET Panels
    BY DEF Panels, Kinds
  <2> QED BY <1>1, <2>1, Waiting
<1>2. ASSUME NEW r \in S,
             d = <<[s EXCEPT !.suggested = IF r = "" THEN @ ELSE r],
                   {"repo"} \cup IF r = "" THEN {} ELSE {"accept", "repo_dropdown"}>>
      PROVE  Dressed(s, d[1]) /\ d[2] \in SUBSET Panels
  <2>1. d[1] \in Session
    BY <1>2 DEF Session
  <2>2. Dressed(s, d[1])
    BY <1>2, <2>1 DEF Session, Dressed, Alike
  <2>3. d[2] \in SUBSET Panels
    BY <1>2 DEF Panels, Kinds
  <2> QED BY <2>2, <2>3
<1> QED BY <1>1, <1>2 DEF RepoDropdown

(* So does a dropdown of branches.                                          *)
LEMMA BranchDropdowns ==
    ASSUME NEW s \in Session, NEW d \in BranchDropdown(s)
    PROVE  Dressed(s, d[1]) /\ d[2] \in SUBSET Panels
<1>1. CASE ~Given(Value(s, "repo"))
  BY <1>1, RepoDropdowns DEF BranchDropdown
<1>2. CASE Given(Value(s, "repo"))
  <2> DEFINE t == [s EXCEPT !.dev = TRUE]
  <2>1. t \in Session /\ Dressed(s, t)
    <3>1. t \in Session
      BY DEF Session
    <3> QED BY <3>1 DEF Session, Dressed, Alike
  <2>2. d \in {<<Wait(t), {"github"}>>, <<t, {"branch", "branch_dropdown"}>>}
    BY <1>2 DEF BranchDropdown
  <2> HIDE DEF t
  <2>3. Dressed(t, Wait(t))
    BY <2>1, Waiting
  <2>4. Dressed(s, Wait(t))
    BY <2>1, <2>3 DEF Dressed, Alike
  <2>5. {"github"} \in SUBSET Panels /\ {"branch", "branch_dropdown"} \in SUBSET Panels
    BY DEF Panels, Kinds
  <2> QED BY <2>1, <2>2, <2>4, <2>5
<1> QED BY <1>1, <1>2

-----------------------------------------------------------------------------
(* The shapes of the steps.                                                 *)

(* What most steps leave to the thread: a dropdown or another panel.       *)
PanelsOnly ==
    /\ buttons' \in SUBSET (Kinds \cup {"details"})
    /\ "confirm" \in buttons' => "confirm" \in buttons
    /\ "details" \in buttons' => "details" \in buttons
    /\ UNCHANGED <<shown, feature, confirms, requests, events>>

Working == {"got", "think", "capture", "advance"}

(* The session ends with the handler.                                      *)
Drops(h) ==
    /\ hs[h].pc \in {"got", "think", "capture", "finalize", "drop"}
    /\ Moved(h, "idle") /\ DropSession /\ PanelsOnly

(* The session stays as it was, or loses questions that do not apply.      *)
Lets(h) ==
    \E to \in {"idle", "think", "capture", "finalize"}, s \in Session :
        /\ hs[h].pc \in Working
        /\ Moved(h, to) /\ Changes(h, s) /\ PanelsOnly
        /\ Pruned(s) = Pruned(Ses(h))
        /\ hs[h].pc = "advance" => to = "finalize" \/ HasNext(Ses(h))
        /\ to = "think" => hs'[h].via # "seed" /\ (hs'[h].via = "model" => Plain(Ses(h)))
        /\ to = "capture" => hs[h].pc = "think" /\ hs[h].via = "model"

(* The session becomes s and is stored as w.                               *)
Rewrites(h, to, s, more) ==
    /\ s.mode = Ses(h).mode
    /\ s.confirmed => Ses(h).confirmed
    /\ s.awaiting => Ses(h).awaiting
    /\ Plain(Ses(h)) => Plain(s) \/ "early" \in more
    /\ s.ans = Ses(h).ans \/ Late \in SUBSET more \/ Plain(s) \/ ~Sure({"overlap", "slack"})
    /\ to = "idle" /\ (hs[h].pc = "advance" \/ HasNext(Ses(h))) =>
          HasNext(s) \/ "moot" \in more \/ ~Sure({"overlap"})

Writes(h) ==
    \E to \in {"idle", "advance", "finalize"}, s \in Session, w \in Session, more \in SUBSET {"late", "early", "moot"} :
        /\ hs[h].pc \in Working
        /\ Moved(h, to) /\ StoreAs(hs[h].ref, s, w, more) /\ PanelsOnly
        /\ Pruned(w) = Pruned(s)
        /\ Rewrites(h, to, s, more)

(* A step that only adds panels to the thread.                              *)
LEMMA Panelled ==
    ASSUME BaseInv, Quiet \/ \E b \in SUBSET Panels : Shows(b)
    PROVE  PanelsOnly
<1>1. buttons \in SUBSET (Kinds \cup {"details"})
  BY DEF BaseInv, TypeOK
<1>2. CASE Quiet
  BY <1>1, <1>2 DEF Quiet, thread, PanelsOnly
<1>3. ASSUME NEW b \in SUBSET Panels, Shows(b) PROVE PanelsOnly
  <2>1. "confirm" \notin b /\ "details" \notin b /\ b \in SUBSET Kinds
    BY DEF Panels, Kinds
  <2> QED BY <1>1, <1>3, <2>1 DEF Shows, PanelsOnly
<1> QED BY <1>2, <1>3

(* The dropdown of a question is a panel.                                   *)
LEMMA DropdownIs ==
    ASSUME NEW s, NEW f
    PROVE  Dropdown(s, f) \in SUBSET Panels
  BY DEF Dropdown, Panels, Kinds

(* What a handler has just received.                                        *)
LEMMA Gots ==
    ASSUME BaseInv, NEW h \in Handlers, NEW k, Got(h, k)
    PROVE  /\ hs[h].pc = "got" /\ Kind(h) = k /\ hs[h].pc # "idle" /\ hs[h].pc \in Working
           /\ Ses(h) \in Session
           /\ k = "message" => Arg(h) \in Texts
           /\ k = "accept" => Arg(h) \in Repos
           /\ k \in {"repo", "branch"} => Arg(h) \in Repos \cup {"none", "new"}
<1>1. hs[h].pc = "got" /\ Kind(h) = k /\ hs[h].pc # "idle" /\ hs[h].pc \in Working
  BY DEF Got, Working
<1>2. Ses(h) \in Session /\ hs[h].event \in ({"message", "start"} \X Texts) \cup Clicks
  BY <1>1, HandlerIs
<1> QED BY <1>1, <1>2, EventIs DEF Kind, Arg

(* A step that drops the session has the first shape.                       *)
LEMMA DropsIs ==
    ASSUME BaseInv, NEW h \in Handlers, hs[h].pc \in {"got", "think", "capture", "finalize", "drop"},
           Goes(h, "idle"), DropSession, Quiet
    PROVE  Drops(h)
  BY Goings, Panelled DEF Drops

(* One that changes no answer has the second shape.                         *)
LEMMA LetsIs ==
    ASSUME BaseInv, NEW h \in Handlers, hs[h].pc \in Working,
           NEW to \in {"idle", "think", "capture", "finalize"}, Goes(h, to),
           NEW s, s \in {Ses(h), Pruned(Ses(h))}, Changes(h, s), PanelsOnly,
           hs[h].pc = "advance" => to = "finalize" \/ HasNext(Ses(h)),
           to # "think",
           to = "capture" => hs[h].pc = "think" /\ hs[h].via = "model"
    PROVE  Lets(h)
<1>1. Moved(h, to)
  BY Goings DEF Working
<1>2. Ses(h) \in Session
  BY HandlerIs DEF Working
<1>3. s \in Session /\ Pruned(s) = Pruned(Ses(h))
  BY <1>2, PruningIs DEF Alike
<1> QED BY <1>1, <1>3 DEF Lets

(* One that stores a changed session has the third shape.                   *)
LEMMA WritesIs ==
    ASSUME BaseInv, NEW h \in Handlers, hs[h].pc \in Working,
           NEW to \in {"idle", "advance", "finalize"}, Moved(h, to),
           NEW s \in Session, NEW more \in SUBSET {"late", "early", "moot"},
           Store(hs[h].ref, s, more), PanelsOnly, Rewrites(h, to, s, more)
    PROVE  Writes(h)
  BY DEF Writes, Store

-----------------------------------------------------------------------------
(* Messages.                                                                *)

(* A session that is alike, and plain or in the same words, rewrites the old*)
(* one.                                                                     *)
LEMMA AlikeRewrites ==
    ASSUME NEW h \in Handlers, Ses(h) \in Session, NEW s, Alike(Ses(h), s),
           NEW to, NEW more,
           s.ans = Ses(h).ans \/ Late \in SUBSET more \/ Plain(s) \/ ~Sure({"overlap", "slack"}),
           to # "idle" \/ (Peek(s) = "" => Peek(Ses(h)) = "" /\ hs[h].pc # "advance") \/ "moot" \in more
    PROVE  s \in Session /\ Rewrites(h, to, s, more)
<1>1. s \in Session /\ (Plain(s) <=> Plain(Ses(h)))
  BY DEF Alike, Plain
<1> QED BY <1>1 DEF Alike, Rewrites, HasNext

(* Clearing the edited field leaves a session.                              *)
LEMMA TargetCleared ==
    ASSUME NEW s \in Session
    PROVE  LET t == [s EXCEPT !.target = ""]
           IN  /\ t \in Session /\ t.target = "" /\ t.mode = s.mode /\ t.awaiting = s.awaiting
               /\ t.confirmed = s.confirmed /\ t.editing = s.editing /\ t.ans = s.ans
<1>1. "" \in Editable \cup {""}
  OBVIOUS
<1>2. [s EXCEPT !.target = ""] \in Session
  BY <1>1 DEF Session
<1> QED BY <1>2 DEF Session

(* The fields that may be edited are fields.                                *)
LEMMA FieldsAre ==
    /\ "repo" \in Fields /\ "base_branch" \in Fields /\ Editable \in SUBSET Fields
    /\ "" \notin Fields
  BY DEF Fields, Editable

-----------------------------------------------------------------------------
(* A queue of one field is a queue.                                         *)
LEMMA OneField ==
    ASSUME NEW f \in Fields
    PROVE  <<f>> \in Seq(Fields)
  OBVIOUS

(* The shape of MessageCancel.                                              *)
LEMMA MessageCancelDrops ==
    ASSUME BaseInv, NEW h \in Handlers, MessageCancel(h)
    PROVE  Drops(h)
  BY Gots, DropsIs DEF MessageCancel

(* The shape of MessageStranded.                                            *)
LEMMA MessageStrandedDrops ==
    ASSUME BaseInv, NEW h \in Handlers, MessageStranded(h)
    PROVE  Drops(h)
  BY Gots, DropsIs DEF MessageStranded

(* The shape of ModelCancels.                                               *)
LEMMA ModelCancelsDrops ==
    ASSUME BaseInv, NEW h \in Handlers, ModelCancels(h)
    PROVE  Drops(h)
  BY DropsIs DEF ModelCancels

(* The shape of CancelIntake.                                               *)
LEMMA CancelIntakeDrops ==
    ASSUME BaseInv, NEW h \in Handlers, CancelIntake(h)
    PROVE  Drops(h)
  BY Gots, DropsIs DEF CancelIntake

(* The shape of NothingToSend.                                              *)
LEMMA NothingToSendDrops ==
    ASSUME BaseInv, NEW h \in Handlers, NothingToSend(h)
    PROVE  Drops(h)
  BY DropsIs DEF NothingToSend

(* The shape of Dropped.                                                    *)
LEMMA DroppedDrops ==
    ASSUME BaseInv, NEW h \in Handlers, Dropped(h)
    PROVE  Drops(h)
  BY DropsIs DEF Dropped

-----------------------------------------------------------------------------
(* The shape of MessageIgnored.                                             *)
LEMMA MessageIgnoredLets ==
    ASSUME BaseInv, NEW h \in Handlers, MessageIgnored(h)
    PROVE  Lets(h)
<1>1. Got(h, "message") /\ Goes(h, "idle") /\ Changes(h, Pruned(Ses(h))) /\ Quiet
  BY DEF MessageIgnored
<1>2. PanelsOnly
  BY <1>1, Panelled
<1> QED BY <1>1, <1>2, Gots, LetsIs

(* The shape of ChooseField.                                                *)
LEMMA ChooseFieldWrites ==
    ASSUME BaseInv, NEW h \in Handlers, ChooseField(h)
    PROVE  Writes(h)
<1> DEFINE s0 == Ses(h)
           s  == [s0 EXCEPT !.editing = FALSE, !.target = Arg(h), !.queue = <<Arg(h)>>]
<1>1. /\ Got(h, "message") /\ Arg(h) \in Editable /\ ~s0.awaiting /\ s0.editing
      /\ Goes(h, "idle") /\ Store(hs[h].ref, s, {}) /\ Shows(Dropdown(s0, Arg(h)))
  BY DEF ChooseField, Saves
<1>2. hs[h].pc \in Working /\ hs[h].pc = "got" /\ s0 \in Session
  BY <1>1, Gots
<1>3. Moved(h, "idle") /\ PanelsOnly
  BY <1>1, <1>2, Goings, DropdownIs, Panelled
<1>4. s \in Session /\ s.target = Arg(h) /\ s.mode = s0.mode /\ s.confirmed = s0.confirmed
      /\ s.awaiting = s0.awaiting /\ s.ans = s0.ans
  <2>0. Arg(h) \in Fields
    BY <1>1, FieldsAre
  <2>1. <<Arg(h)>> \in Seq(Fields) /\ Arg(h) \in Editable \cup {""}
    BY <1>1, <2>0, OneField
  <2> DEFINE q == <<Arg(h)>>
             T == Editable \cup {""}
  <2> HIDE DEF q, T
  <2>2. [s0 EXCEPT !.editing = FALSE, !.target = Arg(h), !.queue = q] \in Session
    BY <1>2, <2>1 DEF Session, q, T
  <2> QED BY <1>2, <2>2 DEF Session, q
<1>5. ~Plain(s) /\ ~Plain(s0)
  <2>1. Arg(h) # ""
    BY <1>1, FieldsAre
  <2> HIDE DEF s
  <2> QED BY <1>1, <1>4, <2>1 DEF Plain
<1>6. Rewrites(h, "idle", s, {})
  <2> HIDE DEF s
  <2> QED BY <1>4, <1>5 DEF Rewrites, HasNext
<1> QED
  <2> HIDE DEF s
  <2> QED BY <1>1, <1>2, <1>3, <1>4, <1>6, WritesIs

(* The session after an edit: alike, plain, with its queue.                 *)
LEMMA EditedIs ==
    ASSUME NEW s \in Session, NEW t \in Texts, s.target # "", ~s.awaiting, ~s.editing
    PROVE  LET e == Edited(s, t)
           IN  /\ e \in Session /\ Plain(e)
               /\ e.mode = s.mode /\ e.confirmed = s.confirmed
<1> DEFINE f == s.target
           c == Captured(s, f, t)
           u == [c EXCEPT !.target = ""]
           done == Drop(u, f)
           r == RepoChanged(Drop(done, "base_branch"), s.ans["repo"])
<1>1. f \in Fields
  BY FieldsAre DEF Session
<1> HIDE DEF f
<1>2. c \in Session /\ Alike(s, c)
  BY <1>1, Capturing DEF Alike
<1> HIDE DEF c
<1>3. u \in Session /\ u.target = "" /\ u.mode = c.mode /\ u.awaiting = c.awaiting
      /\ u.confirmed = c.confirmed /\ u.editing = c.editing
  BY <1>2, TargetCleared
<1> HIDE DEF u
<1>4. done \in Session /\ Alike(u, done)
  BY <1>3, Dropping DEF Alike
<1> HIDE DEF done
<1>5. Drop(done, "base_branch") \in Session /\ Alike(u, Drop(done, "base_branch"))
  BY <1>4, Dropping DEF Alike
<1>6. Alike(u, r)
  BY <1>5, Rechosen DEF Alike
<1> HIDE DEF r
<1>7. Edited(s, t) \in {done, r}
  BY DEF Edited, done, r, u, c, f
<1>8. Alike(u, Edited(s, t))
  BY <1>4, <1>6, <1>7
<1> QED BY <1>2, <1>3, <1>8 DEF Alike, Plain

(* The shape of EditAnswer.                                                 *)
LEMMA EditAnswerKeeps ==
    ASSUME BaseInv, NEW h \in Handlers, EditAnswer(h)
    PROVE  Writes(h) \/ Lets(h)
<1> DEFINE s == Ses(h)
           e == Edited(s, Arg(h))
<1>1. Got(h, "message") /\ ~s.awaiting /\ ~s.editing /\ s.target # ""
  BY DEF EditAnswer
<1>2. hs[h].pc \in Working /\ hs[h].pc = "got" /\ s \in Session /\ Arg(h) \in Texts
  BY <1>1, Gots
<1>3. CASE Accepts(s, s.target, Arg(h))
  <2>1. Goes(h, "advance") /\ Store(hs[h].ref, e, {}) /\ Quiet
    BY <1>3 DEF EditAnswer, Saves
  <2>2. Moved(h, "advance") /\ PanelsOnly
    BY <1>2, <2>1, Goings, Panelled
  <2>3. e \in Session /\ Plain(e) /\ e.mode = s.mode /\ e.confirmed = s.confirmed
    BY <1>1, <1>2, EditedIs
  <2>4. Rewrites(h, "advance", e, {})
    <3> HIDE DEF e
    <3> QED BY <2>3 DEF Rewrites, Plain
  <2> HIDE DEF e
  <2>5. Writes(h)
    BY <1>2, <2>1, <2>2, <2>3, <2>4, WritesIs
  <2> QED BY <2>5
<1>4. CASE ~Accepts(s, s.target, Arg(h))
  <2>1. Goes(h, "idle") /\ Changes(h, Pruned(s)) /\ Shows(Dropdown(s, s.target))
    BY <1>4 DEF EditAnswer
  <2>2. PanelsOnly
    BY <2>1, DropdownIs, Panelled
  <2> QED BY <1>2, <2>1, <2>2, LetsIs
<1> QED BY <1>3, <1>4

(* What a handler knows whose message is taken as an answer.                *)
LEMMA Answerings ==
    ASSUME BaseInv, NEW h \in Handlers, Answering(h)
    PROVE  /\ Got(h, "message") /\ hs[h].pc = "got" /\ hs[h].pc # "idle" /\ hs[h].pc \in Working
           /\ Kind(h) = "message" /\ Arg(h) \in Texts
           /\ Ses(h) \in Session /\ Pruned(Ses(h)) \in Session /\ Alike(Ses(h), Pruned(Ses(h)))
           /\ Plain(Ses(h)) /\ Peek(Ses(h)) # "" /\ Peek(Pruned(Ses(h))) # ""
<1>1. Got(h, "message") /\ Plain(Ses(h)) /\ Peek(Ses(h)) # ""
  BY DEF Answering
<1>2. /\ hs[h].pc = "got" /\ hs[h].pc # "idle" /\ hs[h].pc \in Working
      /\ Kind(h) = "message" /\ Arg(h) \in Texts /\ Ses(h) \in Session
  BY <1>1, Gots
<1> QED BY <1>1, <1>2, PruningIs, PrunedNext DEF Alike

(* The shape of RepoWhileWaiting.                                           *)
LEMMA RepoWhileWaitingWrites ==
    ASSUME BaseInv, NEW h \in Handlers, RepoWhileWaiting(h)
    PROVE  Writes(h)
<1> DEFINE p == Pruned(Ses(h))
           c == Captured(p, "repo", Arg(h))
           u == [c EXCEPT !.waiting = FALSE]
           s == Drop(u, "repo")
<1>1. Answering(h) /\ Goes(h, "advance") /\ Store(hs[h].ref, s, {}) /\ Quiet
  BY DEF RepoWhileWaiting, Saves
<1>2. hs[h].pc \in Working /\ hs[h].pc = "got" /\ p \in Session /\ Arg(h) \in Texts /\ Alike(Ses(h), p)
      /\ Plain(Ses(h)) /\ Ses(h) \in Session
  BY <1>1, Answerings
<1>3. Moved(h, "advance") /\ PanelsOnly
  BY <1>1, <1>2, Goings, Panelled
<1> HIDE DEF p
<1>4. c \in Session /\ Alike(Ses(h), c)
  BY <1>2, FieldsAre, Capturing DEF Alike
<1> HIDE DEF c
<1>5. u \in Session /\ Alike(c, u)
  <2>1. u \in Session
    BY <1>4 DEF Session
  <2> QED BY <1>4, <2>1 DEF Session, Alike
<1> HIDE DEF u
<1>6. Alike(Ses(h), s)
  BY <1>4, <1>5, Dropping DEF Alike
<1> HIDE DEF s
<1>7. Plain(s)
  BY <1>2, <1>6 DEF Alike, Plain
<1>8. s \in Session /\ Rewrites(h, "advance", s, {})
  BY <1>2, <1>6, <1>7, AlikeRewrites
<1> QED BY <1>1, <1>2, <1>3, <1>8, WritesIs

(* A dressed session that is stored has the third shape.                    *)
LEMMA DressedWrites ==
    ASSUME BaseInv, NEW h \in Handlers, hs[h].pc \in Working, Goes(h, "idle"),
           NEW s, Dressed(Ses(h), s) \/ Dressed(Pruned(Ses(h)), s),
           hs[h].pc = "advance" => Peek(Ses(h)) # "",
           PanelsOnly, Saves(h, s)
    PROVE  Writes(h)
<1>1. Ses(h) \in Session /\ Pruned(Ses(h)) \in Session /\ Alike(Ses(h), Pruned(Ses(h)))
      /\ Pruned(Ses(h)).ans = Ses(h).ans
  BY HandlerIs, PruningIs DEF Working, Alike
<1>2. Alike(Ses(h), s) /\ s.ans = Ses(h).ans
  BY <1>1 DEF Dressed, Alike
<1>3. Peek(s) = "" => Peek(Ses(h)) = ""
  BY <1>1, DressedNext, PrunedNext
<1>4. s \in Session /\ Rewrites(h, "idle", s, {})
  BY <1>1, <1>2, <1>3, AlikeRewrites
<1>5. Moved(h, "idle")
  BY Goings DEF Working
<1> QED BY <1>4, <1>5, WritesIs DEF Saves

(* The shape of ReconnectChecked.                                           *)
LEMMA ReconnectCheckedKeeps ==
    ASSUME BaseInv, NEW h \in Handlers, ReconnectChecked(h)
    PROVE  Writes(h) \/ Lets(h)
<1> DEFINE p == Pruned(Ses(h))
           s == [p EXCEPT !.waiting = FALSE]
<1>1. Answering(h) /\ Goes(h, "idle")
  BY DEF ReconnectChecked
<1>2. hs[h].pc \in Working /\ hs[h].pc = "got" /\ p \in Session
  BY <1>1, Answerings
<1>3. CASE Changes(h, p) /\ Quiet
  <2>1. PanelsOnly
    BY <1>3, Panelled
  <2> QED BY <1>1, <1>2, <1>3, <2>1, LetsIs
<1>4. ASSUME NEW d \in RepoDropdown(s, {""}), Saves(h, d[1]), Shows(d[2])
      PROVE  Writes(h)
  <2>1. s \in Session /\ Dressed(p, s)
    <3> HIDE DEF p
    <3>1. s \in Session
      BY <1>2 DEF Session
    <3> QED BY <1>2, <3>1 DEF Session, Dressed, Alike
  <2> HIDE DEF s
  <2>2. Dressed(s, d[1]) /\ d[2] \in SUBSET Panels
    BY <2>1, RepoDropdowns
  <2>3. Dressed(p, d[1])
    BY <2>1, <2>2 DEF Dressed, Alike
  <2>4. PanelsOnly
    BY <1>4, <2>2, Panelled
  <2> QED BY <1>1, <1>2, <1>4, <2>3, <2>4, DressedWrites
<1> QED BY <1>3, <1>4 DEF ReconnectChecked

(* The shape of Affirm.                                                     *)
LEMMA AffirmWrites ==
    ASSUME BaseInv, NEW h \in Handlers, Affirm(h)
    PROVE  Writes(h)
<1> DEFINE p == Pruned(Ses(h))
           v == Ses(h).suggested
           a == Answer(p, "repo", v)
           u == [a EXCEPT !.suggested = ""]
           s == Drop(u, "repo")
<1>1. /\ Answering(h) /\ Store(hs[h].ref, s, {}) /\ Quiet
      /\ hs' = [hs EXCEPT ![h] = [@ EXCEPT !.pc = "advance", !.via = "affirm"]]
  BY DEF Affirm, Saves
<1>2. hs[h].pc \in Working /\ hs[h].pc # "idle" /\ p \in Session /\ Alike(Ses(h), p)
      /\ Plain(Ses(h)) /\ Ses(h) \in Session
  BY <1>1, Answerings
<1>3. Moved(h, "advance") /\ PanelsOnly
  BY <1>1, <1>2, Turns, Panelled
<1>4. v \in Words
  <2>1. v \in Repos \cup {""}
    BY <1>2 DEF Session
  <2> QED BY <2>1, WordsAre
<1> HIDE DEF p, v
<1>5. a \in Session /\ Alike(p, a)
  <2>1. Alike(p, a)
    BY <1>2, <1>4, FieldsAre, Answered
  <2> QED BY <2>1 DEF Alike
<1> HIDE DEF a
<1>6. u \in Session /\ Alike(a, u)
  <2>1. u \in Session
    BY <1>5 DEF Session
  <2> QED BY <1>5, <2>1 DEF Session, Alike
<1> HIDE DEF u
<1>7. Alike(Ses(h), s)
  BY <1>2, <1>5, <1>6, Dropping DEF Alike
<1> HIDE DEF s
<1>8. Plain(s)
  BY <1>2, <1>7 DEF Alike, Plain
<1>9. s \in Session /\ Rewrites(h, "advance", s, {})
  BY <1>2, <1>7, <1>8, AlikeRewrites
<1> QED BY <1>1, <1>2, <1>3, <1>9, WritesIs

(* The shape of AskModel.                                                   *)
LEMMA AskModelLets ==
    ASSUME BaseInv, NEW h \in Handlers, AskModel(h)
    PROVE  Lets(h)
<1>1. /\ Answering(h) /\ Changes(h, Pruned(Ses(h))) /\ Quiet
      /\ hs' = [hs EXCEPT ![h] = [@ EXCEPT !.pc = "think", !.via = "model"]]
  BY DEF AskModel
<1>2. /\ hs[h].pc \in Working /\ hs[h].pc # "idle" /\ Kind(h) = "message"
      /\ Plain(Ses(h)) /\ Ses(h) \in Session
  BY <1>1, Answerings
<1>0. hs[h].pc # "advance"
  BY <1>1 DEF Answering, Got
<1>3. Moved(h, "think") /\ hs'[h].via = "model" /\ PanelsOnly
  BY <1>1, <1>2, Turns, Panelled
<1>4. Pruned(Ses(h)) \in Session /\ Pruned(Pruned(Ses(h))) = Pruned(Ses(h))
  BY <1>2, PruningIs DEF Alike
<1> QED BY <1>0, <1>1, <1>2, <1>3, <1>4 DEF Lets

(* The shape of EscalateFrontier.                                           *)
LEMMA EscalateFrontierLets ==
    ASSUME BaseInv, NEW h \in Handlers, EscalateFrontier(h)
    PROVE  Lets(h)
<1>1. /\ Got(h, "frontier") /\ Changes(h, Ses(h)) /\ Quiet
      /\ hs' = [hs EXCEPT ![h] = [@ EXCEPT !.pc = "think", !.via = "frontier"]]
  BY DEF EscalateFrontier, Leaves
<1>2. hs[h].pc \in Working /\ hs[h].pc # "idle" /\ Ses(h) \in Session
  BY <1>1, Gots
<1>0. hs[h].pc # "advance"
  BY <1>1 DEF Got
<1>3. Moved(h, "think") /\ hs'[h].via = "frontier" /\ PanelsOnly
  BY <1>1, <1>2, Turns, Panelled
<1> QED BY <1>0, <1>1, <1>2, <1>3 DEF Lets

-----------------------------------------------------------------------------
(* The model, buttons and dropdowns.                                        *)

(* The shape of CaptureAnswer.                                              *)
LEMMA CaptureAnswerKeeps ==
    ASSUME BaseInv, ThinkInv, NEW h \in Handlers, CaptureAnswer(h)
    PROVE  Writes(h) \/ Lets(h) \/ Drops(h)
<1> DEFINE p == Pruned(Ses(h))
           f == Peek(p)
           c == Captured(p, f, Arg(h))
           s == [c EXCEPT !.queue = Tail(@)]
<1>1. (Answering(h) /\ hs[h].pc = "got") \/ hs[h].pc = "capture"
  BY Answerings DEF CaptureAnswer
<1>2. hs[h].pc \in Working /\ hs[h].pc # "idle" /\ hs[h].pc \in {"got", "capture"}
  BY <1>1 DEF Working
<1>3. Ses(h) \in Session /\ p \in Session /\ Alike(Ses(h), p) /\ Arg(h) \in Texts
  <2>1. Ses(h) \in Session
    BY <1>2, HandlerIs
  <2>2. p \in Session /\ Alike(Ses(h), p)
    BY <2>1, PruningIs DEF Alike
  <2>3. CASE hs[h].pc = "capture"
    <3>1. Kind(h) = "message"
      BY <1>2, <2>3, HandlerIs DEF Fine, Kind
    <3>2. Arg(h) \in Texts
      BY <1>2, <3>1, HandlerIs, EventIs DEF Kind, Arg
    <3> QED BY <2>1, <2>2, <3>2
  <2>4. CASE Answering(h)
    BY <2>1, <2>2, <2>4, Answerings
  <2> QED BY <1>1, <2>3, <2>4
<1>4. CASE f = "" /\ Goes(h, "idle") /\ DropSession /\ Quiet
  BY <1>2, <1>4, DropsIs
<1>5. CASE f # "" /\ Goes(h, "idle") /\ Changes(h, p) /\ Shows(Dropdown(p, f))
  <2>1. PanelsOnly
    BY <1>5, DropdownIs, Panelled
  <2> QED BY <1>2, <1>5, <2>1, LetsIs
<1>6. CASE /\ f # ""
           /\ hs' = [hs EXCEPT ![h] = [@ EXCEPT !.pc = "advance", !.via = "direct"]]
           /\ Store(hs[h].ref, s, {}) /\ Quiet
  <2>1. Moved(h, "advance") /\ PanelsOnly
    BY <1>2, <1>6, Turns, Panelled
  <2>2. f \in Fields /\ p.queue # <<>>
    BY <1>3, <1>6, PeekIs
  <2>3. c \in Session /\ Alike(p, c) /\ c.queue = p.queue
    <3> HIDE DEF p, f
    <3>1. Alike(p, c) /\ c.queue = p.queue
      BY <1>3, <2>2, Capturing
    <3> QED BY <3>1 DEF Alike
  <2> HIDE DEF c
  <2>4. Alike(c, s)
    <3>1. Tail(c.queue) \in Seq(Fields)
      <4>1. c.queue \in Seq(Fields) /\ c.queue # <<>>
        BY <2>2, <2>3, QueueIs
      <4> QED BY <4>1
    <3> DEFINE q == Tail(c.queue)
    <3> HIDE DEF q
    <3>2. Alike(c, [c EXCEPT !.queue = q])
      BY <2>3, <3>1, QueueReplaced DEF q
    <3> QED BY <3>2 DEF q
  <2> HIDE DEF s
  <2>5. Alike(Ses(h), s)
    BY <1>3, <2>3, <2>4 DEF Alike
  <2>6. Plain(s) \/ ~Sure({"overlap", "slack"})
    <3>1. CASE Answering(h)
      BY <2>5, <3>1, Answerings DEF Alike, Plain
    <3>2. CASE hs[h].pc = "capture"
      <4>1. hs[h].via = "model"
        BY <3>2, HandlerIs DEF Fine
      <4>2. Plain(Ses(h)) \/ ~Sure({"overlap", "slack"})
        BY <3>2, <4>1 DEF ThinkInv, Sure
      <4> QED BY <2>5, <4>2 DEF Alike, Plain
    <3> QED BY <1>1, <3>1, <3>2
  <2>7. s \in Session /\ Rewrites(h, "advance", s, {})
    BY <1>3, <2>5, <2>6, AlikeRewrites
  <2> QED BY <1>2, <1>6, <2>1, <2>7, WritesIs
<1> QED BY <1>4, <1>5, <1>6 DEF CaptureAnswer, Saves

(* What the model read from the text leaves a session alike.                *)
LEMMA ExtractsAre ==
    ASSUME NEW s0 \in Session, NEW s \in Extracts(s0)
    PROVE  Alike(s0, s)
<1>1. PICK F \in SUBSET Extracted, r \in Repos :
          s = [s0 EXCEPT !.ans = [f \in Fields |-> IF f \in F THEN r ELSE s0.ans[f]]]
  BY DEF Extracts
<1> DEFINE a == [f \in Fields |-> IF f \in F THEN r ELSE s0.ans[f]]
<1>2. a \in Answers
  <2>1. s0.ans \in Answers /\ r \in Words
    BY WordsAre DEF Session
  <2> QED BY <2>1 DEF Answers
<1> HIDE DEF a
<1>3. s = [s0 EXCEPT !.ans = a]
  BY <1>1 DEF a
<1>4. s \in Session
  BY <1>2, <1>3 DEF Session
<1> QED BY <1>3, <1>4 DEF Session, Alike

(* What the model's verdict leaves is dressed.                              *)
LEMMA VerdictsAre ==
    ASSUME NEW s \in Session, NEW v \in Verdicts(s)
    PROVE  Dressed(s, v[1]) /\ v[2] \in SUBSET Panels
<1>1. {"frontier", "human"} \in SUBSET Panels /\ {"github"} \in SUBSET Panels
  BY DEF Panels, Kinds
<1>2. Dressed(s, s)
  BY DEF Dressed, Alike
<1>3. CASE v \in RepoDropdown(s, Repos \cup {""})
  BY <1>3, RepoDropdowns
<1>4. CASE v \in BranchDropdown(s)
  BY <1>4, BranchDropdowns
<1>5. CASE v \in {<<s, {}>>, <<s, {"frontier", "human"}>>, <<Wait(s), {"github"}>>}
  BY <1>1, <1>2, <1>5, Waiting
<1>6. v \in {<<s, {}>>, <<s, {"frontier", "human"}>>, <<Wait(s), {"github"}>>}
        \cup RepoDropdown(s, Repos \cup {""}) \cup BranchDropdown(s)
  BY DEF Verdicts
<1> QED BY <1>3, <1>4, <1>5, <1>6

(* Late is one of the disturbances a write may record.                      *)
LEMMA LateIs == Late \in SUBSET {"late", "early", "moot"}
  BY DEF Late

(* The shape of ModelAsks.                                                  *)
LEMMA ModelAsksKeeps ==
    ASSUME BaseInv, NEW h \in Handlers, ModelAsks(h)
    PROVE  Writes(h) \/ Lets(h)
<1>1. PICK s \in Extracts(Ses(h)) : \E v \in Verdicts(s) :
        /\ IF v[1] = Ses(h) THEN Leaves(h)
           ELSE Store(hs[h].ref, v[1], Late \cup Moot(Ses(h), v[1]))
        /\ Shows(v[2])
  BY DEF ModelAsks
<1>2. PICK v \in Verdicts(s) :
        /\ IF v[1] = Ses(h) THEN Leaves(h)
           ELSE Store(hs[h].ref, v[1], Late \cup Moot(Ses(h), v[1]))
        /\ Shows(v[2])
  BY <1>1
<1>3. hs[h].pc = "think" /\ Goes(h, "idle") /\ hs[h].pc \in Working
  BY DEF ModelAsks, Working
<1>4. Ses(h) \in Session /\ Moved(h, "idle")
  BY <1>3, HandlerIs, Goings
<1>5. s \in Session /\ Alike(Ses(h), s)
  BY <1>4, ExtractsAre DEF Alike
<1>6. Dressed(s, v[1]) /\ v[2] \in SUBSET Panels
  BY <1>5, VerdictsAre
<1>7. PanelsOnly
  BY <1>2, <1>6, Panelled
<1>8. CASE v[1] = Ses(h)
  BY <1>2, <1>3, <1>7, <1>8, LetsIs DEF Leaves
<1>9. CASE v[1] # Ses(h)
  <2> DEFINE t == v[1]
             more == Late \cup Moot(Ses(h), t)
  <2>1. Alike(Ses(h), t)
    BY <1>5, <1>6 DEF Dressed, Alike
  <2>2. more \in SUBSET {"late", "early", "moot"} /\ Late \in SUBSET more
        /\ (Peek(t) = "" /\ Peek(Ses(h)) # "" => "moot" \in more)
    BY LateIs DEF Moot
  <2>3. Store(hs[h].ref, t, more)
    BY <1>2, <1>9
  <2> HIDE DEF t, more
  <2>4. t \in Session /\ Rewrites(h, "idle", t, more)
    BY <1>3, <1>4, <2>1, <2>2, AlikeRewrites
  <2> QED BY <1>3, <1>4, <1>7, <2>2, <2>3, <2>4, WritesIs
<1> QED BY <1>8, <1>9

(* The shape of ModelFinishes.                                              *)
LEMMA ModelFinishesKeeps ==
    ASSUME BaseInv, NEW h \in Handlers, ModelFinishes(h)
    PROVE  Writes(h) \/ Lets(h)
<1>1. PICK s \in Extracts(Ses(h)) : IF s = Ses(h) THEN Leaves(h) ELSE Store(hs[h].ref, s, Late)
  BY DEF ModelFinishes
<1>2. hs[h].pc = "think" /\ Goes(h, "finalize") /\ Quiet /\ hs[h].pc \in Working
  BY DEF ModelFinishes, Working
<1>3. Ses(h) \in Session /\ Moved(h, "finalize") /\ PanelsOnly
  BY <1>2, HandlerIs, Goings, Panelled
<1>4. Alike(Ses(h), s)
  BY <1>3, ExtractsAre
<1>5. CASE s = Ses(h)
  BY <1>1, <1>2, <1>3, <1>5, LetsIs DEF Leaves
<1>6. CASE s # Ses(h)
  <2>1. s \in Session /\ Rewrites(h, "finalize", s, Late)
    BY <1>3, <1>4, AlikeRewrites
  <2> QED BY <1>1, <1>2, <1>3, <1>6, <2>1, LateIs, WritesIs
<1> QED BY <1>5, <1>6

(* The first question of a new request always applies.                     *)
LEMMA TitleNext ==
    ASSUME NEW s \in Session, s.queue = CreateQueue
    PROVE  Peek(s) # ""
<1>1. s.queue \in Seq(Fields) /\ s.queue # <<>> /\ s.queue[1] = "title"
  BY QueuesAre
<1>2. 1 \in DOMAIN s.queue
  BY <1>1
<1>3. Applies(s, "title")
  BY DEF Applies
<1>4. 1 \in Pending(s)
  BY <1>1, <1>2, <1>3 DEF Pending
<1> QED BY <1>4, PeekIs

(* The shape of ModelFails.                                                 *)
LEMMA ModelFailsKeeps ==
    ASSUME BaseInv, ThinkInv, NEW h \in Handlers, ModelFails(h)
    PROVE  Writes(h) \/ Lets(h)
<1>1. hs[h].pc = "think" /\ Quiet /\ hs[h].pc \in Working
  BY DEF ModelFails, Working
<1>2. Ses(h) \in Session /\ PanelsOnly
  BY <1>1, HandlerIs, Panelled
<1>3. CASE hs[h].via = "model" /\ Goes(h, "capture") /\ Changes(h, Ses(h))
  BY <1>1, <1>2, <1>3, LetsIs
<1>4. CASE Goes(h, "idle") /\ Changes(h, Pruned(Ses(h)))
  BY <1>1, <1>2, <1>4, LetsIs
<1>5. ASSUME hs[h].via = "seed", NEW flow \in {"model", "hardcoded"},
             Goes(h, "idle"), Store(hs[h].ref, [Ses(h) EXCEPT !.flow = flow], {})
      PROVE  Writes(h)
  <2> DEFINE s == [Ses(h) EXCEPT !.flow = flow]
  <2>1. s \in Session
    BY <1>2 DEF Session
  <2>2. /\ s.mode = Ses(h).mode /\ s.confirmed = Ses(h).confirmed /\ s.awaiting = Ses(h).awaiting
        /\ s.editing = Ses(h).editing /\ s.target = Ses(h).target /\ s.ans = Ses(h).ans
        /\ s.queue = Ses(h).queue
    BY <1>2 DEF Session
  <2> HIDE DEF s
  <2>3. Sure({"overlap"}) => Peek(s) # ""
    <3>1. Sure({"overlap"}) => s.queue = CreateQueue
      BY <1>1, <1>5, <2>2 DEF ThinkInv
    <3> QED BY <2>1, <3>1, TitleNext
  <2>4. Rewrites(h, "idle", s, {})
    BY <2>2, <2>3 DEF Rewrites, HasNext, Plain
  <2>5. Moved(h, "idle")
    BY <1>1, <1>5, Goings
  <2> QED BY <1>1, <1>2, <1>5, <2>1, <2>4, <2>5, WritesIs DEF s
<1> QED BY <1>3, <1>4, <1>5 DEF ModelFails, Leaves, Saves

(* The shape of EditField.                                                  *)
LEMMA EditFieldWrites ==
    ASSUME BaseInv, NEW h \in Handlers, EditField(h)
    PROVE  Writes(h)
<1> DEFINE s0 == Ses(h)
           s == [s0 EXCEPT !.awaiting = FALSE, !.confirmed = FALSE, !.target = "",
                           !.editing = TRUE, !.queue = <<>>]
<1>1. Got(h, "edit") /\ Goes(h, "idle") /\ Quiet /\ Store(hs[h].ref, s, Early(s0))
  BY DEF EditField
<1>2. hs[h].pc \in Working /\ hs[h].pc = "got" /\ s0 \in Session
  BY <1>1, Gots
<1>3. Moved(h, "idle") /\ PanelsOnly
  BY <1>1, <1>2, Goings, Panelled
<1>4. s \in Session
  <2> DEFINE q == <<>>
             T == Editable \cup {""}
  <2>1. q \in Seq(Fields) /\ "" \in T
    OBVIOUS
  <2> HIDE DEF q, T
  <2>2. [s0 EXCEPT !.awaiting = FALSE, !.confirmed = FALSE, !.target = "",
                   !.editing = TRUE, !.queue = q] \in Session
    BY <1>2, <2>1 DEF Session, T
  <2> QED BY <2>2 DEF q
<1>5. /\ s.mode = s0.mode /\ ~s.confirmed /\ ~s.awaiting /\ s.ans = s0.ans /\ s.editing
  BY <1>2 DEF Session
<1> HIDE DEF s
<1>6. Early(s0) \in SUBSET {"late", "early", "moot"} /\ (Plain(s0) => "early" \in Early(s0))
  BY DEF Early
<1>7. Rewrites(h, "idle", s, Early(s0))
  BY <1>5, <1>6 DEF Rewrites, HasNext, Plain
<1> QED BY <1>1, <1>2, <1>3, <1>4, <1>6, <1>7, WritesIs

(* The shape of ToggleMode.                                                 *)
LEMMA ToggleModeWrites ==
    ASSUME BaseInv, NEW h \in Handlers, ToggleMode(h)
    PROVE  Writes(h)
<1> DEFINE s0 == Ses(h)
           s == [s0 EXCEPT !.dev = ~@]
           p == Pruned(s)
           b == Dropdown(p, Peek(p))
           w == IF b = {} THEN s ELSE p
           more == Moot(s0, s)
<1>1. Got(h, "toggle") /\ Goes(h, "idle") /\ Shows(b) /\ StoreAs(hs[h].ref, p, w, more)
  BY DEF ToggleMode
<1>2. hs[h].pc \in Working /\ hs[h].pc = "got" /\ s0 \in Session
  BY <1>1, Gots
<1>3. Moved(h, "idle") /\ PanelsOnly
  BY <1>1, <1>2, Goings, DropdownIs, Panelled
<1>4. s \in Session /\ Alike(s0, s) /\ s.ans = s0.ans
  <2>1. s \in Session
    BY <1>2 DEF Session
  <2> QED BY <1>2, <2>1 DEF Session, Alike
<1> HIDE DEF s
<1>5. p \in Session /\ Alike(s, p) /\ p.ans = s.ans /\ Pruned(p) = Pruned(s) /\ (Peek(p) = "" <=> Peek(s) = "")
  BY <1>4, PruningIs, PrunedNext DEF Alike
<1> HIDE DEF p
<1>6. more \in SUBSET {"late", "early", "moot"} /\ (Peek(s) = "" /\ Peek(s0) # "" => "moot" \in more)
  BY DEF Moot
<1>7. w \in Session /\ Pruned(w) = Pruned(p)
  BY <1>4, <1>5
<1>8. Alike(s0, p) /\ p.ans = s0.ans
  BY <1>4, <1>5 DEF Alike
<1> HIDE DEF w, more
<1>9. Rewrites(h, "idle", p, more)
  BY <1>2, <1>5, <1>6, <1>8, AlikeRewrites
<1> QED BY <1>1, <1>2, <1>3, <1>5, <1>6, <1>7, <1>9 DEF Writes

(* The shape of ConnectGithub.                                              *)
LEMMA ConnectGithubWrites ==
    ASSUME BaseInv, NEW h \in Handlers, ConnectGithub(h)
    PROVE  Writes(h)
<1>1. Got(h, "github") /\ Goes(h, "idle") /\ Saves(h, Wait(Ses(h))) /\ Quiet
  BY DEF ConnectGithub
<1>2. hs[h].pc \in Working /\ hs[h].pc = "got" /\ Ses(h) \in Session
  BY <1>1, Gots
<1> QED BY <1>1, <1>2, Waiting, Panelled, DressedWrites

(* The shape of EscalateHuman.                                              *)
LEMMA EscalateHumanWrites ==
    ASSUME BaseInv, NEW h \in Handlers, EscalateHuman(h)
    PROVE  Writes(h)
<1> DEFINE s == [Ses(h) EXCEPT !.paused = TRUE]
<1>1. Got(h, "human") /\ Goes(h, "idle") /\ Saves(h, s) /\ Quiet
  BY DEF EscalateHuman
<1>2. hs[h].pc \in Working /\ hs[h].pc = "got" /\ Ses(h) \in Session
  BY <1>1, Gots
<1>3. Dressed(Ses(h), s)
  <2>1. s \in Session
    BY <1>2 DEF Session
  <2> QED BY <1>2, <2>1 DEF Session, Dressed, Alike
<1> HIDE DEF s
<1> QED BY <1>1, <1>2, <1>3, Panelled, DressedWrites

(* The shape of ShowDropdown.                                               *)
LEMMA ShowDropdownKeeps ==
    ASSUME BaseInv, NEW h \in Handlers, ShowDropdown(h)
    PROVE  Writes(h) \/ Lets(h)
<1>1. hs[h].pc = "got" /\ Goes(h, "idle") /\ hs[h].pc \in Working
  BY DEF ShowDropdown, Working
<1>2. Ses(h) \in Session
  BY <1>1, HandlerIs
<1>3. CASE Changes(h, Ses(h)) /\ Quiet
  BY <1>1, <1>3, Panelled, LetsIs
<1>4. ASSUME NEW d \in RepoDropdown(Ses(h), {""}) \cup BranchDropdown(Ses(h)), Saves(h, d[1]), Shows(d[2])
      PROVE  Writes(h)
  <2>1. Dressed(Ses(h), d[1]) /\ d[2] \in SUBSET Panels
    BY <1>2, RepoDropdowns, BranchDropdowns
  <2> QED BY <1>1, <1>4, <2>1, Panelled, DressedWrites
<1> QED BY <1>3, <1>4 DEF ShowDropdown, Leaves

-----------------------------------------------------------------------------
(* Choices and the next question.                                           *)

(* The session after a repository was chosen.                               *)
LEMMA RepoChosenIs ==
    ASSUME NEW s \in Session, NEW r \in Repos \cup {"none"}
    PROVE  LET c == RepoChosen(s, r)
           IN  /\ c \in Session /\ c.target = "" /\ c.mode = s.mode /\ c.awaiting = s.awaiting
               /\ c.confirmed = s.confirmed /\ c.editing = s.editing
<1> DEFINE u == [s EXCEPT !.target = ""]
           t == Drop(u, "repo")
           a == Answer(t, "repo", "")
           b == [a EXCEPT !.ans["base_branch"] = "absent", !.asked = @ \ {"base_branch"}]
<1>1. /\ u \in Session /\ u.target = "" /\ u.mode = s.mode /\ u.awaiting = s.awaiting
      /\ u.confirmed = s.confirmed /\ u.editing = s.editing
  BY TargetCleared
<1> HIDE DEF u
<1>2. Alike(u, t)
  BY <1>1, Dropping
<1> HIDE DEF t
<1>3. t \in Session /\ \A v \in Words : Alike(t, Answer(t, "repo", v))
  <2>1. t \in Session
    BY <1>2 DEF Alike
  <2> QED BY <2>1, FieldsAre, Answered
<1>4. CASE r = "none"
  <2>1. a \in Session /\ Alike(t, a)
    BY <1>3, WordsAre DEF Alike
  <2> HIDE DEF a
  <2> DEFINE c == [a.ans EXCEPT !["base_branch"] = "absent"]
             A == a.asked \ {"base_branch"}
  <2>2. c \in Answers /\ A \in SUBSET Fields
    BY <2>1, FieldsAre, WordsAre, AnswerIs
  <2>3. b = With(a, c, A)
    BY DEF With
  <2> HIDE DEF c, A, b
  <2>4. Alike(a, b)
    BY <2>1, <2>2, <2>3, AnswersReplaced
  <2>5. Alike(b, Drop(b, "base_branch"))
    BY <2>4, Dropping DEF Alike
  <2>6. RepoChosen(s, r) = Drop(b, "base_branch")
    BY <1>4 DEF RepoChosen, u, t, a, b
  <2> QED BY <1>1, <1>2, <2>1, <2>4, <2>5, <2>6 DEF Alike
<1>5. CASE r # "none"
  <2>1. Alike(t, Answer(t, "repo", r))
    BY <1>3, <1>5, WordsAre
  <2>2. Alike(Answer(t, "repo", r), RepoChanged(Answer(t, "repo", r), s.ans["repo"]))
    BY <2>1, Rechosen DEF Alike
  <2>3. RepoChosen(s, r) = RepoChanged(Answer(t, "repo", r), s.ans["repo"])
    BY <1>5 DEF RepoChosen, u, t
  <2> QED BY <1>1, <1>2, <2>1, <2>2, <2>3 DEF Alike
<1> QED BY <1>4, <1>5

(* The sessions after a branch was chosen.                                  *)
LEMMA BranchChosenIs ==
    ASSUME NEW s \in Session, NEW b \in Repos \cup {"none"}, NEW c \in BranchChosen(s, b)
    PROVE  /\ c \in Session /\ c.target = "" /\ c.mode = s.mode /\ c.awaiting = s.awaiting
           /\ c.confirmed = s.confirmed /\ c.editing = s.editing
<1> DEFINE d == [s EXCEPT !.ans["base_branch"] = ""]
<1>1. \A v \in Words : Alike(s, Answer(s, "base_branch", v))
  BY FieldsAre, Answered
<1>2. Alike(s, d)
  <2> DEFINE e == [s.ans EXCEPT !["base_branch"] = ""]
  <2>1. e \in Answers /\ s.asked \in SUBSET Fields /\ d = With(s, e, s.asked)
    BY FieldsAre, WordsAre, AnswerIs
  <2> HIDE DEF e, d
  <2>2. Alike(s, With(s, e, s.asked))
    BY <2>1, AnswersReplaced
  <2> QED BY <2>1, <2>2
<1> HIDE DEF d
<1>3. PICK t : Alike(s, t) /\ c = Drop([t EXCEPT !.target = ""], "base_branch")
  <2>1. PICK t \in IF b = "none" THEN {d, Answer(s, "base_branch", "auto")}
                   ELSE {Answer(s, "base_branch", b)} : c = Drop([t EXCEPT !.target = ""], "base_branch")
    BY DEF BranchChosen, d
  <2>2. b # "none" => b \in Words
    BY WordsAre
  <2>3. Alike(s, t)
    BY <1>1, <1>2, <2>1, <2>2, WordsAre
  <2> QED BY <2>1, <2>3
<1> DEFINE u == [t EXCEPT !.target = ""]
<1>4. /\ u \in Session /\ u.target = "" /\ u.mode = t.mode /\ u.awaiting = t.awaiting
      /\ u.confirmed = t.confirmed /\ u.editing = t.editing
  BY <1>3, TargetCleared DEF Alike
<1> HIDE DEF u
<1>5. Alike(u, Drop(u, "base_branch"))
  BY <1>4, Dropping
<1>6. c = Drop(u, "base_branch")
  BY <1>3 DEF u
<1> QED BY <1>3, <1>4, <1>5, <1>6 DEF Alike

(* A choice that is stored has the third shape.                             *)
LEMMA ChosenWrites ==
    ASSUME BaseInv, NEW h \in Handlers, hs[h].pc = "got", Goes(h, "advance"), Quiet,
           NEW c \in Session, Store(hs[h].ref, c, Late),
           c.target = "", c.mode = Ses(h).mode, c.awaiting = Ses(h).awaiting,
           c.confirmed = Ses(h).confirmed, c.editing = Ses(h).editing
    PROVE  Writes(h)
<1>1. Moved(h, "advance") /\ PanelsOnly /\ hs[h].pc \in Working
  BY Goings, Panelled DEF Working
<1>2. Rewrites(h, "advance", c, Late)
  BY DEF Rewrites, Plain
<1> QED BY <1>1, <1>2, LateIs, WritesIs

(* The shape of SelectRepo.                                                 *)
LEMMA SelectRepoKeeps ==
    ASSUME BaseInv, NEW h \in Handlers, SelectRepo(h)
    PROVE  Writes(h) \/ Lets(h)
<1>1. hs[h].pc = "got" /\ Kind(h) \in {"repo", "accept"} /\ Quiet /\ hs[h].pc \in Working
  BY DEF SelectRepo, Working
<1>2. Ses(h) \in Session /\ Arg(h) \in Repos \cup {"none", "new"} /\ PanelsOnly
  BY <1>1, Gots, Panelled DEF Got
<1> DEFINE s == IF Kind(h) = "accept" THEN [Ses(h) EXCEPT !.suggested = ""] ELSE Ses(h)
<1>3. CASE Arg(h) # "new" /\ Goes(h, "advance") /\ Store(hs[h].ref, RepoChosen(s, Arg(h)), Late)
  <2>1. /\ s \in Session /\ s.mode = Ses(h).mode /\ s.awaiting = Ses(h).awaiting
        /\ s.confirmed = Ses(h).confirmed /\ s.editing = Ses(h).editing
    <3>1. CASE Kind(h) = "accept"
      <4>1. s = [Ses(h) EXCEPT !.suggested = ""]
        BY <3>1
      <4> HIDE DEF s
      <4>2. s \in Session
        BY <1>2, <4>1 DEF Session
      <4> QED BY <1>2, <4>1, <4>2 DEF Session
    <3>2. CASE Kind(h) # "accept"
      BY <1>2, <3>2
    <3> QED BY <3>1, <3>2
  <2> HIDE DEF s
  <2>2. Arg(h) \in Repos \cup {"none"}
    BY <1>2, <1>3
  <2> DEFINE c == RepoChosen(s, Arg(h))
  <2>3. /\ c \in Session /\ c.target = "" /\ c.mode = s.mode /\ c.awaiting = s.awaiting
        /\ c.confirmed = s.confirmed /\ c.editing = s.editing
    BY <2>1, <2>2, RepoChosenIs
  <2>4. Store(hs[h].ref, c, Late)
    BY <1>3
  <2> HIDE DEF c
  <2> QED BY <1>1, <1>3, <2>1, <2>3, <2>4, ChosenWrites
<1>4. CASE Goes(h, "idle") /\ Changes(h, Ses(h))
  BY <1>1, <1>2, <1>4, LetsIs
<1> QED BY <1>3, <1>4 DEF SelectRepo, Leaves

(* The shape of SelectBranch.                                               *)
LEMMA SelectBranchKeeps ==
    ASSUME BaseInv, NEW h \in Handlers, SelectBranch(h)
    PROVE  Writes(h) \/ Lets(h)
<1>1. Got(h, "branch") /\ Quiet
  BY DEF SelectBranch
<1>2. /\ hs[h].pc = "got" /\ hs[h].pc \in Working /\ Ses(h) \in Session
      /\ Arg(h) \in Repos \cup {"none", "new"} /\ PanelsOnly
  BY <1>1, Gots, Panelled
<1>3. ASSUME Arg(h) # "new", Goes(h, "advance"), NEW c \in BranchChosen(Ses(h), Arg(h)),
             Store(hs[h].ref, c, Late)
      PROVE  Writes(h)
  <2>1. Arg(h) \in Repos \cup {"none"}
    BY <1>2, <1>3
  <2> QED BY <1>1, <1>2, <1>3, <2>1, BranchChosenIs, ChosenWrites
<1>4. CASE Goes(h, "idle") /\ Changes(h, Ses(h))
  BY <1>2, <1>4, LetsIs
<1> QED BY <1>3, <1>4 DEF SelectBranch, Leaves

(* The shape of Advance.                                                    *)
LEMMA AdvanceKeeps ==
    ASSUME BaseInv, NEW h \in Handlers, Advance(h)
    PROVE  Writes(h) \/ Lets(h)
<1> DEFINE p == Pruned(Ses(h))
           f == Peek(p)
<1>1. hs[h].pc = "advance" /\ hs[h].pc \in Working
  BY DEF Advance, Working
<1>2. Ses(h) \in Session /\ p \in Session
  BY <1>1, HandlerIs, PruningIs DEF Alike
<1>3. CASE f = "" /\ Goes(h, "finalize") /\ Changes(h, p) /\ Quiet
  BY <1>1, <1>3, Panelled, LetsIs
<1>4. f # "" => Peek(Ses(h)) # "" /\ HasNext(Ses(h))
  BY <1>2, PrunedNext DEF HasNext
<1>5. ASSUME f # "", Goes(h, "idle"), NEW d \in BranchDropdown(p) \cup {<<Wait(p), {"github"}>>},
             Saves(h, d[1]), Shows(d[2])
      PROVE  Writes(h)
  <2>1. Dressed(p, d[1]) /\ d[2] \in SUBSET Panels
    <3>1. {"github"} \in SUBSET Panels
      BY DEF Panels, Kinds
    <3>2. Dressed(p, Wait(p))
      BY <1>2, Waiting
    <3>3. d \in BranchDropdown(p) => Dressed(p, d[1]) /\ d[2] \in SUBSET Panels
      <4> HIDE DEF p
      <4> QED BY <1>2, BranchDropdowns
    <3>4. d = <<Wait(p), {"github"}>> => d[1] = Wait(p) /\ d[2] = {"github"}
      OBVIOUS
    <3>5. d \in BranchDropdown(p) \/ d = <<Wait(p), {"github"}>>
      BY <1>5
    <3> HIDE DEF p
    <3> QED BY <3>1, <3>2, <3>3, <3>4, <3>5
  <2> QED BY <1>1, <1>4, <1>5, <2>1, Panelled, DressedWrites
<1>6. CASE f # "" /\ Goes(h, "idle") /\ Shows(Dropdown(p, f)) /\ Changes(h, p)
  <2>1. PanelsOnly
    BY <1>6, DropdownIs, Panelled
  <2> QED BY <1>1, <1>4, <1>6, <2>1, LetsIs
<1>7. CASE f # "" /\ Goes(h, "idle") /\ Shows(Dropdown(p, f)) /\ Saves(h, p)
  <2>1. PanelsOnly
    BY <1>7, DropdownIs, Panelled
  <2>2. Dressed(p, p)
    BY <1>2 DEF Dressed, Alike
  <2> QED BY <1>1, <1>4, <1>7, <2>1, <2>2, DressedWrites
<1>8. \/ f = "" /\ Goes(h, "finalize") /\ Changes(h, p) /\ Quiet
      \/ /\ f # "" /\ Goes(h, "idle")
         /\ \E d \in BranchDropdown(p) \cup {<<Wait(p), {"github"}>>} : Saves(h, d[1]) /\ Shows(d[2])
      \/ f # "" /\ Goes(h, "idle") /\ Shows(Dropdown(p, f)) /\ (Changes(h, p) \/ Saves(h, p))
  BY DEF Advance
<1> QED BY <1>3, <1>5, <1>6, <1>7, <1>8

-----------------------------------------------------------------------------
(* Endings and beginnings.                                                  *)

Confirms(h) ==
    \E s \in Session :
        /\ Got(h, "confirm") /\ Moved(h, "finalize")
        /\ Store(hs[h].ref, s, Early(Ses(h)))
        /\ s.mode = Ses(h).mode /\ s.ans = Ses(h).ans /\ s.confirmed /\ ~s.awaiting
        /\ Plain(Ses(h)) => Plain(s)
        /\ confirms' = confirms + 1
        /\ UNCHANGED <<shown, buttons, feature, requests, events>>

Summarises(h) ==
    \E s \in Session :
        /\ hs[h].pc = "finalize" /\ Moved(h, "review") /\ hs'[h].spec = SpecOf(Ses(h))
        /\ Creates(h) /\ ~Ses(h).confirmed
        /\ Changes(h, s) /\ Quiet
        /\ s.mode = Ses(h).mode /\ s.ans = Ses(h).ans /\ s.awaiting /\ ~s.confirmed

Sends(h) ==
    \E s \in Session :
        /\ hs[h].pc = "finalize" /\ Moved(h, "send")
        /\ Changes(h, s) /\ Quiet
        /\ s.mode = Ses(h).mode /\ s.ans = Ses(h).ans
        /\ \/ /\ Creates(h) /\ Ses(h).confirmed /\ hs'[h].spec = SpecOf(Ses(h))
              /\ ~s.awaiting /\ ~s.confirmed
           \/ ~Creates(h) /\ s = Ses(h)

Stores(h) == Review(h) /\ Moved(h, "idle")
Stumbles(h) == SlackFails(h) /\ \E to \in {"idle", "capture"} : Moved(h, to)
Gives(h) == (Sent(h) \/ SendFails(h)) /\ Moved(h, "drop") /\ hs'[h].spec = hs[h].spec

(* A new object becomes the session, and h may start to work on it.        *)
Begins(h) ==
    \E o \in Objects, s \in Session, more \in SUBSET {"overlap", "moot"} :
        /\ heap[o] = None /\ o # cache /\ hs[h] = Idle
        /\ Store(o, s, more)
        /\ Plain(s) /\ ~s.confirmed /\ ~s.awaiting
        /\ HasNext(s) \/ "moot" \in more
        /\ Busy # {} => "overlap" \in more
        /\ UNCHANGED <<shown, feature, confirms, requests>>
        /\ events' \in 1 .. MaxEvents
        /\ hs' = [hs EXCEPT ![h] = hs'[h]] /\ hs'[h] \in Handler /\ Fine(hs'[h])
        /\ \/ /\ s.mode = "create" /\ events = 0 /\ s.queue = CreateQueue
              /\ buttons' = {"toggle"}
              /\ hs'[h] = Idle \/ (hs'[h].pc = "think" /\ hs'[h].ref = o /\ hs'[h].via = "seed"
                                   /\ hs'[h].event[1] = "start")
           \/ /\ s.mode = "update" /\ feature # None
              /\ hs' = hs /\ buttons' = buttons

(* The session fetched by a handler that receives something.               *)
Fetches(h) ==
    \E o \in Objects, s \in Session :
        /\ hs[h] = Idle
        /\ hs' = [hs EXCEPT ![h] = hs'[h]] /\ hs'[h] \in Handler /\ Fine(hs'[h])
        /\ hs'[h].pc = "got" /\ hs'[h].ref = o /\ hs'[h].event[1] # "start"
        /\ hs'[h].event[1] = "confirm" => "confirm" \in buttons
        /\ cache' = o /\ Holding(o, s)
        /\ \/ o = cache /\ s = heap[o]
           \/ heap[o] = None /\ o # cache /\ row # None /\ s = row
              /\ (Busy # {} /\ cache # 0 => "expired" \in disturbed')
        /\ disturbed \in SUBSET disturbed'
        /\ disturbed' \in SUBSET (disturbed \cup {"overlap", "expired"})
        /\ Busy # {} => "overlap" \in disturbed'
        /\ events > 0 /\ events' \in 1 .. MaxEvents
        /\ UNCHANGED <<row, thread>>

-----------------------------------------------------------------------------
(* Some object is free whenever some handler is.                           *)
LEMMA FreeIs ==
    ASSUME BaseInv, NEW h \in Handlers, hs[h] = Idle
    PROVE  Free \in Objects /\ heap[Free] = None /\ Free # cache
<1> DEFINE n == Cardinality(Handlers)
           ref == [g \in Handlers |-> hs[g].ref]
           Refs == {hs[g].ref : g \in Handlers}
           Used == Refs \cup {cache}
<1>1. IsFiniteSet(Handlers) /\ n \in Nat
  BY BoundAssumption, FS_CardinalityType
<1>2. IsFiniteSet(Refs) /\ Cardinality(Refs) <= n
  <2>1. ref \in Surjection(Handlers, Refs)
    <3>1. ref \in [Handlers -> Refs] /\ \A t \in Refs : \E g \in Handlers : ref[g] = t
      OBVIOUS
    <3> HIDE DEF ref, Refs
    <3> QED BY <3>1, Fun_IsSurj
  <2> HIDE DEF ref, Refs
  <2> QED BY <1>1, <2>1, FS_Surjection
<1>3. IsFiniteSet(Used) /\ Cardinality(Used) <= n + 1
  <2> HIDE DEF Refs, n
  <2>1. /\ IsFiniteSet(Used)
        /\ Cardinality(Used) = IF cache \in Refs THEN Cardinality(Refs) ELSE Cardinality(Refs) + 1
    BY <1>2, FS_AddElement
  <2>2. Cardinality(Refs) \in Nat
    BY <1>2, FS_CardinalityType
  <2> HIDE DEF Used
  <2> QED BY <1>1, <1>2, <2>1, <2>2
<1>4. IsFiniteSet(Objects) /\ Cardinality(Objects) = n + 2
  <2>1. Objects = 1 .. n + 2
    BY DEF Objects
  <2>2. 1 \in Int /\ n + 2 \in Int /\ ~(1 > n + 2) /\ n + 2 - 1 + 1 = n + 2
    BY <1>1
  <2> HIDE DEF n
  <2> QED BY <2>1, <2>2, FS_Interval
<1>5. ~(Objects \subseteq Used)
  <2> HIDE DEF Used, n
  <2>1. SUFFICES ASSUME Objects \in SUBSET Used PROVE FALSE
    OBVIOUS
  <2>2. Cardinality(Objects) <= Cardinality(Used)
    BY <1>3, <2>1, FS_Subset
  <2>3. Cardinality(Used) \in Nat
    BY <1>3, FS_CardinalityType
  <2> QED BY <1>1, <1>3, <1>4, <2>2, <2>3
<1>6. PICK o \in Objects : o \notin Used
  BY <1>5
<1>7. heap[o] = None /\ o # cache
  <2>1. o # cache /\ \A g \in Handlers : hs[g].ref # o
    BY <1>6
  <2> QED BY <2>1 DEF BaseInv, LinkInv
<1> QED BY <1>7 DEF Free

-----------------------------------------------------------------------------
(* The shape of ConfirmSpec.                                                *)
LEMMA ConfirmSpecShape ==
    ASSUME BaseInv, NEW h \in Handlers, ConfirmSpec(h)
    PROVE  Confirms(h)
<1> DEFINE s == [Ses(h) EXCEPT !.awaiting = FALSE, !.confirmed = TRUE]
<1>1. /\ Got(h, "confirm") /\ Goes(h, "finalize") /\ Store(hs[h].ref, s, Early(Ses(h)))
      /\ confirms' = confirms + 1 /\ UNCHANGED <<shown, buttons, feature, requests, events>>
  BY DEF ConfirmSpec
<1>2. Ses(h) \in Session /\ hs[h].pc # "idle"
  BY <1>1, Gots
<1>3. Moved(h, "finalize")
  BY <1>1, <1>2, Goings
<1>4. s \in Session
  BY <1>2 DEF Session
<1>5. /\ s.mode = Ses(h).mode /\ s.ans = Ses(h).ans /\ s.confirmed /\ ~s.awaiting
      /\ Plain(Ses(h)) => Plain(s)
  BY <1>2 DEF Session, Plain
<1> HIDE DEF s
<1> QED BY <1>1, <1>3, <1>4, <1>5 DEF Confirms

(* The shape of Summarise.                                                  *)
LEMMA SummariseShape ==
    ASSUME BaseInv, NEW h \in Handlers, Summarise(h)
    PROVE  Summarises(h)
<1> DEFINE s == [Ses(h) EXCEPT !.awaiting = TRUE]
<1>1. /\ hs[h].pc = "finalize" /\ Creates(h) /\ ~Ses(h).confirmed
      /\ Ends(h, "review", SpecOf(Ses(h))) /\ Changes(h, s) /\ Quiet
  BY DEF Summarise
<1>2. Ses(h) \in Session
  BY <1>1, HandlerIs
<1>3. Moved(h, "review") /\ hs'[h].spec = SpecOf(Ses(h))
  BY <1>1, <1>2, SpecIs, Endings
<1>4. s \in Session
  BY <1>2 DEF Session
<1>5. s.mode = Ses(h).mode /\ s.ans = Ses(h).ans /\ s.awaiting /\ s.confirmed = Ses(h).confirmed
  BY <1>2 DEF Session
<1> HIDE DEF s
<1> QED BY <1>1, <1>3, <1>4, <1>5 DEF Summarises

(* The shape of SendSpec.                                                   *)
LEMMA SendSpecShape ==
    ASSUME BaseInv, NEW h \in Handlers, SendSpec(h)
    PROVE  Sends(h)
<1> DEFINE s == [Ses(h) EXCEPT !.awaiting = FALSE, !.confirmed = FALSE]
<1>1. /\ hs[h].pc = "finalize" /\ Creates(h) /\ Ses(h).confirmed
      /\ Ends(h, "send", SpecOf(Ses(h))) /\ Changes(h, s) /\ Quiet
  BY DEF SendSpec
<1>2. Ses(h) \in Session
  BY <1>1, HandlerIs
<1>3. Moved(h, "send") /\ hs'[h].spec = SpecOf(Ses(h))
  BY <1>1, <1>2, SpecIs, Endings
<1>4. s \in Session
  BY <1>2 DEF Session
<1>5. s.mode = Ses(h).mode /\ s.ans = Ses(h).ans /\ ~s.awaiting /\ ~s.confirmed
  BY <1>2 DEF Session
<1> HIDE DEF s
<1> QED BY <1>1, <1>3, <1>4, <1>5 DEF Sends

(* The shape of SendPatch.                                                  *)
LEMMA SendPatchShape ==
    ASSUME BaseInv, NEW h \in Handlers, SendPatch(h)
    PROVE  Sends(h)
<1>1. /\ hs[h].pc = "finalize" /\ ~Creates(h)
      /\ Ends(h, "send", Patched(Ses(h), feature)) /\ Changes(h, Ses(h)) /\ Quiet
  BY DEF SendPatch, Leaves
<1>2. Ses(h) \in Session
  BY <1>1, HandlerIs
<1>3. feature \in Answers
  <2>1. Ses(h).mode = "update"
    BY <1>1, <1>2 DEF Creates, Session
  <2>2. hs[h].ref \in Objects /\ heap[hs[h].ref] # None
    BY <1>1, <1>2, HandlerIs, NoneAssumption DEF Ses
  <2>3. feature # None
    BY <2>1, <2>2 DEF BaseInv, LinkInv, Ses
  <2> QED BY <2>3 DEF BaseInv, TypeOK
<1>4. Moved(h, "send")
  BY <1>1, <1>2, <1>3, PatchedIs, Endings
<1> QED BY <1>1, <1>2, <1>4 DEF Sends

(* The shape of Review.                                                     *)
LEMMA ReviewShape ==
    ASSUME BaseInv, NEW h \in Handlers, Review(h)
    PROVE  Stores(h)
  BY Goings DEF Review, Stores

(* The shape of SlackFails.                                                 *)
LEMMA SlackFailsShape ==
    ASSUME BaseInv, NEW h \in Handlers, SlackFails(h)
    PROVE  Stumbles(h)
<1>1. hs[h].pc # "idle" /\ Goes(h, IF hs[h].via = "model" THEN "capture" ELSE "idle")
  BY DEF SlackFails
<1>2. CASE hs[h].via = "model"
  BY <1>1, <1>2, Goings DEF Stumbles
<1>3. CASE hs[h].via # "model"
  BY <1>1, <1>3, Goings DEF Stumbles
<1> QED BY <1>2, <1>3

(* The shape of Gives.                                                      *)
LEMMA GivesShape ==
    ASSUME BaseInv, NEW h \in Handlers, Sent(h) \/ SendFails(h)
    PROVE  Gives(h)
<1>1. hs[h].pc = "send" /\ Goes(h, "drop")
  BY DEF Sent, SendFails
<1>2. Moved(h, "drop")
  BY <1>1, Goings
<1>3. hs'[h].spec = hs[h].spec
  <2>1. hs \in [Handlers -> Handler] /\ hs[h] \in Handler
    BY DEF BaseInv, TypeOK
  <2>2. hs'[h] = [hs[h] EXCEPT !.pc = "drop"]
    BY <1>1, <2>1 DEF Goes
  <2> QED BY <2>1, <2>2 DEF Handler
<1> QED BY <1>2, <1>3 DEF Gives

(* The shape of Start.                                                      *)
LEMMA StartShape ==
    ASSUME BaseInv, NEW h \in Handlers, Start(h)
    PROVE  Begins(h)
<1> DEFINE flow == IF UseModel THEN "model" ELSE "hardcoded"
           s == NewSession("create", flow, CreateQueue, Blank)
           e == <<"start", CHOOSE t \in Texts : TRUE>>
<1>1. PICK pc \in IF UseModel THEN {"think", "idle"} ELSE {"idle"} :
        /\ hs' = [hs EXCEPT ![h] = IF pc = "idle" THEN Idle
                    ELSE [@ EXCEPT !.pc = pc, !.ref = Free, !.via = "seed", !.event = e]]
        /\ Store(Free, s, {})
  BY DEF Start
<1>2. /\ events = 0 /\ MaxEvents > 0 /\ hs[h] = Idle /\ events' = 1
      /\ buttons' = {"toggle"} /\ UNCHANGED <<shown, feature, confirms, requests>>
  BY DEF Start, Takes
<1>3. Free \in Objects /\ heap[Free] = None /\ Free # cache
  BY <1>2, FreeIs
<1>4. s \in Session /\ Plain(s) /\ ~s.confirmed /\ ~s.awaiting /\ s.mode = "create" /\ s.queue = CreateQueue
  <2>1. Blank \in Answers
    BY DEF Blank, Answers, Words
  <2>2. flow \in {"model", "hardcoded", "none"}
    OBVIOUS
  <2> HIDE DEF flow
  <2> QED BY <2>1, <2>2, QueuesAre, NewIs
<1> HIDE DEF s
<1>5. HasNext(s)
  BY <1>4, TitleNext DEF HasNext
<1>6. Busy = {}
  BY <1>2 DEF BaseInv, LinkInv
<1>7. events' \in 1 .. MaxEvents
  BY <1>2, BoundAssumption
<1>8. hs \in [Handlers -> Handler]
  BY DEF BaseInv, TypeOK
<1>9. CASE pc = "idle"
  <2>1. hs' = [hs EXCEPT ![h] = hs'[h]] /\ hs'[h] = Idle
    BY <1>1, <1>8, <1>9
  <2>2. Idle \in Handler /\ Fine(Idle)
    BY DEF Idle, Handler, Fine
  <2> QED BY <1>1, <1>2, <1>3, <1>4, <1>5, <1>6, <1>7, <2>1, <2>2 DEF Begins
<1>10. CASE pc # "idle"
  <2>1. pc = "think"
    BY <1>1, <1>10
  <2>2. e \in {"message", "start"} \X Texts /\ e[1] = "start" /\ e # <<>>
    BY TextsAssumption
  <2> HIDE DEF e
  <2> DEFINE o == Free
  <2> HIDE DEF o
  <2>3. o \in Objects
    BY <1>3 DEF o
  <2>4. /\ hs' = [hs EXCEPT ![h] = hs'[h]]
        /\ hs'[h] = [Idle EXCEPT !.pc = "think", !.ref = o, !.via = "seed", !.event = e]
    BY <1>1, <1>2, <1>8, <1>10, <2>1 DEF o
  <2>5. hs'[h] = [pc |-> "think", ref |-> o, event |-> e, via |-> "seed", spec |-> None]
    BY <2>4 DEF Idle
  <2>6. hs'[h] \in Handler /\ hs'[h].pc = "think" /\ hs'[h].ref = o /\ hs'[h].via = "seed" /\ hs'[h].event = e
    BY <2>2, <2>3, <2>5 DEF Handler
  <2>7. Fine(hs'[h])
    BY <2>2, <2>3, <2>6 DEF Fine
  <2> QED BY <1>1, <1>2, <1>3, <1>4, <1>5, <1>6, <1>7, <2>2, <2>4, <2>6, <2>7 DEF Begins, o
<1> QED BY <1>9, <1>10

(* The shape of StartUpdate.                                                *)
LEMMA StartUpdateShape ==
    ASSUME BaseInv, NEW h \in Handlers, StartUpdate(h)
    PROVE  Begins(h)
<1> DEFINE s == NewSession("update", "none", UpdateQueue, feature)
           more == (IF Busy = {} THEN {} ELSE {"overlap"}) \cup (IF Peek(s) = "" THEN {"moot"} ELSE {})
<1>1. /\ "details" \in buttons /\ hs[h] = Idle /\ events < MaxEvents /\ events' = events + 1
      /\ hs' = hs /\ Store(Free, s, more)
      /\ UNCHANGED <<shown, buttons, feature, confirms, requests>>
  BY DEF StartUpdate, Takes, thread
<1>2. Free \in Objects /\ heap[Free] = None /\ Free # cache
  BY <1>1, FreeIs
<1>3. feature \in Answers /\ feature # None
  BY <1>1 DEF BaseInv, LinkInv, TypeOK
<1>4. s \in Session /\ Plain(s) /\ ~s.confirmed /\ ~s.awaiting /\ s.mode = "update"
  BY <1>3, QueuesAre, NewIs
<1>5. /\ more \in SUBSET {"overlap", "moot"}
      /\ HasNext(s) \/ "moot" \in more
      /\ Busy # {} => "overlap" \in more
  BY DEF HasNext
<1>6. events' \in 1 .. MaxEvents
  <2>1. events \in 0 .. MaxEvents /\ MaxEvents \in Nat
    BY BoundAssumption DEF BaseInv, TypeOK
  <2>2. events < MaxEvents /\ events' = events + 1
    BY <1>1
  <2> QED BY <2>1, <2>2
<1>7. hs' = [hs EXCEPT ![h] = hs'[h]] /\ hs'[h] \in Handler /\ Fine(hs'[h])
  BY <1>1 DEF BaseInv, TypeOK, HandlersInv
<1> HIDE DEF s, more
<1> QED BY <1>1, <1>2, <1>3, <1>4, <1>5, <1>6, <1>7 DEF Begins

(* Every click has a kind.                                                  *)
LEMMA ClicksAre ==
    ASSUME NEW e \in Clicks
    PROVE  e[1] \in Kinds /\ e # <<>>
<1>1. CASE e \in {<<k, "">> : k \in Kinds \ {"message", "repo", "accept", "branch"}}
  <2>1. PICK k \in Kinds \ {"message", "repo", "accept", "branch"} : e = <<k, "">>
    BY <1>1
  <2> QED BY <2>1
<1>2. CASE e \in ({"accept"} \X Repos) \cup ({"repo"} \X (Repos \cup {"none", "new"}))
                  \cup ({"branch"} \X (Repos \cup {"none", "new"}))
  BY <1>2 DEF Kinds
<1> QED BY <1>1, <1>2 DEF Clicks

(* The shape of Receive.                                                    *)
LEMMA ReceiveShape ==
    ASSUME BaseInv, NEW h \in Handlers, NEW e \in ({"message"} \X Texts) \cup Clicks, Receive(h, e)
    PROVE  Fetches(h)
<1>1. /\ hs[h] = Idle /\ events > 0
      /\ e[1] = "message" \/ e[1] \in buttons
      /\ events' = events + (IF Busy = {} THEN 1 ELSE 2) /\ events' <= MaxEvents
      /\ UNCHANGED <<row, thread>>
  BY DEF Receive, Takes
<1>2. PICK expired \in {cache = 0, TRUE} :
        LET o == IF expired THEN Free ELSE cache
        IN  /\ expired => row # None
            /\ cache' = o
            /\ hs' = [hs EXCEPT ![h] = [@ EXCEPT !.pc = "got", !.ref = o, !.event = e]]
            /\ Holding(o, IF expired THEN row ELSE heap[o])
            /\ disturbed' = disturbed \cup (IF Busy = {} THEN {} ELSE {"overlap"})
                                      \cup (IF Busy # {} /\ cache # 0 /\ expired THEN {"expired"} ELSE {})
  BY DEF Receive
<1>3. Free \in Objects /\ heap[Free] = None /\ Free # cache
  BY <1>1, FreeIs
<1> DEFINE o == IF expired THEN Free ELSE cache
           s == IF expired THEN row ELSE heap[o]
<1>4. o \in Objects /\ s \in Session
  <2>1. CASE expired
    BY <1>2, <1>3, <2>1 DEF BaseInv, TypeOK
  <2>2. CASE ~expired
    <3>1. cache # 0
      BY <1>2, <2>2
    <3>2. heap[cache] \in Session
      BY <3>1 DEF BaseInv, TypeOK
    <3>3. o = cache /\ s = heap[cache]
      BY <2>2
    <3>4. cache \in Objects
      BY <3>1 DEF BaseInv, TypeOK
    <3> HIDE DEF o, s
    <3> QED BY <3>2, <3>3, <3>4
  <2> QED BY <2>1, <2>2
<1>5. e \in {<<>>} \cup ({"message", "start"} \X Texts) \cup Clicks /\ e # <<>> /\ e[1] # "start"
  <2>1. CASE e \in {"message"} \X Texts
    BY <2>1
  <2>2. CASE e \in Clicks
    <3>1. e[1] \in Kinds /\ e # <<>>
      BY <2>2, ClicksAre
    <3> QED BY <2>2, <3>1 DEF Kinds
  <2> QED BY <2>1, <2>2
<1>6. hs \in [Handlers -> Handler]
  BY DEF BaseInv, TypeOK
<1>7. \/ o = cache /\ s = heap[o]
      \/ heap[o] = None /\ o # cache /\ row # None /\ s = row
         /\ (Busy # {} /\ cache # 0 => "expired" \in disturbed')
  <2>1. CASE expired
    <3>1. o = Free /\ s = row /\ row # None
      BY <1>2, <2>1
    <3>2. Busy # {} /\ cache # 0 => "expired" \in disturbed'
      BY <1>2, <2>1
    <3> HIDE DEF o, s
    <3> QED BY <1>3, <3>1, <3>2
  <2>2. CASE ~expired
    <3>1. o = cache
      BY <2>2
    <3>2. s = heap[o]
      BY <2>2
    <3> HIDE DEF o, s
    <3> QED BY <3>1, <3>2
  <2> QED BY <2>1, <2>2
<1>8. cache' = o /\ Holding(o, s)
  BY <1>2
<1>9. /\ disturbed \in SUBSET disturbed' /\ disturbed' \in SUBSET (disturbed \cup {"overlap", "expired"})
      /\ Busy # {} => "overlap" \in disturbed'
  BY <1>2
<1>10. events' \in 1 .. MaxEvents
  <2>1. events \in 0 .. MaxEvents /\ MaxEvents \in Nat
    BY BoundAssumption DEF BaseInv, TypeOK
  <2> QED BY <1>1, <2>1
<1> HIDE DEF s
<1>11. hs' = [hs EXCEPT ![h] = [@ EXCEPT !.pc = "got", !.ref = o, !.event = e]]
  BY <1>2
<1> HIDE DEF o
<1>12. hs'[h] = [Idle EXCEPT !.pc = "got", !.ref = o, !.event = e] /\ hs' = [hs EXCEPT ![h] = hs'[h]]
  BY <1>1, <1>6, <1>11
<1>13. hs'[h] = [pc |-> "got", ref |-> o, event |-> e, via |-> "direct", spec |-> None]
  BY <1>12 DEF Idle
<1>14. hs'[h] \in Handler /\ hs'[h].pc = "got" /\ hs'[h].ref = o /\ hs'[h].event = e /\ hs'[h].via = "direct"
  BY <1>4, <1>5, <1>13 DEF Handler
<1>15. Fine(hs'[h])
  BY <1>4, <1>5, <1>14 DEF Fine
<1> QED BY <1>1, <1>4, <1>5, <1>7, <1>8, <1>9, <1>10, <1>12, <1>14, <1>15 DEF Fetches

-----------------------------------------------------------------------------
(* What a step places.                                                      *)

(* Where a step puts the object o, with what it becomes.                   *)
Placed(o, s) ==
    /\ Holding(o, s) /\ s \in Session \cup {None}
    /\ hs' \in [Handlers -> Handler]
    /\ \A g \in Handlers : Fine(hs'[g])
    /\ \A g \in Handlers : hs'[g].pc # "idle" =>
          IF hs'[g].ref = o THEN s \in Session ELSE heap[hs'[g].ref] \in Session
    /\ cache' \in Objects \cup {0}
    /\ cache' # 0 => IF cache' = o THEN s \in Session ELSE heap[cache'] \in Session

(* What the heap is after a step that places s at o.                        *)
LEMMA PlacedIs ==
    ASSUME BaseInv, NEW o, NEW s, Placed(o, s)
    PROVE  /\ heap' \in [Objects -> Session \cup {None}]
           /\ \A g \in Handlers : hs'[g].pc # "idle" =>
                 /\ hs'[g].ref \in Objects /\ heap'[hs'[g].ref] \in Session
                 /\ heap'[hs'[g].ref] = IF hs'[g].ref = o THEN s ELSE heap[hs'[g].ref]
           /\ cache' # 0 =>
                 /\ cache' \in Objects /\ heap'[cache'] \in Session
                 /\ heap'[cache'] = IF cache' = o THEN s ELSE heap[cache']
           /\ \A p \in Objects : heap'[p] # None =>
                 /\ p = cache' \/ \E g \in Handlers : hs'[g].ref = p
                 /\ heap'[p] = IF p = o THEN s ELSE heap[p]
<1>1. /\ heap' = [p \in Objects |-> IF p = cache' \/ \E g \in Handlers : hs'[g].ref = p
                                    THEN IF p = o THEN s ELSE heap[p]
                                    ELSE None]
      /\ s \in Session \cup {None} /\ heap \in [Objects -> Session \cup {None}]
  BY DEF Placed, Holding, BaseInv, TypeOK
<1>2. heap' \in [Objects -> Session \cup {None}]
  BY <1>1
<1>3. ASSUME NEW g \in Handlers, hs'[g].pc # "idle"
      PROVE  /\ hs'[g].ref \in Objects /\ heap'[hs'[g].ref] \in Session
             /\ heap'[hs'[g].ref] = IF hs'[g].ref = o THEN s ELSE heap[hs'[g].ref]
  <2>1. hs'[g].ref \in Objects
    BY <1>3 DEF Placed, Fine
  <2>2. heap'[hs'[g].ref] = IF hs'[g].ref = o THEN s ELSE heap[hs'[g].ref]
    BY <1>1, <2>1
  <2> QED BY <1>3, <2>1, <2>2 DEF Placed
<1>4. ASSUME cache' # 0
      PROVE  /\ cache' \in Objects /\ heap'[cache'] \in Session
             /\ heap'[cache'] = IF cache' = o THEN s ELSE heap[cache']
  <2>1. cache' \in Objects
    BY <1>4 DEF Placed
  <2>2. heap'[cache'] = IF cache' = o THEN s ELSE heap[cache']
    BY <1>1, <2>1
  <2> QED BY <1>4, <2>1, <2>2 DEF Placed
<1>5. ASSUME NEW p \in Objects, heap'[p] # None
      PROVE  /\ p = cache' \/ \E g \in Handlers : hs'[g].ref = p
             /\ heap'[p] = IF p = o THEN s ELSE heap[p]
  BY <1>1, <1>5
<1> QED BY <1>2, <1>3, <1>4, <1>5

Typed ==
    /\ row' \in Session \cup {None}
    /\ {shown', feature'} \subseteq Answers \cup {None}
    /\ buttons' \subseteq Kinds \cup {"details"}
    /\ confirms' \in Nat
    /\ requests' \in [{"create", "update"} -> Nat]
    /\ disturbed' \subseteq {"overlap", "crash", "store", "slack", "late", "early", "moot", "expired"}
    /\ events' \in 0 .. MaxEvents /\ events' # 0
    /\ feature # None => feature' # None

Linked(s) ==
    /\ \A g \in Handlers : hs'[g].pc # "idle" /\ hs'[g].event[1] = "confirm" => shown' # None
    /\ s # None /\ s.mode = "update" => feature' # None
    /\ row' # None /\ row'.mode = "update" => feature' # None
    /\ "details" \in buttons' => feature' # None
    /\ "confirm" \in buttons' => shown' # None

(* Such a step keeps the base invariant when its links are right.           *)
LEMMA BaseKept ==
    ASSUME BaseInv, NEW o, NEW s, Placed(o, s), Typed, Linked(s)
    PROVE  BaseInv'
<1>1. TypeOK'
  <2>1. heap' \in [Objects -> Session \cup {None}] /\ cache' \in Objects \cup {0}
        /\ hs' \in [Handlers -> Handler]
    BY PlacedIs DEF Placed
  <2>2. \A x \in Session : x # None
    BY NoneAssumption
  <2>3. cache' # 0 => heap'[cache'] # None
    BY <2>2, PlacedIs
  <2>4. \A g \in Busy' : heap'[hs'[g].ref] # None
    BY <2>2, PlacedIs DEF Busy
  <2> QED BY <2>1, <2>3, <2>4 DEF TypeOK, Typed
<1>2. HandlersInv'
  BY PlacedIs DEF HandlersInv, Placed, Linked, Kind
<1>3. LinkInv'
  <2>1. \A p \in Objects : heap'[p] # None => p = cache' \/ \E g \in Handlers : hs'[g].ref = p
    BY PlacedIs
  <2>2. \A p \in Objects : heap'[p] # None /\ heap'[p].mode = "update" => feature' # None
    <3>1. \A p \in Objects : heap'[p] # None => heap'[p] = IF p = o THEN s ELSE heap[p]
      BY PlacedIs
    <3>2. \A p \in Objects : heap[p] # None /\ heap[p].mode = "update" => feature' # None
      BY DEF BaseInv, LinkInv, Typed
    <3> QED BY <3>1, <3>2 DEF Linked
  <2> QED BY <2>1, <2>2 DEF LinkInv, Linked, Typed
<1> QED BY <1>1, <1>2, <1>3 DEF BaseInv

-----------------------------------------------------------------------------
(* A step of the busy handler h.                                           *)
LEMMA Steps ==
    ASSUME BaseInv, NEW h \in Handlers, hs[h].pc # "idle", NEW to, Moved(h, to)
    PROVE  /\ hs' \in [Handlers -> Handler] /\ \A g \in Handlers : Fine(hs'[g])
           /\ \A g \in Handlers : g # h => hs'[g] = hs[g]
           /\ \A g \in Handlers : hs'[g].pc # "idle" => hs'[g].ref = hs[g].ref /\ hs'[g].event = hs[g].event
           /\ \A g \in Handlers : hs'[g].pc # "idle" => hs[g].pc # "idle"
           /\ events # 0 /\ hs[h].ref \in Objects /\ hs[h].ref # 0 /\ Ses(h) \in Session
           /\ hs'[h].pc = to
<1>1. hs \in [Handlers -> Handler] /\ hs' = [hs EXCEPT ![h] = hs'[h]] /\ hs'[h] \in Handler /\ Fine(hs'[h])
      /\ hs'[h].pc = to /\ (to # "idle" => hs'[h].ref = hs[h].ref /\ hs'[h].event = hs[h].event)
  BY DEF BaseInv, TypeOK, Moved
<1>2. \A g \in Handlers : g # h => hs'[g] = hs[g]
  BY <1>1
<1>3. hs' \in [Handlers -> Handler]
  BY <1>1
<1>4. \A g \in Handlers : Fine(hs'[g])
  BY <1>1, <1>2 DEF BaseInv, HandlersInv
<1>5. \A g \in Handlers : hs'[g].pc # "idle" =>
         hs'[g].ref = hs[g].ref /\ hs'[g].event = hs[g].event /\ hs[g].pc # "idle"
  BY <1>1, <1>2
<1>6. events # 0
  BY DEF BaseInv, LinkInv, Busy
<1>7. hs[h].ref \in Objects /\ Ses(h) \in Session
  BY HandlerIs
<1>8. 0 \notin Objects
  BY DEF Objects
<1> QED BY <1>1, <1>2, <1>3, <1>4, <1>5, <1>6, <1>7, <1>8

(* A step of h on its own object places it.                                 *)
LEMMA MovedPlaced ==
    ASSUME BaseInv, NEW h \in Handlers, hs[h].pc # "idle", NEW to, Moved(h, to),
           NEW s \in Session, Holding(hs[h].ref, s), cache' \in {cache, hs[h].ref}
    PROVE  /\ Placed(hs[h].ref, s)
           /\ heap'[cache'] = (IF cache' = hs[h].ref THEN s ELSE heap[cache']) \/ cache' = 0
           /\ to # "idle" => hs'[h].ref = hs[h].ref /\ heap'[hs[h].ref] = s
<1>1. \A g \in Handlers : hs'[g].pc # "idle" => heap[hs'[g].ref] \in Session
  BY Steps DEF BaseInv, HandlersInv
<1>2. cache' \in Objects \cup {0} /\ (cache' # 0 => heap[cache'] \in Session)
  <2>1. heap[hs[h].ref] \in Session /\ hs[h].ref \in Objects
    BY Steps DEF Ses
  <2>2. cache \in Objects \cup {0} /\ (cache # 0 => heap[cache] \in Session)
    BY DEF BaseInv, TypeOK
  <2> QED BY <2>1, <2>2
<1>3. Placed(hs[h].ref, s)
  BY <1>1, <1>2, Steps DEF Placed
<1>4. to # "idle" => hs'[h].ref = hs[h].ref /\ hs'[h].pc # "idle"
  BY Steps DEF Moved
<1> QED BY <1>3, <1>4, PlacedIs

(* A step of h that drops the session places nothing.                       *)
LEMMA DropPlaced ==
    ASSUME BaseInv, NEW h \in Handlers, hs[h].pc # "idle", NEW to, Moved(h, to), DropSession
    PROVE  Placed(0, None) /\ cache' = 0
<1>1. \A g \in Handlers : hs'[g].pc # "idle" => heap[hs'[g].ref] \in Session /\ hs'[g].ref # 0
  <2>1. \A g \in Handlers : hs[g].pc # "idle" => heap[hs[g].ref] \in Session /\ hs[g].ref # 0
    BY DEF BaseInv, HandlersInv, Fine, Objects
  <2> QED BY <2>1, Steps
<1>2. cache' = 0 /\ Holding(0, None)
  BY DEF DropSession
<1> QED BY <1>1, <1>2, Steps DEF Placed

(* What a step of h that leaves the thread's links alone has to show.      *)
LEMMA PanelTyped ==
    ASSUME BaseInv, NEW h \in Handlers, hs[h].pc # "idle", NEW to, Moved(h, to),
           PanelsOnly, row' \in Session \cup {None},
           disturbed' \subseteq {"overlap", "crash", "store", "slack", "late", "early", "moot", "expired"},
           NEW s, s # None /\ s.mode = "update" => feature # None,
           row' # None /\ row'.mode = "update" => feature # None
    PROVE  Typed /\ Linked(s)
<1>1. Typed
  <2>1. /\ shown' = shown /\ feature' = feature /\ confirms' = confirms /\ requests' = requests
        /\ events' = events /\ buttons' \in SUBSET (Kinds \cup {"details"})
    BY DEF PanelsOnly
  <2> QED BY <2>1, Steps DEF Typed, BaseInv, TypeOK
<1>2. \A g \in Handlers : hs'[g].pc # "idle" /\ hs'[g].event[1] = "confirm" => shown # None
  BY Steps DEF BaseInv, HandlersInv, Kind
<1>3. Linked(s)
  BY <1>2 DEF Linked, PanelsOnly, BaseInv, LinkInv
<1> QED BY <1>1, <1>3

-----------------------------------------------------------------------------
(* The base invariant, shape by shape.                                      *)

(* What storing a session does to the cache, the row and the record of      *)
(* disturbances.                                                            *)
LEMMA StoreAsIs ==
    ASSUME BaseInv, NEW o, NEW s, NEW w \in Session, NEW more, StoreAs(o, s, w, more)
    PROVE  /\ cache' = o /\ Holding(o, s) /\ row' \in {w, row} /\ row' \in Session \cup {None}
           /\ disturbed' \in SUBSET (disturbed \cup more \cup {"store"})
           /\ disturbed \in SUBSET disturbed' /\ more \in SUBSET disturbed'
           /\ row' = w \/ "store" \in disturbed'
  BY DEF StoreAs, BaseInv, TypeOK

(* What dropping the session does to them.                                  *)
LEMMA DropSessionIs ==
    ASSUME BaseInv, DropSession
    PROVE  /\ cache' = 0 /\ Holding(0, None) /\ row' \in {None, row} /\ row' \in Session \cup {None}
           /\ disturbed' \in SUBSET (disturbed \cup {"store"}) /\ disturbed \in SUBSET disturbed'
           /\ row' = None \/ "store" \in disturbed'
  BY DEF DropSession, BaseInv, TypeOK

(* An update session, or row, has a request to update.                      *)
LEMMA UpdateHasFeature ==
    ASSUME BaseInv
    PROVE  /\ \A h \in Handlers : hs[h].pc # "idle" /\ Ses(h).mode = "update" => feature # None
           /\ row # None /\ row.mode = "update" => feature # None
<1>1. ASSUME NEW h \in Handlers, hs[h].pc # "idle", Ses(h).mode = "update" PROVE feature # None
  <2>1. hs[h].ref \in Objects /\ heap[hs[h].ref] # None
    BY <1>1, HandlerIs, NoneAssumption DEF Ses
  <2> QED BY <1>1, <2>1 DEF BaseInv, LinkInv, Ses
<1> QED BY <1>1 DEF BaseInv, LinkInv

Disturbances == {"overlap", "crash", "store", "slack", "late", "early", "moot", "expired"}

(* A step of the shape Drops keeps the base invariant.                      *)
LEMMA DropsBase ==
    ASSUME BaseInv, NEW h \in Handlers, Drops(h)
    PROVE  BaseInv'
<1>1. hs[h].pc # "idle" /\ Moved(h, "idle") /\ DropSession /\ PanelsOnly
  BY DEF Drops
<1>2. Placed(0, None)
  BY <1>1, DropPlaced
<1>3. row' \in Session \cup {None} /\ (row' # None /\ row'.mode = "update" => feature # None)
      /\ disturbed' \subseteq Disturbances
  BY <1>1, DropSessionIs, UpdateHasFeature DEF BaseInv, TypeOK, Disturbances
<1>4. Typed /\ Linked(None)
  BY <1>1, <1>3, PanelTyped DEF Disturbances
<1> QED BY <1>2, <1>4, BaseKept

(* A step of the shape Lets keeps the base invariant.                       *)
LEMMA LetsBase ==
    ASSUME BaseInv, NEW h \in Handlers, Lets(h)
    PROVE  BaseInv'
<1>1. PICK to \in {"idle", "think", "capture", "finalize"}, s \in Session :
        hs[h].pc # "idle" /\ Moved(h, to) /\ Changes(h, s) /\ PanelsOnly /\ Pruned(s) = Pruned(Ses(h))
  BY DEF Lets, Working
<1>2. UNCHANGED <<cache, row, disturbed>> /\ Holding(hs[h].ref, s)
  BY <1>1 DEF Changes
<1>3. Placed(hs[h].ref, s)
  BY <1>1, <1>2, MovedPlaced
<1>4. s.mode = Ses(h).mode
  BY <1>1, HandlerIs, PrunedSame DEF Alike
<1>5. /\ row' \in Session \cup {None} /\ disturbed' \subseteq Disturbances
      /\ row' # None /\ row'.mode = "update" => feature # None
      /\ s.mode = "update" => feature # None
  BY <1>1, <1>2, <1>4, UpdateHasFeature DEF BaseInv, TypeOK, Disturbances
<1>6. Typed /\ Linked(s)
  BY <1>1, <1>5, PanelTyped DEF Disturbances
<1> QED BY <1>3, <1>6, BaseKept

(* A step of the shape Writes keeps the base invariant.                     *)
LEMMA WritesBase ==
    ASSUME BaseInv, NEW h \in Handlers, Writes(h)
    PROVE  BaseInv'
<1>1. PICK to \in {"idle", "advance", "finalize"}, s \in Session, w \in Session,
           more \in SUBSET {"late", "early", "moot"} :
        /\ hs[h].pc # "idle" /\ Moved(h, to) /\ StoreAs(hs[h].ref, s, w, more) /\ PanelsOnly
        /\ Pruned(w) = Pruned(s) /\ s.mode = Ses(h).mode
  BY DEF Writes, Working, Rewrites
<1>2. Placed(hs[h].ref, s)
  BY <1>1, StoreAsIs, MovedPlaced
<1>3. w.mode = Ses(h).mode
  BY <1>1, PrunedSame DEF Alike
<1>0. /\ row' \in {w, row} /\ row' \in Session \cup {None}
      /\ disturbed' \in SUBSET (disturbed \cup more \cup {"store"})
  BY <1>1, StoreAsIs
<1>4. /\ row' \in Session \cup {None} /\ disturbed' \subseteq Disturbances
      /\ row' # None /\ row'.mode = "update" => feature # None
      /\ s.mode = "update" => feature # None
  BY <1>0, <1>1, <1>3, UpdateHasFeature DEF BaseInv, TypeOK, Disturbances
<1>5. Typed /\ Linked(s)
  BY <1>1, <1>4, PanelTyped DEF Disturbances
<1> QED BY <1>2, <1>5, BaseKept

(* A step of the shape Confirms keeps the base invariant.                   *)
LEMMA ConfirmsBase ==
    ASSUME BaseInv, NEW h \in Handlers, Confirms(h)
    PROVE  BaseInv'
<1>1. PICK s \in Session :
        /\ Got(h, "confirm") /\ Moved(h, "finalize") /\ Store(hs[h].ref, s, Early(Ses(h)))
        /\ s.mode = Ses(h).mode /\ confirms' = confirms + 1
        /\ UNCHANGED <<shown, buttons, feature, requests, events>>
  BY DEF Confirms
<1>2. hs[h].pc # "idle"
  BY <1>1 DEF Got
<1>3. Early(Ses(h)) \in SUBSET {"early"}
  BY DEF Early
<1>4. StoreAs(hs[h].ref, s, s, Early(Ses(h)))
  BY <1>1 DEF Store
<1>5. Placed(hs[h].ref, s)
  BY <1>1, <1>2, <1>4, StoreAsIs, MovedPlaced
<1>6. /\ row' \in Session \cup {None} /\ disturbed' \subseteq Disturbances
      /\ row' # None /\ row'.mode = "update" => feature # None
      /\ s.mode = "update" => feature # None
  <2>1. /\ row' \in {s, row} /\ row' \in Session \cup {None}
        /\ disturbed' \in SUBSET (disturbed \cup Early(Ses(h)) \cup {"store"})
    BY <1>4, StoreAsIs
  <2> QED BY <1>1, <1>2, <1>3, <2>1, UpdateHasFeature DEF BaseInv, TypeOK, Disturbances
<1>7. Typed
  BY <1>1, <1>2, <1>6, Steps DEF Typed, Disturbances, BaseInv, TypeOK
<1>8. \A g \in Handlers : hs'[g].pc # "idle" /\ hs'[g].event[1] = "confirm" => shown # None
  BY <1>1, <1>2, Steps DEF BaseInv, HandlersInv, Kind
<1>9. Linked(s)
  BY <1>1, <1>6, <1>8 DEF Linked, BaseInv, LinkInv
<1> QED BY <1>5, <1>7, <1>9, BaseKept

(* What Summarises, Sends and the other quiet endings share.               *)
LEMMA QuietBase ==
    ASSUME BaseInv, NEW h \in Handlers, hs[h].pc # "idle", NEW to, Moved(h, to),
           NEW s \in Session, Changes(h, s), Quiet, s.mode = Ses(h).mode
    PROVE  BaseInv'
<1>1. UNCHANGED <<cache, row, disturbed>> /\ Holding(hs[h].ref, s) /\ PanelsOnly
  BY Panelled DEF Changes
<1>2. Placed(hs[h].ref, s)
  BY <1>1, MovedPlaced
<1>3. /\ row' \in Session \cup {None} /\ disturbed' \subseteq Disturbances
      /\ row' # None /\ row'.mode = "update" => feature # None
      /\ s.mode = "update" => feature # None
  BY <1>1, UpdateHasFeature DEF BaseInv, TypeOK, Disturbances
<1>4. Typed /\ Linked(s)
  BY <1>1, <1>3, PanelTyped DEF Disturbances
<1> QED BY <1>2, <1>4, BaseKept

(* A step of the shape Summarises keeps the base invariant.                 *)
LEMMA SummarisesBase ==
    ASSUME BaseInv, NEW h \in Handlers, Summarises(h)
    PROVE  BaseInv'
  BY QuietBase DEF Summarises

(* A step of the shape Sends keeps the base invariant.                      *)
LEMMA SendsBase ==
    ASSUME BaseInv, NEW h \in Handlers, Sends(h)
    PROVE  BaseInv'
  BY QuietBase DEF Sends

(* A step of the shape Stores keeps the base invariant.                     *)
LEMMA StoresBase ==
    ASSUME BaseInv, NEW h \in Handlers, Stores(h)
    PROVE  BaseInv'
<1>1. /\ hs[h].pc = "review" /\ Moved(h, "idle") /\ StoreAs(hs[h].ref, Ses(h), Ses(h), {})
      /\ shown' = hs[h].spec /\ buttons' = buttons \cup {"confirm", "edit", "cancel"}
      /\ UNCHANGED <<feature, confirms, requests, events>>
  BY DEF Stores, Review, Saves, Store
<1>2. Ses(h) \in Session /\ hs[h].spec \in Answers
  BY <1>1, HandlerIs DEF Fine
<1>3. Placed(hs[h].ref, Ses(h))
  BY <1>1, <1>2, StoreAsIs, MovedPlaced
<1>4. /\ row' \in Session \cup {None} /\ disturbed' \subseteq Disturbances
      /\ row' # None /\ row'.mode = "update" => feature # None
      /\ Ses(h).mode = "update" => feature # None
  <2>1. /\ row' \in {Ses(h), row} /\ row' \in Session \cup {None}
        /\ disturbed' \in SUBSET (disturbed \cup {} \cup {"store"})
    BY <1>1, <1>2, StoreAsIs
  <2> QED BY <1>1, <2>1, UpdateHasFeature DEF BaseInv, TypeOK, Disturbances
<1>5. hs[h].spec # None
  BY <1>2, NoneAssumption
<1>6. Typed
  <2>1. buttons' \subseteq Kinds \cup {"details"}
    BY <1>1 DEF BaseInv, TypeOK, Kinds
  <2> QED BY <1>1, <1>2, <1>4, <2>1, Steps DEF Typed, Disturbances, BaseInv, TypeOK
<1>7. Linked(Ses(h))
  BY <1>1, <1>4, <1>5 DEF Linked, BaseInv, LinkInv
<1> QED BY <1>2, <1>3, <1>6, <1>7, BaseKept

(* What a failed post leaves.                                               *)
LEMMA StumblesIs ==
    ASSUME BaseInv, NEW h \in Handlers, Stumbles(h)
    PROVE  \E to \in {"idle", "capture"}, s \in Session :
              /\ hs[h].pc \in {"advance", "review"} /\ Moved(h, to) /\ Holding(hs[h].ref, s) /\ Quiet
              /\ disturbed' = disturbed \cup {"slack"}
              /\ s.mode = Ses(h).mode /\ s.confirmed = Ses(h).confirmed
              /\ \/ cache' = hs[h].ref /\ row' = s
                 \/ cache' = cache /\ row' = row /\ s = Ses(h)
<1>1. PICK to \in {"idle", "capture"} : Moved(h, to)
  BY DEF Stumbles
<1>2. hs[h].pc \in {"advance", "review"} /\ Quiet /\ disturbed' = disturbed \cup {"slack"}
  BY DEF Stumbles, SlackFails
<1>3. Ses(h) \in Session
  BY <1>2, HandlerIs
<1> DEFINE s == [Ses(h) EXCEPT !.flow = "hardcoded"]
<1>4. s \in Session
  BY <1>3 DEF Session
<1>5. s.mode = Ses(h).mode /\ s.confirmed = Ses(h).confirmed
  BY <1>3 DEF Session
<1>6. \/ cache' = hs[h].ref /\ row' = s /\ Holding(hs[h].ref, s)
      \/ cache' = cache /\ row' = row /\ Holding(hs[h].ref, Ses(h))
  BY DEF Stumbles, SlackFails
<1> HIDE DEF s
<1> QED BY <1>1, <1>2, <1>3, <1>4, <1>5, <1>6

(* A step of the shape Stumbles keeps the base invariant.                   *)
LEMMA StumblesBase ==
    ASSUME BaseInv, NEW h \in Handlers, Stumbles(h)
    PROVE  BaseInv'
<1>1. PICK to \in {"idle", "capture"}, s \in Session :
              /\ hs[h].pc # "idle" /\ Moved(h, to) /\ Holding(hs[h].ref, s) /\ PanelsOnly
              /\ disturbed' = disturbed \cup {"slack"}
              /\ s.mode = Ses(h).mode
              /\ cache' \in {cache, hs[h].ref} /\ row' \in {s, row}
  BY StumblesIs, Panelled
<1>2. Placed(hs[h].ref, s)
  BY <1>1, MovedPlaced
<1>3. /\ row' \in Session \cup {None} /\ disturbed' \subseteq Disturbances
      /\ row' # None /\ row'.mode = "update" => feature # None
      /\ s.mode = "update" => feature # None
  BY <1>1, UpdateHasFeature DEF BaseInv, TypeOK, Disturbances
<1>4. Typed /\ Linked(s)
  BY <1>1, <1>3, PanelTyped DEF Disturbances
<1> QED BY <1>2, <1>4, BaseKept

(* A step of the shape Gives keeps the base invariant.                      *)
LEMMA GivesBase ==
    ASSUME BaseInv, NEW h \in Handlers, Gives(h)
    PROVE  BaseInv'
<1>1. hs[h].pc = "send" /\ Moved(h, "drop") /\ Changes(h, Ses(h))
  BY DEF Gives, Sent, SendFails, Leaves
<1>2. Ses(h) \in Session /\ hs[h].spec \in Answers
  BY <1>1, HandlerIs DEF Fine
<1>3. CASE SendFails(h)
  BY <1>1, <1>2, <1>3, QuietBase DEF SendFails
<1>4. CASE Sent(h)
  <2>1. /\ UNCHANGED <<cache, row, disturbed>> /\ Holding(hs[h].ref, Ses(h))
        /\ feature' = hs[h].spec /\ buttons' = buttons \cup {"details"}
        /\ UNCHANGED <<shown, confirms, events>>
    BY <1>1, <1>4 DEF Sent, Changes
  <2>2. requests' \in [{"create", "update"} -> Nat]
    <3>1. requests \in [{"create", "update"} -> Nat] /\ Ses(h).mode \in {"create", "update"}
      BY <1>2 DEF BaseInv, TypeOK, Session
    <3>2. requests' = IF Creates(h) THEN [requests EXCEPT ![Ses(h).mode] = @ + 1] ELSE requests
      BY <1>4 DEF Sent
    <3> DEFINE m == Ses(h).mode
    <3> HIDE DEF m
    <3>3. [requests EXCEPT ![m] = @ + 1] \in [{"create", "update"} -> Nat]
      BY <3>1 DEF m
    <3> QED BY <3>1, <3>2, <3>3 DEF m
  <2>3. Placed(hs[h].ref, Ses(h))
    BY <1>1, <1>2, <2>1, MovedPlaced
  <2>4. hs[h].spec # None
    BY <1>2, NoneAssumption
  <2>5. Typed
    BY <1>1, <1>2, <2>1, <2>2, <2>4, Steps DEF Typed, BaseInv, TypeOK
  <2>6. \A g \in Handlers : hs'[g].pc # "idle" /\ hs'[g].event[1] = "confirm" => shown # None
    BY <1>1, Steps DEF BaseInv, HandlersInv, Kind
  <2>7. Linked(Ses(h))
    BY <2>1, <2>4, <2>6 DEF Linked, BaseInv, LinkInv
  <2> QED BY <1>2, <2>3, <2>5, <2>7, BaseKept
<1> QED BY <1>3, <1>4 DEF Gives

(* The beginning of a session, or of a handler, places its object.          *)
LEMMA BeginsPlaced ==
    ASSUME BaseInv, NEW h \in Handlers, NEW o \in Objects, NEW s \in Session,
           cache' = o, Holding(o, s), hs' = [hs EXCEPT ![h] = hs'[h]], hs'[h] \in Handler, Fine(hs'[h]),
           hs'[h].pc # "idle" => hs'[h].ref = o
    PROVE  Placed(o, s) /\ \A g \in Handlers : g # h => hs'[g] = hs[g]
<1>1. hs \in [Handlers -> Handler]
  BY DEF BaseInv, TypeOK
<1>2. \A g \in Handlers : g # h => hs'[g] = hs[g]
  BY <1>1
<1>3. hs' \in [Handlers -> Handler]
  BY <1>1
<1>4. \A g \in Handlers : Fine(hs'[g])
  BY <1>2 DEF BaseInv, HandlersInv
<1>5. \A g \in Handlers : hs'[g].pc # "idle" => hs'[g].ref = o \/ heap[hs'[g].ref] \in Session
  BY <1>2 DEF BaseInv, HandlersInv
<1> QED BY <1>2, <1>3, <1>4, <1>5 DEF Placed

(* A step of the shape Begins keeps the base invariant.                     *)
LEMMA BeginsBase ==
    ASSUME BaseInv, NEW h \in Handlers, Begins(h)
    PROVE  BaseInv'
<1>1. PICK o \in Objects, s \in Session, more \in SUBSET {"overlap", "moot"} :
        /\ heap[o] = None /\ o # cache /\ hs[h] = Idle
        /\ Store(o, s, more)
        /\ UNCHANGED <<shown, feature, confirms, requests>>
        /\ events' \in 1 .. MaxEvents
        /\ hs' = [hs EXCEPT ![h] = hs'[h]] /\ hs'[h] \in Handler /\ Fine(hs'[h])
        /\ \/ /\ s.mode = "create" /\ events = 0
              /\ buttons' = {"toggle"}
              /\ hs'[h] = Idle \/ (hs'[h].pc = "think" /\ hs'[h].ref = o /\ hs'[h].event[1] = "start")
           \/ /\ s.mode = "update" /\ feature # None
              /\ hs' = hs /\ buttons' = buttons
  BY DEF Begins
<1>2. StoreAs(o, s, s, more)
  BY <1>1 DEF Store
<1>3. Placed(o, s) /\ \A g \in Handlers : g # h => hs'[g] = hs[g]
  BY <1>1, <1>2, StoreAsIs, BeginsPlaced DEF Idle
<1>4. /\ row' \in {s, row} /\ row' \in Session \cup {None} /\ disturbed' \subseteq Disturbances
  BY <1>1, <1>2, StoreAsIs DEF BaseInv, TypeOK, Disturbances
<1>5. s.mode = "update" => feature # None
  BY <1>1
<1>6. Typed
  <2>1. buttons' \subseteq Kinds \cup {"details"}
    BY <1>1 DEF BaseInv, TypeOK, Kinds
  <2>2. events' \in 0 .. MaxEvents /\ events' # 0
    <3>1. MaxEvents \in Nat
      BY BoundAssumption
    <3> QED BY <1>1, <3>1
  <2>3. feature' = feature /\ shown' = shown /\ confirms' = confirms /\ requests' = requests
    BY <1>1
  <2> QED BY <1>4, <2>1, <2>2, <2>3 DEF Typed, Disturbances, BaseInv, TypeOK
<1>7. \A g \in Handlers : hs'[g].pc # "idle" /\ hs'[g].event[1] = "confirm" => shown # None
  <2>1. \A g \in Handlers : g # h => (hs'[g].pc # "idle" /\ hs'[g].event[1] = "confirm" => shown # None)
    BY <1>3 DEF BaseInv, HandlersInv, Kind
  <2>2. hs'[h].pc # "idle" => hs'[h].event[1] # "confirm"
    BY <1>1 DEF Idle
  <2> QED BY <2>1, <2>2
<1>8. Linked(s)
  <2>1. "details" \in buttons' => feature # None
    BY <1>1 DEF BaseInv, LinkInv
  <2>2. "confirm" \in buttons' => shown # None
    BY <1>1 DEF BaseInv, LinkInv
  <2>3. row' # None /\ row'.mode = "update" => feature # None
    BY <1>4, <1>5, UpdateHasFeature
  <2> QED BY <1>1, <1>5, <1>7, <2>1, <2>2, <2>3 DEF Linked
<1> QED BY <1>3, <1>6, <1>8, BaseKept

(* A step of the shape Fetches keeps the base invariant.                    *)
LEMMA FetchesBase ==
    ASSUME BaseInv, NEW h \in Handlers, Fetches(h)
    PROVE  BaseInv'
<1>1. PICK o \in Objects, s \in Session :
        /\ hs[h] = Idle
        /\ hs' = [hs EXCEPT ![h] = hs'[h]] /\ hs'[h] \in Handler /\ Fine(hs'[h])
        /\ hs'[h].pc = "got" /\ hs'[h].ref = o
        /\ hs'[h].event[1] = "confirm" => "confirm" \in buttons
        /\ cache' = o /\ Holding(o, s)
        /\ \/ o = cache /\ s = heap[o]
           \/ row # None /\ s = row
        /\ disturbed' \in SUBSET (disturbed \cup {"overlap", "expired"})
        /\ events > 0 /\ events' \in 1 .. MaxEvents
        /\ UNCHANGED <<row, thread>>
  BY DEF Fetches
<1>2. Placed(o, s) /\ \A g \in Handlers : g # h => hs'[g] = hs[g]
  BY <1>1, BeginsPlaced
<1>3. s.mode = "update" => feature # None
  <2>1. s # None
    BY NoneAssumption
  <2> QED BY <1>1, <2>1 DEF BaseInv, LinkInv
<1>4. /\ shown' = shown /\ buttons' = buttons /\ feature' = feature /\ confirms' = confirms
      /\ requests' = requests /\ row' = row
  BY <1>1 DEF thread
<1>5. Typed
  <2>1. events' \in 0 .. MaxEvents /\ events' # 0
    <3>1. MaxEvents \in Nat
      BY BoundAssumption
    <3> QED BY <1>1, <3>1
  <2> QED BY <1>1, <1>4, <2>1 DEF Typed, BaseInv, TypeOK
<1>6. \A g \in Handlers : hs'[g].pc # "idle" /\ hs'[g].event[1] = "confirm" => shown # None
  <2>1. \A g \in Handlers : g # h => (hs'[g].pc # "idle" /\ hs'[g].event[1] = "confirm" => shown # None)
    BY <1>2 DEF BaseInv, HandlersInv, Kind
  <2>2. hs'[h].event[1] = "confirm" => shown # None
    BY <1>1 DEF BaseInv, LinkInv
  <2> QED BY <2>1, <2>2
<1>7. Linked(s)
  BY <1>3, <1>4, <1>6 DEF Linked, BaseInv, LinkInv
<1> QED BY <1>2, <1>5, <1>7, BaseKept

(* A step of the shape Expire keeps the base invariant.                     *)
LEMMA ExpireBase ==
    ASSUME BaseInv, Expire
    PROVE  BaseInv'
<1>1. /\ Busy = {} /\ row # None /\ cache' = 0 /\ row' = None /\ hs' = hs
      /\ Holding(0, None) /\ UNCHANGED disturbed /\ UNCHANGED <<thread, events>>
  BY DEF Expire, Quiet
<1>2. Placed(0, None)
  BY <1>1 DEF Placed, Busy, BaseInv, TypeOK, HandlersInv
<1>3. Typed
  <2>1. events # 0
    BY <1>1 DEF BaseInv, LinkInv
  <2> QED BY <1>1, <2>1 DEF Typed, thread, BaseInv, TypeOK
<1>4. Linked(None)
  BY <1>1 DEF Linked, thread, Busy, BaseInv, LinkInv
<1> QED BY <1>2, <1>3, <1>4, BaseKept

(* A step of the shape Crash keeps the base invariant.                      *)
LEMMA CrashBase ==
    ASSUME BaseInv, Crash
    PROVE  BaseInv'
<1>1. /\ row # None /\ row' = row /\ cache' = 0 /\ hs' = [h \in Handlers |-> Idle]
      /\ Holding(0, None) /\ disturbed' = disturbed \cup {"crash"} /\ UNCHANGED <<thread, events>>
  BY DEF Crash, Quiet
<1>2. Idle \in Handler /\ Fine(Idle) /\ Idle.pc = "idle"
  BY DEF Idle, Handler, Fine
<1>3. Placed(0, None)
  BY <1>1, <1>2 DEF Placed
<1>4. Typed
  <2>1. events # 0
    BY <1>1 DEF BaseInv, LinkInv
  <2> QED BY <1>1, <2>1 DEF Typed, thread, BaseInv, TypeOK
<1>5. Linked(None)
  BY <1>1, <1>2 DEF Linked, thread, BaseInv, LinkInv
<1> QED BY <1>3, <1>4, <1>5, BaseKept

-----------------------------------------------------------------------------
(* The base invariant holds initially.                                      *)
LEMMA BaseInit ==
    ASSUME Init
    PROVE  BaseInv
<1>1. /\ heap = [o \in Objects |-> None] /\ cache = 0 /\ row = None
      /\ hs = [h \in Handlers |-> Idle] /\ shown = None /\ buttons = {} /\ feature = None
      /\ confirms = 0 /\ requests = [m \in {"create", "update"} |-> 0]
      /\ disturbed = {} /\ events = 0
  BY DEF Init
<1>2. Idle \in Handler /\ Fine(Idle) /\ Idle.pc = "idle" /\ Idle.ref = 0
  BY DEF Idle, Handler, Fine
<1>3. Busy = {}
  BY <1>1, <1>2 DEF Busy
<1>4. TypeOK
  <2>1. MaxEvents \in Nat
    BY BoundAssumption
  <2>2. hs \in [Handlers -> Handler]
    BY <1>1, <1>2
  <2>3. requests \in [{"create", "update"} -> Nat]
    BY <1>1
  <2>4. events \in 0 .. MaxEvents
    BY <1>1, <2>1
  <2>5. heap \in [Objects -> Session \cup {None}]
    BY <1>1
  <2> QED BY <1>1, <1>3, <2>2, <2>3, <2>4, <2>5 DEF TypeOK
<1>5. HandlersInv
  BY <1>1, <1>2 DEF HandlersInv
<1>6. LinkInv
  BY <1>1, <1>3 DEF LinkInv
<1> QED BY <1>4, <1>5, <1>6 DEF BaseInv

-----------------------------------------------------------------------------
(* All steps.                                                               *)

Works(h) ==
    \/ Drops(h) \/ Lets(h) \/ Writes(h) \/ Confirms(h) \/ Summarises(h) \/ Sends(h)
    \/ Stores(h) \/ Stumbles(h) \/ Gives(h)

(* Every step of the specification has one of the shapes.                   *)
LEMMA NextShapes ==
    ASSUME BaseInv, ThinkInv, Next
    PROVE  (\E h \in Handlers : Works(h) \/ Begins(h) \/ Fetches(h)) \/ Expire \/ Crash
<1>1. ASSUME NEW h \in Handlers, Message(h) PROVE Works(h)
  BY <1>1, MessageCancelDrops, MessageIgnoredLets, ChooseFieldWrites, EditAnswerKeeps, MessageStrandedDrops,
     RepoWhileWaitingWrites, ReconnectCheckedKeeps, AffirmWrites, AskModelLets, CaptureAnswerKeeps
     DEF Message, Works
<1>2. ASSUME NEW h \in Handlers, Model(h) PROVE Works(h)
  BY <1>2, ModelAsksKeeps, ModelFinishesKeeps, ModelCancelsDrops, ModelFailsKeeps DEF Model, Works
<1>3. ASSUME NEW h \in Handlers, Click(h) PROVE Works(h)
  BY <1>3, ConfirmSpecShape, EditFieldWrites, CancelIntakeDrops, ToggleModeWrites, ConnectGithubWrites,
     EscalateHumanWrites, EscalateFrontierLets, ShowDropdownKeeps, SelectRepoKeeps, SelectBranchKeeps
     DEF Click, Works
<1>4. ASSUME NEW h \in Handlers, Ending(h) PROVE Works(h)
  BY <1>4, AdvanceKeeps, SummariseShape, SendSpecShape, SendPatchShape, NothingToSendDrops, ReviewShape,
     SlackFailsShape, GivesShape, DroppedDrops DEF Ending, Works
<1> QED BY <1>1, <1>2, <1>3, <1>4, StartShape, StartUpdateShape, ReceiveShape DEF Next

(* So every step keeps the base invariant.                                  *)
LEMMA BaseNext ==
    ASSUME BaseInv, ThinkInv, [Next]_vars
    PROVE  BaseInv'
<1>1. CASE Next
  BY <1>1, NextShapes, DropsBase, LetsBase, WritesBase, ConfirmsBase, SummarisesBase, SendsBase, StoresBase,
     StumblesBase, GivesBase, BeginsBase, FetchesBase, ExpireBase, CrashBase DEF Works
<1>2. CASE UNCHANGED vars
  BY <1>2 DEF vars, thread, BaseInv, TypeOK, HandlersInv, LinkInv, Busy, Kind
<1> QED BY <1>1, <1>2

-----------------------------------------------------------------------------
(* What the step of a busy handler does, whichever it is: the session at   *)
(* hs[h].ref becomes s, or h ends and drops the session that is cached.    *)
Pcs == {"idle", "got", "think", "capture", "advance", "finalize", "review", "send", "drop"}

Puts(h, to, s) ==
    /\ Moved(h, to) /\ Holding(hs[h].ref, s)
    /\ cache' = hs[h].ref \/ UNCHANGED <<cache, row>>
    /\ s.mode = Ses(h).mode

(* A move that holds a session with the same mode puts it.                  *)
LEMMA PutsIs ==
    ASSUME NEW h, NEW to \in Pcs, NEW s \in Session, Moved(h, to), Holding(hs[h].ref, s),
           cache' = hs[h].ref \/ UNCHANGED <<cache, row>>, s.mode = Ses(h).mode
    PROVE  \E to1 \in Pcs, s1 \in Session : Puts(h, to1, s1)
  BY DEF Puts

(* A working step drops the session or puts another in its place.           *)
LEMMA WorksIs ==
    ASSUME BaseInv, NEW h \in Handlers, Works(h)
    PROVE  /\ hs[h].pc # "idle" /\ disturbed \in SUBSET disturbed'
           /\ \/ Moved(h, "idle") /\ DropSession
              \/ \E to \in Pcs, s \in Session : Puts(h, to, s)
<1>1. CASE Drops(h)
  BY <1>1, DropSessionIs DEF Drops
<1>2. CASE Lets(h)
  <2>1. PICK to \in {"idle", "think", "capture", "finalize"}, s \in Session :
          hs[h].pc # "idle" /\ Moved(h, to) /\ Changes(h, s) /\ Pruned(s) = Pruned(Ses(h))
    BY <1>2 DEF Lets, Working
  <2>2. s.mode = Ses(h).mode
    BY <2>1, HandlerIs, PrunedSame DEF Alike
  <2>3. to \in Pcs
    BY DEF Pcs
  <2>4. UNCHANGED <<cache, row, disturbed>> /\ Holding(hs[h].ref, s)
    BY <2>1 DEF Changes
  <2> QED BY <2>1, <2>2, <2>3, <2>4, PutsIs
<1>3. CASE Writes(h)
  <2>1. PICK to \in {"idle", "advance", "finalize"}, s \in Session, w \in Session,
             more \in SUBSET {"late", "early", "moot"} :
          /\ hs[h].pc # "idle" /\ Moved(h, to) /\ StoreAs(hs[h].ref, s, w, more)
          /\ s.mode = Ses(h).mode
    BY <1>3 DEF Writes, Working, Rewrites
  <2>2. to \in Pcs
    BY DEF Pcs
  <2>3. cache' = hs[h].ref /\ Holding(hs[h].ref, s) /\ disturbed \in SUBSET disturbed'
    BY <2>1, StoreAsIs
  <2> QED BY <2>1, <2>2, <2>3, PutsIs
<1>4. CASE Confirms(h)
  <2>1. PICK s \in Session : /\ Got(h, "confirm") /\ Moved(h, "finalize")
                             /\ StoreAs(hs[h].ref, s, s, Early(Ses(h))) /\ s.mode = Ses(h).mode
    BY <1>4 DEF Confirms, Store
  <2>2. "finalize" \in Pcs
    BY DEF Pcs
  <2>3. cache' = hs[h].ref /\ Holding(hs[h].ref, s) /\ disturbed \in SUBSET disturbed'
    BY <2>1, StoreAsIs
  <2> QED BY <2>1, <2>2, <2>3, Gots, PutsIs
<1>5. ASSUME NEW to \in Pcs, NEW s \in Session, hs[h].pc # "idle", Moved(h, to), Changes(h, s), s.mode = Ses(h).mode
      PROVE  /\ hs[h].pc # "idle" /\ disturbed \in SUBSET disturbed'
             /\ \E to1 \in Pcs, s1 \in Session : Puts(h, to1, s1)
  <2>1. UNCHANGED <<cache, row, disturbed>> /\ Holding(hs[h].ref, s)
    BY <1>5 DEF Changes
  <2> QED BY <1>5, <2>1, PutsIs
<1>6. "review" \in Pcs /\ "send" \in Pcs /\ "drop" \in Pcs /\ "idle" \in Pcs /\ "capture" \in Pcs
  BY DEF Pcs
<1>7. CASE Summarises(h)
  BY <1>5, <1>6, <1>7 DEF Summarises
<1>8. CASE Sends(h)
  BY <1>5, <1>6, <1>8 DEF Sends
<1>9. CASE Stores(h)
  <2>1. hs[h].pc = "review" /\ Moved(h, "idle") /\ StoreAs(hs[h].ref, Ses(h), Ses(h), {})
    BY <1>9 DEF Stores, Review, Saves, Store
  <2>2. Ses(h) \in Session
    BY <2>1, HandlerIs
  <2>3. cache' = hs[h].ref /\ Holding(hs[h].ref, Ses(h)) /\ disturbed \in SUBSET disturbed'
    BY <2>1, <2>2, StoreAsIs
  <2> QED BY <1>6, <2>1, <2>2, <2>3, PutsIs
<1>10. CASE Stumbles(h)
  <2>1. PICK to \in {"idle", "capture"}, s \in Session :
              /\ hs[h].pc # "idle" /\ Moved(h, to) /\ Holding(hs[h].ref, s)
              /\ disturbed' = disturbed \cup {"slack"} /\ s.mode = Ses(h).mode
              /\ cache' = hs[h].ref \/ UNCHANGED <<cache, row>>
    BY <1>10, StumblesIs
  <2> QED BY <1>6, <2>1, PutsIs
<1>11. CASE Gives(h)
  <2>1. hs[h].pc = "send" /\ Moved(h, "drop") /\ Changes(h, Ses(h))
    BY <1>11 DEF Gives, Sent, SendFails, Leaves
  <2> QED BY <1>5, <1>6, <2>1, HandlerIs
<1> QED BY <1>1, <1>2, <1>3, <1>4, <1>7, <1>8, <1>9, <1>10, <1>11 DEF Works

(* What went wrong is never forgotten.                                      *)
LEMMA DisturbedGrows ==
    ASSUME BaseInv, ThinkInv, [Next]_vars
    PROVE  disturbed \in SUBSET disturbed'
<1>1. ASSUME NEW h \in Handlers, Begins(h) PROVE disturbed \in SUBSET disturbed'
  BY <1>1, StoreAsIs DEF Begins, Store
<1> QED BY <1>1, NextShapes, WorksIs DEF Fetches, Expire, Crash, vars

-----------------------------------------------------------------------------
(* Without overlap one handler works at a time, on the cached session.     *)
SoloInv ==
    Sure({"overlap"}) => \A g, h \in Busy : g = h /\ hs[h].ref = cache

(* Every step keeps it.                                                     *)
LEMMA SoloNext ==
    ASSUME BaseInv, ThinkInv, SoloInv, [Next]_vars
    PROVE  SoloInv'
<1> SUFFICES ASSUME Sure({"overlap"})', NEW g \in Busy', NEW k \in Busy'
             PROVE  g = k /\ hs'[k].ref = cache'
  BY DEF SoloInv
<1>1. Sure({"overlap"}) /\ \A i, j \in Busy : i = j /\ hs[j].ref = cache
  BY DisturbedGrows DEF SoloInv, Sure
<1>2. g \in Handlers /\ k \in Handlers /\ hs'[g].pc # "idle" /\ hs'[k].pc # "idle"
  BY DEF Busy
<1>3. ASSUME NEW h \in Handlers, Works(h) PROVE g = k /\ hs'[k].ref = cache'
  <2>1. hs[h].pc # "idle" /\ ((Moved(h, "idle") /\ DropSession) \/ \E to \in Pcs, s \in Session : Puts(h, to, s))
    BY <1>3, WorksIs
  <2>2. PICK to : Moved(h, to)
    BY <2>1 DEF Puts
  <2>3. g \in Busy /\ k \in Busy /\ h \in Busy /\ hs'[k].ref = hs[k].ref
    BY <1>2, <2>1, <2>2, Steps DEF Busy
  <2>4. g = k /\ k = h /\ hs'[k].ref = cache
    BY <1>1, <2>3
  <2>5. CASE Moved(h, "idle") /\ DropSession
    BY <1>2, <2>4, <2>5 DEF Moved
  <2>6. CASE \E to1 \in Pcs, s \in Session : Puts(h, to1, s)
    BY <1>1, <2>3, <2>4, <2>6 DEF Puts
  <2> QED BY <2>1, <2>5, <2>6
<1>4. ASSUME NEW h \in Handlers, NEW o \in Objects,
             Busy # {} => "overlap" \in disturbed', cache' = o,
             hs' = [hs EXCEPT ![h] = hs'[h]], hs'[h].pc # "idle" => hs'[h].ref = o
      PROVE  g = k /\ hs'[k].ref = cache'
  <2>1. Busy = {}
    BY <1>4 DEF Sure
  <2>2. hs \in [Handlers -> Handler]
    BY DEF BaseInv, TypeOK
  <2>3. \A i \in Handlers : i # h => hs'[i] = hs[i]
    BY <1>4, <2>2
  <2>4. g = h /\ k = h
    BY <1>2, <2>1, <2>3 DEF Busy
  <2> QED BY <1>2, <1>4, <2>4
<1>5. ASSUME NEW h \in Handlers, Begins(h) PROVE g = k /\ hs'[k].ref = cache'
  <2>1. PICK o \in Objects, s \in Session, more \in SUBSET {"overlap", "moot"} :
          /\ StoreAs(o, s, s, more)
          /\ Busy # {} => "overlap" \in more
          /\ hs' = [hs EXCEPT ![h] = hs'[h]]
          /\ hs[h] = Idle
          /\ hs'[h] = Idle \/ hs'[h].ref = o \/ hs' = hs
    BY <1>5 DEF Begins, Store
  <2>2. cache' = o /\ (Busy # {} => "overlap" \in disturbed')
    BY <2>1, StoreAsIs
  <2>3. hs'[h].pc # "idle" => hs'[h].ref = o
    BY <2>1 DEF Idle
  <2> QED BY <1>4, <2>1, <2>2, <2>3
<1>6. ASSUME NEW h \in Handlers, Fetches(h) PROVE g = k /\ hs'[k].ref = cache'
  BY <1>4, <1>6 DEF Fetches
<1>7. CASE Expire
  BY <1>2, <1>7 DEF Expire, Busy
<1>8. CASE Crash
  BY <1>2, <1>8 DEF Crash, Idle
<1>9. CASE UNCHANGED vars
  BY <1>1, <1>2, <1>9 DEF vars, Busy
<1> QED BY <1>3, <1>5, <1>6, <1>7, <1>8, <1>9, NextShapes

(* Then the step of h is the only thing that happens.                      *)
LEMMA SoloStep ==
    ASSUME BaseInv, SoloInv, Sure({"overlap"}), NEW h \in Handlers, hs[h].pc # "idle",
           NEW to, Moved(h, to)
    PROVE  /\ hs[h].ref = cache /\ cache # 0 /\ Ses(h) = Now /\ Now \in Session
           /\ \A g \in Handlers : g # h => hs[g].pc = "idle" /\ hs'[g].pc = "idle"
           /\ \A S : "idle" \notin S => (At(S) <=> hs[h].pc \in S)
           /\ \A S : "idle" \notin S => ((\E g \in Handlers : hs'[g].pc \in S) <=> to \in S)
<1>1. h \in Busy /\ hs[h].ref = cache
  BY DEF Busy, SoloInv
<1>2. \A g \in Handlers : g # h => hs[g].pc = "idle" /\ hs'[g].pc = "idle"
  BY <1>1, Steps DEF Busy, SoloInv
<1>3. cache # 0 /\ Ses(h) = Now /\ Now \in Session /\ hs'[h].pc = to
  BY <1>1, Steps DEF Ses, Now
<1> QED BY <1>1, <1>2, <1>3 DEF At

-----------------------------------------------------------------------------
(* One handler at a time.                                                   *)

(* What the step of the one handler that works leaves.                     *)
LEMMA SoloPuts ==
    ASSUME BaseInv, SoloInv, Sure({"overlap"}), NEW h \in Handlers, hs[h].pc # "idle",
           NEW to, Moved(h, to), NEW s \in Session, Holding(hs[h].ref, s), cache' \in {cache, hs[h].ref}
    PROVE  /\ cache' = cache /\ cache # 0 /\ Now' = s /\ (to # "idle" => Ses(h)' = s)
<1>1. hs[h].ref = cache /\ cache # 0
  BY SoloStep
<1>2. cache' = cache /\ heap'[cache'] = s
  BY <1>1, MovedPlaced
<1>3. to # "idle" => Ses(h)' = s
  BY MovedPlaced DEF Ses
<1> QED BY <1>1, <1>2, <1>3 DEF Now

(* Without overlap, a beginning happens when no handler is busy.            *)
LEMMA SoloBegins ==
    ASSUME BaseInv, Sure({"overlap"})', NEW h \in Handlers, Begins(h)
    PROVE  /\ Busy = {} /\ \A g \in Handlers : g # h => hs'[g].pc = "idle"
           /\ \E s \in Session, more \in SUBSET {"overlap", "moot"} :
                /\ cache' # 0 /\ Now' = s /\ row' \in {s, row} /\ (row' = s \/ "store" \in disturbed')
                /\ more \in SUBSET disturbed' /\ disturbed \in SUBSET disturbed'
                /\ Plain(s) /\ ~s.confirmed /\ ~s.awaiting
                /\ HasNext(s) \/ "moot" \in more
                /\ UNCHANGED <<shown, feature, confirms, requests>>
                /\ \/ /\ s.mode = "create" /\ events = 0 /\ s.queue = CreateQueue
                      /\ hs'[h].pc \in {"idle", "think"}
                      /\ hs'[h].pc = "think" => hs'[h].via = "seed" /\ Ses(h)' = s
                   \/ s.mode = "update" /\ hs' = hs
<1>1. PICK o \in Objects, s \in Session, more \in SUBSET {"overlap", "moot"} :
        /\ Store(o, s, more)
        /\ Plain(s) /\ ~s.confirmed /\ ~s.awaiting
        /\ HasNext(s) \/ "moot" \in more
        /\ Busy # {} => "overlap" \in more
        /\ UNCHANGED <<shown, feature, confirms, requests>>
        /\ hs[h] = Idle
        /\ hs' = [hs EXCEPT ![h] = hs'[h]] /\ hs'[h] \in Handler /\ Fine(hs'[h])
        /\ \/ /\ s.mode = "create" /\ events = 0 /\ s.queue = CreateQueue
              /\ hs'[h] = Idle \/ (hs'[h].pc = "think" /\ hs'[h].ref = o /\ hs'[h].via = "seed")
           \/ s.mode = "update" /\ hs' = hs
  BY DEF Begins
<1>2. /\ cache' = o /\ Holding(o, s) /\ row' \in {s, row} /\ (row' = s \/ "store" \in disturbed')
      /\ disturbed \in SUBSET disturbed' /\ more \in SUBSET disturbed'
  BY <1>1, StoreAsIs DEF Store
<1>3. Busy = {}
  BY <1>1, <1>2 DEF Sure
<1>4. hs'[h].pc # "idle" => hs'[h].ref = o
  BY <1>1 DEF Idle
<1>5. Placed(o, s) /\ \A g \in Handlers : g # h => hs'[g] = hs[g]
  BY <1>1, <1>2, <1>4, BeginsPlaced
<1>6. \A g \in Handlers : g # h => hs'[g].pc = "idle"
  BY <1>3, <1>5 DEF Busy
<1>7. o # 0
  BY DEF Objects
<1>8. heap'[cache'] = s /\ (hs'[h].pc # "idle" => heap'[hs'[h].ref] = s)
  BY <1>2, <1>4, <1>5, <1>7, PlacedIs
<1>9. cache' # 0 /\ Now' = s /\ (hs'[h].pc # "idle" => Ses(h)' = s)
  BY <1>2, <1>7, <1>8 DEF Now, Ses
<1>10. \/ /\ s.mode = "create" /\ events = 0 /\ s.queue = CreateQueue
          /\ hs'[h].pc \in {"idle", "think"}
          /\ hs'[h].pc = "think" => hs'[h].via = "seed" /\ Ses(h)' = s
       \/ s.mode = "update" /\ hs' = hs
  BY <1>1, <1>9 DEF Idle
<1> QED BY <1>1, <1>2, <1>3, <1>6, <1>9, <1>10

(* So does what a handler receives.                                         *)
LEMMA SoloFetches ==
    ASSUME BaseInv, Sure({"overlap"})', NEW h \in Handlers, Fetches(h)
    PROVE  /\ Busy = {} /\ \A g \in Handlers : g # h => hs'[g].pc = "idle"
           /\ hs'[h].pc = "got" /\ cache' # 0 /\ row' = row /\ UNCHANGED thread
           /\ Ses(h)' = Now' /\ ((Now' = Now /\ cache # 0) \/ (Now' = row /\ row # None))
           /\ disturbed' = disturbed \/ "expired" \in disturbed'
<1>1. PICK o \in Objects, s \in Session :
        /\ hs[h] = Idle
        /\ hs' = [hs EXCEPT ![h] = hs'[h]] /\ hs'[h] \in Handler /\ Fine(hs'[h])
        /\ hs'[h].pc = "got" /\ hs'[h].ref = o
        /\ cache' = o /\ Holding(o, s)
        /\ \/ o = cache /\ s = heap[o]
           \/ row # None /\ s = row
        /\ disturbed \in SUBSET disturbed'
        /\ disturbed' \in SUBSET (disturbed \cup {"overlap", "expired"})
        /\ Busy # {} => "overlap" \in disturbed'
        /\ UNCHANGED <<row, thread>>
  BY DEF Fetches
<1>2. Busy = {}
  BY <1>1 DEF Sure
<1>3. Placed(o, s) /\ \A g \in Handlers : g # h => hs'[g] = hs[g]
  BY <1>1, BeginsPlaced
<1>4. \A g \in Handlers : g # h => hs'[g].pc = "idle"
  BY <1>2, <1>3 DEF Busy
<1>5. o # 0
  BY DEF Objects
<1>6. heap'[cache'] = s /\ heap'[hs'[h].ref] = s
  BY <1>1, <1>3, <1>5, PlacedIs
<1>7. cache' # 0 /\ Now' = s /\ Ses(h)' = s
  BY <1>1, <1>5, <1>6 DEF Now, Ses
<1>8. (s = Now /\ cache # 0) \/ (s = row /\ row # None)
  <2>1. (o = cache /\ s = heap[o]) \/ (row # None /\ s = row)
    BY <1>1
  <2>2. ASSUME o = cache, s = heap[o] PROVE s = Now /\ cache # 0
    <3>1. s = heap[cache]
      BY <2>2
    <3> QED BY <1>5, <2>2, <3>1 DEF Now
  <2> QED BY <2>1, <2>2
<1>9. disturbed' = disturbed \/ "expired" \in disturbed'
  BY <1>1 DEF Sure
<1> QED BY <1>1, <1>2, <1>4, <1>7, <1>8, <1>9

-----------------------------------------------------------------------------
(* Every step keeps what the model is asked about.                          *)
LEMMA ThinkNext ==
    ASSUME BaseInv, ThinkInv, SoloInv, [Next]_vars
    PROVE  ThinkInv'
<1> DEFINE Thinks(g) ==
        /\ hs[g].pc = "think" /\ hs[g].via = "seed" => Ses(g).queue = CreateQueue
        /\ hs[g].pc \in {"think", "capture"} /\ hs[g].via = "model" /\ "slack" \notin disturbed => Plain(Ses(g))
<1> SUFFICES ASSUME Sure({"overlap"})', NEW g \in Handlers
             PROVE  Thinks(g)'
  BY DEF ThinkInv
<1>1. disturbed \in SUBSET disturbed'
  BY DisturbedGrows
<1>2. Sure({"overlap"})
  BY <1>1 DEF Sure
<1>3. ASSUME NEW i \in Handlers, hs'[i].pc \notin {"think", "capture"}, \A j \in Handlers : j # i => hs'[j].pc = "idle"
      PROVE  Thinks(g)'
  BY <1>3
<1>4. ASSUME NEW h \in Handlers, Works(h) PROVE Thinks(g)'
  <2>1. CASE ~Lets(h) /\ ~Stumbles(h)
    <3>1. PICK to : hs[h].pc # "idle" /\ Moved(h, to) /\ to \notin {"think", "capture"}
      BY <1>4, <2>1 DEF Works, Drops, Writes, Confirms, Summarises, Sends, Stores, Gives, Working, Got, Review, Sent, SendFails
    <3>2. hs'[h].pc = to /\ \A j \in Handlers : j # h => hs'[j].pc = "idle"
      BY <1>2, <3>1, SoloStep DEF Moved
    <3> QED BY <1>3, <3>1, <3>2
  <2>2. CASE Lets(h)
    <3>1. PICK to \in {"idle", "think", "capture", "finalize"}, s \in Session :
            /\ hs[h].pc # "idle" /\ Moved(h, to) /\ Changes(h, s)
            /\ Pruned(s) = Pruned(Ses(h))
            /\ to = "think" => hs'[h].via # "seed" /\ (hs'[h].via = "model" => Plain(Ses(h)))
            /\ to = "capture" => hs[h].pc = "think" /\ hs[h].via = "model"
      BY <2>2 DEF Lets, Working
    <3>2. UNCHANGED <<cache, disturbed>> /\ Holding(hs[h].ref, s)
      BY <3>1 DEF Changes
    <3>3. hs'[h].pc = to /\ \A j \in Handlers : j # h => hs'[j].pc = "idle"
      BY <1>2, <3>1, SoloStep DEF Moved
    <3>4. to # "idle" => Ses(h)' = s
      BY <1>2, <3>1, <3>2, SoloPuts
    <3>5. Plain(s) <=> Plain(Ses(h))
      BY <3>1, HandlerIs, PrunedSame
    <3>6. CASE g = h /\ to = "think"
      BY <3>1, <3>3, <3>4, <3>5, <3>6
    <3>7. CASE g = h /\ to = "capture"
      <4>1. "slack" \notin disturbed => Plain(Ses(h))
        BY <1>2, <3>1, <3>7 DEF ThinkInv
      <4> QED BY <3>2, <3>3, <3>4, <3>5, <3>7, <4>1
    <3>8. CASE g # h \/ to \notin {"think", "capture"}
      BY <3>3, <3>8
    <3> QED BY <3>6, <3>7, <3>8
  <2>3. CASE Stumbles(h)
    <3>1. PICK to \in {"idle", "capture"} : hs[h].pc # "idle" /\ Moved(h, to) /\ "slack" \in disturbed'
      BY <2>3, StumblesIs
    <3>2. hs'[h].pc = to /\ \A j \in Handlers : j # h => hs'[j].pc = "idle"
      BY <1>2, <3>1, SoloStep DEF Moved
    <3> QED BY <3>1, <3>2
  <2> QED BY <2>1, <2>2, <2>3
<1>5. ASSUME NEW h \in Handlers, Begins(h) PROVE Thinks(g)'
  <2>1. /\ \A i \in Handlers : i # h => hs'[i].pc = "idle"
        /\ Busy = {}
        /\ \E s \in Session :
             \/ /\ s.queue = CreateQueue
                /\ hs'[h].pc \in {"idle", "think"}
                /\ hs'[h].pc = "think" => hs'[h].via = "seed" /\ Ses(h)' = s
             \/ hs' = hs
    BY <1>5, SoloBegins
  <2> QED BY <2>1 DEF Busy
<1>6. ASSUME NEW h \in Handlers, Fetches(h) PROVE Thinks(g)'
  BY <1>3, <1>6, SoloFetches
<1>7. CASE Expire
  BY <1>7 DEF Expire, Busy
<1>8. CASE Crash
  BY <1>8 DEF Crash, Idle
<1>9. CASE UNCHANGED vars
  <2>1. Thinks(g)
    BY <1>2 DEF ThinkInv
  <2> QED BY <1>9, <2>1 DEF vars, Ses
<1> QED BY <1>4, <1>5, <1>6, <1>7, <1>8, <1>9, NextShapes

-----------------------------------------------------------------------------
CoreInv == BaseInv /\ SoloInv /\ ThinkInv

(* The core of the invariant holds initially.                               *)
LEMMA CoreInit ==
    ASSUME Init
    PROVE  CoreInv
<1>1. \A h \in Handlers : hs[h].pc = "idle"
  BY DEF Init, Idle
<1>2. SoloInv /\ ThinkInv
  BY <1>1 DEF SoloInv, ThinkInv, Busy
<1> QED BY <1>2, BaseInit DEF CoreInv

(* Every step keeps it.                                                     *)
LEMMA CoreNext ==
    ASSUME CoreInv, [Next]_vars
    PROVE  CoreInv'
  BY BaseNext, SoloNext, ThinkNext DEF CoreInv

(* The core of the invariant holds in every reachable state.                *)
THEOREM CoreHolds == Spec => []CoreInv
  BY CoreInit, CoreNext, PTL DEF Spec

(* TypeOK: every variable keeps its type, and a busy handler its object, for*)
(* any number of handlers, texts, repositories and events and any choice of *)
(* faults.                                                                  *)
THEOREM TypeCorrect == Spec => []TypeOK
<1>1. CoreInv => TypeOK
  BY DEF CoreInv, BaseInv
<1> QED BY <1>1, CoreHolds, PTL

-----------------------------------------------------------------------------
(* The steps of a lonely handler.                                           *)

(* The steps again, seen when one handler works: it is at to afterwards,   *)
(* and the cached session is s.                                            *)
Alone(h) == \A g \in Handlers : g # h => hs[g].pc = "idle"

View(h, to, s) ==
    /\ Alone(h) /\ Alone(h)' /\ hs'[h].pc = to
    /\ cache # 0 /\ cache' # 0 /\ Ses(h) = Now /\ Now \in Session /\ s \in Session
    /\ Now' = s /\ (to # "idle" => Ses(h)' = s)

(* The step of the one busy handler, seen so.                               *)
LEMMA ViewIs ==
    ASSUME BaseInv, SoloInv, Sure({"overlap"}), NEW h \in Handlers, hs[h].pc # "idle",
           NEW to, Moved(h, to), NEW s \in Session, Holding(hs[h].ref, s), cache' \in {cache, hs[h].ref}
    PROVE  View(h, to, s)
<1>1. /\ Ses(h) = Now /\ Now \in Session /\ cache # 0
      /\ \A g \in Handlers : g # h => hs[g].pc = "idle" /\ hs'[g].pc = "idle"
  BY SoloStep
<1>2. cache' = cache /\ Now' = s /\ (to # "idle" => Ses(h)' = s)
  BY SoloPuts
<1>3. hs'[h].pc = to
  BY DEF Moved
<1> QED BY <1>1, <1>2, <1>3 DEF View, Alone

(* The view of a dropped session.                                           *)
LEMMA ViewDrops ==
    ASSUME BaseInv, SoloInv, Sure({"overlap"}), NEW h \in Handlers, Drops(h)
    PROVE  /\ Alone(h) /\ Alone(h)' /\ hs'[h].pc = "idle" /\ cache' = 0
           /\ row' \in {None, row} /\ (row' = None \/ "store" \in disturbed')
           /\ UNCHANGED <<shown, feature, confirms, requests>>
<1>1. hs[h].pc # "idle" /\ Moved(h, "idle") /\ DropSession /\ PanelsOnly
  BY DEF Drops
<1>2. \A g \in Handlers : g # h => hs[g].pc = "idle" /\ hs'[g].pc = "idle"
  BY <1>1, SoloStep
<1>3. cache' = 0 /\ row' \in {None, row} /\ (row' = None \/ "store" \in disturbed')
  BY <1>1, DropSessionIs
<1> QED BY <1>1, <1>2, <1>3 DEF Alone, Moved, PanelsOnly

(* The view of a session that is left as it was.                            *)
LEMMA ViewLets ==
    ASSUME BaseInv, SoloInv, Sure({"overlap"}), NEW h \in Handlers, Lets(h)
    PROVE  \E to \in {"idle", "think", "capture", "finalize"}, s \in Session :
              /\ hs[h].pc \in Working /\ View(h, to, s)
              /\ Alike(Now, s) /\ s.ans = Now.ans /\ Pruned(s) = Pruned(Now) /\ (Plain(s) <=> Plain(Now))
              /\ HasNext(s) <=> HasNext(Now)
              /\ SpecOf(s) = SpecOf(Now)
              /\ hs[h].pc = "advance" => to = "finalize" \/ HasNext(Now)
              /\ row' = row /\ disturbed' = disturbed
              /\ UNCHANGED <<shown, feature, confirms, requests>>
<1>1. PICK to \in {"idle", "think", "capture", "finalize"}, s \in Session :
        /\ hs[h].pc \in Working /\ Moved(h, to) /\ Changes(h, s) /\ PanelsOnly
        /\ Pruned(s) = Pruned(Ses(h))
        /\ hs[h].pc = "advance" => to = "finalize" \/ HasNext(Ses(h))
  BY DEF Lets
<1>2. hs[h].pc # "idle" /\ UNCHANGED <<cache, row, disturbed>> /\ Holding(hs[h].ref, s)
  BY <1>1 DEF Changes, Working
<1>3. View(h, to, s)
  BY <1>1, <1>2, ViewIs
<1>4. Ses(h) = Now /\ Now \in Session
  BY <1>3 DEF View
<1>5. Pruned(Now) = Pruned(s)
  BY <1>1, <1>4
<1>6. /\ Alike(Now, s) /\ s.ans = Now.ans /\ (Plain(s) <=> Plain(Now))
      /\ HasNext(s) <=> HasNext(Now)
      /\ SpecOf(s) = SpecOf(Now)
  BY <1>4, <1>5, PrunedSame
<1> QED BY <1>1, <1>2, <1>3, <1>4, <1>5, <1>6 DEF PanelsOnly

(* The view of a changed session that is stored.                            *)
LEMMA ViewWrites ==
    ASSUME BaseInv, SoloInv, Sure({"overlap"}), NEW h \in Handlers, Writes(h)
    PROVE  \E to \in {"idle", "advance", "finalize"}, s \in Session, w \in Session,
              more \in SUBSET {"late", "early", "moot"} :
              /\ hs[h].pc \in Working /\ View(h, to, s) /\ Rewrites(h, to, s, more)
              /\ Pruned(w) = Pruned(s) /\ row' \in {w, row} /\ (row' = w \/ "store" \in disturbed')
              /\ disturbed \in SUBSET disturbed' /\ more \in SUBSET disturbed'
              /\ UNCHANGED <<shown, feature, confirms, requests>>
<1>1. PICK to \in {"idle", "advance", "finalize"}, s \in Session, w \in Session,
           more \in SUBSET {"late", "early", "moot"} :
        /\ hs[h].pc \in Working /\ hs[h].pc # "idle"
        /\ Moved(h, to) /\ StoreAs(hs[h].ref, s, w, more) /\ PanelsOnly
        /\ Pruned(w) = Pruned(s) /\ Rewrites(h, to, s, more)
  BY DEF Writes, Working
<1>2. /\ cache' = hs[h].ref /\ Holding(hs[h].ref, s) /\ row' \in {w, row}
      /\ disturbed \in SUBSET disturbed' /\ more \in SUBSET disturbed'
      /\ row' = w \/ "store" \in disturbed'
  BY <1>1, StoreAsIs
<1>3. View(h, to, s)
  BY <1>1, <1>2, ViewIs
<1> QED BY <1>1, <1>2, <1>3 DEF PanelsOnly

(* The view of a click on Confirm.                                          *)
LEMMA ViewConfirms ==
    ASSUME BaseInv, SoloInv, Sure({"overlap"}), NEW h \in Handlers, Confirms(h)
    PROVE  \E s \in Session :
              /\ hs[h].pc = "got" /\ View(h, "finalize", s) /\ Kind(h)' = "confirm" /\ shown # None
              /\ s.mode = Now.mode /\ s.ans = Now.ans /\ SpecOf(s) = SpecOf(Now) /\ s.confirmed /\ ~s.awaiting
              /\ Plain(Now) => Plain(s) /\ "early" \in disturbed'
              /\ row' \in {s, row} /\ (row' = s \/ "store" \in disturbed')
              /\ disturbed \in SUBSET disturbed'
              /\ UNCHANGED <<shown, feature, requests>>
<1>1. PICK s \in Session :
        /\ Got(h, "confirm") /\ Moved(h, "finalize")
        /\ StoreAs(hs[h].ref, s, s, Early(Ses(h)))
        /\ s.mode = Ses(h).mode /\ s.ans = Ses(h).ans /\ s.confirmed /\ ~s.awaiting
        /\ Plain(Ses(h)) => Plain(s)
        /\ UNCHANGED <<shown, buttons, feature, requests, events>>
  BY DEF Confirms, Store
<1>2. hs[h].pc = "got" /\ hs[h].pc # "idle" /\ Kind(h) = "confirm"
  BY <1>1 DEF Got
<1>3. /\ cache' = hs[h].ref /\ Holding(hs[h].ref, s) /\ row' \in {s, row}
      /\ disturbed \in SUBSET disturbed' /\ Early(Ses(h)) \in SUBSET disturbed'
      /\ row' = s \/ "store" \in disturbed'
  BY <1>1, StoreAsIs
<1>4. View(h, "finalize", s)
  BY <1>1, <1>2, <1>3, ViewIs
<1>5. shown # None /\ Kind(h)' = "confirm"
  BY <1>1, <1>2 DEF BaseInv, HandlersInv, Moved, Kind
<1>6. Ses(h) = Now /\ Now \in Session
  BY <1>4 DEF View
<1>7. SpecOf(s) = SpecOf(Now)
  BY <1>1, <1>6, SpecIs
<1>8. Plain(Now) => "early" \in disturbed'
  BY <1>3, <1>6 DEF Early
<1> QED BY <1>1, <1>2, <1>3, <1>4, <1>5, <1>6, <1>7, <1>8

(* The view of a summary that begins.                                       *)
LEMMA ViewSummarises ==
    ASSUME BaseInv, SoloInv, Sure({"overlap"}), NEW h \in Handlers, Summarises(h)
    PROVE  \E s \in Session :
              /\ hs[h].pc = "finalize" /\ View(h, "review", s) /\ hs'[h].spec = SpecOf(s)
              /\ s.mode = Now.mode /\ s.ans = Now.ans /\ s.awaiting /\ ~s.confirmed
              /\ row' = row /\ disturbed' = disturbed /\ UNCHANGED <<shown, feature, confirms, requests>>
<1>1. PICK s \in Session :
        /\ hs[h].pc = "finalize" /\ hs[h].pc # "idle" /\ Moved(h, "review") /\ hs'[h].spec = SpecOf(Ses(h))
        /\ Changes(h, s) /\ Quiet
        /\ s.mode = Ses(h).mode /\ s.ans = Ses(h).ans /\ s.awaiting /\ ~s.confirmed
  BY DEF Summarises
<1>2. UNCHANGED <<cache, row, disturbed>> /\ Holding(hs[h].ref, s)
  BY <1>1 DEF Changes
<1>3. View(h, "review", s)
  BY <1>1, <1>2, ViewIs
<1>4. Ses(h) = Now /\ Now \in Session
  BY <1>3 DEF View
<1>5. SpecOf(s) = SpecOf(Now)
  BY <1>1, <1>4, SpecIs
<1> QED BY <1>1, <1>2, <1>3, <1>4, <1>5 DEF Quiet, thread

(* The view of a request that begins.                                       *)
LEMMA ViewSends ==
    ASSUME BaseInv, SoloInv, Sure({"overlap"}), NEW h \in Handlers, Sends(h)
    PROVE  \E s \in Session :
              /\ hs[h].pc = "finalize" /\ View(h, "send", s)
              /\ s.mode = Now.mode /\ s.ans = Now.ans /\ SpecOf(s) = SpecOf(Now)
              /\ \/ /\ Creates(h) /\ Now.confirmed /\ hs'[h].spec = SpecOf(Now)
                    /\ ~s.awaiting /\ ~s.confirmed
                 \/ ~Creates(h) /\ s = Now
              /\ row' = row /\ disturbed' = disturbed /\ UNCHANGED <<shown, feature, confirms, requests>>
<1>1. PICK s \in Session :
        /\ hs[h].pc = "finalize" /\ hs[h].pc # "idle" /\ Moved(h, "send")
        /\ Changes(h, s) /\ Quiet
        /\ s.mode = Ses(h).mode /\ s.ans = Ses(h).ans
        /\ \/ /\ Creates(h) /\ Ses(h).confirmed /\ hs'[h].spec = SpecOf(Ses(h))
              /\ ~s.awaiting /\ ~s.confirmed
           \/ ~Creates(h) /\ s = Ses(h)
  BY DEF Sends
<1>2. UNCHANGED <<cache, row, disturbed>> /\ Holding(hs[h].ref, s)
  BY <1>1 DEF Changes
<1>3. View(h, "send", s)
  BY <1>1, <1>2, ViewIs
<1>4. Ses(h) = Now /\ Now \in Session
  BY <1>3 DEF View
<1>5. SpecOf(s) = SpecOf(Now)
  BY <1>1, <1>4, SpecIs
<1> QED BY <1>1, <1>2, <1>3, <1>4, <1>5 DEF Quiet, thread

(* The view of a summary that was posted.                                   *)
LEMMA ViewStores ==
    ASSUME BaseInv, SoloInv, Sure({"overlap"}), NEW h \in Handlers, Stores(h)
    PROVE  /\ hs[h].pc = "review" /\ View(h, "idle", Now) /\ shown' = hs[h].spec
           /\ row' = Now \/ (row' = row /\ Fails("store") /\ "store" \in disturbed')
           /\ disturbed \in SUBSET disturbed'
           /\ UNCHANGED <<feature, confirms, requests>>
<1>1. /\ hs[h].pc = "review" /\ hs[h].pc # "idle" /\ Moved(h, "idle")
      /\ StoreAs(hs[h].ref, Ses(h), Ses(h), {})
      /\ shown' = hs[h].spec
      /\ UNCHANGED <<feature, confirms, requests, events>>
  BY DEF Stores, Review, Saves, Store
<1>2. Ses(h) \in Session
  BY <1>1, HandlerIs
<1>3. cache' = hs[h].ref /\ Holding(hs[h].ref, Ses(h)) /\ disturbed \in SUBSET disturbed'
  BY <1>1, <1>2, StoreAsIs
<1>4. row' = Ses(h) \/ (row' = row /\ Fails("store") /\ "store" \in disturbed')
  BY <1>1 DEF StoreAs
<1>5. View(h, "idle", Ses(h))
  BY <1>1, <1>2, <1>3, ViewIs
<1>6. Ses(h) = Now
  BY <1>5 DEF View
<1> QED BY <1>1, <1>3, <1>4, <1>5, <1>6

(* The view of a post that failed.                                          *)
LEMMA ViewStumbles ==
    ASSUME BaseInv, SoloInv, Sure({"overlap"}), NEW h \in Handlers, Stumbles(h)
    PROVE  \E to \in {"idle", "capture"}, s \in Session :
              /\ hs[h].pc \in {"advance", "review"} /\ View(h, to, s)
              /\ s.mode = Now.mode /\ s.confirmed = Now.confirmed /\ row' \in {s, row}
              /\ disturbed' = disturbed \cup {"slack"} /\ UNCHANGED <<shown, feature, confirms, requests>>
<1>1. PICK to \in {"idle", "capture"}, s \in Session :
        /\ hs[h].pc \in {"advance", "review"} /\ hs[h].pc # "idle" /\ Moved(h, to)
        /\ Holding(hs[h].ref, s) /\ Quiet
        /\ disturbed' = disturbed \cup {"slack"}
        /\ s.mode = Ses(h).mode /\ s.confirmed = Ses(h).confirmed
        /\ cache' \in {cache, hs[h].ref} /\ row' \in {s, row}
  BY StumblesIs
<1>2. View(h, to, s)
  BY <1>1, ViewIs
<1>3. Ses(h) = Now
  BY <1>2 DEF View
<1> QED BY <1>1, <1>2, <1>3 DEF Quiet, thread

(* The view of the API's answer.                                            *)
LEMMA ViewGives ==
    ASSUME BaseInv, SoloInv, Sure({"overlap"}), NEW h \in Handlers, Gives(h)
    PROVE  /\ hs[h].pc = "send" /\ View(h, "drop", Now) /\ row' = row /\ disturbed' = disturbed
           /\ UNCHANGED <<shown, confirms>>
           /\ \/ requests' = requests
              \/ Creates(h) /\ requests' = [requests EXCEPT ![Now.mode] = @ + 1]
<1>1. /\ hs[h].pc = "send" /\ hs[h].pc # "idle" /\ Moved(h, "drop") /\ Changes(h, Ses(h))
      /\ UNCHANGED <<shown, confirms>>
  BY DEF Gives, Sent, SendFails, Leaves, Quiet, thread
<1>2. UNCHANGED <<cache, row, disturbed>> /\ Holding(hs[h].ref, Ses(h)) /\ Ses(h) \in Session
  BY <1>1, HandlerIs DEF Changes
<1>3. View(h, "drop", Ses(h))
  BY <1>1, <1>2, ViewIs
<1>4. Ses(h) = Now
  BY <1>3 DEF View
<1>5. \/ requests' = requests
      \/ Creates(h) /\ requests' = [requests EXCEPT ![Now.mode] = @ + 1]
  BY <1>4 DEF Gives, Sent, SendFails, Quiet, thread
<1> QED BY <1>1, <1>2, <1>3, <1>4, <1>5

-----------------------------------------------------------------------------
(* The cache and the row.                                                   *)

(* The cache is empty only when the row is.                                *)
CachedInv == Sure({"crash", "store", "expired"}) /\ cache = 0 => row = None

(* Every step keeps it.                                                     *)
LEMMA CachedNext ==
    ASSUME CoreInv, CachedInv, [Next]_vars
    PROVE  CachedInv'
<1> SUFFICES ASSUME Sure({"crash", "store", "expired"})', cache' = 0
             PROVE  row' = None
  BY DEF CachedInv
<1>0. BaseInv /\ SoloInv /\ ThinkInv
  BY DEF CoreInv
<1>1. disturbed \in SUBSET disturbed'
  BY <1>0, DisturbedGrows
<1>2. Sure({"crash", "store", "expired"})
  BY <1>1 DEF Sure
<1>3. ASSUME NEW h \in Handlers, Works(h) PROVE row' = None
  <2>1. hs[h].pc # "idle" /\ ((Moved(h, "idle") /\ DropSession) \/ \E to \in Pcs, s \in Session : Puts(h, to, s))
    BY <1>0, <1>3, WorksIs
  <2>2. CASE DropSession
    BY <1>0, <2>2, DropSessionIs DEF Sure
  <2>3. CASE \E to \in Pcs, s \in Session : Puts(h, to, s)
    <3>1. hs[h].ref \in Objects
      BY <1>0, <2>1, HandlerIs
    <3>2. cache' = hs[h].ref \/ UNCHANGED <<cache, row>>
      BY <2>3 DEF Puts
    <3> QED BY <1>2, <3>1, <3>2 DEF CachedInv, Objects
  <2> QED BY <2>1, <2>2, <2>3
<1>4. ASSUME NEW h \in Handlers, Begins(h) PROVE FALSE
  <2>1. PICK o \in Objects, s \in Session, more \in SUBSET {"overlap", "moot"} : Store(o, s, more)
    BY <1>4 DEF Begins
  <2> QED BY <2>1 DEF Store, StoreAs, Objects
<1>5. ASSUME NEW h \in Handlers, Fetches(h) PROVE FALSE
  <2>1. PICK o \in Objects : cache' = o
    BY <1>5 DEF Fetches
  <2> QED BY <2>1 DEF Objects
<1>6. CASE Expire
  BY <1>6 DEF Expire
<1>7. CASE Crash
  BY <1>7 DEF Crash, Sure
<1>8. CASE UNCHANGED vars
  BY <1>2, <1>8 DEF vars, CachedInv
<1> QED BY <1>0, <1>3, <1>4, <1>5, <1>6, <1>7, <1>8, NextShapes

-----------------------------------------------------------------------------
(* Where no handler is finishing the session, the row is the session.      *)
SameInv ==
    Sure({"overlap", "store", "slack", "expired"}) /\ cache # 0 /\ ~At(Finishing) =>
        row # None /\ Pruned(row) = Pruned(Now)

(* Every step keeps it.                                                     *)
LEMMA SameNext ==
    ASSUME CoreInv, SameInv, [Next]_vars
    PROVE  SameInv'
<1> SUFFICES ASSUME Sure({"overlap", "store", "slack", "expired"})', cache' # 0, ~At(Finishing)'
             PROVE  row' # None /\ Pruned(row') = Pruned(Now')
  BY DEF SameInv
<1>0. BaseInv /\ SoloInv /\ ThinkInv
  BY DEF CoreInv
<1>1. disturbed \in SUBSET disturbed'
  BY <1>0, DisturbedGrows
<1>2. Sure({"overlap", "store", "slack", "expired"}) /\ Sure({"overlap"}) /\ Sure({"overlap"})'
      /\ "store" \notin disturbed' /\ "slack" \notin disturbed' /\ "expired" \notin disturbed'
  BY <1>1 DEF Sure
<1>3. \A x \in Session : x # None
  BY NoneAssumption
<1>4. \A g \in Handlers : hs'[g].pc \notin Finishing
  BY DEF At
<1>5. ASSUME cache # 0, \A g \in Handlers : hs[g].pc \notin Finishing PROVE row # None /\ Pruned(row) = Pruned(Now)
  BY <1>2, <1>5 DEF SameInv, At
<1>6. ASSUME NEW h \in Handlers, Works(h) PROVE row' # None /\ Pruned(row') = Pruned(Now')
  <2>1. CASE Drops(h)
    BY <1>0, <1>2, <2>1, ViewDrops
  <2>2. CASE Lets(h)
    <3>1. PICK to \in {"idle", "think", "capture", "finalize"}, s \in Session :
            /\ hs[h].pc \in Working /\ View(h, to, s) /\ Pruned(s) = Pruned(Now) /\ row' = row
      BY <1>0, <1>2, <2>2, ViewLets
    <3>2. \A g \in Handlers : hs[g].pc \notin Finishing
      BY <3>1 DEF View, Alone, Working, Finishing
    <3> QED BY <1>5, <3>1, <3>2 DEF View
  <2>3. CASE Writes(h)
    <3>1. PICK to \in {"idle", "advance", "finalize"}, s \in Session, w \in Session :
            /\ View(h, to, s) /\ Pruned(w) = Pruned(s) /\ row' = w
      BY <1>0, <1>2, <2>3, ViewWrites
    <3> QED BY <1>3, <3>1 DEF View
  <2>4. CASE Confirms(h)
    <3>1. hs'[h].pc = "finalize"
      BY <1>0, <1>2, <2>4, ViewConfirms DEF View
    <3> QED BY <1>4, <3>1 DEF Finishing
  <2>5. CASE Summarises(h)
    <3>1. hs'[h].pc = "review"
      BY <1>0, <1>2, <2>5, ViewSummarises DEF View
    <3> QED BY <1>4, <3>1 DEF Finishing
  <2>6. CASE Sends(h)
    <3>1. hs'[h].pc = "send"
      BY <1>0, <1>2, <2>6, ViewSends DEF View
    <3> QED BY <1>4, <3>1 DEF Finishing
  <2>7. CASE Stores(h)
    BY <1>0, <1>2, <1>3, <2>7, ViewStores DEF View
  <2>8. CASE Stumbles(h)
    BY <1>0, <1>2, <2>8, ViewStumbles
  <2>9. CASE Gives(h)
    <3>1. hs'[h].pc = "drop"
      BY <1>0, <1>2, <2>9, ViewGives DEF View
    <3> QED BY <1>4, <3>1 DEF Finishing
  <2> QED BY <1>6, <2>1, <2>2, <2>3, <2>4, <2>5, <2>6, <2>7, <2>8, <2>9 DEF Works
<1>7. ASSUME NEW h \in Handlers, Begins(h) PROVE row' # None /\ Pruned(row') = Pruned(Now')
  <2>1. \E s \in Session : Now' = s /\ row' = s
    BY <1>0, <1>2, <1>7, SoloBegins
  <2> QED BY <1>3, <2>1
<1>8. ASSUME NEW h \in Handlers, Fetches(h) PROVE row' # None /\ Pruned(row') = Pruned(Now')
  <2>1. /\ Busy = {} /\ row' = row
        /\ (Now' = Now /\ cache # 0) \/ (Now' = row /\ row # None)
    BY <1>0, <1>2, <1>8, SoloFetches
  <2>2. \A g \in Handlers : hs[g].pc \notin Finishing
    BY <2>1 DEF Busy, Finishing
  <2>3. CASE Now' = Now /\ cache # 0
    BY <1>5, <2>1, <2>2, <2>3
  <2> QED BY <2>1, <2>3
<1>9. CASE Expire \/ Crash
  BY <1>9 DEF Expire, Crash
<1>10. CASE UNCHANGED vars
  <2>1. Now' = Now
    BY <1>10 DEF vars, Now
  <2>2. hs' = hs /\ row' = row /\ cache' = cache
    BY <1>10 DEF vars
  <2> QED BY <1>4, <1>5, <2>1, <2>2
<1> QED BY <1>0, <1>6, <1>7, <1>8, <1>9, <1>10, NextShapes

-----------------------------------------------------------------------------
(* One request was created from a create session: none is left.            *)
OneInv ==
    Sure({"overlap", "crash", "store", "expired"}) =>
        /\ requests["create"] <= 1
        /\ requests["create"] = 1 /\ ~At({"drop"}) =>
              /\ row # None => row.mode = "update"
              /\ cache # 0 => Now.mode = "update"

(* Every step keeps it.                                                     *)
LEMMA OneNext ==
    ASSUME CoreInv, OneInv, [Next]_vars
    PROVE  OneInv'
<1> DEFINE Gone == (row # None => row.mode = "update") /\ (cache # 0 => Now.mode = "update")
           n == requests["create"]
           Goal == n <= 1 /\ (n = 1 /\ (\A g \in Handlers : hs[g].pc # "drop") => Gone)
<1> SUFFICES ASSUME Sure({"overlap", "crash", "store", "expired"})'
             PROVE  Goal'
  BY DEF OneInv, At
<1>0. BaseInv /\ SoloInv /\ ThinkInv
  BY DEF CoreInv
<1>1. disturbed \in SUBSET disturbed'
  BY <1>0, DisturbedGrows
<1>2. Sure({"overlap", "crash", "store", "expired"}) /\ Sure({"overlap"}) /\ Sure({"overlap"})'
      /\ "store" \notin disturbed' /\ "crash" \notin disturbed' /\ "expired" \notin disturbed'
  BY <1>1 DEF Sure
<1>3. Goal
  BY <1>2 DEF OneInv, At
<1>4. n \in Nat
  BY <1>0 DEF BaseInv, TypeOK
<1>6. ASSUME NEW h \in Handlers, Works(h) PROVE Goal'
  <2>1. CASE Drops(h)
    <3>1. cache' = 0 /\ row' = None /\ requests' = requests
      BY <1>0, <1>2, <2>1, ViewDrops
    <3> QED BY <1>3, <3>1
  <2>2. CASE Lets(h)
    <3>1. PICK to \in {"idle", "think", "capture", "finalize"}, s \in Session :
            /\ hs[h].pc \in Working /\ View(h, to, s) /\ Alike(Now, s) /\ row' = row /\ requests' = requests
      BY <1>0, <1>2, <2>2, ViewLets
    <3>2. \A g \in Handlers : hs[g].pc # "drop"
      BY <3>1 DEF View, Alone, Working
    <3>3. Now'.mode = Now.mode /\ cache # 0
      BY <3>1 DEF View, Alike
    <3> QED BY <1>3, <3>1, <3>2, <3>3
  <2>3. CASE Writes(h)
    <3>1. PICK to \in {"idle", "advance", "finalize"}, s \in Session, w \in Session,
               more \in SUBSET {"late", "early", "moot"} :
            /\ hs[h].pc \in Working /\ View(h, to, s) /\ Rewrites(h, to, s, more)
            /\ Pruned(w) = Pruned(s) /\ row' = w /\ requests' = requests
      BY <1>0, <1>2, <2>3, ViewWrites
    <3>2. \A g \in Handlers : hs[g].pc # "drop"
      BY <3>1 DEF View, Alone, Working
    <3>3. Now'.mode = Now.mode /\ cache # 0
      BY <3>1 DEF View, Rewrites
    <3>4. w.mode = s.mode /\ Now' = s
      BY <3>1, PrunedSame DEF Alike, View
    <3> QED BY <1>3, <3>1, <3>2, <3>3, <3>4
  <2>4. CASE Confirms(h)
    <3>1. PICK s \in Session :
            /\ hs[h].pc = "got" /\ View(h, "finalize", s) /\ s.mode = Now.mode /\ row' = s /\ requests' = requests
      BY <1>0, <1>2, <2>4, ViewConfirms
    <3>2. \A g \in Handlers : hs[g].pc # "drop"
      BY <3>1 DEF View, Alone
    <3> QED BY <1>3, <3>1, <3>2 DEF View
  <2>5. CASE Summarises(h)
    <3>1. PICK s \in Session :
            /\ hs[h].pc = "finalize" /\ View(h, "review", s) /\ s.mode = Now.mode /\ row' = row /\ requests' = requests
      BY <1>0, <1>2, <2>5, ViewSummarises
    <3>2. \A g \in Handlers : hs[g].pc # "drop"
      BY <3>1 DEF View, Alone
    <3> QED BY <1>3, <3>1, <3>2 DEF View
  <2>6. CASE Sends(h)
    <3>1. PICK s \in Session :
            /\ hs[h].pc = "finalize" /\ View(h, "send", s) /\ s.mode = Now.mode /\ row' = row /\ requests' = requests
      BY <1>0, <1>2, <2>6, ViewSends
    <3>2. \A g \in Handlers : hs[g].pc # "drop"
      BY <3>1 DEF View, Alone
    <3> QED BY <1>3, <3>1, <3>2 DEF View
  <2>7. CASE Stores(h)
    <3>1. hs[h].pc = "review" /\ View(h, "idle", Now) /\ row' = Now /\ requests' = requests
      BY <1>0, <1>2, <2>7, ViewStores
    <3>2. \A g \in Handlers : hs[g].pc # "drop"
      BY <3>1 DEF View, Alone
    <3> QED BY <1>3, <3>1, <3>2 DEF View
  <2>8. CASE Stumbles(h)
    <3>1. PICK to \in {"idle", "capture"}, s \in Session :
            /\ hs[h].pc \in {"advance", "review"} /\ View(h, to, s) /\ s.mode = Now.mode
            /\ row' \in {s, row} /\ requests' = requests
      BY <1>0, <1>2, <2>8, ViewStumbles
    <3>2. \A g \in Handlers : hs[g].pc # "drop"
      BY <3>1 DEF View, Alone
    <3> QED BY <1>3, <3>1, <3>2 DEF View
  <2>9. CASE Gives(h)
    <3>1. /\ hs[h].pc = "send" /\ View(h, "drop", Now)
          /\ requests' = requests \/ requests' = [requests EXCEPT ![Now.mode] = @ + 1]
      BY <1>0, <1>2, <2>9, ViewGives
    <3>2. hs'[h].pc = "drop" /\ \A g \in Handlers : hs[g].pc # "drop"
      BY <3>1 DEF View, Alone
    <3>3. n = 1 => Now.mode = "update"
      BY <1>3, <3>1, <3>2 DEF View
    <3>4. requests \in [{"create", "update"} -> Nat] /\ Now.mode \in {"create", "update"}
      BY <1>0, <3>1 DEF BaseInv, TypeOK, View, Session
    <3>5. n' <= 1
      <4>1. CASE Now.mode = "update"
        BY <1>3, <3>1, <3>4, <4>1
      <4>2. CASE Now.mode = "create"
        <5>1. n # 1 /\ n' \in {n, n + 1}
          BY <3>1, <3>3, <3>4, <4>2
        <5> QED BY <1>3, <1>4, <5>1
      <4> QED BY <3>4, <4>1, <4>2
    <3> QED BY <3>2, <3>5
  <2> QED BY <1>6, <2>1, <2>2, <2>3, <2>4, <2>5, <2>6, <2>7, <2>8, <2>9 DEF Works
<1>7. ASSUME NEW h \in Handlers, Begins(h) PROVE Goal'
  <2>1. PICK s \in Session : /\ Now' = s /\ row' = s /\ requests' = requests
                             /\ (s.mode = "create" /\ events = 0) \/ s.mode = "update"
    BY <1>0, <1>2, <1>7, SoloBegins
  <2>2. events = 0 => n = 0
    BY <1>0 DEF BaseInv, LinkInv
  <2> QED BY <1>3, <2>1, <2>2
<1>8. ASSUME NEW h \in Handlers, Fetches(h) PROVE Goal'
  <2>1. /\ Busy = {} /\ row' = row /\ requests' = requests
        /\ (Now' = Now /\ cache # 0) \/ (Now' = row /\ row # None)
    BY <1>0, <1>2, <1>8, SoloFetches DEF thread
  <2>2. \A g \in Handlers : hs[g].pc # "drop"
    BY <2>1 DEF Busy
  <2> QED BY <1>3, <2>1, <2>2
<1>9. CASE Expire
  <2>1. cache' = 0 /\ row' = None /\ requests' = requests
    BY <1>9 DEF Expire, Quiet, thread
  <2> QED BY <1>3, <2>1
<1>10. CASE Crash
  BY <1>2, <1>10 DEF Crash
<1>11. CASE UNCHANGED vars
  <2>1. Now' = Now
    BY <1>11 DEF vars, Now
  <2>2. hs' = hs /\ row' = row /\ cache' = cache /\ requests' = requests
    BY <1>11 DEF vars
  <2> QED BY <1>3, <2>1, <2>2
<1> QED BY <1>0, <1>6, <1>7, <1>8, <1>9, <1>10, <1>11, NextShapes

-----------------------------------------------------------------------------
(* Confirmations.                                                           *)

(* Confirmations that are not used up: sessions that remember one, and     *)
(* requests on their way.                                                  *)
Confirmed == {o \in Objects : heap[o] # None /\ heap[o].confirmed}
Sending   == {h \in Handlers : hs[h].pc = "send" /\ Creates(h)}
Used      == Cardinality(Confirmed) + Cardinality(Sending) + requests["create"] + requests["update"]

ConfirmInv ==
    Sure({"crash", "store", "expired"}) =>
        /\ row # None /\ row.confirmed => (cache # 0 /\ Now.confirmed) \/ At({"send", "drop"})
        /\ Used <= confirms

(* There are finitely many objects and handlers.                            *)
LEMMA ObjectsFinite == IsFiniteSet(Objects) /\ IsFiniteSet(Handlers)
<1>1. IsFiniteSet(Handlers) /\ Cardinality(Handlers) \in Nat
  BY BoundAssumption, FS_CardinalityType
<1>2. 1 \in Int /\ Cardinality(Handlers) + 2 \in Int
  BY <1>1
<1>3. Objects = 1 .. Cardinality(Handlers) + 2
  BY DEF Objects
<1> QED BY <1>1, <1>2, <1>3, FS_Interval

(* The counts are natural numbers.                                          *)
LEMMA CountsTyped ==
    ASSUME BaseInv
    PROVE  /\ IsFiniteSet(Confirmed) /\ IsFiniteSet(Sending)
           /\ Cardinality(Confirmed) \in Nat /\ Cardinality(Sending) \in Nat
           /\ requests \in [{"create", "update"} -> Nat] /\ confirms \in Nat
<1>1. Confirmed \in SUBSET Objects /\ Sending \in SUBSET Handlers
  BY DEF Confirmed, Sending
<1>2. IsFiniteSet(Confirmed) /\ IsFiniteSet(Sending)
  BY <1>1, ObjectsFinite, FS_Subset
<1> QED BY <1>2, FS_CardinalityType DEF BaseInv, TypeOK

(* A subset has no more elements.                                           *)
LEMMA Smaller ==
    ASSUME NEW A, IsFiniteSet(A), NEW B \in SUBSET A
    PROVE  Cardinality(B) <= Cardinality(A) /\ Cardinality(B) \in Nat
  BY FS_Subset, FS_CardinalityType

(* One element more at most.                                                *)
LEMMA OneMore ==
    ASSUME NEW A, IsFiniteSet(A), NEW x, NEW B \in SUBSET (A \cup {x})
    PROVE  Cardinality(B) <= Cardinality(A) + 1 /\ Cardinality(B) \in Nat
<1>1. IsFiniteSet(A \cup {x}) /\ Cardinality(A \cup {x}) \in {Cardinality(A), Cardinality(A) + 1}
  BY FS_AddElement
<1>2. Cardinality(A) \in Nat /\ Cardinality(B) <= Cardinality(A \cup {x})
  BY <1>1, FS_Subset, FS_CardinalityType
<1>3. IsFiniteSet(B) /\ Cardinality(B) \in Nat
  BY <1>1, FS_Subset, FS_CardinalityType
<1> QED BY <1>1, <1>2, <1>3

(* One element less at least.                                               *)
LEMMA OneLess ==
    ASSUME NEW A, IsFiniteSet(A), NEW x \in A, NEW B \in SUBSET (A \ {x})
    PROVE  Cardinality(B) + 1 <= Cardinality(A) /\ Cardinality(B) \in Nat
<1>1. IsFiniteSet(A \ {x}) /\ Cardinality(A \ {x}) = Cardinality(A) - 1
  BY FS_RemoveElement
<1>2. Cardinality(A) \in Nat /\ Cardinality(B) <= Cardinality(A \ {x})
  BY <1>1, FS_Subset, FS_CardinalityType
<1>3. IsFiniteSet(B) /\ Cardinality(B) \in Nat
  BY <1>1, FS_Subset, FS_CardinalityType
<1> QED BY <1>1, <1>2, <1>3

-----------------------------------------------------------------------------
(* What a put does to the confirmations that are not used up.               *)
LEMMA PutsCounts ==
    ASSUME BaseInv, NEW h \in Handlers, hs[h].pc # "idle", NEW to, Moved(h, to),
           NEW s \in Session, Holding(hs[h].ref, s), cache' \in {cache, hs[h].ref}, s.mode = Ses(h).mode
    PROVE  /\ Confirmed' \in SUBSET (Confirmed \cup {hs[h].ref})
           /\ ~s.confirmed => Confirmed' \in SUBSET (Confirmed \ {hs[h].ref})
           /\ Ses(h).confirmed => hs[h].ref \in Confirmed
           /\ Sending' \in SUBSET (Sending \cup {h})
           /\ to # "send" \/ ~Creates(h) => Sending' \in SUBSET (Sending \ {h})
           /\ cache' # 0 => Now' = IF cache' = hs[h].ref THEN s ELSE Now
           /\ cache' = hs[h].ref => cache' # 0
           /\ hs[h].pc \notin {"send", "drop"} /\ At({"send", "drop"}) => At({"send", "drop"})'
<1> DEFINE o == hs[h].ref
<1>1. Placed(o, s)
  BY MovedPlaced
<1>2. o \in Objects /\ heap[o] = Ses(h) /\ Ses(h) \in Session
  BY HandlerIs DEF Ses
<1> HIDE DEF o
<1>3. \A p \in Objects : heap'[p] # None => heap'[p] = IF p = o THEN s ELSE heap[p]
  BY <1>1, PlacedIs
<1>4. Confirmed' \in SUBSET (Confirmed \cup {o}) /\ (~s.confirmed => Confirmed' \in SUBSET (Confirmed \ {o}))
  BY <1>3 DEF Confirmed
<1>5. Ses(h).confirmed => o \in Confirmed
  BY <1>2, NoneAssumption DEF Confirmed
<1>6. \A g \in Handlers : g # h => hs'[g] = hs[g]
  BY Steps
<1>7. ASSUME NEW g \in Handlers, hs'[g].pc # "idle"
      PROVE  Ses(g)'.mode = Ses(g).mode /\ Kind(g)' = Kind(g)
  <2>1. heap'[hs'[g].ref] = IF hs'[g].ref = o THEN s ELSE heap[hs'[g].ref]
    BY <1>1, <1>7, PlacedIs
  <2>2. hs'[g].ref = hs[g].ref /\ hs'[g].event = hs[g].event
    BY <1>7, Steps
  <2>3. heap'[hs'[g].ref].mode = heap[hs[g].ref].mode
    BY <1>2, <2>1, <2>2
  <2> QED BY <2>2, <2>3 DEF Ses, Kind
<1>8. \A g \in Handlers : hs'[g].pc # "idle" => (Creates(g)' <=> Creates(g))
  BY <1>7 DEF Creates
<1>9. Sending' \in SUBSET (Sending \cup {h})
  BY <1>6, <1>8 DEF Sending
<1>10. to # "send" \/ ~Creates(h) => Sending' \in SUBSET (Sending \ {h})
  <2>1. hs'[h].pc = to
    BY DEF Moved
  <2> QED BY <1>6, <1>8, <2>1 DEF Sending
<1>11. cache' # 0 => Now' = IF cache' = o THEN s ELSE Now
  <2>1. cache' # 0 => heap'[cache'] = IF cache' = o THEN s ELSE heap[cache']
    BY <1>1, PlacedIs
  <2>2. cache' = cache \/ cache' = o
    BY DEF o
  <2> QED BY <2>1, <2>2 DEF Now
<1>12. cache' = o => cache' # 0
  BY <1>2 DEF Objects
<1>13. hs[h].pc \notin {"send", "drop"} /\ At({"send", "drop"}) => At({"send", "drop"})'
  BY <1>6 DEF At
<1> QED BY <1>4, <1>5, <1>9, <1>10, <1>11, <1>12, <1>13 DEF o

(* A step that adds no confirmation and sends nothing.                     *)
LEMMA KeepsUsed ==
    ASSUME BaseInv, Used <= confirms, UNCHANGED <<confirms, requests>>,
           Confirmed' \in SUBSET Confirmed, Sending' \in SUBSET Sending
    PROVE  Used' <= confirms'
<1>1. /\ Cardinality(Confirmed') <= Cardinality(Confirmed) /\ Cardinality(Confirmed') \in Nat
      /\ Cardinality(Sending') <= Cardinality(Sending) /\ Cardinality(Sending') \in Nat
  BY CountsTyped, Smaller
<1>2. /\ Cardinality(Confirmed) \in Nat /\ Cardinality(Sending) \in Nat
      /\ requests["create"] \in Nat /\ requests["update"] \in Nat /\ confirms \in Nat
      /\ requests' = requests /\ confirms' = confirms
  BY CountsTyped
<1> QED BY <1>1, <1>2 DEF Used

(* Every step keeps it: a confirmation is used by one request.              *)
LEMMA ConfirmNext ==
    ASSUME CoreInv, CachedInv, ConfirmInv, [Next]_vars
    PROVE  ConfirmInv'
<1> DEFINE Known == row # None /\ row.confirmed => (cache # 0 /\ Now.confirmed) \/ At({"send", "drop"})
           Goal  == Known /\ Used <= confirms
<1> SUFFICES ASSUME Sure({"crash", "store", "expired"})'
             PROVE  Goal'
  BY DEF ConfirmInv
<1>0. BaseInv /\ SoloInv /\ ThinkInv
  BY DEF CoreInv
<1>1. disturbed \in SUBSET disturbed'
  BY <1>0, DisturbedGrows
<1>2. Sure({"crash", "store", "expired"})
      /\ "store" \notin disturbed' /\ "crash" \notin disturbed' /\ "expired" \notin disturbed'
  BY <1>1 DEF Sure
<1>3. Known /\ Used <= confirms
  BY <1>2 DEF ConfirmInv
<1>4. cache = 0 => row = None
  BY <1>2 DEF CachedInv
<1>5. /\ IsFiniteSet(Confirmed) /\ IsFiniteSet(Sending)
      /\ Cardinality(Confirmed) \in Nat /\ Cardinality(Sending) \in Nat
      /\ requests \in [{"create", "update"} -> Nat] /\ confirms \in Nat
  BY <1>0, CountsTyped
<1>6. ASSUME NEW h \in Handlers, Works(h) PROVE Goal'
  <2>1. CASE Drops(h)
    <3>1. hs[h].pc # "idle" /\ hs[h].pc # "send" /\ Moved(h, "idle") /\ DropSession /\ PanelsOnly
      BY <2>1 DEF Drops
    <3>2. Placed(0, None) /\ row' = None
      BY <1>0, <1>2, <3>1, DropPlaced, DropSessionIs
    <3>3. \A p \in Objects : heap'[p] # None => heap'[p] = heap[p]
      BY <1>0, <3>2, PlacedIs DEF Objects
    <3>4. Confirmed' \in SUBSET Confirmed
      BY <3>3 DEF Confirmed
    <3>5. ASSUME NEW g \in Handlers, hs'[g].pc = "send" PROVE hs'[g] = hs[g] /\ Ses(g)' = Ses(g)
      <4>1. g # h /\ hs'[g] = hs[g]
        BY <1>0, <3>1, <3>5, Steps
      <4>2. hs'[g].ref \in Objects /\ heap'[hs'[g].ref] \in Session
        BY <1>0, <3>2, <3>5, PlacedIs
      <4>3. heap'[hs'[g].ref] = heap[hs'[g].ref]
        BY <3>3, <4>2, NoneAssumption
      <4> QED BY <4>1, <4>3 DEF Ses
    <3>6. Sending' \in SUBSET Sending
      BY <3>5 DEF Sending, Creates, Kind
    <3>7. Used' <= confirms'
      BY <1>0, <1>3, <3>1, <3>4, <3>6, KeepsUsed DEF PanelsOnly
    <3> QED BY <3>2, <3>7
  <2>2. CASE Lets(h)
    <3>1. PICK to \in {"idle", "think", "capture", "finalize"}, s \in Session :
            /\ hs[h].pc # "idle" /\ hs[h].pc \notin {"send", "drop"} /\ Moved(h, to) /\ Changes(h, s) /\ PanelsOnly
            /\ Pruned(s) = Pruned(Ses(h))
      BY <2>2 DEF Lets, Working
    <3>2. UNCHANGED <<cache, row, disturbed>> /\ Holding(hs[h].ref, s)
      BY <3>1 DEF Changes
    <3>3. s.mode = Ses(h).mode /\ s.confirmed = Ses(h).confirmed
      BY <1>0, <3>1, HandlerIs, PrunedSame DEF Alike
    <3>4. /\ Confirmed' \in SUBSET (Confirmed \cup {hs[h].ref})
          /\ ~s.confirmed => Confirmed' \in SUBSET (Confirmed \ {hs[h].ref})
          /\ Ses(h).confirmed => hs[h].ref \in Confirmed
          /\ Sending' \in SUBSET (Sending \ {h})
          /\ cache' # 0 => Now' = IF cache' = hs[h].ref THEN s ELSE Now
          /\ At({"send", "drop"}) => At({"send", "drop"})'
      BY <1>0, <3>1, <3>2, <3>3, PutsCounts
    <3>5. Confirmed' \in SUBSET Confirmed /\ Sending' \in SUBSET Sending
      BY <3>3, <3>4
    <3>6. Used' <= confirms'
      BY <1>0, <1>3, <3>1, <3>5, KeepsUsed DEF PanelsOnly
    <3>7. cache' # 0 => Now'.confirmed = Now.confirmed
      BY <3>2, <3>3, <3>4 DEF Ses, Now
    <3> QED BY <1>3, <3>2, <3>4, <3>6, <3>7
  <2>3. CASE Writes(h)
    <3>1. PICK to \in {"idle", "advance", "finalize"}, s \in Session, w \in Session,
               more \in SUBSET {"late", "early", "moot"} :
            /\ hs[h].pc # "idle" /\ hs[h].pc \notin {"send", "drop"}
            /\ Moved(h, to) /\ StoreAs(hs[h].ref, s, w, more) /\ PanelsOnly
            /\ Pruned(w) = Pruned(s) /\ s.mode = Ses(h).mode
            /\ s.confirmed => Ses(h).confirmed
      BY <2>3 DEF Writes, Working, Rewrites
    <3>2. cache' = hs[h].ref /\ Holding(hs[h].ref, s) /\ row' = w
      BY <1>0, <1>2, <3>1, StoreAsIs
    <3>3. w.confirmed = s.confirmed
      BY <3>1, PrunedSame DEF Alike
    <3>4. /\ Confirmed' \in SUBSET (Confirmed \cup {hs[h].ref})
          /\ ~s.confirmed => Confirmed' \in SUBSET (Confirmed \ {hs[h].ref})
          /\ Ses(h).confirmed => hs[h].ref \in Confirmed
          /\ Sending' \in SUBSET (Sending \ {h})
          /\ cache' # 0 /\ Now' = s
      BY <1>0, <3>1, <3>2, PutsCounts
    <3>5. Confirmed' \in SUBSET Confirmed /\ Sending' \in SUBSET Sending
      BY <3>1, <3>4
    <3>6. Used' <= confirms'
      BY <1>0, <1>3, <3>1, <3>5, KeepsUsed DEF PanelsOnly
    <3> QED BY <3>2, <3>3, <3>4, <3>6
  <2>4. CASE Confirms(h)
    <3>1. PICK s \in Session :
            /\ hs[h].pc = "got" /\ hs[h].pc # "idle" /\ Moved(h, "finalize")
            /\ StoreAs(hs[h].ref, s, s, Early(Ses(h)))
            /\ s.mode = Ses(h).mode /\ s.confirmed
            /\ confirms' = confirms + 1 /\ requests' = requests
      BY <2>4 DEF Confirms, Store, Got
    <3>2. cache' = hs[h].ref /\ Holding(hs[h].ref, s) /\ row' = s
      BY <1>0, <1>2, <3>1, StoreAsIs
    <3>3. /\ Confirmed' \in SUBSET (Confirmed \cup {hs[h].ref})
          /\ Sending' \in SUBSET (Sending \ {h})
          /\ cache' # 0 /\ Now' = s
      BY <1>0, <3>1, <3>2, PutsCounts
    <3>4. /\ Cardinality(Confirmed') <= Cardinality(Confirmed) + 1 /\ Cardinality(Confirmed') \in Nat
      BY <1>5, <3>3, OneMore
    <3>5. /\ Cardinality(Sending') <= Cardinality(Sending) /\ Cardinality(Sending') \in Nat
      BY <1>5, <3>3, Smaller
    <3>6. Used' <= confirms'
      BY <1>3, <1>5, <3>1, <3>4, <3>5 DEF Used
    <3> QED BY <3>1, <3>3, <3>6
  <2>5. CASE Summarises(h)
    <3>1. PICK s \in Session :
            /\ hs[h].pc = "finalize" /\ hs[h].pc # "idle" /\ Moved(h, "review")
            /\ Changes(h, s) /\ Quiet /\ ~Ses(h).confirmed
            /\ s.mode = Ses(h).mode /\ ~s.confirmed
      BY <2>5 DEF Summarises
    <3>2. UNCHANGED <<cache, row, disturbed, confirms, requests>> /\ Holding(hs[h].ref, s)
      BY <3>1 DEF Changes, Quiet, thread
    <3>3. /\ Confirmed' \in SUBSET (Confirmed \ {hs[h].ref})
          /\ Sending' \in SUBSET (Sending \ {h})
          /\ cache' # 0 => Now' = IF cache' = hs[h].ref THEN s ELSE Now
          /\ At({"send", "drop"}) => At({"send", "drop"})'
      BY <1>0, <3>1, <3>2, PutsCounts
    <3>4. Used' <= confirms'
      BY <1>0, <1>3, <3>2, <3>3, KeepsUsed
    <3>5. cache' # 0 /\ Now.confirmed => Now'.confirmed
      BY <3>1, <3>2, <3>3 DEF Ses, Now
    <3> QED BY <1>3, <3>2, <3>3, <3>4, <3>5
  <2>6. CASE Sends(h)
    <3>1. PICK s \in Session :
            /\ hs[h].pc = "finalize" /\ hs[h].pc # "idle" /\ Moved(h, "send")
            /\ Changes(h, s) /\ Quiet
            /\ s.mode = Ses(h).mode
            /\ (Ses(h).confirmed /\ ~s.confirmed) \/ (~Creates(h) /\ s = Ses(h))
      BY <2>6 DEF Sends
    <3>2. UNCHANGED <<cache, row, disturbed, confirms, requests>> /\ Holding(hs[h].ref, s)
      BY <3>1 DEF Changes, Quiet, thread
    <3>3. /\ Confirmed' \in SUBSET (Confirmed \cup {hs[h].ref})
          /\ ~s.confirmed => Confirmed' \in SUBSET (Confirmed \ {hs[h].ref})
          /\ Ses(h).confirmed => hs[h].ref \in Confirmed
          /\ Sending' \in SUBSET (Sending \cup {h})
          /\ ~Creates(h) => Sending' \in SUBSET (Sending \ {h})
      BY <1>0, <3>1, <3>2, PutsCounts
    <3>4. At({"send", "drop"})'
      BY <3>1 DEF At, Moved
    <3>5. CASE Ses(h).confirmed /\ ~s.confirmed
      <4>1. Cardinality(Confirmed') + 1 <= Cardinality(Confirmed) /\ Cardinality(Confirmed') \in Nat
        BY <1>5, <3>3, <3>5, OneLess
      <4>2. Cardinality(Sending') <= Cardinality(Sending) + 1 /\ Cardinality(Sending') \in Nat
        BY <1>5, <3>3, OneMore
      <4>3. Used' <= confirms'
        BY <1>3, <1>5, <3>2, <4>1, <4>2 DEF Used
      <4> QED BY <3>4, <4>3
    <3>6. CASE ~Creates(h) /\ s = Ses(h)
      <4>1. Confirmed' \in SUBSET Confirmed /\ Sending' \in SUBSET Sending
        BY <3>3, <3>6
      <4>2. Used' <= confirms'
        BY <1>0, <1>3, <3>2, <4>1, KeepsUsed
      <4> QED BY <3>4, <4>2
    <3> QED BY <3>1, <3>5, <3>6
  <2>7. CASE Stores(h)
    <3>1. /\ hs[h].pc = "review" /\ hs[h].pc # "idle" /\ Moved(h, "idle")
          /\ StoreAs(hs[h].ref, Ses(h), Ses(h), {})
          /\ UNCHANGED <<confirms, requests>>
      BY <2>7 DEF Stores, Review, Saves, Store
    <3>2. Ses(h) \in Session
      BY <1>0, <3>1, HandlerIs
    <3>3. cache' = hs[h].ref /\ Holding(hs[h].ref, Ses(h)) /\ row' = Ses(h)
      BY <1>0, <1>2, <3>1, <3>2, StoreAsIs
    <3>4. /\ Confirmed' \in SUBSET (Confirmed \cup {hs[h].ref})
          /\ ~Ses(h).confirmed => Confirmed' \in SUBSET (Confirmed \ {hs[h].ref})
          /\ Ses(h).confirmed => hs[h].ref \in Confirmed
          /\ Sending' \in SUBSET (Sending \ {h})
          /\ cache' # 0 /\ Now' = Ses(h)
      BY <1>0, <3>1, <3>2, <3>3, PutsCounts
    <3>5. Confirmed' \in SUBSET Confirmed /\ Sending' \in SUBSET Sending
      BY <3>4
    <3>6. Used' <= confirms'
      BY <1>0, <1>3, <3>1, <3>5, KeepsUsed
    <3> QED BY <3>3, <3>4, <3>6
  <2>8. CASE Stumbles(h)
    <3>1. PICK to \in {"idle", "capture"}, s \in Session :
            /\ hs[h].pc # "idle" /\ hs[h].pc \notin {"send", "drop"}
            /\ Moved(h, to) /\ Holding(hs[h].ref, s) /\ Quiet
            /\ s.mode = Ses(h).mode /\ s.confirmed = Ses(h).confirmed
            /\ \/ cache' = hs[h].ref /\ row' = s
               \/ cache' = cache /\ row' = row
      BY <1>0, <2>8, StumblesIs
    <3>2. UNCHANGED <<confirms, requests>>
      BY <3>1 DEF Quiet, thread
    <3>3. /\ Confirmed' \in SUBSET (Confirmed \cup {hs[h].ref})
          /\ ~s.confirmed => Confirmed' \in SUBSET (Confirmed \ {hs[h].ref})
          /\ Ses(h).confirmed => hs[h].ref \in Confirmed
          /\ Sending' \in SUBSET (Sending \ {h})
          /\ cache' # 0 => Now' = IF cache' = hs[h].ref THEN s ELSE Now
          /\ cache' = hs[h].ref => cache' # 0
          /\ At({"send", "drop"}) => At({"send", "drop"})'
      BY <1>0, <3>1, PutsCounts
    <3>4. Confirmed' \in SUBSET Confirmed /\ Sending' \in SUBSET Sending
      BY <3>1, <3>3
    <3>5. Used' <= confirms'
      BY <1>0, <1>3, <3>2, <3>4, KeepsUsed
    <3>6. CASE cache' = hs[h].ref /\ row' = s
      BY <3>3, <3>5, <3>6
    <3>7. CASE cache' = cache /\ row' = row
      <4>1. cache' # 0 => Now'.confirmed = Now.confirmed
        BY <3>1, <3>3, <3>7 DEF Ses, Now
      <4> QED BY <1>3, <3>3, <3>5, <3>7, <4>1
    <3> QED BY <3>1, <3>6, <3>7
  <2>9. CASE Gives(h)
    <3>1. /\ hs[h].pc = "send" /\ hs[h].pc # "idle" /\ Moved(h, "drop") /\ Changes(h, Ses(h))
          /\ confirms' = confirms
          /\ \/ requests' = requests
             \/ requests' = IF Creates(h) THEN [requests EXCEPT ![Ses(h).mode] = @ + 1] ELSE requests
      BY <2>9 DEF Gives, Sent, SendFails, Leaves, Quiet, thread
    <3>2. UNCHANGED <<cache, row, disturbed>> /\ Holding(hs[h].ref, Ses(h)) /\ Ses(h) \in Session
      BY <1>0, <3>1, HandlerIs DEF Changes
    <3>3. /\ Confirmed' \in SUBSET (Confirmed \cup {hs[h].ref})
          /\ ~Ses(h).confirmed => Confirmed' \in SUBSET (Confirmed \ {hs[h].ref})
          /\ Ses(h).confirmed => hs[h].ref \in Confirmed
          /\ Sending' \in SUBSET (Sending \ {h})
      BY <1>0, <3>1, <3>2, PutsCounts
    <3>4. At({"send", "drop"})'
      BY <3>1 DEF At, Moved
    <3>5. Confirmed' \in SUBSET Confirmed /\ Sending' \in SUBSET Sending
      BY <3>3
    <3>6. CASE requests' = requests
      BY <1>0, <1>3, <3>1, <3>4, <3>5, <3>6, KeepsUsed
    <3>7. CASE Creates(h) /\ requests' = [requests EXCEPT ![Ses(h).mode] = @ + 1]
      <4>1. h \in Sending
        BY <3>1, <3>7 DEF Sending
      <4>2. Cardinality(Sending') + 1 <= Cardinality(Sending) /\ Cardinality(Sending') \in Nat
        BY <1>5, <3>3, <4>1, OneLess
      <4>3. Cardinality(Confirmed') <= Cardinality(Confirmed) /\ Cardinality(Confirmed') \in Nat
        BY <1>5, <3>5, Smaller
      <4>4. Ses(h).mode \in {"create", "update"}
        BY <3>2 DEF Session
      <4>5. requests'["create"] + requests'["update"] = requests["create"] + requests["update"] + 1
        BY <1>5, <3>7, <4>4
      <4>6. requests'["create"] \in Nat /\ requests'["update"] \in Nat
        BY <1>5, <3>7, <4>4
      <4>7. Used' <= confirms'
        BY <1>3, <1>5, <3>1, <4>2, <4>3, <4>5, <4>6 DEF Used
      <4> QED BY <3>4, <4>7
    <3> QED BY <3>1, <3>6, <3>7
  <2> QED BY <1>6, <2>1, <2>2, <2>3, <2>4, <2>5, <2>6, <2>7, <2>8, <2>9 DEF Works
<1>7. ASSUME NEW h \in Handlers, NEW o \in Objects, NEW s \in Session, Placed(o, s),
             \A g \in Handlers : g # h => hs'[g] = hs[g],
             hs[h] = Idle, hs'[h].pc # "send",
             heap[o] = None \/ s = heap[o],
             UNCHANGED <<confirms, requests>>
      PROVE  /\ Sending' \in SUBSET Sending
             /\ Confirmed' \in SUBSET (Confirmed \cup {o})
             /\ ~s.confirmed => Confirmed' \in SUBSET Confirmed
  <2>1. \A p \in Objects : heap'[p] # None => heap'[p] = IF p = o THEN s ELSE heap[p]
    BY <1>0, <1>7, PlacedIs
  <2>2. ASSUME NEW g \in Handlers, hs'[g].pc = "send" PROVE hs'[g] = hs[g] /\ Ses(g)' = Ses(g)
    <3>1. g # h /\ hs'[g] = hs[g]
      BY <1>7, <2>2
    <3>2. heap'[hs'[g].ref] = IF hs'[g].ref = o THEN s ELSE heap[hs'[g].ref]
      BY <1>0, <1>7, <2>2, PlacedIs
    <3>3. heap[hs[g].ref] # None
      BY <1>0, <2>2, <3>1, NoneAssumption DEF BaseInv, HandlersInv
    <3> QED BY <1>7, <3>1, <3>2, <3>3 DEF Ses
  <2>3. Sending' \in SUBSET Sending
    BY <2>2 DEF Sending, Creates, Kind
  <2> QED BY <2>1, <2>3 DEF Confirmed
<1>8. ASSUME NEW h \in Handlers, Begins(h) PROVE Goal'
  <2>1. PICK o \in Objects, s \in Session, more \in SUBSET {"overlap", "moot"} :
        /\ heap[o] = None /\ hs[h] = Idle
        /\ StoreAs(o, s, s, more)
        /\ ~s.confirmed
        /\ UNCHANGED <<confirms, requests>>
        /\ hs' = [hs EXCEPT ![h] = hs'[h]] /\ hs'[h] \in Handler /\ Fine(hs'[h])
        /\ hs'[h] = Idle \/ (hs'[h].pc = "think" /\ hs'[h].ref = o) \/ hs' = hs
    BY <1>8 DEF Begins, Store
  <2>2. cache' = o /\ Holding(o, s) /\ row' = s
    BY <1>0, <1>2, <2>1, StoreAsIs
  <2>3. (hs'[h].pc # "idle" => hs'[h].ref = o) /\ hs'[h].pc # "send"
    BY <2>1 DEF Idle
  <2>4. Placed(o, s) /\ \A g \in Handlers : g # h => hs'[g] = hs[g]
    BY <1>0, <2>1, <2>2, <2>3, BeginsPlaced
  <2>5. Confirmed' \in SUBSET Confirmed /\ Sending' \in SUBSET Sending
    BY <1>7, <2>1, <2>3, <2>4
  <2>6. Used' <= confirms'
    BY <1>0, <1>3, <2>1, <2>5, KeepsUsed
  <2> QED BY <2>1, <2>2, <2>6
<1>9. ASSUME NEW h \in Handlers, Fetches(h) PROVE Goal'
  <2>1. PICK o \in Objects, s \in Session :
        /\ hs[h] = Idle
        /\ hs' = [hs EXCEPT ![h] = hs'[h]] /\ hs'[h] \in Handler /\ Fine(hs'[h])
        /\ hs'[h].pc = "got" /\ hs'[h].ref = o
        /\ cache' = o /\ Holding(o, s)
        /\ \/ o = cache /\ s = heap[o]
           \/ heap[o] = None /\ o # cache /\ row # None /\ s = row
              /\ (Busy # {} /\ cache # 0 => "expired" \in disturbed')
        /\ UNCHANGED <<row, thread>>
    BY <1>9 DEF Fetches
  <2>2. Placed(o, s) /\ \A g \in Handlers : g # h => hs'[g] = hs[g]
    BY <1>0, <2>1, BeginsPlaced
  <2>3. UNCHANGED <<confirms, requests>>
    BY <2>1 DEF thread
  <2>4. /\ Sending' \in SUBSET Sending
        /\ Confirmed' \in SUBSET (Confirmed \cup {o})
        /\ ~s.confirmed => Confirmed' \in SUBSET Confirmed
    BY <1>7, <2>1, <2>2, <2>3
  <2>5. o # 0 /\ Now' = s
    <3>1. o # 0
      BY DEF Objects
    <3> QED BY <1>0, <2>1, <2>2, <3>1, PlacedIs DEF Now
  <2>6. CASE o = cache /\ s = heap[o]
    <3>1. s = Now /\ cache # 0
      BY <2>5, <2>6 DEF Now
    <3>2. Confirmed' \in SUBSET Confirmed
      <4>1. s.confirmed => o \in Confirmed
        BY <2>6, NoneAssumption DEF Confirmed
      <4> QED BY <2>4, <4>1
    <3>3. Used' <= confirms'
      BY <1>0, <1>3, <2>3, <2>4, <3>2, KeepsUsed
    <3>4. At({"send", "drop"}) => At({"send", "drop"})'
      BY <2>1, <2>2 DEF At, Idle
    <3> QED BY <1>3, <2>1, <2>5, <3>1, <3>3, <3>4
  <2>7. CASE heap[o] = None /\ o # cache /\ row # None /\ s = row
              /\ (Busy # {} /\ cache # 0 => "expired" \in disturbed')
    <3>1. cache # 0 /\ Busy = {}
      BY <1>2, <1>4, <2>7
    <3>2. row' = row /\ Now' = row /\ cache' # 0
      BY <2>1, <2>5, <2>7
    <3>3. CASE ~s.confirmed
      <4>1. Used' <= confirms'
        BY <1>0, <1>3, <2>3, <2>4, <3>3, KeepsUsed
      <4> QED BY <2>7, <3>2, <3>3, <4>1
    <3>4. CASE s.confirmed
      <4>1. Now.confirmed
        <5>1. ~At({"send", "drop"})
          BY <3>1 DEF At, Busy
        <5> QED BY <1>3, <2>7, <3>4, <5>1
      <4>2. cache \in Confirmed
        <5>1. cache \in Objects /\ heap[cache] # None
          BY <1>0, <3>1 DEF BaseInv, TypeOK
        <5> QED BY <4>1, <5>1 DEF Confirmed, Now
      <4>3. \A g \in Handlers : hs'[g].ref # cache
        <5>1. \A g \in Handlers : hs[g] = Idle
          BY <1>0, <3>1 DEF Busy, BaseInv, HandlersInv, Fine
        <5>2. \A g \in Handlers : g # h => hs'[g].ref = 0
          BY <2>2, <5>1 DEF Idle
        <5> QED BY <2>1, <2>7, <3>1, <5>2
      <4>4. cache' # cache
        BY <2>1, <2>7
      <4>5. cache \notin Confirmed'
        <5>1. cache \in Objects
          BY <1>0, <3>1 DEF BaseInv, TypeOK
        <5>2. heap'[cache] = None
          BY <1>0, <2>2, <4>3, <4>4, <5>1, PlacedIs
        <5> QED BY <5>2 DEF Confirmed
      <4>6. Cardinality(Confirmed \ {cache}) + 1 <= Cardinality(Confirmed)
            /\ Cardinality(Confirmed \ {cache}) \in Nat
        BY <1>5, <4>2, OneLess
      <4>7. IsFiniteSet(Confirmed \ {cache}) /\ Confirmed' \in SUBSET ((Confirmed \ {cache}) \cup {o})
        BY <1>5, <2>4, <4>5, FS_Subset
      <4>8. Cardinality(Confirmed') <= Cardinality(Confirmed \ {cache}) + 1 /\ Cardinality(Confirmed') \in Nat
        <5> DEFINE A == Confirmed \ {cache}
        <5> HIDE DEF A
        <5>1. IsFiniteSet(A) /\ Confirmed' \in SUBSET (A \cup {o})
          BY <4>7 DEF A
        <5>2. Cardinality(Confirmed') <= Cardinality(A) + 1 /\ Cardinality(Confirmed') \in Nat
          BY <5>1, OneMore
        <5> QED BY <5>2 DEF A
      <4>9. Cardinality(Sending') <= Cardinality(Sending) /\ Cardinality(Sending') \in Nat
        BY <1>5, <2>4, Smaller
      <4>10. Used' <= confirms'
        BY <1>3, <1>5, <2>3, <4>6, <4>8, <4>9 DEF Used
      <4> QED BY <2>7, <3>2, <3>4, <4>10
    <3> QED BY <3>3, <3>4
  <2> QED BY <2>1, <2>6, <2>7
<1>10. CASE Expire
  <2>1. /\ Busy = {} /\ cache' = 0 /\ row' = None /\ hs' = hs
        /\ Holding(0, None) /\ UNCHANGED <<confirms, requests>>
    BY <1>10 DEF Expire, Quiet, thread
  <2>2. Sending' \in SUBSET Sending
    BY <2>1 DEF Sending, Busy
  <2>3. Confirmed' \in SUBSET Confirmed
    <3>1. heap' = [p \in Objects |-> IF p = cache' \/ \E g \in Handlers : hs'[g].ref = p
                                     THEN IF p = 0 THEN None ELSE heap[p] ELSE None]
      BY <2>1 DEF Holding
    <3>2. \A p \in Objects : heap'[p] # None => heap'[p] = heap[p]
      BY <3>1 DEF Objects
    <3> QED BY <3>2 DEF Confirmed
  <2>4. Used' <= confirms'
    BY <1>0, <1>3, <2>1, <2>2, <2>3, KeepsUsed
  <2> QED BY <2>1, <2>4
<1>11. CASE Crash
  BY <1>2, <1>11 DEF Crash
<1>12. CASE UNCHANGED vars
  <2>1. Now' = Now /\ Confirmed' = Confirmed /\ Sending' = Sending /\ Used' = Used
    BY <1>12 DEF vars, Now, Confirmed, Sending, Creates, Ses, Kind, Used
  <2>2. row' = row /\ cache' = cache /\ confirms' = confirms /\ (At({"send", "drop"})' <=> At({"send", "drop"}))
    BY <1>12 DEF vars, At
  <2> QED BY <1>3, <2>1, <2>2
<1> QED BY <1>0, <1>6, <1>8, <1>9, <1>10, <1>11, <1>12, NextShapes

-----------------------------------------------------------------------------
(* Summaries.                                                               *)

(* A fault that happened is one of those the runs may have.                *)
FaultInv == "crash" \in disturbed => "crash" \in Faults

(* Every step keeps it.                                                     *)
LEMMA FaultNext ==
    ASSUME CoreInv, FaultInv, [Next]_vars
    PROVE  FaultInv'
<1>0. BaseInv /\ SoloInv /\ ThinkInv
  BY DEF CoreInv
<1>1. ASSUME NEW h \in Handlers, Works(h) PROVE "crash" \in disturbed' => "crash" \in disturbed
  <2>1. CASE Drops(h)
    BY <1>0, <2>1, DropSessionIs DEF Drops
  <2>2. CASE Lets(h)
    BY <2>2 DEF Lets, Changes
  <2>3. CASE Writes(h)
    <3>1. PICK s \in Session, w \in Session, more \in SUBSET {"late", "early", "moot"} :
            StoreAs(hs[h].ref, s, w, more)
      BY <2>3 DEF Writes
    <3> QED BY <1>0, <3>1, StoreAsIs
  <2>4. CASE Confirms(h)
    <3>1. PICK s \in Session : StoreAs(hs[h].ref, s, s, Early(Ses(h)))
      BY <2>4 DEF Confirms, Store
    <3>2. "crash" \notin Early(Ses(h))
      BY DEF Early
    <3> QED BY <1>0, <3>1, <3>2, StoreAsIs
  <2>5. CASE Summarises(h) \/ Sends(h)
    BY <2>5 DEF Summarises, Sends, Changes
  <2>6. CASE Stores(h)
    <3>1. hs[h].pc = "review" /\ StoreAs(hs[h].ref, Ses(h), Ses(h), {})
      BY <2>6 DEF Stores, Review, Saves, Store
    <3>2. Ses(h) \in Session
      BY <1>0, <3>1, HandlerIs
    <3> QED BY <1>0, <3>1, <3>2, StoreAsIs
  <2>7. CASE Stumbles(h)
    BY <1>0, <2>7, StumblesIs
  <2>8. CASE Gives(h)
    BY <2>8 DEF Gives, Sent, SendFails, Leaves, Changes
  <2> QED BY <1>1, <2>1, <2>2, <2>3, <2>4, <2>5, <2>6, <2>7, <2>8 DEF Works
<1>2. ASSUME NEW h \in Handlers, Begins(h) PROVE "crash" \in disturbed' => "crash" \in disturbed
  <2>1. PICK o \in Objects, s \in Session, more \in SUBSET {"overlap", "moot"} : StoreAs(o, s, s, more)
    BY <1>2 DEF Begins, Store
  <2> QED BY <1>0, <2>1, StoreAsIs
<1>3. ASSUME NEW h \in Handlers, Fetches(h) PROVE "crash" \in disturbed' => "crash" \in disturbed
  BY <1>3 DEF Fetches
<1>4. CASE Expire \/ UNCHANGED vars
  BY <1>4 DEF Expire, vars, FaultInv
<1>5. CASE Crash
  BY <1>5 DEF Crash, Fails, FaultInv
<1> QED BY <1>0, <1>1, <1>2, <1>3, <1>4, <1>5, NextShapes DEF FaultInv

-----------------------------------------------------------------------------
(* What a session that waits for a confirmation has shown.                 *)
AwaitInv ==
    Sure({"overlap", "slack", "late"}) =>
        /\ row # None /\ row.awaiting => shown = SpecOf(row)
        /\ row # None /\ row.awaiting /\ cache # 0 /\ ~At({"send", "drop"}) /\ Sure({"crash", "store"}) =>
              Now.awaiting /\ Now.ans = row.ans
        /\ cache # 0 /\ Now.awaiting /\ ~At({"review"}) => shown = SpecOf(Now)
        /\ \A h \in Handlers : hs[h].pc = "review" => Ses(h).awaiting /\ hs[h].spec = SpecOf(Ses(h))

RowShown   == row # None /\ row.awaiting => shown = SpecOf(row)
RowAwaits  == row # None /\ row.awaiting /\ cache # 0 /\ Sure({"crash", "store"})
                /\ (\A h \in Handlers : hs[h].pc \notin {"send", "drop"}) => Now.awaiting /\ Now.ans = row.ans
NowShown   == cache # 0 /\ Now.awaiting /\ (\A h \in Handlers : hs[h].pc # "review") => shown = SpecOf(Now)
ReviewIs   == \A h \in Handlers : hs[h].pc = "review" => Ses(h).awaiting /\ hs[h].spec = SpecOf(Ses(h))

(* The parts of it, now and after a step.                                   *)
LEMMA AwaitIs ==
    /\ AwaitInv <=> (Sure({"overlap", "slack", "late"}) => RowShown /\ RowAwaits /\ NowShown /\ ReviewIs)
    /\ AwaitInv' <=> (Sure({"overlap", "slack", "late"})' => RowShown' /\ RowAwaits' /\ NowShown' /\ ReviewIs')
  BY DEF AwaitInv, RowShown, RowAwaits, NowShown, ReviewIs, At

(* Every step keeps it.                                                     *)
LEMMA AwaitNext ==
    ASSUME CoreInv, FaultInv, AwaitInv, [Next]_vars
    PROVE  AwaitInv'
<1> DEFINE Goal == RowShown /\ RowAwaits /\ NowShown /\ ReviewIs
<1> SUFFICES ASSUME Sure({"overlap", "slack", "late"})'
             PROVE  Goal'
  BY AwaitIs
<1>0. BaseInv /\ SoloInv /\ ThinkInv
  BY DEF CoreInv
<1>1. disturbed \in SUBSET disturbed'
  BY <1>0, DisturbedGrows
<1>2. /\ Sure({"overlap", "slack", "late"}) /\ Sure({"overlap"}) /\ Sure({"overlap"})'
      /\ "slack" \notin disturbed' /\ "late" \notin disturbed'
      /\ Sure({"crash", "store"})' => Sure({"crash", "store"}) /\ "store" \notin disturbed'
  BY <1>1 DEF Sure
<1>3. RowShown /\ RowAwaits /\ NowShown /\ ReviewIs
  BY <1>2, AwaitIs
<1> HIDE DEF Goal
<1>4. ASSUME NEW h \in Handlers, Alone(h)', hs'[h].pc # "review" PROVE ReviewIs'
  BY <1>4 DEF Alone, ReviewIs
<1>5. ASSUME NEW h \in Handlers, Works(h) PROVE Goal'
  <2>1. CASE Drops(h)
    <3>1. /\ Alone(h)' /\ hs'[h].pc = "idle" /\ cache' = 0
          /\ row' \in {None, row} /\ shown' = shown
      BY <1>0, <1>2, <2>1, ViewDrops
    <3>2. ReviewIs'
      BY <1>4, <3>1
    <3>3. RowShown'
      BY <1>3, <3>1 DEF RowShown
    <3> QED BY <3>1, <3>2, <3>3 DEF RowAwaits, NowShown, Goal
  <2>2. CASE Lets(h)
    <3>1. PICK to \in {"idle", "think", "capture", "finalize"}, s \in Session :
            /\ hs[h].pc \in Working /\ View(h, to, s)
            /\ Alike(Now, s) /\ s.ans = Now.ans /\ SpecOf(s) = SpecOf(Now)
            /\ row' = row /\ disturbed' = disturbed /\ shown' = shown
      BY <1>0, <1>2, <2>2, ViewLets
    <3>2. /\ Alone(h) /\ Alone(h)' /\ hs'[h].pc = to /\ Now' = s /\ cache # 0
      BY <3>1 DEF View
    <3>3. s.awaiting = Now.awaiting
      BY <3>1 DEF Alike
    <3>4. /\ \A g \in Handlers : hs[g].pc \notin {"send", "drop"}
          /\ \A g \in Handlers : hs[g].pc # "review"
      BY <3>1, <3>2 DEF Alone, Working
    <3>5. RowShown'
      BY <1>3, <3>1 DEF RowShown
    <3>6. RowAwaits'
      BY <1>2, <1>3, <3>1, <3>2, <3>3, <3>4 DEF RowAwaits
    <3>7. NowShown'
      BY <1>3, <3>1, <3>2, <3>3, <3>4 DEF NowShown
    <3> QED BY <1>4, <3>2, <3>5, <3>6, <3>7 DEF Goal
  <2>3. CASE Writes(h)
    <3>1. PICK to \in {"idle", "advance", "finalize"}, s \in Session, w \in Session,
               more \in SUBSET {"late", "early", "moot"} :
            /\ hs[h].pc \in Working /\ View(h, to, s) /\ Rewrites(h, to, s, more)
            /\ Pruned(w) = Pruned(s) /\ row' \in {w, row} /\ (row' = w \/ "store" \in disturbed')
            /\ more \in SUBSET disturbed' /\ shown' = shown
      BY <1>0, <1>2, <2>3, ViewWrites
    <3>2. /\ Alone(h) /\ Alone(h)' /\ hs'[h].pc = to /\ Now' = s /\ cache # 0 /\ Ses(h) = Now /\ Now \in Session
      BY <3>1 DEF View
    <3>3. /\ s.awaiting => Now.awaiting
          /\ s.ans = Now.ans \/ Late \in SUBSET more \/ Plain(s)
      BY <1>0, <1>2, <3>1, <3>2 DEF Rewrites, Sure
    <3>4. \A g \in Handlers : hs[g].pc # "review"
      BY <3>1, <3>2 DEF Alone, Working
    <3>5. s.awaiting => shown = SpecOf(s)
      <4>1. SUFFICES ASSUME s.awaiting PROVE shown = SpecOf(s)
        OBVIOUS
      <4>2. Now.awaiting /\ shown = SpecOf(Now)
        BY <1>3, <3>2, <3>3, <3>4, <4>1 DEF NowShown
      <4>3. ~Plain(s)
        BY <4>1 DEF Plain
      <4>4. shown # None
        BY <3>2, <4>2, SpecIs, NoneAssumption
      <4>5. "late" \in Late
        BY <4>4 DEF Late
      <4>6. s.ans = Now.ans
        BY <1>2, <3>1, <3>3, <4>3, <4>5
      <4> QED BY <3>2, <4>2, <4>6, SpecIs
    <3>6. w.awaiting = s.awaiting /\ w.ans = s.ans /\ SpecOf(w) = SpecOf(s)
      BY <3>1, PrunedSame DEF Alike
    <3>7. RowShown'
      BY <1>3, <3>1, <3>5, <3>6 DEF RowShown
    <3>8. RowAwaits'
      BY <1>2, <3>1, <3>2, <3>6 DEF RowAwaits
    <3>9. NowShown'
      BY <3>1, <3>2, <3>5 DEF NowShown
    <3> QED BY <1>4, <3>2, <3>7, <3>8, <3>9 DEF Goal
  <2>4. CASE Confirms(h)
    <3>1. PICK s \in Session :
            /\ View(h, "finalize", s) /\ ~s.awaiting
            /\ row' \in {s, row} /\ (row' = s \/ "store" \in disturbed') /\ shown' = shown
      BY <1>0, <1>2, <2>4, ViewConfirms
    <3>2. Alone(h)' /\ hs'[h].pc # "review" /\ Now' = s
      BY <3>1 DEF View
    <3>3. RowShown'
      BY <1>3, <3>1 DEF RowShown
    <3>4. RowAwaits' /\ NowShown'
      BY <1>2, <3>1, <3>2 DEF RowAwaits, NowShown
    <3> QED BY <1>4, <3>2, <3>3, <3>4 DEF Goal
  <2>5. CASE Summarises(h)
    <3>1. PICK s \in Session :
              /\ hs[h].pc = "finalize" /\ View(h, "review", s) /\ hs'[h].spec = SpecOf(s)
              /\ s.ans = Now.ans /\ s.awaiting
              /\ row' = row /\ disturbed' = disturbed /\ shown' = shown
      BY <1>0, <1>2, <2>5, ViewSummarises
    <3>2. /\ Alone(h) /\ Alone(h)' /\ hs'[h].pc = "review" /\ Now' = s /\ cache # 0 /\ Ses(h)' = s
      BY <3>1 DEF View
    <3>3. \A g \in Handlers : hs[g].pc \notin {"send", "drop"}
      BY <3>1, <3>2 DEF Alone
    <3>4. RowShown'
      BY <1>3, <3>1 DEF RowShown
    <3>5. RowAwaits'
      BY <1>2, <1>3, <3>1, <3>2, <3>3 DEF RowAwaits
    <3>6. NowShown'
      BY <3>2 DEF NowShown
    <3>7. ReviewIs'
      BY <3>1, <3>2 DEF ReviewIs, Alone
    <3> QED BY <3>4, <3>5, <3>6, <3>7 DEF Goal
  <2>6. CASE Sends(h)
    <3>1. PICK s \in Session :
              /\ hs[h].pc = "finalize" /\ View(h, "send", s)
              /\ ~s.awaiting \/ s = Now
              /\ row' = row /\ shown' = shown
      BY <1>0, <1>2, <2>6, ViewSends
    <3>2. /\ Alone(h) /\ Alone(h)' /\ hs'[h].pc = "send" /\ Now' = s /\ cache # 0
      BY <3>1 DEF View
    <3>3. \A g \in Handlers : hs[g].pc # "review"
      BY <3>1, <3>2 DEF Alone
    <3>4. RowShown'
      BY <1>3, <3>1 DEF RowShown
    <3>5. RowAwaits'
      BY <3>2 DEF RowAwaits
    <3>6. NowShown'
      BY <1>3, <3>1, <3>2, <3>3 DEF NowShown
    <3> QED BY <1>4, <3>2, <3>4, <3>5, <3>6 DEF Goal
  <2>7. CASE Stores(h)
    <3>1. /\ hs[h].pc = "review" /\ View(h, "idle", Now) /\ shown' = hs[h].spec
          /\ row' = Now \/ (row' = row /\ Fails("store") /\ "store" \in disturbed')
      BY <1>0, <1>2, <2>7, ViewStores
    <3>2. /\ Alone(h) /\ Alone(h)' /\ hs'[h].pc = "idle" /\ Now' = Now /\ cache # 0 /\ Ses(h) = Now /\ Now \in Session
      BY <3>1 DEF View
    <3>3. shown' = SpecOf(Now)
      BY <1>3, <3>1, <3>2 DEF ReviewIs
    <3>4. RowShown'
      <4>1. CASE row' = Now
        BY <3>3, <4>1 DEF RowShown
      <4>2. CASE row' = row /\ Fails("store") /\ row # None /\ row.awaiting
        <5>1. "store" \notin disturbed /\ "crash" \notin disturbed
          BY <4>2 DEF Fails, FaultInv
        <5>2. Sure({"crash", "store"}) /\ \A g \in Handlers : hs[g].pc \notin {"send", "drop"}
          BY <3>1, <3>2, <5>1 DEF Sure, Alone
        <5>3. Now.ans = row.ans
          BY <1>3, <3>2, <4>2, <5>2 DEF RowAwaits
        <5>4. SpecOf(row) = SpecOf(Now)
          <6>1. row \in Session
            BY <1>0, <4>2 DEF BaseInv, TypeOK
          <6> QED BY <3>2, <5>3, <6>1, SpecIs
        <5> QED BY <3>3, <4>2, <5>4 DEF RowShown
      <4> QED BY <3>1, <4>1, <4>2 DEF RowShown
    <3>5. RowAwaits'
      BY <1>2, <3>1, <3>2 DEF RowAwaits
    <3>6. NowShown'
      BY <3>2, <3>3 DEF NowShown
    <3> QED BY <1>4, <3>2, <3>4, <3>5, <3>6 DEF Goal
  <2>8. CASE Stumbles(h)
    BY <1>0, <1>2, <2>8, ViewStumbles
  <2>9. CASE Gives(h)
    <3>1. hs[h].pc = "send" /\ View(h, "drop", Now) /\ row' = row /\ shown' = shown
      BY <1>0, <1>2, <2>9, ViewGives
    <3>2. /\ Alone(h) /\ Alone(h)' /\ hs'[h].pc = "drop" /\ Now' = Now /\ cache # 0
      BY <3>1 DEF View
    <3>3. \A g \in Handlers : hs[g].pc # "review"
      BY <3>1, <3>2 DEF Alone
    <3>4. RowShown'
      BY <1>3, <3>1 DEF RowShown
    <3>5. RowAwaits'
      BY <3>2 DEF RowAwaits
    <3>6. NowShown'
      BY <1>3, <3>1, <3>2, <3>3 DEF NowShown
    <3> QED BY <1>4, <3>2, <3>4, <3>5, <3>6 DEF Goal
  <2> QED BY <1>5, <2>1, <2>2, <2>3, <2>4, <2>5, <2>6, <2>7, <2>8, <2>9 DEF Works
<1>6. ASSUME NEW h \in Handlers, Begins(h) PROVE Goal'
  <2>1. PICK s \in Session :
          /\ Now' = s /\ row' \in {s, row} /\ (row' = s \/ "store" \in disturbed') /\ ~s.awaiting /\ shown' = shown
          /\ hs'[h].pc \in {"idle", "think"} \/ hs' = hs
    BY <1>0, <1>2, <1>6, SoloBegins
  <2>2. Busy = {} /\ \A g \in Handlers : g # h => hs'[g].pc = "idle"
    BY <1>0, <1>2, <1>6, SoloBegins
  <2>3. \A g \in Handlers : hs'[g].pc # "review"
    BY <2>1, <2>2 DEF Busy
  <2>4. RowShown'
    BY <1>3, <2>1 DEF RowShown
  <2>5. RowAwaits' /\ NowShown'
    BY <1>2, <2>1 DEF RowAwaits, NowShown
  <2>6. ReviewIs'
    BY <2>3 DEF ReviewIs
  <2> QED BY <2>4, <2>5, <2>6 DEF Goal
<1>7. ASSUME NEW h \in Handlers, Fetches(h) PROVE Goal'
  <2>1. /\ Busy = {} /\ \A g \in Handlers : g # h => hs'[g].pc = "idle"
        /\ hs'[h].pc = "got" /\ row' = row /\ shown' = shown
        /\ (Now' = Now /\ cache # 0) \/ (Now' = row /\ row # None)
        /\ disturbed' = disturbed \/ "expired" \in disturbed'
    BY <1>0, <1>2, <1>7, SoloFetches DEF thread
  <2>2. /\ \A g \in Handlers : hs'[g].pc # "review"
        /\ \A g \in Handlers : hs[g].pc = "idle"
    BY <2>1 DEF Busy
  <2>3. RowShown'
    BY <1>3, <2>1 DEF RowShown
  <2>4. RowAwaits'
    BY <1>2, <1>3, <2>1, <2>2 DEF RowAwaits
  <2>5. NowShown'
    <3>1. CASE Now' = Now /\ cache # 0
      BY <1>3, <2>1, <2>2, <3>1 DEF NowShown
    <3>2. CASE Now' = row /\ row # None
      BY <1>3, <2>1, <3>2 DEF NowShown, RowShown
    <3> QED BY <2>1, <3>1, <3>2
  <2>6. ReviewIs'
    BY <2>2 DEF ReviewIs
  <2> QED BY <2>3, <2>4, <2>5, <2>6 DEF Goal
<1>8. CASE Expire
  <2>1. /\ Busy = {} /\ cache' = 0 /\ row' = None /\ hs' = hs
    BY <1>8 DEF Expire
  <2> QED BY <2>1 DEF Goal, RowShown, RowAwaits, NowShown, ReviewIs, Busy
<1>9. CASE Crash
  <2>1. /\ cache' = 0 /\ row' = row /\ shown' = shown /\ \A g \in Handlers : hs'[g].pc = "idle"
    BY <1>9 DEF Crash, Quiet, thread, Idle
  <2>2. RowShown'
    BY <1>3, <2>1 DEF RowShown
  <2> QED BY <2>1, <2>2 DEF Goal, RowAwaits, NowShown, ReviewIs
<1>10. CASE UNCHANGED vars
  BY <1>2, <1>3, <1>10 DEF Goal, vars, RowShown, RowAwaits, NowShown, ReviewIs, Now, Ses
<1> QED BY <1>0, <1>5, <1>6, <1>7, <1>8, <1>9, <1>10, NextShapes

-----------------------------------------------------------------------------
(* A session that no handler advances or finishes has a next step.         *)
NextInv ==
    disturbed \subseteq {"early"} /\ cache # 0 /\ ~At(Finishing \cup {"advance"}) => HasNext(Now)

(* Every step keeps it.                                                     *)
LEMMA NextNext ==
    ASSUME CoreInv, CachedInv, SameInv, AwaitInv, NextInv, [Next]_vars
    PROVE  NextInv'
<1> SUFFICES ASSUME (disturbed \subseteq {"early"})', cache' # 0,
                    \A g \in Handlers : hs'[g].pc \notin Finishing \cup {"advance"}
             PROVE  HasNext(Now')
  BY DEF NextInv, At
<1>0. BaseInv /\ SoloInv /\ ThinkInv
  BY DEF CoreInv
<1>1. disturbed \in SUBSET disturbed'
  BY <1>0, DisturbedGrows
<1>2. /\ disturbed \subseteq {"early"} /\ Sure({"overlap"}) /\ Sure({"overlap"})'
      /\ Sure({"overlap", "slack", "late"}) /\ Sure({"crash", "store", "expired"})
      /\ Sure({"overlap", "store", "slack", "expired"})
      /\ "slack" \notin disturbed' /\ "moot" \notin disturbed' /\ "store" \notin disturbed'
  BY <1>1 DEF Sure
<1>3. ASSUME cache # 0, \A g \in Handlers : hs[g].pc \notin Finishing \cup {"advance"} PROVE HasNext(Now)
  BY <1>2, <1>3 DEF NextInv, At
<1>4. ASSUME NEW h \in Handlers, Works(h) PROVE HasNext(Now')
  <2>1. CASE Drops(h)
    BY <1>0, <1>2, <2>1, ViewDrops
  <2>2. CASE Lets(h)
    <3>1. PICK to \in {"idle", "think", "capture", "finalize"}, s \in Session :
            /\ hs[h].pc \in Working /\ View(h, to, s)
            /\ HasNext(s) <=> HasNext(Now)
            /\ hs[h].pc = "advance" => to = "finalize" \/ HasNext(Now)
      BY <1>0, <1>2, <2>2, ViewLets
    <3>2. /\ Alone(h) /\ hs'[h].pc = to /\ Now' = s /\ cache # 0
      BY <3>1 DEF View
    <3>3. to # "finalize"
      BY <3>2 DEF Finishing
    <3>4. CASE hs[h].pc = "advance"
      BY <3>1, <3>2, <3>3, <3>4
    <3>5. CASE hs[h].pc # "advance"
      <4>1. \A g \in Handlers : hs[g].pc \notin Finishing \cup {"advance"}
        BY <3>1, <3>2, <3>5 DEF Alone, Working, Finishing
      <4> QED BY <1>3, <3>1, <3>2, <4>1
    <3> QED BY <3>4, <3>5
  <2>3. CASE Writes(h)
    <3>1. PICK to \in {"idle", "advance", "finalize"}, s \in Session, w \in Session,
               more \in SUBSET {"late", "early", "moot"} :
            /\ hs[h].pc \in Working /\ View(h, to, s) /\ Rewrites(h, to, s, more)
            /\ more \in SUBSET disturbed'
      BY <1>0, <1>2, <2>3, ViewWrites
    <3>2. /\ Alone(h) /\ hs'[h].pc = to /\ Now' = s /\ cache # 0 /\ Ses(h) = Now
      BY <3>1 DEF View
    <3>3. to = "idle"
      BY <3>2 DEF Finishing
    <3>4. hs[h].pc = "advance" \/ HasNext(Now) => HasNext(s)
      BY <1>2, <3>1, <3>2, <3>3 DEF Rewrites
    <3>5. CASE hs[h].pc # "advance"
      <4>1. \A g \in Handlers : hs[g].pc \notin Finishing \cup {"advance"}
        BY <3>1, <3>2, <3>5 DEF Alone, Working, Finishing
      <4> QED BY <1>3, <3>2, <3>4, <4>1
    <3> QED BY <3>2, <3>4, <3>5
  <2>4. CASE Confirms(h)
    <3>1. hs'[h].pc = "finalize"
      BY <1>0, <1>2, <2>4, ViewConfirms DEF View
    <3> QED BY <3>1 DEF Finishing
  <2>5. CASE Summarises(h)
    <3>1. hs'[h].pc = "review"
      BY <1>0, <1>2, <2>5, ViewSummarises DEF View
    <3> QED BY <3>1 DEF Finishing
  <2>6. CASE Sends(h)
    <3>1. hs'[h].pc = "send"
      BY <1>0, <1>2, <2>6, ViewSends DEF View
    <3> QED BY <3>1 DEF Finishing
  <2>7. CASE Stores(h)
    <3>1. hs[h].pc = "review" /\ View(h, "idle", Now)
      BY <1>0, <1>2, <2>7, ViewStores
    <3>2. Ses(h) = Now /\ Now' = Now
      BY <3>1 DEF View
    <3>3. Now.awaiting
      BY <1>2, <3>1, <3>2, AwaitIs DEF ReviewIs
    <3> QED BY <3>2, <3>3 DEF HasNext, Plain
  <2>8. CASE Stumbles(h)
    BY <1>0, <1>2, <2>8, ViewStumbles
  <2>9. CASE Gives(h)
    <3>1. hs'[h].pc = "drop"
      BY <1>0, <1>2, <2>9, ViewGives DEF View
    <3> QED BY <3>1 DEF Finishing
  <2> QED BY <1>4, <2>1, <2>2, <2>3, <2>4, <2>5, <2>6, <2>7, <2>8, <2>9 DEF Works
<1>5. ASSUME NEW h \in Handlers, Begins(h) PROVE HasNext(Now')
  <2>1. PICK s \in Session, more \in SUBSET {"overlap", "moot"} :
          Now' = s /\ more \in SUBSET disturbed' /\ (HasNext(s) \/ "moot" \in more)
    BY <1>0, <1>2, <1>5, SoloBegins
  <2> QED BY <1>2, <2>1
<1>6. ASSUME NEW h \in Handlers, Fetches(h) PROVE HasNext(Now')
  <2>1. Busy = {} /\ ((Now' = Now /\ cache # 0) \/ (Now' = row /\ row # None))
    BY <1>0, <1>2, <1>6, SoloFetches
  <2>2. \A g \in Handlers : hs[g].pc \notin Finishing \cup {"advance"}
    BY <2>1 DEF Busy, Finishing
  <2>3. CASE Now' = Now /\ cache # 0
    BY <1>3, <2>2, <2>3
  <2>4. CASE Now' = row /\ row # None
    <3>1. cache # 0
      BY <1>2, <2>4 DEF CachedInv
    <3>2. Pruned(row) = Pruned(Now)
      BY <1>2, <2>2, <3>1 DEF SameInv, At
    <3>3. row \in Session /\ Now \in Session
      BY <1>0, <2>4, <3>1 DEF BaseInv, TypeOK, Now
    <3>4. HasNext(row) <=> HasNext(Now)
      BY <3>2, <3>3, PrunedSame
    <3> QED BY <1>3, <2>2, <2>4, <3>1, <3>4
  <2> QED BY <2>1, <2>3, <2>4
<1>7. CASE Expire \/ Crash
  BY <1>7 DEF Expire, Crash
<1>8. CASE UNCHANGED vars
  <2>1. Now' = Now /\ hs' = hs /\ cache' = cache
    BY <1>8 DEF vars, Now
  <2> QED BY <1>3, <2>1
<1> QED BY <1>0, <1>4, <1>5, <1>6, <1>7, <1>8, NextShapes

-----------------------------------------------------------------------------
(* What was reviewed.                                                       *)

(* What a confirmation in a create session confirms.                       *)
ReviewInv ==
    disturbed = {} =>
        /\ cache # 0 /\ Now.mode = "create" /\ ~Plain(Now) /\ shown # None /\ ~At({"review", "send", "drop"}) =>
              shown = SpecOf(Now)
        /\ cache # 0 /\ Now.confirmed => \E h \in Handlers : hs[h].pc = "finalize" /\ Kind(h) = "confirm"
        /\ \A h \in Handlers :
              /\ hs[h].pc = "finalize" /\ Ses(h).confirmed /\ Ses(h).mode = "create" => shown = SpecOf(Ses(h))
              /\ hs[h].pc = "send" /\ Ses(h).mode = "create" => hs[h].spec = shown

EditShown == cache # 0 /\ Now.mode = "create" /\ ~Plain(Now) /\ shown # None
                /\ (\A h \in Handlers : hs[h].pc \notin {"review", "send", "drop"}) => shown = SpecOf(Now)
UsedUp    == cache # 0 /\ Now.confirmed => \E h \in Handlers : hs[h].pc = "finalize" /\ Kind(h) = "confirm"
SendsShown ==
    \A h \in Handlers :
        /\ hs[h].pc = "finalize" /\ Ses(h).confirmed /\ Ses(h).mode = "create" => shown = SpecOf(Ses(h))
        /\ hs[h].pc = "send" /\ Ses(h).mode = "create" => hs[h].spec = shown

(* The parts of it, now and after a step.                                   *)
LEMMA ReviewInvIs ==
    /\ ReviewInv <=> (disturbed = {} => EditShown /\ UsedUp /\ SendsShown)
    /\ ReviewInv' <=> (disturbed' = {} => EditShown' /\ UsedUp' /\ SendsShown')
  BY DEF ReviewInv, EditShown, UsedUp, SendsShown, At

(* Every step keeps it.                                                     *)
LEMMA ReviewNext ==
    ASSUME CoreInv, CachedInv, SameInv, AwaitInv, ReviewInv, [Next]_vars
    PROVE  ReviewInv'
<1> DEFINE Goal == EditShown /\ UsedUp /\ SendsShown
<1> SUFFICES ASSUME disturbed' = {}
             PROVE  Goal'
  BY ReviewInvIs
<1>0. BaseInv /\ SoloInv /\ ThinkInv
  BY DEF CoreInv
<1>1. disturbed = {}
  BY <1>0, DisturbedGrows
<1>2. /\ Sure({"overlap"}) /\ Sure({"overlap"})'
      /\ Sure({"overlap", "slack", "late"}) /\ Sure({"crash", "store", "expired"}) /\ Sure({"overlap", "slack"})
      /\ Sure({"overlap", "store", "slack", "expired"})
  BY <1>1 DEF Sure
<1>3. EditShown /\ UsedUp /\ SendsShown
  BY <1>1, ReviewInvIs
<1> HIDE DEF Goal
<1>4. ASSUME NEW h \in Handlers, Alone(h)', hs'[h].pc \notin {"finalize", "send"} PROVE SendsShown'
  BY <1>4 DEF Alone, SendsShown
<1>5. ASSUME NEW h \in Handlers, Alone(h), hs[h].pc # "finalize", cache # 0 PROVE ~Now.confirmed
  BY <1>3, <1>5 DEF Alone, UsedUp
<1>6. ASSUME NEW h \in Handlers, Works(h) PROVE Goal'
  <2>1. CASE Drops(h)
    <3>1. Alone(h)' /\ hs'[h].pc = "idle" /\ cache' = 0
      BY <1>0, <1>2, <2>1, ViewDrops
    <3> QED BY <1>4, <3>1 DEF EditShown, UsedUp, Goal
  <2>2. CASE Lets(h)
    <3>1. PICK to \in {"idle", "think", "capture", "finalize"}, s \in Session :
            /\ hs[h].pc \in Working /\ View(h, to, s)
            /\ Alike(Now, s) /\ (Plain(s) <=> Plain(Now)) /\ SpecOf(s) = SpecOf(Now)
            /\ shown' = shown
      BY <1>0, <1>2, <2>2, ViewLets
    <3>2. /\ Alone(h) /\ Alone(h)' /\ hs'[h].pc = to /\ Now' = s /\ cache # 0 /\ (to # "idle" => Ses(h)' = s)
      BY <3>1 DEF View
    <3>3. s.mode = Now.mode /\ s.confirmed = Now.confirmed
      BY <3>1 DEF Alike
    <3>4. \A g \in Handlers : hs[g].pc \notin {"review", "send", "drop"}
      BY <3>1, <3>2 DEF Alone, Working
    <3>5. ~s.confirmed
      BY <1>5, <3>1, <3>2, <3>3 DEF Working
    <3>6. EditShown'
      BY <1>3, <3>1, <3>2, <3>3, <3>4 DEF EditShown
    <3>7. UsedUp'
      BY <3>2, <3>5 DEF UsedUp
    <3>8. SendsShown'
      BY <3>2, <3>5 DEF SendsShown, Alone
    <3> QED BY <3>6, <3>7, <3>8 DEF Goal
  <2>3. CASE Writes(h)
    <3>1. PICK to \in {"idle", "advance", "finalize"}, s \in Session, w \in Session,
               more \in SUBSET {"late", "early", "moot"} :
            /\ hs[h].pc \in Working /\ View(h, to, s) /\ Rewrites(h, to, s, more)
            /\ more \in SUBSET disturbed' /\ shown' = shown
      BY <1>0, <1>2, <2>3, ViewWrites
    <3>2. /\ Alone(h) /\ Alone(h)' /\ hs'[h].pc = to /\ Now' = s /\ cache # 0 /\ Ses(h) = Now /\ Now \in Session
          /\ to # "idle" => Ses(h)' = s
      BY <3>1 DEF View
    <3>3. /\ s.mode = Now.mode /\ (s.confirmed => Now.confirmed)
          /\ Plain(Now) => Plain(s)
          /\ s.ans = Now.ans \/ Late = {} \/ Plain(s)
      BY <1>2, <3>1, <3>2 DEF Rewrites
    <3>4. \A g \in Handlers : hs[g].pc \notin {"review", "send", "drop"}
      BY <3>1, <3>2 DEF Alone, Working
    <3>5. ~s.confirmed
      BY <1>5, <3>1, <3>2, <3>3 DEF Working
    <3>6. EditShown'
      <4>1. SUFFICES ASSUME s.mode = "create", ~Plain(s), shown # None PROVE shown = SpecOf(s)
        BY <3>1, <3>2 DEF EditShown
      <4>2. shown = SpecOf(Now)
        BY <1>3, <3>2, <3>3, <3>4, <4>1 DEF EditShown
      <4>3. s.ans = Now.ans
        BY <3>3, <4>1 DEF Late
      <4> QED BY <3>2, <4>2, <4>3, SpecIs
    <3>7. UsedUp'
      BY <3>2, <3>5 DEF UsedUp
    <3>8. SendsShown'
      BY <3>2, <3>5 DEF SendsShown, Alone
    <3> QED BY <3>6, <3>7, <3>8 DEF Goal
  <2>4. CASE Confirms(h)
    <3>1. PICK s \in Session :
            /\ hs[h].pc = "got" /\ View(h, "finalize", s) /\ Kind(h)' = "confirm" /\ shown # None
            /\ s.mode = Now.mode /\ SpecOf(s) = SpecOf(Now)
            /\ Plain(Now) => "early" \in disturbed'
            /\ shown' = shown
      BY <1>0, <1>2, <2>4, ViewConfirms
    <3>2. /\ Alone(h) /\ Alone(h)' /\ hs'[h].pc = "finalize" /\ Now' = s /\ cache # 0 /\ Ses(h)' = s
      BY <3>1 DEF View
    <3>3. \A g \in Handlers : hs[g].pc \notin {"review", "send", "drop"}
      BY <3>1, <3>2 DEF Alone
    <3>4. s.mode = "create" => shown = SpecOf(s)
      BY <1>3, <3>1, <3>2, <3>3 DEF EditShown
    <3>5. EditShown'
      BY <3>1, <3>2, <3>4 DEF EditShown
    <3>6. UsedUp'
      BY <3>1, <3>2 DEF UsedUp
    <3>7. SendsShown'
      BY <3>1, <3>2, <3>4 DEF SendsShown, Alone
    <3> QED BY <3>5, <3>6, <3>7 DEF Goal
  <2>5. CASE Summarises(h)
    <3>1. PICK s \in Session : View(h, "review", s) /\ ~s.confirmed
      BY <1>0, <1>2, <2>5, ViewSummarises
    <3>2. /\ Alone(h)' /\ hs'[h].pc = "review" /\ Now' = s
      BY <3>1 DEF View
    <3> QED BY <1>4, <3>1, <3>2 DEF EditShown, UsedUp, Goal
  <2>6. CASE Sends(h)
    <3>1. PICK s \in Session :
              /\ hs[h].pc = "finalize" /\ View(h, "send", s) /\ s.mode = Now.mode
              /\ \/ Now.confirmed /\ hs'[h].spec = SpecOf(Now) /\ ~s.confirmed
                 \/ ~Creates(h) /\ s = Now
              /\ shown' = shown
      BY <1>0, <1>2, <2>6, ViewSends
    <3>2. /\ Alone(h) /\ Alone(h)' /\ hs'[h].pc = "send" /\ Now' = s /\ cache # 0 /\ Ses(h) = Now /\ Ses(h)' = s
      BY <3>1 DEF View
    <3>3. EditShown'
      BY <3>2 DEF EditShown
    <3>4. CASE Now.confirmed /\ hs'[h].spec = SpecOf(Now) /\ ~s.confirmed
      <4>1. s.mode = "create" => hs'[h].spec = shown
        BY <1>3, <3>1, <3>2, <3>4 DEF SendsShown
      <4>2. SendsShown'
        BY <3>1, <3>2, <4>1 DEF SendsShown, Alone
      <4>3. UsedUp'
        BY <3>2, <3>4 DEF UsedUp
      <4> QED BY <3>3, <4>2, <4>3 DEF Goal
    <3>5. CASE ~Creates(h) /\ s = Now
      <4>1. Now.mode # "create" /\ Kind(h) # "confirm"
        BY <3>2, <3>5 DEF Creates
      <4>2. ~Now.confirmed
        BY <1>3, <3>2, <4>1 DEF UsedUp, Alone
      <4>3. SendsShown'
        BY <3>2, <3>5, <4>1 DEF SendsShown, Alone
      <4>4. UsedUp'
        BY <3>2, <3>5, <4>2 DEF UsedUp
      <4> QED BY <3>3, <4>3, <4>4 DEF Goal
    <3> QED BY <3>1, <3>4, <3>5
  <2>7. CASE Stores(h)
    <3>1. hs[h].pc = "review" /\ View(h, "idle", Now) /\ shown' = hs[h].spec
      BY <1>0, <1>2, <2>7, ViewStores
    <3>2. /\ Alone(h) /\ Alone(h)' /\ hs'[h].pc = "idle" /\ Now' = Now /\ cache # 0 /\ Ses(h) = Now
      BY <3>1 DEF View
    <3>3. shown' = SpecOf(Now)
      BY <1>2, <3>1, <3>2, AwaitIs DEF ReviewIs
    <3>4. EditShown'
      BY <3>2, <3>3 DEF EditShown
    <3>5. UsedUp'
      BY <1>5, <3>1, <3>2 DEF UsedUp
    <3> QED BY <1>4, <3>2, <3>4, <3>5 DEF Goal
  <2>8. CASE Stumbles(h)
    BY <1>0, <1>2, <2>8, ViewStumbles
  <2>9. CASE Gives(h)
    <3>1. hs[h].pc = "send" /\ View(h, "drop", Now)
      BY <1>0, <1>2, <2>9, ViewGives
    <3>2. /\ Alone(h) /\ Alone(h)' /\ hs'[h].pc = "drop" /\ Now' = Now /\ cache # 0
      BY <3>1 DEF View
    <3>3. EditShown'
      BY <3>2 DEF EditShown
    <3>4. UsedUp'
      BY <1>5, <3>1, <3>2 DEF UsedUp
    <3> QED BY <1>4, <3>2, <3>3, <3>4 DEF Goal
  <2> QED BY <1>6, <2>1, <2>2, <2>3, <2>4, <2>5, <2>6, <2>7, <2>8, <2>9 DEF Works
<1>7. ASSUME NEW h \in Handlers, Begins(h) PROVE Goal'
  <2>1. PICK s \in Session :
          /\ Now' = s /\ Plain(s) /\ ~s.confirmed
          /\ hs'[h].pc \in {"idle", "think"} \/ hs' = hs
    BY <1>0, <1>2, <1>7, SoloBegins
  <2>2. Busy = {} /\ \A g \in Handlers : g # h => hs'[g].pc = "idle"
    BY <1>0, <1>2, <1>7, SoloBegins
  <2>3. \A g \in Handlers : hs'[g].pc \notin {"finalize", "send"}
    BY <2>1, <2>2 DEF Busy
  <2>4. SendsShown'
    BY <2>3 DEF SendsShown
  <2> QED BY <2>1, <2>4 DEF EditShown, UsedUp, Goal
<1>8. ASSUME NEW h \in Handlers, Fetches(h) PROVE Goal'
  <2>1. /\ Busy = {} /\ \A g \in Handlers : g # h => hs'[g].pc = "idle"
        /\ hs'[h].pc = "got" /\ shown' = shown
        /\ (Now' = Now /\ cache # 0) \/ (Now' = row /\ row # None)
    BY <1>0, <1>2, <1>8, SoloFetches DEF thread
  <2>2. /\ \A g \in Handlers : hs'[g].pc \notin {"finalize", "send"}
        /\ \A g \in Handlers : hs[g].pc = "idle"
    BY <2>1 DEF Busy
  <2>3. cache # 0
    BY <1>2, <2>1 DEF CachedInv
  <2>4. ~Now.confirmed
    BY <1>3, <2>2, <2>3 DEF UsedUp
  <2>5. SendsShown'
    BY <2>2 DEF SendsShown
  <2>6. CASE Now' = Now
    <3>1. EditShown'
      BY <1>3, <2>1, <2>2, <2>3, <2>6 DEF EditShown
    <3> QED BY <2>4, <2>5, <2>6, <3>1 DEF UsedUp, Goal
  <2>7. CASE Now' = row /\ row # None
    <3>1. Pruned(row) = Pruned(Now)
      BY <1>2, <2>2, <2>3 DEF SameInv, At, Finishing
    <3>2. row \in Session /\ Now \in Session
      BY <1>0, <2>3, <2>7 DEF BaseInv, TypeOK, Now
    <3>3. /\ Alike(row, Now)
          /\ Plain(row) <=> Plain(Now)
          /\ SpecOf(row) = SpecOf(Now)
      BY <3>1, <3>2, PrunedSame
    <3>4. row.mode = Now.mode /\ row.confirmed = Now.confirmed
      BY <3>3 DEF Alike
    <3>5. EditShown'
      BY <1>3, <2>1, <2>2, <2>3, <2>7, <3>3, <3>4 DEF EditShown
    <3> QED BY <2>4, <2>5, <2>7, <3>4, <3>5 DEF UsedUp, Goal
  <2> QED BY <2>1, <2>6, <2>7
<1>9. CASE Expire
  <2>1. Busy = {} /\ cache' = 0 /\ hs' = hs
    BY <1>9 DEF Expire
  <2> QED BY <2>1 DEF Goal, EditShown, UsedUp, SendsShown, Busy
<1>10. CASE Crash
  BY <1>10 DEF Crash
<1>11. CASE UNCHANGED vars
  BY <1>3, <1>11 DEF Goal, vars, EditShown, UsedUp, SendsShown, Now, Ses, Kind
<1> QED BY <1>0, <1>6, <1>7, <1>8, <1>9, <1>10, <1>11, NextShapes

-----------------------------------------------------------------------------
IInv ==
    /\ CoreInv /\ CachedInv /\ SameInv /\ OneInv /\ ConfirmInv /\ FaultInv
    /\ AwaitInv /\ NextInv /\ ReviewInv

(* The inductive invariant holds initially.                                 *)
LEMMA IInvInit ==
    ASSUME Init
    PROVE  IInv
<1>1. /\ cache = 0 /\ row = None /\ disturbed = {} /\ confirms = 0
      /\ requests = [m \in {"create", "update"} |-> 0] /\ heap = [o \in Objects |-> None]
      /\ \A h \in Handlers : hs[h].pc = "idle"
  BY DEF Init, Idle
<1>2. CoreInv
  BY CoreInit
<1>3. CachedInv /\ SameInv /\ FaultInv /\ NextInv
  BY <1>1 DEF CachedInv, SameInv, FaultInv, NextInv
<1>4. AwaitInv
  BY <1>1, AwaitIs DEF RowShown, RowAwaits, NowShown, ReviewIs
<1>5. ReviewInv
  BY <1>1, ReviewInvIs DEF EditShown, UsedUp, SendsShown
<1>6. OneInv
  BY <1>1 DEF OneInv
<1>7. ConfirmInv
  <2>1. Confirmed = {} /\ Sending = {}
    BY <1>1 DEF Confirmed, Sending
  <2>2. Used = 0
    BY <1>1, <2>1, FS_EmptySet DEF Used
  <2> QED BY <1>1, <2>2 DEF ConfirmInv
<1> QED BY <1>2, <1>3, <1>4, <1>5, <1>6, <1>7 DEF IInv

(* Every step keeps it.                                                     *)
LEMMA IInvNext ==
    ASSUME IInv, [Next]_vars
    PROVE  IInv'
  BY CoreNext, CachedNext, SameNext, OneNext, ConfirmNext, FaultNext, AwaitNext, NextNext, ReviewNext DEF IInv

(* The inductive invariant holds in every reachable state.                  *)
THEOREM Invariant == Spec => []IInv
  BY IInvInit, IInvNext, PTL DEF Spec

-----------------------------------------------------------------------------
(* RowIsSession: when no handler runs, the row is the cached session up to  *)
(* questions that do not apply, so a restart loses nothing.                 *)
THEOREM RestartLosesNothing == Spec => []RowIsSession
<1>1. SameInv => RowIsSession
  <2>1. Busy = {} => ~At(Finishing)
    BY DEF Busy, At, Finishing
  <2> QED BY <2>1 DEF SameInv, RowIsSession, Sure, Now
<1>2. IInv => RowIsSession
  BY <1>1 DEF IInv
<1> QED BY <1>2, Invariant, PTL

(* AwaitsWhatWasShown: a stored session that waits for a confirmation is the*)
(* one whose summary the thread shows.                                      *)
THEOREM SummaryIsOfSession == Spec => []AwaitsWhatWasShown
<1>1. IInv => AwaitsWhatWasShown
  BY AwaitIs DEF IInv, RowShown, AwaitsWhatWasShown, Sure
<1> QED BY <1>1, Invariant, PTL

(* OneRequest: without overlap, crash or lost write, an intake creates one  *)
(* request however often its buttons are clicked.                           *)
THEOREM OneRequestIsCreated == Spec => []OneRequest
<1>1. IInv => OneRequest
  <2>1. requests["create"] \in Nat \/ ~IInv
    BY DEF IInv, CoreInv, BaseInv, TypeOK
  <2>2. OneInv => (requests["create"] <= 1 \/ ~Sure({"overlap", "crash", "store", "expired"}))
    BY DEF OneInv
  <2> QED BY <2>1, <2>2 DEF IInv, OneRequest, Sure
<1> QED BY <1>1, Invariant, PTL

(* RequestsConfirmed: every request has a confirmation of its own, however  *)
(* handlers overlap.                                                        *)
THEOREM RequestsAreConfirmed == Spec => []RequestsConfirmed
<1>1. IInv => RequestsConfirmed
  <2> SUFFICES ASSUME IInv PROVE RequestsConfirmed
    OBVIOUS
  <2>1. CASE Sure({"crash", "store", "expired"})
    <3>1. Used <= confirms
      BY <2>1 DEF IInv, ConfirmInv
    <3>2. /\ Cardinality(Confirmed) \in Nat /\ Cardinality(Sending) \in Nat
          /\ requests["create"] \in Nat /\ requests["update"] \in Nat /\ confirms \in Nat
      BY CountsTyped DEF IInv, CoreInv
    <3>3. requests["create"] + requests["update"] <= confirms
      BY <3>1, <3>2 DEF Used
    <3> QED BY <3>3 DEF RequestsConfirmed
  <2>2. CASE ~Sure({"crash", "store", "expired"})
    BY <2>2 DEF RequestsConfirmed, Sure
  <2> QED BY <2>1, <2>2
<1> QED BY <1>1, Invariant, PTL

(* NextStepKnown: a session at rest has a next step, so the next message    *)
(* does not drop it.                                                        *)
THEOREM SessionsCanGoOn == Spec => []NextStepKnown
<1>1. IInv => NextStepKnown
  <2> SUFFICES ASSUME IInv, Busy = {}, row # None, disturbed \subseteq {"early"} PROVE HasNext(row)
    BY DEF NextStepKnown, HasNext
  <2>1. \A g \in Handlers : hs[g].pc \notin Finishing \cup {"advance"}
    BY DEF Busy, Finishing
  <2>2. Sure({"crash", "store", "expired"}) /\ Sure({"overlap", "store", "slack", "expired"})
    BY DEF Sure
  <2>3. cache # 0
    BY <2>2 DEF IInv, CachedInv
  <2>4. HasNext(Now)
    BY <2>1, <2>3 DEF IInv, NextInv, At
  <2>5. Pruned(row) = Pruned(Now)
    BY <2>1, <2>2, <2>3 DEF IInv, SameInv, At
  <2>6. row \in Session /\ Now \in Session
    BY <2>3 DEF IInv, CoreInv, BaseInv, TypeOK, Now
  <2> QED BY <2>4, <2>5, <2>6, PrunedSame
<1> QED BY <1>1, Invariant, PTL

(* ReviewedSpec: a session that nothing disturbed is sent with the spec of  *)
(* the last summary that was shown.                                         *)
THEOREM RequestsAreReviewed == Spec => ReviewedSpec
<1> DEFINE Reviewed == \A h \in Handlers :
             hs[h].pc = "send" /\ hs'[h].pc = "drop" /\ requests'["create"] > requests["create"]
                => hs[h].spec = shown \/ disturbed # {}
<1>1. ASSUME IInv, [Next]_vars PROVE Reviewed
  <2> SUFFICES ASSUME NEW h \in Handlers, hs[h].pc = "send", hs'[h].pc = "drop",
                      requests'["create"] > requests["create"], disturbed = {}
               PROVE  hs[h].spec = shown
    OBVIOUS
  <2>0. BaseInv /\ SoloInv /\ ThinkInv /\ Sure({"overlap"})
    BY <1>1 DEF IInv, CoreInv, Sure
  <2>1. requests["create"] \in Nat /\ requests \in [{"create", "update"} -> Nat]
    BY <2>0 DEF BaseInv, TypeOK
  <2>2. ~(requests'["create"] = requests["create"])
    BY <2>1
  <2>3. h \in Busy
    BY DEF Busy
  <2>4. PICK g \in Handlers : Works(g)
    <3>1. Busy # {}
      BY <2>3
    <3>2. \A k \in Handlers : ~Begins(k) /\ ~Fetches(k)
      BY <2>2 DEF Begins, Fetches, thread
    <3>3. ~Expire /\ ~Crash /\ ~UNCHANGED vars
      BY <2>2 DEF Expire, Crash, Quiet, thread, vars
    <3> QED BY <1>1, <2>0, <3>2, <3>3, NextShapes
  <2>5. g = h
    <3>1. hs[g].pc # "idle"
      BY <2>0, <2>4, WorksIs
    <3> QED BY <2>0, <2>3, <3>1 DEF SoloInv, Busy
  <2>6. Gives(h)
    BY <2>4, <2>5 DEF Works, Drops, Lets, Writes, Confirms, Summarises, Sends, Stores, Review, Stumbles,
                      SlackFails, Working, Got
  <2>7. /\ View(h, "drop", Now)
        /\ requests' = requests \/ requests' = [requests EXCEPT ![Now.mode] = @ + 1]
    BY <2>0, <2>6, ViewGives
  <2>8. Ses(h) = Now /\ Now \in Session
    BY <2>7 DEF View
  <2>9. Now.mode = "create"
    <3>1. Now.mode \in {"create", "update"}
      BY <2>8 DEF Session
    <3> QED BY <2>1, <2>2, <2>7, <3>1
  <2> QED BY <1>1, <2>8, <2>9, ReviewInvIs DEF IInv, SendsShown
<1>2. IInv /\ [Next]_vars => [Reviewed]_vars
  BY <1>1
<1>3. Spec => [][Reviewed]_vars
  BY <1>2, Invariant, PTL DEF Spec
<1> QED BY <1>3 DEF ReviewedSpec
=============================================================================

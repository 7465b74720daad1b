------------------------- MODULE BranchCatalogProofs -------------------------
(***************************************************************************)
(* Proofs about BranchCatalog and BranchNames, for any number of threads,  *)
(* any Ttl and any branches: how stale what is offered can be, and that    *)
(* the order it is offered in agrees with the fallback that is announced   *)
(* and the one the code runner takes.                                      *)
(***************************************************************************)
EXTENDS BranchCatalog, FiniteSetTheorems, FunctionTheorems, SequenceTheorems,
        WellFoundedInduction, TLAPS

-----------------------------------------------------------------------------
(* How stale an entry can be.                                              *)

(* What an entry holds was on GitHub when fetching it began, or up to a    *)
(* Ttl before where it came from the indexer's cache.                      *)
FreshEntry(e) ==
    e # None /\ ~e.kept => e.age <= (IF indexer THEN e.stamp + (Ttl - 1) ELSE e.stamp)

FreshOptions == \A l \in lists : FreshEntry(options[l])
FreshPayload == payload # None => payload.age <= payload.stamp

(* What a thread holds is no older than its question, which is no younger  *)
(* than the handler's.                                                     *)
FreshThread(r) ==
    /\ r.stamp < Ttl => r.got <= r.stamp
    /\ r.at # "suggest" /\ r.asked < Ttl => r.got <= r.asked
    /\ r.default # None /\ ~r.default.kept /\ r.stamp < Ttl => r.default.age <= r.stamp
    /\ r.at = "index" => indexer

FreshThreads == \A t \in Threads : FreshThread(th[t])

IInv == TypeOK /\ FreshOptions /\ FreshPayload /\ FreshThreads

(* The bounds of ages and stamps.                                          *)
LEMMA Bounds == Ttl \in Nat /\ Ttl >= 1 /\ Old \in Nat /\ Old = Ttl + Ttl
  BY CatalogAssumption DEF Old

(* Later adds one, up to a bound.                                          *)
LEMMA LaterType ==
    ASSUME NEW max \in Nat, NEW n \in 0 .. max
    PROVE  Later(n, max) \in 0 .. max /\ (n < max => Later(n, max) = n + 1)
           /\ Later(n, max) <= n + 1
  BY DEF Later

(* A thread that does nothing.                                             *)
LEMMA IdleFresh == Idle \in Thread /\ FreshThread(Idle)
  <1>1. 0 \in 0 .. Ttl /\ 0 \in 0 .. Old /\ "repos" \in Lists
    BY Bounds DEF Lists, Repos
  <1> QED
    BY <1>1, Bounds DEF Idle, Thread, FreshThread

(* A thread that goes on keeps its question and forgets what it has.       *)
LEMMA MoveFresh ==
    ASSUME NEW r \in Thread, NEW s \in {"token", "sync", "api"}
    PROVE  LET n == [Idle EXCEPT !.at = s, !.list = r.list, !.stamp = r.stamp]
           IN  n \in Thread /\ FreshThread(n)
  <1>1. 0 \in 0 .. Ttl /\ 0 \in 0 .. Old /\ r.list \in Lists /\ r.stamp \in 0 .. Ttl
    BY Bounds DEF Thread
  <1> DEFINE n == [Idle EXCEPT !.at = s, !.list = r.list, !.stamp = r.stamp]
  <1>2. n \in Thread
    BY <1>1, IdleFresh DEF Thread
  <1>3. Idle.got = 0 /\ Idle.asked = 0 /\ Idle.default = None
    BY DEF Idle
  <1>4. n.got = 0 /\ n.asked = 0 /\ n.stamp \in 0 .. Ttl /\ n.default = None /\ n.at # "index"
    BY <1>1, <1>3, IdleFresh DEF Thread
  <1> HIDE DEF n
  <1>5. FreshThread(n)
    BY <1>4, Bounds DEF FreshThread
  <1> QED
    BY <1>2, <1>5 DEF n

(* What a thread stores is an entry, or too old to be one.                 *)
LEMMA KeptFresh ==
    ASSUME NEW t \in Threads, th[t] \in Thread, NEW age \in 0 .. Old, NEW old \in BOOLEAN,
           ~old /\ th[t].stamp < Ttl =>
               age <= (IF indexer THEN th[t].stamp + (Ttl - 1) ELSE th[t].stamp)
    PROVE  Kept(t, age, old) \in Entry \cup {None} /\ FreshEntry(Kept(t, age, old))
  <1>1. th[t].stamp \in 0 .. Ttl
    BY DEF Thread
  <1>2. CASE th[t].stamp < Ttl
    <2>1. th[t].stamp \in 0 .. Ttl - 1
      BY <1>1, <1>2, Bounds
    <2> DEFINE e == [stamp |-> th[t].stamp, age |-> age, kept |-> old]
    <2>2. Kept(t, age, old) = e
      BY <1>2 DEF Kept
    <2>3. e \in Entry /\ e.stamp = th[t].stamp /\ e.age = age /\ e.kept = old
      BY <2>1 DEF Entry
    <2> HIDE DEF e
    <2>4. FreshEntry(e)
      BY <1>2, <2>3 DEF FreshEntry
    <2> QED
      BY <2>2, <2>3, <2>4
  <1>3. CASE ~(th[t].stamp < Ttl)
    BY <1>3 DEF Kept, FreshEntry
  <1> QED
    BY <1>2, <1>3

(* An entry that gets older keeps to its bound.                            *)
LEMMA LaterEntryFresh ==
    ASSUME NEW e \in Entry \cup {None}, FreshEntry(e), TypeOK
    PROVE  LaterEntry(e) \in Entry \cup {None} /\ FreshEntry(LaterEntry(e))
  <1>1. CASE e = None \/ e.stamp = Ttl - 1
    BY <1>1 DEF LaterEntry, FreshEntry
  <1>2. CASE ~(e = None \/ e.stamp = Ttl - 1)
    <2>1. e \in Entry /\ e.stamp \in 0 .. Ttl - 1 /\ e.age \in 0 .. Old /\ e.stamp # Ttl - 1
      BY <1>2 DEF Entry
    <2>2. e.stamp + 1 \in 0 .. Ttl - 1
      BY <2>1, Bounds
    <2>3. Later(e.age, Old) \in 0 .. Old /\ Later(e.age, Old) <= e.age + 1
      BY <2>1, Bounds, LaterType
    <2> DEFINE n == [e EXCEPT !.stamp = @ + 1, !.age = Later(@, Old)]
    <2>4. n \in Entry /\ n.stamp = e.stamp + 1 /\ n.age = Later(e.age, Old) /\ n.kept = e.kept
      BY <2>1, <2>2, <2>3 DEF Entry
    <2>5. LaterEntry(e) = n
      BY <1>2 DEF LaterEntry
    <2> HIDE DEF n
    <2>6. indexer \in BOOLEAN
      BY DEF TypeOK
    <2>7. FreshEntry(n)
      <3>1. ~e.kept => e.age <= (IF indexer THEN e.stamp + (Ttl - 1) ELSE e.stamp)
        BY <1>2 DEF FreshEntry
      <3>2. ~e.kept => n.age <= (IF indexer THEN n.stamp + (Ttl - 1) ELSE n.stamp)
        BY <2>1, <2>3, <2>4, <2>6, <3>1, Bounds
      <3> QED
        BY <2>4, <3>2 DEF FreshEntry
    <2> QED
      BY <2>4, <2>5, <2>7
  <1> QED
    BY <1>1, <1>2

(* A payload that gets older keeps to its bound.                           *)
LEMMA LaterPayloadFresh ==
    ASSUME payload \in Payload \cup {None}, FreshPayload
    PROVE  LET p == LaterEntry(payload)
           IN  p \in Payload \cup {None} /\ (p # None => p.age <= p.stamp)
  <1>1. CASE payload = None \/ payload.stamp = Ttl - 1
    BY <1>1 DEF LaterEntry
  <1>2. CASE ~(payload = None \/ payload.stamp = Ttl - 1)
    <2>1. payload \in Payload /\ payload.stamp \in 0 .. Ttl - 1 /\ payload.age \in 0 .. Old
          /\ payload.stamp # Ttl - 1 /\ payload.age <= payload.stamp
      BY <1>2 DEF Payload, FreshPayload
    <2>2. payload.stamp + 1 \in 0 .. Ttl - 1
      BY <2>1, Bounds
    <2>3. Later(payload.age, Old) \in 0 .. Old /\ Later(payload.age, Old) <= payload.age + 1
      BY <2>1, Bounds, LaterType
    <2> DEFINE n == [payload EXCEPT !.stamp = @ + 1, !.age = Later(@, Old)]
    <2>4. n \in Payload /\ n.stamp = payload.stamp + 1 /\ n.age = Later(payload.age, Old)
      BY <2>1, <2>2, <2>3 DEF Payload
    <2>5. LaterEntry(payload) = n
      BY <1>2 DEF LaterEntry
    <2> HIDE DEF n
    <2>6. n.age <= n.stamp
      BY <2>1, <2>3, <2>4, Bounds
    <2> QED
      BY <2>4, <2>5, <2>6
  <1> QED
    BY <1>1, <1>2

(* What a tick does to a thread that is fetching.                          *)
LaterThread(r) ==
    [r EXCEPT
        !.stamp = Later(@, Ttl), !.asked = Later(@, Ttl), !.got = Later(@, Old),
        !.default = IF @ = None THEN None ELSE [age |-> Later(@.age, Old), kept |-> @.kept]]

LEMMA LaterThreadFresh ==
    ASSUME NEW r \in Thread, FreshThread(r)
    PROVE  LaterThread(r) \in Thread /\ FreshThread(LaterThread(r))
  <1>1. r.stamp \in 0 .. Ttl /\ r.asked \in 0 .. Ttl /\ r.got \in 0 .. Old
        /\ r.default \in Default \cup {None}
    BY DEF Thread
  <1> DEFINE n == LaterThread(r)
             d == IF r.default = None THEN None ELSE [age |-> Later(r.default.age, Old), kept |-> r.default.kept]
  <1>2. /\ Later(r.stamp, Ttl) \in 0 .. Ttl /\ (r.stamp < Ttl => Later(r.stamp, Ttl) = r.stamp + 1)
        /\ Later(r.asked, Ttl) \in 0 .. Ttl /\ (r.asked < Ttl => Later(r.asked, Ttl) = r.asked + 1)
        /\ Later(r.got, Old) \in 0 .. Old /\ Later(r.got, Old) <= r.got + 1
    BY <1>1, Bounds, LaterType
  <1>3. d \in Default \cup {None}
        /\ (d # None => r.default # None /\ d.kept = r.default.kept /\ d.age <= r.default.age + 1)
    <2>1. CASE r.default = None
      BY <2>1
    <2>2. CASE r.default # None
      <3>1. r.default \in Default /\ r.default.age \in 0 .. Old
        BY <1>1, <2>2 DEF Default
      <3>2. Later(r.default.age, Old) \in 0 .. Old /\ Later(r.default.age, Old) <= r.default.age + 1
        BY <3>1, Bounds, LaterType
      <3> DEFINE e == [age |-> Later(r.default.age, Old), kept |-> r.default.kept]
      <3>3. e \in Default /\ e.kept = r.default.kept /\ e.age = Later(r.default.age, Old)
        BY <3>1, <3>2 DEF Default
      <3>4. d = e
        BY <2>2
      <3> HIDE DEF e, d
      <3> QED
        BY <2>2, <3>2, <3>3, <3>4
    <2> QED
      BY <2>1, <2>2
  <1> HIDE DEF d
  <1>4. n = [r EXCEPT !.stamp = Later(@, Ttl), !.asked = Later(@, Ttl), !.got = Later(@, Old), !.default = d]
    BY DEF LaterThread, Thread, d
  <1>5. n \in Thread /\ n.stamp = Later(r.stamp, Ttl) /\ n.asked = Later(r.asked, Ttl)
        /\ n.got = Later(r.got, Old) /\ n.default = d /\ n.at = r.at
    <2> HIDE DEF n
    <2> QED
      BY <1>2, <1>3, <1>4 DEF Thread
  <1> HIDE DEF n
  <1>6. (n.stamp < Ttl => r.stamp < Ttl /\ n.stamp = r.stamp + 1)
        /\ (n.asked < Ttl => r.asked < Ttl /\ n.asked = r.asked + 1)
    BY <1>1, <1>2, <1>5, Bounds DEF Later
  <1>7. n.stamp < Ttl => n.got <= n.stamp
    BY <1>1, <1>2, <1>5, <1>6 DEF FreshThread
  <1>8. n.at # "suggest" /\ n.asked < Ttl => n.got <= n.asked
    BY <1>1, <1>2, <1>5, <1>6 DEF FreshThread
  <1>9. ASSUME n.default # None, ~n.default.kept, n.stamp < Ttl PROVE n.default.age <= n.stamp
    <2>1. r.default # None /\ ~r.default.kept /\ r.stamp < Ttl /\ n.stamp = r.stamp + 1
          /\ n.default.age <= r.default.age + 1
      BY <1>3, <1>5, <1>6, <1>9
    <2>2. r.default.age <= r.stamp
      BY <2>1 DEF FreshThread
    <2>3. r.default.age \in Nat /\ n.default.age \in Nat
      BY <1>1, <1>3, <1>5, <1>9, <2>1, Bounds DEF Default
    <2> QED
      BY <1>1, <2>1, <2>2, <2>3
  <1>10. FreshThread(n)
    BY <1>5, <1>7, <1>8, <1>9 DEF FreshThread
  <1> QED
    BY <1>5, <1>10 DEF n

(* One thread goes on, and the others stay.                                *)
LEMMA OneThread ==
    ASSUME IInv, NEW t \in Threads, NEW r \in Thread, FreshThread(r),
           th' = [th EXCEPT ![t] = r], indexer' = indexer
    PROVE  th' \in [Threads -> Thread] /\ FreshThreads'
  <1>1. th \in [Threads -> Thread] /\ \A s \in Threads : FreshThread(th[s])
    BY DEF IInv, TypeOK, FreshThreads
  <1>2. th' \in [Threads -> Thread]
    BY <1>1
  <1>3. \A s \in Threads : FreshThread(th'[s])
    BY <1>1
  <1> QED
    BY <1>2, <1>3 DEF FreshThreads, FreshThread

(* Entries are replaced by fresh ones.                                     *)
LEMMA NewOptions ==
    ASSUME TypeOK, NEW o \in [lists -> Entry \cup {None}], \A l \in lists : FreshEntry(o[l]),
           options' = o, UNCHANGED <<lists, indexer>>
    PROVE  options' \in [lists' -> Entry \cup {None}] /\ FreshOptions'
  BY DEF FreshOptions, FreshEntry

(* Nothing is asked of the caches.                                         *)
LEMMA SameOptions ==
    ASSUME IInv, UNCHANGED <<lists, indexer, options>>
    PROVE  options' \in [lists' -> Entry \cup {None}] /\ FreshOptions'
  BY DEF IInv, TypeOK, FreshOptions, FreshEntry

(* The parts of the invariant, put together.                               *)
LEMMA Together ==
    ASSUME IInv, UNCHANGED <<lists, indexer>>,
           options' \in [lists' -> Entry \cup {None}], FreshOptions',
           payload' \in Payload \cup {None}, FreshPayload',
           clone' \in 0 .. Old \cup {None},
           th' \in [Threads -> Thread], FreshThreads'
    PROVE  IInv'
  BY DEF IInv, TypeOK

(* One thread goes on and touches no cache.                                *)
LEMMA QuietStep ==
    ASSUME IInv, NEW t \in Threads, NEW r \in Thread, FreshThread(r),
           th' = [th EXCEPT ![t] = r], UNCHANGED <<lists, indexer, options, payload, clone>>
    PROVE  IInv'
  <1>1. th' \in [Threads -> Thread] /\ FreshThreads'
    BY OneThread
  <1>2. options' \in [lists' -> Entry \cup {None}] /\ FreshOptions'
    BY SameOptions
  <1>3. payload' \in Payload \cup {None} /\ FreshPayload' /\ clone' \in 0 .. Old \cup {None}
    BY DEF IInv, TypeOK, FreshPayload
  <1> QED
    BY <1>1, <1>2, <1>3, Together

(* Nothing is cached and nothing asked.                                    *)
LEMMA InitFresh == Init => IInv
  <1> SUFFICES ASSUME Init PROVE IInv
    OBVIOUS
  <1>1. TypeOK
    BY IdleFresh DEF Init, TypeOK
  <1>2. \A t \in Threads : th[t] = Idle
    BY DEF Init
  <1>3. FreshThreads
    BY <1>2, IdleFresh DEF FreshThreads
  <1>4. FreshOptions /\ FreshPayload
    BY DEF Init, FreshOptions, FreshEntry, FreshPayload
  <1> QED
    BY <1>1, <1>3, <1>4 DEF IInv

(* A question.                                                             *)
LEMMA AskFresh ==
    ASSUME IInv, NEW t \in Threads, NEW l \in lists, Ask(t, l)
    PROVE  IInv'
  <1> DEFINE r == [Idle EXCEPT !.at = IF indexer THEN "index" ELSE "token", !.list = l]
  <1>1. l \in Lists /\ indexer \in BOOLEAN /\ th \in [Threads -> Thread] /\ FreshThread(th[t])
    BY DEF IInv, TypeOK, Lists, FreshThreads
  <1>2. r \in Thread
    BY <1>1, IdleFresh DEF Thread
  <1>3. Idle.stamp = 0 /\ Idle.got = 0 /\ Idle.asked = 0 /\ Idle.default = None
    BY DEF Idle
  <1>4. r.stamp = 0 /\ r.got = 0 /\ r.asked = 0 /\ r.default = None /\ (r.at = "index" => indexer)
    BY <1>1, <1>3, IdleFresh DEF Thread
  <1> HIDE DEF r
  <1>5. FreshThread(r)
    BY <1>4 DEF FreshThread
  <1>6. UNCHANGED <<lists, indexer, options, payload, clone>>
    BY DEF Ask
  <1>7. CASE th' = th
    <2>1. th' = [th EXCEPT ![t] = th[t]] /\ th[t] \in Thread
      BY <1>1, <1>7
    <2> QED
      BY <1>1, <1>6, <2>1, QuietStep
  <1>8. CASE th' = [th EXCEPT ![t] = r]
    BY <1>2, <1>5, <1>6, <1>8, QuietStep
  <1> QED
    BY <1>7, <1>8 DEF Ask, r

(* Going on, with what is cached as it was.                                *)
LEMMA MoveStep ==
    ASSUME IInv, NEW t \in Threads, NEW s \in {"token", "sync", "api"}, Move(t, s)
    PROVE  \E r \in Thread : FreshThread(r) /\ th' = [th EXCEPT ![t] = r]
  <1> DEFINE r == [Idle EXCEPT !.at = s, !.list = th[t].list, !.stamp = th[t].stamp]
  <1>1. th[t] \in Thread
    BY DEF IInv, TypeOK
  <1>2. r \in Thread /\ FreshThread(r)
    BY <1>1, MoveFresh
  <1>3. th' = [th EXCEPT ![t] = r]
    BY DEF Move
  <1> HIDE DEF r
  <1> QED
    BY <1>2, <1>3

(* An indexer's answer is stored, or something else is tried.              *)
LEMMA UseFresh ==
    ASSUME IInv, NEW t \in Threads, NEW age \in 0 .. Old, Use(t, age), UNCHANGED <<lists, indexer>>,
           th[t].stamp < Ttl => age <= (IF indexer THEN th[t].stamp + (Ttl - 1) ELSE th[t].stamp)
    PROVE  /\ options' \in [lists' -> Entry \cup {None}] /\ FreshOptions'
           /\ \E r \in Thread : FreshThread(r) /\ th' = [th EXCEPT ![t] = r]
  <1>1. CASE Move(t, "token") /\ UNCHANGED options
    BY <1>1, MoveStep, SameOptions
  <1>2. ASSUME NEW ls, options' = [l \in lists |-> IF l \in ls THEN Kept(t, age, FALSE) ELSE options[l]],
               Done(t)
        PROVE  options' \in [lists' -> Entry \cup {None}] /\ FreshOptions' /\ th' = [th EXCEPT ![t] = Idle]
    <2> DEFINE o == [l \in lists |-> IF l \in ls THEN Kept(t, age, FALSE) ELSE options[l]]
    <2>1. th[t] \in Thread /\ options \in [lists -> Entry \cup {None}]
          /\ (\A l \in lists : FreshEntry(options[l])) /\ TypeOK
      BY DEF IInv, TypeOK, FreshOptions
    <2>2. Kept(t, age, FALSE) \in Entry \cup {None} /\ FreshEntry(Kept(t, age, FALSE))
      BY <2>1, KeptFresh
    <2>3. o \in [lists -> Entry \cup {None}] /\ \A l \in lists : FreshEntry(o[l])
      BY <2>1, <2>2
    <2>4. options' = o
      BY <1>2
    <2> HIDE DEF o
    <2>5. options' \in [lists' -> Entry \cup {None}] /\ FreshOptions'
      BY <2>1, <2>3, <2>4, NewOptions
    <2> QED
      BY <1>2, <2>5 DEF Done
  <1>3. (Move(t, "token") /\ UNCHANGED options)
        \/ \E ls \in {{th[t].list}, {"branches", "default"}} :
              /\ options' = [l \in lists |-> IF l \in ls THEN Kept(t, age, FALSE) ELSE options[l]]
              /\ Done(t)
    BY DEF Use
  <1> QED
    BY <1>1, <1>2, <1>3, IdleFresh

(* A question to the indexer, and its answer, are of a thread.             *)
LEMMA AskedThread ==
    ASSUME NEW q \in Thread, FreshThread(q), NEW r,
           \/ r = [q EXCEPT !.at = "suggest", !.asked = 0]
           \/ r = [q EXCEPT !.at = "suggested", !.got = 0]
           \/ r = [q EXCEPT !.at = "answered", !.got = 0]
    PROVE  r \in Thread /\ FreshThread(r)
  <1>1. q.stamp \in 0 .. Ttl /\ q.asked \in 0 .. Ttl /\ 0 \in 0 .. Ttl /\ 0 \in 0 .. Old
    BY Bounds DEF Thread
  <1>2. CASE r = [q EXCEPT !.at = "suggest", !.asked = 0]
    <2>1. r \in Thread
      BY <1>1, <1>2 DEF Thread
    <2>2. r.at = "suggest" /\ r.stamp = q.stamp /\ r.got = q.got /\ r.default = q.default
      BY <1>2 DEF Thread
    <2> QED
      BY <2>1, <2>2 DEF FreshThread
  <1>3. CASE \E s \in {"suggested", "answered"} : r = [q EXCEPT !.at = s, !.got = 0]
    <2>1. PICK s \in {"suggested", "answered"} : r = [q EXCEPT !.at = s, !.got = 0]
      BY <1>3
    <2>2. r \in Thread
      BY <1>1, <2>1 DEF Thread
    <2>3. r.at = s /\ r.stamp = q.stamp /\ r.asked = q.asked /\ r.got = 0 /\ r.default = q.default
      BY <2>1 DEF Thread
    <2> QED
      BY <1>1, <2>2, <2>3 DEF FreshThread
  <1> QED
    BY <1>2, <1>3

(* What the payload holds is used, or the indexer is asked.                *)
LEMMA IndexFresh ==
    ASSUME IInv, NEW t \in Threads, Index(t)
    PROVE  IInv'
  <1>1. th \in [Threads -> Thread] /\ th[t] \in Thread /\ FreshThread(th[t]) /\ indexer
        /\ payload \in Payload \cup {None} /\ clone \in 0 .. Old \cup {None}
    BY DEF IInv, TypeOK, FreshThreads, FreshThread, Index, Doing
  <1>2. UNCHANGED <<lists, indexer, payload, clone>>
    BY DEF Index
  <1>3. payload' \in Payload \cup {None} /\ FreshPayload' /\ clone' \in 0 .. Old \cup {None}
    BY <1>1, <1>2 DEF IInv, FreshPayload
  <1>4. CASE payload # None
    <2>1. payload.age \in 0 .. Old /\ payload.stamp \in 0 .. Ttl - 1 /\ payload.age <= payload.stamp
      BY <1>1, <1>4 DEF Payload, IInv, FreshPayload
    <2>2. th[t].stamp \in 0 .. Ttl
      BY <1>1 DEF Thread
    <2>3. payload.age <= (IF indexer THEN th[t].stamp + (Ttl - 1) ELSE th[t].stamp)
      BY <1>1, <2>1, <2>2, Bounds
    <2>4. Use(t, payload.age)
      BY <1>4 DEF Index
    <2>5. options' \in [lists' -> Entry \cup {None}] /\ FreshOptions'
          /\ \E r \in Thread : FreshThread(r) /\ th' = [th EXCEPT ![t] = r]
      BY <1>2, <2>1, <2>3, <2>4, UseFresh
    <2>6. th' \in [Threads -> Thread] /\ FreshThreads'
      BY <1>2, <2>5, OneThread
    <2> QED
      BY <1>2, <1>3, <2>5, <2>6, Together
  <1>5. CASE payload = None
    <2> DEFINE r == [th[t] EXCEPT !.at = "suggest", !.asked = 0]
    <2>1. r \in Thread /\ FreshThread(r)
      BY <1>1, AskedThread
    <2>2. th' = [th EXCEPT ![t] = r] /\ UNCHANGED options
      BY <1>1, <1>5 DEF Index
    <2> HIDE DEF r
    <2> QED
      BY <1>2, <2>1, <2>2, QuietStep
  <1> QED
    BY <1>4, <1>5

(* The indexer looks at GitHub, or its answer is lost.                     *)
LEMMA SuggestFresh ==
    ASSUME IInv, NEW t \in Threads, Suggest(t)
    PROVE  IInv'
  <1>1. th \in [Threads -> Thread] /\ th[t] \in Thread /\ FreshThread(th[t])
    BY DEF IInv, TypeOK, FreshThreads
  <1>2. UNCHANGED <<lists, indexer, options, payload, clone>>
    BY DEF Suggest
  <1> DEFINE r == [th[t] EXCEPT !.at = "suggested", !.got = 0]
  <1>3. CASE th' = [th EXCEPT ![t].at = "suggested", ![t].got = 0]
    <2>1. r \in Thread /\ FreshThread(r)
      BY <1>1, AskedThread
    <2>2. th' = [th EXCEPT ![t] = r]
      BY <1>1, <1>3
    <2> HIDE DEF r
    <2> QED
      BY <1>2, <2>1, <2>2, QuietStep
  <1>4. CASE Move(t, "token")
    BY <1>2, <1>4, MoveStep, QuietStep
  <1> QED
    BY <1>3, <1>4 DEF Suggest

(* The indexer's answer is kept under the time of its question.            *)
LEMMA SuggestedFresh ==
    ASSUME IInv, NEW t \in Threads, Suggested(t)
    PROVE  IInv'
  <1>1. th \in [Threads -> Thread] /\ th[t] \in Thread /\ FreshThread(th[t])
        /\ indexer \in BOOLEAN /\ clone \in 0 .. Old \cup {None} /\ th[t].at = "suggested"
    BY DEF IInv, TypeOK, FreshThreads, Suggested, Doing
  <1>2. UNCHANGED <<lists, indexer, clone>> /\ Use(t, th[t].got)
        /\ payload' = IF th[t].asked < Ttl THEN [stamp |-> th[t].asked, age |-> th[t].got] ELSE None
    BY DEF Suggested
  <1>3. th[t].stamp \in 0 .. Ttl /\ th[t].asked \in 0 .. Ttl /\ th[t].got \in 0 .. Old
    BY <1>1 DEF Thread
  <1>4. (th[t].stamp < Ttl => th[t].got <= th[t].stamp) /\ (th[t].asked < Ttl => th[t].got <= th[t].asked)
    BY <1>1 DEF FreshThread
  <1>5. payload' \in Payload \cup {None} /\ FreshPayload'
    <2>1. CASE th[t].asked < Ttl
      <3>1. th[t].asked \in 0 .. Ttl - 1
        BY <1>3, <2>1, Bounds
      <3>2. payload' = [stamp |-> th[t].asked, age |-> th[t].got]
        BY <1>2, <2>1
      <3>3. payload' \in Payload /\ payload'.age <= payload'.stamp
        BY <1>3, <1>4, <2>1, <3>1, <3>2 DEF Payload
      <3> QED
        BY <3>3 DEF FreshPayload
    <2>2. CASE ~(th[t].asked < Ttl)
      BY <1>2, <2>2 DEF FreshPayload
    <2> QED
      BY <2>1, <2>2
  <1>6. th[t].stamp < Ttl => th[t].got <= (IF indexer THEN th[t].stamp + (Ttl - 1) ELSE th[t].stamp)
    BY <1>1, <1>3, <1>4, Bounds
  <1>7. options' \in [lists' -> Entry \cup {None}] /\ FreshOptions'
        /\ \E r \in Thread : FreshThread(r) /\ th' = [th EXCEPT ![t] = r]
    BY <1>2, <1>3, <1>6, UseFresh
  <1>8. th' \in [Threads -> Thread] /\ FreshThreads'
    BY <1>2, <1>7, OneThread
  <1> QED
    BY <1>1, <1>2, <1>5, <1>7, <1>8, Together

(* A handler that has no token is done.                                    *)
LEMMA TokenFresh ==
    ASSUME IInv, NEW t \in Threads, Token(t)
    PROVE  IInv'
  <1>1. UNCHANGED <<lists, indexer, options, payload, clone>>
    BY DEF Token
  <1>2. CASE Done(t)
    <2>1. th' = [th EXCEPT ![t] = Idle]
      BY <1>2 DEF Done
    <2> QED
      BY <1>1, <2>1, IdleFresh, QuietStep
  <1>3. CASE Move(t, IF th[t].list = "repos" THEN "api" ELSE "sync")
    <2>1. Move(t, "api") \/ Move(t, "sync")
      BY <1>3
    <2>2. \E r \in Thread : FreshThread(r) /\ th' = [th EXCEPT ![t] = r]
      BY <2>1, MoveStep
    <2> QED
      BY <1>1, <2>2, QuietStep
  <1> QED
    BY <1>2, <1>3 DEF Token

(* A thread that has read the clone has just read it.                      *)
LEMMA SyncedThread ==
    ASSUME NEW q \in Thread, NEW d \in Default \cup {None}, d # None /\ ~d.kept => d.age = 0,
           NEW r, r = [q EXCEPT !.at = "synced", !.got = 0, !.default = d]
    PROVE  r \in Thread /\ FreshThread(r)
  <1>1. q.stamp \in 0 .. Ttl /\ q.asked \in 0 .. Ttl /\ 0 \in 0 .. Old
    BY Bounds DEF Thread
  <1>2. r \in Thread
    BY <1>1 DEF Thread
  <1>3. r.at = "synced" /\ r.stamp = q.stamp /\ r.asked = q.asked /\ r.got = 0 /\ r.default = d
    BY DEF Thread
  <1> QED
    BY <1>1, <1>2, <1>3 DEF FreshThread

(* The clone is brought up to date, but for its origin/HEAD perhaps.       *)
LEMMA SyncFresh ==
    ASSUME IInv, NEW t \in Threads, Sync(t)
    PROVE  IInv'
  <1>1. th \in [Threads -> Thread] /\ th[t] \in Thread /\ FreshThread(th[t])
        /\ clone \in 0 .. Old \cup {None} /\ payload \in Payload \cup {None}
    BY DEF IInv, TypeOK, FreshThreads
  <1>2. UNCHANGED <<lists, indexer, options, payload>>
    BY DEF Sync
  <1>3. CASE Move(t, "api") /\ UNCHANGED clone
    BY <1>2, <1>3, MoveStep, QuietStep
  <1>4. ASSUME NEW updated \in BOOLEAN, NEW known \in BOOLEAN,
               clone' = IF updated \/ clone = None THEN 0 ELSE clone,
               th' = [th EXCEPT ![t].at = "synced", ![t].got = 0,
                        ![t].default = IF known THEN [age |-> clone', kept |-> ~updated /\ clone # None]
                                       ELSE None]
        PROVE  IInv'
    <2> DEFINE d == IF known THEN [age |-> clone', kept |-> ~updated /\ clone # None] ELSE None
               r == [th[t] EXCEPT !.at = "synced", !.got = 0, !.default = d]
    <2>1. clone' \in 0 .. Old /\ (updated \/ clone = None => clone' = 0)
      BY <1>1, <1>4, Bounds
    <2>2. d \in Default \cup {None} /\ (d # None /\ ~d.kept => d.age = 0)
      BY <2>1 DEF Default
    <2>3. th' = [th EXCEPT ![t] = r]
      BY <1>1, <1>4
    <2> HIDE DEF d
    <2>4. r \in Thread /\ FreshThread(r)
      BY <1>1, <2>2, SyncedThread
    <2> HIDE DEF r
    <2>5. th' \in [Threads -> Thread] /\ FreshThreads'
      BY <1>2, <2>3, <2>4, OneThread
    <2>6. options' \in [lists' -> Entry \cup {None}] /\ FreshOptions'
      BY <1>2, SameOptions
    <2>7. payload' \in Payload \cup {None} /\ FreshPayload'
      BY <1>1, <1>2 DEF IInv, FreshPayload
    <2> QED
      BY <1>2, <2>1, <2>5, <2>6, <2>7, Together
  <1> QED
    BY <1>3, <1>4 DEF Sync

(* One thread is done, and replaces entries by fresh ones.                 *)
LEMMA StoreStep ==
    ASSUME IInv, NEW t \in Threads, Done(t) \/ Move(t, "api"),
           NEW o \in [lists -> Entry \cup {None}], \A l \in lists : FreshEntry(o[l]),
           options' = o, UNCHANGED <<lists, indexer, payload, clone>>
    PROVE  IInv'
  <1>1. TypeOK /\ payload \in Payload \cup {None} /\ FreshPayload /\ clone \in 0 .. Old \cup {None}
    BY DEF IInv, TypeOK
  <1>2. options' \in [lists' -> Entry \cup {None}] /\ FreshOptions'
    BY <1>1, NewOptions
  <1>3. \E r \in Thread : FreshThread(r) /\ th' = [th EXCEPT ![t] = r]
    <2>1. CASE Done(t)
      BY <2>1, IdleFresh DEF Done
    <2>2. CASE Move(t, "api")
      BY <2>2, MoveStep
    <2> QED
      BY <2>1, <2>2
  <1>4. th' \in [Threads -> Thread] /\ FreshThreads'
    BY <1>3, OneThread
  <1>5. payload' \in Payload \cup {None} /\ FreshPayload' /\ clone' \in 0 .. Old \cup {None}
    BY <1>1 DEF FreshPayload
  <1> QED
    BY <1>2, <1>4, <1>5, Together

(* What the clone holds is stored.                                         *)
LEMMA SyncedFresh ==
    ASSUME IInv, NEW t \in Threads, Synced(t)
    PROVE  IInv'
  <1>1. th[t] \in Thread /\ FreshThread(th[t]) /\ options \in [lists -> Entry \cup {None}]
        /\ (\A l \in lists : FreshEntry(options[l])) /\ indexer \in BOOLEAN
    BY DEF IInv, TypeOK, FreshThreads, FreshOptions
  <1>2. UNCHANGED <<lists, indexer, payload, clone>>
    BY DEF Synced
  <1> DEFINE d == th[t].default
             o == [options EXCEPT
                    !["branches"] = Kept(t, th[t].got, FALSE),
                    !["default"] = IF d = None THEN @ ELSE Kept(t, d.age, d.kept)]
  <1>3. CASE Move(t, "api") /\ UNCHANGED options
    BY <1>1, <1>2, <1>3, StoreStep
  <1>4. CASE options' = o /\ Done(t)
    <2>1. th[t].stamp \in 0 .. Ttl /\ th[t].got \in 0 .. Old /\ d \in Default \cup {None}
      BY <1>1 DEF Thread
    <2>2. (th[t].stamp < Ttl => th[t].got <= th[t].stamp)
          /\ (d # None /\ ~d.kept /\ th[t].stamp < Ttl => d.age <= th[t].stamp)
      BY <1>1 DEF FreshThread
    <2>3. th[t].stamp < Ttl => th[t].got <= (IF indexer THEN th[t].stamp + (Ttl - 1) ELSE th[t].stamp)
      BY <1>1, <2>1, <2>2, Bounds
    <2>4. Kept(t, th[t].got, FALSE) \in Entry \cup {None} /\ FreshEntry(Kept(t, th[t].got, FALSE))
      BY <1>1, <2>1, <2>3, KeptFresh
    <2>5. ASSUME d # None
          PROVE  Kept(t, d.age, d.kept) \in Entry \cup {None} /\ FreshEntry(Kept(t, d.age, d.kept))
      <3>1. d.age \in 0 .. Old /\ d.kept \in BOOLEAN
        BY <2>1, <2>5 DEF Default
      <3>2. ~d.kept /\ th[t].stamp < Ttl => d.age <= (IF indexer THEN th[t].stamp + (Ttl - 1) ELSE th[t].stamp)
        <4> HIDE DEF d
        <4> QED
          BY <1>1, <2>1, <2>2, <2>5, <3>1, Bounds
      <3> QED
        BY <1>1, <3>1, <3>2, KeptFresh
    <2> HIDE DEF d
    <2>6. o \in [lists -> Entry \cup {None}] /\ \A l \in lists : FreshEntry(o[l])
      BY <1>1, <2>4, <2>5
    <2> HIDE DEF o
    <2> QED
      BY <1>2, <1>4, <2>6, StoreStep
  <1> QED
    BY <1>3, <1>4 DEF Synced

(* GitHub answers, refuses the token, or fails.                            *)
LEMMA ApiFresh ==
    ASSUME IInv, NEW t \in Threads, Api(t)
    PROVE  IInv'
  <1>1. th \in [Threads -> Thread] /\ th[t] \in Thread /\ FreshThread(th[t])
        /\ options \in [lists -> Entry \cup {None}] /\ (\A l \in lists : FreshEntry(options[l]))
    BY DEF IInv, TypeOK, FreshThreads, FreshOptions
  <1>2. UNCHANGED <<lists, indexer, payload, clone>>
    BY DEF Api
  <1>3. CASE th' = [th EXCEPT ![t].at = "answered", ![t].got = 0] /\ UNCHANGED options
    <2> DEFINE r == [th[t] EXCEPT !.at = "answered", !.got = 0]
    <2>1. r \in Thread /\ FreshThread(r)
      BY <1>1, AskedThread
    <2>2. th' = [th EXCEPT ![t] = r]
      BY <1>1, <1>3
    <2> HIDE DEF r
    <2> QED
      BY <1>2, <1>3, <2>1, <2>2, QuietStep
  <1>4. CASE Done(t) /\ UNCHANGED options
    BY <1>1, <1>2, <1>4, StoreStep
  <1>5. CASE Done(t) /\ options' = [options EXCEPT ![th[t].list] = None]
    <2> DEFINE o == [options EXCEPT ![th[t].list] = None]
    <2>1. FreshEntry(None)
      BY DEF FreshEntry
    <2>2. o \in [lists -> Entry \cup {None}] /\ \A l \in lists : FreshEntry(o[l])
      BY <1>1, <2>1
    <2> HIDE DEF o
    <2> QED
      BY <1>2, <1>5, <2>2, StoreStep DEF o
  <1> QED
    BY <1>3, <1>4, <1>5 DEF Api

(* GitHub's answer is stored under the time of the question.               *)
LEMMA AnsweredFresh ==
    ASSUME IInv, NEW t \in Threads, Answered(t)
    PROVE  IInv'
  <1>1. th[t] \in Thread /\ FreshThread(th[t]) /\ options \in [lists -> Entry \cup {None}]
        /\ (\A l \in lists : FreshEntry(options[l])) /\ indexer \in BOOLEAN
    BY DEF IInv, TypeOK, FreshThreads, FreshOptions
  <1>2. UNCHANGED <<lists, indexer, payload, clone>> /\ Done(t)
    BY DEF Answered
  <1> DEFINE o == [options EXCEPT ![th[t].list] = Kept(t, th[t].got, FALSE)]
  <1>3. th[t].stamp \in 0 .. Ttl /\ th[t].got \in 0 .. Old
    BY <1>1 DEF Thread
  <1>4. th[t].stamp < Ttl => th[t].got <= (IF indexer THEN th[t].stamp + (Ttl - 1) ELSE th[t].stamp)
    BY <1>1, <1>3, Bounds DEF FreshThread
  <1>5. Kept(t, th[t].got, FALSE) \in Entry \cup {None} /\ FreshEntry(Kept(t, th[t].got, FALSE))
    BY <1>1, <1>3, <1>4, KeptFresh
  <1>6. o \in [lists -> Entry \cup {None}] /\ \A l \in lists : FreshEntry(o[l])
    BY <1>1, <1>5
  <1>7. options' = o
    BY DEF Answered
  <1> HIDE DEF o
  <1> QED
    BY <1>2, <1>6, <1>7, StoreStep

(* Everything gets older at once.                                          *)
LEMMA TickFresh ==
    ASSUME IInv, Tick
    PROVE  IInv'
  <1>1. /\ TypeOK /\ options \in [lists -> Entry \cup {None}] /\ (\A l \in lists : FreshEntry(options[l]))
        /\ payload \in Payload \cup {None} /\ FreshPayload /\ clone \in 0 .. Old \cup {None}
        /\ th \in [Threads -> Thread] /\ (\A t \in Threads : FreshThread(th[t]))
    BY DEF IInv, TypeOK, FreshThreads, FreshOptions
  <1>2. UNCHANGED <<lists, indexer>>
    BY DEF Tick
  <1>3. options' \in [lists' -> Entry \cup {None}] /\ FreshOptions'
    <2> DEFINE o == [l \in lists |-> LaterEntry(options[l])]
    <2>1. \A l \in lists : LaterEntry(options[l]) \in Entry \cup {None} /\ FreshEntry(LaterEntry(options[l]))
      BY <1>1, LaterEntryFresh
    <2>2. o \in [lists -> Entry \cup {None}] /\ \A l \in lists : FreshEntry(o[l])
      BY <2>1
    <2>3. options' = o
      BY DEF Tick
    <2> HIDE DEF o
    <2> QED
      BY <1>1, <1>2, <2>2, <2>3, NewOptions
  <1>4. payload' \in Payload \cup {None} /\ FreshPayload'
    <2>1. payload' = LaterEntry(payload)
      BY DEF Tick
    <2> QED
      BY <1>1, <2>1, LaterPayloadFresh DEF FreshPayload
  <1>5. clone' \in 0 .. Old \cup {None}
    <2>1. clone' = IF clone = None THEN None ELSE Later(clone, Old)
      BY DEF Tick
    <2>2. clone # None => Later(clone, Old) \in 0 .. Old
      BY <1>1, Bounds, LaterType
    <2> QED
      BY <2>1, <2>2
  <1>6. th' \in [Threads -> Thread] /\ FreshThreads'
    <2> DEFINE n == [t \in Threads |-> IF Doing(t, "idle") THEN Idle ELSE LaterThread(th[t])]
    <2>1. th' = n
      BY DEF Tick, LaterThread
    <2>2. \A t \in Threads : LaterThread(th[t]) \in Thread /\ FreshThread(LaterThread(th[t]))
      BY <1>1, LaterThreadFresh
    <2>3. n \in [Threads -> Thread] /\ \A t \in Threads : FreshThread(n[t])
      BY <2>2, IdleFresh
    <2> HIDE DEF n
    <2>4. FreshThreads'
      BY <1>2, <2>1, <2>3 DEF FreshThreads, FreshThread
    <2> QED
      BY <2>1, <2>3, <2>4
  <1> QED
    BY <1>2, <1>3, <1>4, <1>5, <1>6, Together

(* Whatever the threads do to each other's entries, the invariant stays.   *)
THEOREM CatalogInvariant == Spec => []IInv
  <1>1. IInv /\ [Next]_vars => IInv'
    <2> SUFFICES ASSUME IInv, [Next]_vars PROVE IInv'
      OBVIOUS
    <2>1. CASE \E t \in Threads, l \in lists : Ask(t, l)
      BY <2>1, AskFresh
    <2>2. CASE \E t \in Threads :
                 Index(t) \/ Suggest(t) \/ Suggested(t) \/ Token(t) \/ Sync(t) \/ Synced(t) \/ Api(t) \/ Answered(t)
      BY <2>2, IndexFresh, SuggestFresh, SuggestedFresh, TokenFresh, SyncFresh, SyncedFresh, ApiFresh,
         AnsweredFresh
    <2>3. CASE Tick
      BY <2>3, TickFresh
    <2>4. CASE UNCHANGED vars
      BY <2>4 DEF vars, IInv, TypeOK, FreshOptions, FreshEntry, FreshPayload, FreshThreads, FreshThread, Doing
    <2> QED
      BY <2>1, <2>2, <2>3, <2>4 DEF Next
  <1> QED
    BY <1>1, InitFresh, PTL DEF Spec

(* Entries, payload, clone and threads keep to their types.                *)
THEOREM TypeCorrect == Spec => []TypeOK
  <1>1. IInv => TypeOK
    BY DEF IInv
  <1> QED
    BY <1>1, CatalogInvariant, PTL

(* For every Ttl and any number of threads: what a handler is offered from *)
(* a cache was on GitHub less than a Ttl ago, or less than two where the   *)
(* indexer's cache is behind it, unless it is a default branch that the    *)
(* clone could not update.                                                 *)
THEOREM StalenessIsBounded == Spec => []BoundedStaleness
  <1>1. IInv => BoundedStaleness
    <2> SUFFICES ASSUME IInv, NEW l \in lists, options[l] # None, ~options[l].kept
                 PROVE  options[l].age < (IF indexer THEN 2 * Ttl ELSE Ttl)
      BY DEF BoundedStaleness
    <2>1. options[l] \in Entry /\ FreshEntry(options[l]) /\ indexer \in BOOLEAN
      BY DEF IInv, TypeOK, FreshOptions
    <2>2. options[l].stamp \in 0 .. Ttl - 1 /\ options[l].age \in 0 .. Old
      BY <2>1 DEF Entry
    <2> QED
      BY <2>1, <2>2, Bounds DEF FreshEntry
  <1> QED
    BY <1>1, CatalogInvariant, PTL

-----------------------------------------------------------------------------
(* The first of a list, and places in an order.                            *)

(* A set of naturals that is not empty has a least element.                *)
LEMMA LeastNatural ==
    ASSUME NEW I, I \subseteq Nat, I # {}
    PROVE  \E i \in I : \A j \in I : i <= j
  <1> DEFINE Less == OpToRel(<, Nat)
  <1>1. IsWellFoundedOn(Less, Nat) /\ \A i, j \in Nat : <<j, i>> \in Less <=> j < i
    BY NatLessThanWellFounded DEF OpToRel
  <1> HIDE DEF Less
  <1>2. PICK i \in I : \A j \in I : ~(<<j, i>> \in Less)
    BY <1>1, WFMin
  <1>3. i \in Nat /\ \A j \in I : j \in Nat /\ ~(j < i)
    BY <1>1, <1>2
  <1> QED
    BY <1>3

(* Best is the first that is in the set.                                   *)
LEMMA BestIs ==
    ASSUME NEW bs \in Seq(Names), NEW P, NEW i \in 1 .. Len(bs),
           bs[i] \in P, \A j \in 1 .. i - 1 : bs[j] \notin P
    PROVE  Best(bs, P) = bs[i]
  <1> DEFINE First(k) == bs[k] \in P /\ \A j \in 1 .. k - 1 : bs[j] \notin P
  <1>1. \A k \in 1 .. Len(bs) : First(k) => k = i
    <2> SUFFICES ASSUME NEW k \in 1 .. Len(bs), First(k), k # i PROVE FALSE
      OBVIOUS
    <2>1. i \in Int /\ k \in Int /\ (k \in 1 .. i - 1 \/ i \in 1 .. k - 1)
      OBVIOUS
    <2> QED
      BY <2>1
  <1>2. (CHOOSE k \in 1 .. Len(bs) : First(k)) = i
    BY <1>1
  <1> QED
    BY <1>2 DEF Best

(* There is a first one, if any.                                           *)
LEMMA FirstIn ==
    ASSUME NEW bs \in Seq(Names), NEW P, Among(bs) \cap P # {}
    PROVE  \E i \in 1 .. Len(bs) : bs[i] \in P /\ \A j \in 1 .. i - 1 : bs[j] \notin P
  <1> DEFINE I == {i \in 1 .. Len(bs) : bs[i] \in P}
  <1>1. I \subseteq Nat /\ I # {}
    BY DEF Among
  <1>2. PICK i \in I : \A j \in I : i <= j
    <2> HIDE DEF I
    <2> QED
      BY <1>1, LeastNatural
  <1>3. i \in 1 .. Len(bs) /\ bs[i] \in P
    BY <1>2
  <1>4. ASSUME NEW j \in 1 .. i - 1, bs[j] \in P PROVE FALSE
    <2>1. j \in 1 .. Len(bs) /\ j < i
      BY <1>3
    <2>2. j \in I
      BY <2>1, <1>4
    <2>3. i <= j
      BY <1>2, <2>2
    <2> QED
      BY <1>3, <2>1, <2>3
  <1> QED
    BY <1>3, <1>4

(* At is where a name is first.                                            *)
LEMMA AtIsFirst ==
    ASSUME NEW bs \in Seq(Names), NEW b \in Among(bs)
    PROVE  /\ At(bs, b) \in 1 .. Len(bs) /\ bs[At(bs, b)] = b
           /\ \A j \in 1 .. Len(bs) : bs[j] = b => At(bs, b) <= j
  <1> DEFINE First(k) == bs[k] = b /\ \A j \in 1 .. k - 1 : bs[j] # b
             n == At(bs, b)
  <1>1. \E i \in 1 .. Len(bs) : First(i)
    <2>1. Among(bs) \cap {b} # {}
      OBVIOUS
    <2>2. PICK i \in 1 .. Len(bs) : bs[i] \in {b} /\ \A j \in 1 .. i - 1 : bs[j] \notin {b}
      BY <2>1, FirstIn
    <2> QED
      BY <2>2
  <1>2. n \in 1 .. Len(bs) /\ First(n)
    <2>1. n = CHOOSE i \in 1 .. Len(bs) : First(i)
      BY DEF At
    <2> HIDE DEF n, First
    <2> QED
      BY <1>1, <2>1
  <1> HIDE DEF n
  <1>3. ASSUME NEW j \in 1 .. Len(bs), bs[j] = b PROVE n <= j
    <2>1. ~(j \in 1 .. n - 1)
      BY <1>2, <1>3
    <2> QED
      BY <1>2, <1>3, <2>1
  <1> QED
    BY <1>2, <1>3 DEF n

(* A finite set that is strictly and totally ordered is ranked 0, 1, ...   *)
LEMMA RanksOfOrder ==
    ASSUME NEW A, IsFiniteSet(A), NEW R,
           \A a \in A : <<a, a>> \notin R,
           \A a, b, c \in A : <<a, b>> \in R /\ <<b, c>> \in R => <<a, c>> \in R,
           \A a, b \in A : a = b \/ <<a, b>> \in R \/ <<b, a>> \in R
    PROVE  LET rank(a) == Cardinality({b \in A : <<b, a>> \in R})
           IN  /\ Cardinality(A) \in Nat
               /\ \A a \in A : rank(a) \in 0 .. Cardinality(A) - 1
               /\ \A k \in 1 .. Cardinality(A) : \E a \in A : rank(a) = k - 1
               /\ \A a, b \in A : <<a, b>> \in R <=> rank(a) < rank(b)
  <1> DEFINE n == Cardinality(A)
             Below(a) == {b \in A : <<b, a>> \in R}
             rank == [a \in A |-> Cardinality(Below(a))]
             T == 0 .. n - 1
  <1>1. n \in Nat
    BY FS_CardinalityType
  <1>2. ASSUME NEW a \in A
        PROVE  IsFiniteSet(Below(a)) /\ Cardinality(Below(a)) \in T
    <2>1. Below(a) \in SUBSET A /\ Below(a) # A
      OBVIOUS
    <2>2. IsFiniteSet(Below(a)) /\ Cardinality(Below(a)) <= n /\ Cardinality(Below(a)) # n
      BY <2>1, FS_Subset
    <2>3. Cardinality(Below(a)) \in Nat
      BY <2>2, FS_CardinalityType
    <2> QED
      BY <1>1, <2>2, <2>3
  <1>3. ASSUME NEW a \in A, NEW b \in A, <<a, b>> \in R PROVE rank[a] < rank[b]
    <2>1. Below(a) \in SUBSET Below(b) /\ a \in Below(b) /\ a \notin Below(a)
      BY <1>3
    <2>2. Cardinality(Below(a)) <= Cardinality(Below(b)) /\ Cardinality(Below(a)) # Cardinality(Below(b))
      BY <1>2, <2>1, FS_Subset
    <2>3. IsFiniteSet(Below(a)) /\ IsFiniteSet(Below(b))
      BY <1>2
    <2>4. Cardinality(Below(a)) \in Nat /\ Cardinality(Below(b)) \in Nat
      BY <2>3, FS_CardinalityType
    <2> QED
      BY <2>2, <2>4
  <1>4. rank \in [A -> T] /\ \A a \in A : rank[a] = Cardinality(Below(a))
    BY <1>2
  <1>5. \A a, b \in A : <<a, b>> \in R <=> rank[a] < rank[b]
    <2> SUFFICES ASSUME NEW a \in A, NEW b \in A, rank[a] < rank[b] PROVE <<a, b>> \in R
      BY <1>3
    <2>1. rank[a] \in Nat /\ rank[b] \in Nat
      BY <1>1, <1>4
    <2>2. ~(rank[b] < rank[a]) /\ rank[a] # rank[b]
      BY <2>1
    <2> HIDE DEF rank
    <2> QED
      BY <1>3, <2>2
  <1> HIDE DEF rank, Below
  <1>6. \A a, b \in A : rank[a] = rank[b] => a = b
    <2> SUFFICES ASSUME NEW a \in A, NEW b \in A, rank[a] = rank[b] PROVE a = b
      OBVIOUS
    <2>1. rank[a] \in Nat /\ rank[b] \in Nat
      BY <1>1, <1>4
    <2>2. ~(rank[a] < rank[b]) /\ ~(rank[b] < rank[a])
      BY <2>1
    <2> QED
      BY <1>5, <2>2
  <1>7. IsFiniteSet(T) /\ Cardinality(T) = n
    <2>1. 0 \in Int /\ n - 1 \in Int /\ ~(0 > n - 1 /\ n # 0) /\ n - 1 - 0 + 1 = n /\ (n = 0 => 0 > n - 1)
      BY <1>1
    <2> HIDE DEF n
    <2> QED
      BY <1>1, <2>1, FS_Interval
  <1>8. \A k \in 1 .. n : k - 1 \in T
    BY <1>1
  <1> HIDE DEF T
  <1>9. rank \in Injection(A, T)
    BY <1>4, <1>6, Fun_IsInj
  <1>10. rank \in Surjection(A, T)
    BY <1>7, <1>9, FS_Injection
  <1>11. \A i \in T : \E a \in A : rank[a] = i
    BY <1>10, Fun_SurjectionProperties
  <1>12. \A k \in 1 .. n : \E a \in A : Cardinality(Below(a)) = k - 1
    BY <1>4, <1>8, <1>11
  <1>13. \A a \in A : Cardinality(Below(a)) \in 0 .. n - 1
    BY <1>2 DEF T
  <1>14. \A a, b \in A : <<a, b>> \in R <=> Cardinality(Below(a)) < Cardinality(Below(b))
    BY <1>4, <1>5
  <1> QED
    BY <1>1, <1>12, <1>13, <1>14 DEF Below

(* A list without repetitions is as long as what is in it.                 *)
LEMMA AmongSize ==
    ASSUME NEW bs \in Seq(Names), \A i, j \in 1 .. Len(bs) : bs[i] = bs[j] => i = j
    PROVE  IsFiniteSet(Among(bs)) /\ Cardinality(Among(bs)) = Len(bs)
  <1> DEFINE D == 1 .. Len(bs)
             A == Among(bs)
  <1>1. Len(bs) \in Nat /\ bs \in [D -> A] /\ (\A a \in A : \E i \in D : bs[i] = a)
    BY DEF Among
  <1>2. IsFiniteSet(D) /\ Cardinality(D) = Len(bs)
    <2> DEFINE n == Len(bs)
    <2>1. n \in Nat
      OBVIOUS
    <2> HIDE DEF n
    <2>2. 1 \in Int /\ n \in Int /\ ~(1 > n /\ n # 0) /\ n - 1 + 1 = n /\ (n = 0 => 1 > n)
      BY <2>1
    <2>3. IsFiniteSet(1 .. n) /\ Cardinality(1 .. n) = n
      BY <2>1, <2>2, FS_Interval
    <2> QED
      BY <2>3 DEF n
  <1>3. \A i, j \in D : bs[i] = bs[j] => i = j
    OBVIOUS
  <1> HIDE DEF D, A
  <1>4. bs \in Surjection(D, A) /\ bs \in Injection(D, A)
    BY <1>1, <1>3, Fun_IsInj, Fun_IsSurj
  <1>5. IsFiniteSet(A) /\ Cardinality(A) = Cardinality(D)
    BY <1>2, <1>4, FS_Surjection
  <1> QED
    BY <1>2, <1>5 DEF A

-----------------------------------------------------------------------------
(* The order in which branches are offered.                                *)

(* The bucket of a name tells the default branch from the others, and      *)
(* generated names from those that are not.                                *)
LEMMA BucketOf ==
    ASSUME NEW b \in Names, NEW default, NEW worktree
    PROVE  LET p == Bucket(b, default, worktree)
           IN  /\ p \in (0 .. 5) \X Nat
               /\ b = default <=> p[1] = 0
               /\ b = default => p = <<0, 0>>
               /\ b \in Generated /\ b # default => p[1] \in {4, 5}
               /\ b \notin Generated /\ b # default => p[1] \in {1, 2, 3}
               /\ b \notin Generated /\ b # default /\ b \notin worktree =>
                    p = IF b \in Among(Candidates) THEN <<2, At(Candidates, b)>> ELSE <<3, 0>>
  <1>1. b \in Among(Candidates) => At(Candidates, b) \in Nat
    <2>1. Candidates \in Seq(Names)
      BY BranchNamesAssumption
    <2> SUFFICES ASSUME b \in Among(Candidates) PROVE At(Candidates, b) \in Nat
      OBVIOUS
    <2>2. At(Candidates, b) \in 1 .. Len(Candidates)
      BY <2>1, AtIsFirst
    <2> QED
      BY <2>2
  <1> DEFINE k == At(Candidates, b)
  <1> HIDE DEF k
  <1>2. CASE b = default
    BY <1>2 DEF Bucket
  <1>3. CASE b # default /\ b \in worktree /\ b \notin Generated
    BY <1>3 DEF Bucket
  <1>4. CASE b # default /\ b \notin worktree /\ b \notin Generated /\ b \in Among(Candidates)
    <2>1. Bucket(b, default, worktree) = <<2, k>>
      BY <1>4 DEF Bucket, k
    <2>2. k \in Nat
      BY <1>1, <1>4 DEF k
    <2>3. <<2, k>> \in (0 .. 5) \X Nat /\ <<2, k>>[1] = 2
      BY <2>2
    <2> QED
      BY <1>4, <2>1, <2>3 DEF k
  <1>5. CASE b # default /\ b \notin worktree /\ b \notin Generated /\ b \notin Among(Candidates)
    BY <1>5 DEF Bucket
  <1>6. CASE b # default /\ b \in Generated
    BY <1>6 DEF Bucket
  <1> QED
    BY <1>2, <1>3, <1>4, <1>5, <1>6

(* Precedes is a strict total order of what is listed.                     *)
LEMMA PrecedesOrders ==
    ASSUME NEW bs \in Seq(Names), NEW default, NEW worktree
    PROVE  LET before(a, b) == Precedes(bs, default, worktree, a, b)
           IN  /\ \A a \in Among(bs) : ~before(a, a)
               /\ \A a, b, c \in Among(bs) : before(a, b) /\ before(b, c) => before(a, c)
               /\ \A a, b \in Among(bs) : a = b \/ before(a, b) \/ before(b, a)
  <1> DEFINE A == Among(bs)
             p == [a \in A |-> Bucket(a, default, worktree)]
             x == [a \in A |-> Bucket(a, default, worktree)[1]]
             y == [a \in A |-> Bucket(a, default, worktree)[2]]
             z == [a \in A |-> At(bs, a)]
             before(a, b) == Precedes(bs, default, worktree, a, b)
  <1>1. \A a \in A : a \in Names
    BY ElementOfSeq DEF Among
  <1>2. \A a \in A : p[a] \in (0 .. 5) \X Nat
    BY <1>1, BucketOf
  <1>3. \A a \in A : x[a] \in Nat /\ y[a] \in Nat
    BY <1>2
  <1>4. \A a \in A : At(bs, a) \in 1 .. Len(bs) /\ bs[At(bs, a)] = a
    BY AtIsFirst
  <1>5. \A a \in A : z[a] \in Nat
    BY <1>4
  <1>6. \A a, b \in A : z[a] = z[b] => a = b
    BY <1>4
  <1>7. \A a, b \in A : p[a] = p[b] <=> (x[a] = x[b] /\ y[a] = y[b])
    BY <1>2
  <1>8. \A a, b \in A :
          before(a, b) <=> (x[a] < x[b] \/ (x[a] = x[b] /\ y[a] < y[b])
                            \/ (x[a] = x[b] /\ y[a] = y[b] /\ z[a] < z[b]))
    <2> SUFFICES ASSUME NEW a \in A, NEW b \in A
                 PROVE  before(a, b) <=> (x[a] < x[b] \/ (x[a] = x[b] /\ y[a] < y[b])
                            \/ (x[a] = x[b] /\ y[a] = y[b] /\ z[a] < z[b]))
      OBVIOUS
    <2>1. before(a, b) <=> (Sooner(p[a], p[b]) \/ (p[a] = p[b] /\ z[a] < z[b]))
      BY DEF Precedes
    <2>2. Sooner(p[a], p[b]) <=> (x[a] < x[b] \/ (x[a] = x[b] /\ y[a] < y[b]))
      BY DEF Sooner
    <2> HIDE DEF p, x, y, z, before
    <2> QED
      BY <1>7, <2>1, <2>2
  <1> HIDE DEF p, x, y, z, before, A
  <1>9. \A a \in A : ~before(a, a)
    BY <1>3, <1>5, <1>8
  <1>10. ASSUME NEW a \in A, NEW b \in A, NEW c \in A, before(a, b), before(b, c)
         PROVE  before(a, c)
    BY <1>3, <1>5, <1>8, <1>10
  <1>11. \A a, b \in A : a = b \/ before(a, b) \/ before(b, a)
    BY <1>3, <1>5, <1>6, <1>8
  <1> QED
    BY <1>9, <1>10, <1>11 DEF A, before

(* Sorting offers every branch once, in that order.                        *)
LEMMA SortedInOrder ==
    ASSUME NEW bs \in Seq(Names), \A i, j \in 1 .. Len(bs) : bs[i] = bs[j] => i = j,
           NEW default, NEW worktree
    PROVE  LET out == Sorted(bs, default, worktree)
           IN  /\ out \in Seq(Names) /\ Len(out) = Len(bs) /\ Among(out) = Among(bs)
               /\ \A i \in 1 .. Len(out) : out[i] \in Among(bs)
               /\ \A i, j \in 1 .. Len(out) :
                    i < j <=> Precedes(bs, default, worktree, out[i], out[j])
  <1> DEFINE A == Among(bs)
             n == Len(bs)
             R == {q \in A \X A : Precedes(bs, default, worktree, q[1], q[2])}
             rank(a) == Cardinality({b \in A : <<b, a>> \in R})
             out == Sorted(bs, default, worktree)
  <1>1. IsFiniteSet(A) /\ Cardinality(A) = n /\ n \in Nat
    BY AmongSize
  <1>2. \A a, b \in A : <<a, b>> \in R <=> Precedes(bs, default, worktree, a, b)
    OBVIOUS
  <1>3. /\ \A a \in A : <<a, a>> \notin R
        /\ \A a, b, c \in A : <<a, b>> \in R /\ <<b, c>> \in R => <<a, c>> \in R
        /\ \A a, b \in A : a = b \/ <<a, b>> \in R \/ <<b, a>> \in R
    <2> HIDE DEF R
    <2> QED
      BY <1>2, PrecedesOrders
  <1>4. /\ \A a \in A : rank(a) \in 0 .. n - 1
        /\ \A k \in 1 .. n : \E a \in A : rank(a) = k - 1
        /\ \A a, b \in A : <<a, b>> \in R <=> rank(a) < rank(b)
    <2> HIDE DEF R, A, n
    <2> QED
      BY <1>1, <1>3, RanksOfOrder
  <1> DEFINE e(i) == CHOOSE b \in A : Cardinality({a \in A : Precedes(bs, default, worktree, a, b)}) = i - 1
  <1>5. out = [i \in 1 .. n |-> e(i)]
    BY DEF Sorted
  <1>6. \A b \in A : {a \in A : Precedes(bs, default, worktree, a, b)} = {a \in A : <<a, b>> \in R}
    BY <1>2
  <1>7. \A i \in 1 .. n : \E b \in A : Cardinality({a \in A : Precedes(bs, default, worktree, a, b)}) = i - 1
    BY <1>4, <1>6
  <1>8. \A i \in 1 .. n :
          e(i) \in A /\ Cardinality({a \in A : Precedes(bs, default, worktree, a, e(i))}) = i - 1
    <2> HIDE DEF A, n
    <2> QED
      BY <1>7
  <1> HIDE DEF e, out
  <1>9. \A i \in 1 .. n : out[i] \in A /\ rank(out[i]) = i - 1
    <2> SUFFICES ASSUME NEW i \in 1 .. n PROVE out[i] \in A /\ rank(out[i]) = i - 1
      OBVIOUS
    <2>1. out[i] = e(i)
      BY <1>5
    <2> HIDE DEF R, A, n
    <2> QED
      BY <1>6, <1>8, <2>1
  <1>10. \A a \in A : a \in Names
    BY ElementOfSeq DEF Among
  <1>11. out \in [1 .. n -> Names]
    <2> HIDE DEF A, n
    <2> QED
      BY <1>5, <1>8, <1>10
  <1> HIDE DEF A, n, R, rank
  <1>12. out \in Seq(Names) /\ Len(out) = n
    BY <1>1, <1>11
  <1>13. ASSUME NEW i \in 1 .. n, NEW j \in 1 .. n
         PROVE  i < j <=> <<out[i], out[j]>> \in R
    <2>1. out[i] \in A /\ out[j] \in A /\ rank(out[i]) = i - 1 /\ rank(out[j]) = j - 1
      BY <1>9
    <2>2. <<out[i], out[j]>> \in R <=> i - 1 < j - 1
      BY <1>4, <2>1
    <2> QED
      BY <1>1, <2>2
  <1>14. ASSUME NEW a \in A PROVE \E i \in 1 .. n : out[i] = a
    <2> DEFINE i == rank(a) + 1
    <2>1. rank(a) \in 0 .. n - 1
      BY <1>4
    <2>2. i \in 1 .. n /\ rank(a) = i - 1
      BY <1>1, <2>1
    <2> HIDE DEF i
    <2>3. out[i] \in A /\ rank(out[i]) = rank(a)
      BY <1>9, <2>2
    <2>4. ~(rank(out[i]) < rank(a)) /\ ~(rank(a) < rank(out[i]))
      BY <1>1, <2>1, <2>3
    <2>5. <<out[i], a>> \notin R /\ <<a, out[i]>> \notin R
      BY <1>4, <2>3, <2>4
    <2> QED
      BY <1>3, <2>2, <2>3, <2>5
  <1>15. Among(out) = A
    BY <1>9, <1>12, <1>14 DEF Among
  <1>16. \A i, j \in 1 .. n : i < j <=> Precedes(bs, default, worktree, out[i], out[j])
    BY <1>2, <1>9, <1>13
  <1> QED
    BY <1>9, <1>12, <1>15, <1>16 DEF A, n, out

(* What precedes the others of a set is the first of them that is offered. *)
LEMMA FirstOffered ==
    ASSUME NEW bs \in Seq(Names), \A i, j \in 1 .. Len(bs) : bs[i] = bs[j] => i = j,
           NEW default, NEW worktree, NEW F \in SUBSET Among(bs), NEW m \in F,
           \A f \in F : f = m \/ Precedes(bs, default, worktree, m, f)
    PROVE  Best(Sorted(bs, default, worktree), F) = m
  <1> DEFINE out == Sorted(bs, default, worktree)
  <1>1. out \in Seq(Names) /\ Len(out) \in Nat /\ Among(out) = Among(bs)
        /\ \A i, j \in 1 .. Len(out) : i < j <=> Precedes(bs, default, worktree, out[i], out[j])
    BY SortedInOrder
  <1> HIDE DEF out
  <1>2. PICK i \in 1 .. Len(out) : out[i] = m
    BY <1>1 DEF Among
  <1>3. ASSUME NEW j \in 1 .. i - 1, out[j] \in F PROVE FALSE
    <2>1. j \in 1 .. Len(out) /\ i \in Nat /\ j \in Nat /\ j < i
      BY <1>1
    <2>2. ~(i < j) /\ ~(i < i)
      BY <2>1
    <2>3. ~Precedes(bs, default, worktree, m, out[j])
      BY <1>1, <1>2, <2>1, <2>2
    <2>4. out[j] = m
      BY <1>3, <2>3
    <2>5. Precedes(bs, default, worktree, m, m)
      BY <1>1, <1>2, <2>1, <2>4
    <2> QED
      BY <1>1, <1>2, <2>2, <2>5
  <1>4. Best(out, F) = out[i]
    BY <1>1, <1>2, <1>3, BestIs
  <1> QED
    BY <1>2, <1>4 DEF out

(* The default branch is offered first.                                    *)
LEMMA DefaultFirst ==
    ASSUME NEW bs \in Seq(Names), \A i, j \in 1 .. Len(bs) : bs[i] = bs[j] => i = j,
           NEW worktree, NEW default \in Among(bs)
    PROVE  Sorted(bs, default, worktree)[1] = default
  <1> DEFINE out == Sorted(bs, default, worktree)
  <1>1. Len(out) \in Nat /\ Among(out) = Among(bs) /\ (\A i \in 1 .. Len(out) : out[i] \in Among(bs))
        /\ \A i, j \in 1 .. Len(out) : i < j <=> Precedes(bs, default, worktree, out[i], out[j])
    BY SortedInOrder
  <1> HIDE DEF out
  <1>2. PICK i \in 1 .. Len(out) : out[i] = default
    BY <1>1 DEF Among
  <1>3. 1 \in 1 .. Len(out) /\ i \in Nat /\ (i # 1 => 1 < i) /\ out[1] \in Among(bs)
    BY <1>1
  <1>4. CASE i = 1
    BY <1>2, <1>4 DEF out
  <1>5. CASE i # 1
    <2>1. Precedes(bs, default, worktree, out[1], default)
      BY <1>1, <1>2, <1>3, <1>5
    <2>2. out[1] # default
      BY <1>1, <1>2, <1>3, <1>5, <2>1
    <2>3. out[1] \in Names /\ default \in Names
      BY <1>3, ElementOfSeq DEF Among
    <2> DEFINE p == Bucket(out[1], default, worktree)
               q == Bucket(default, default, worktree)
    <2>4. p \in (0 .. 5) \X Nat /\ p[1] # 0 /\ q = <<0, 0>>
      BY <2>2, <2>3, BucketOf
    <2>5. Sooner(p, q) \/ p = q
      BY <2>1 DEF Precedes
    <2> HIDE DEF p, q
    <2> QED
      BY <2>4, <2>5 DEF Sooner
  <1> QED
    BY <1>4, <1>5

(* A generated branch comes after all that are not, but for the default.   *)
LEMMA GeneratedLast ==
    ASSUME NEW bs \in Seq(Names), \A i, j \in 1 .. Len(bs) : bs[i] = bs[j] => i = j,
           NEW default, NEW worktree,
           NEW i \in 1 .. Len(Sorted(bs, default, worktree)),
           NEW j \in 1 .. Len(Sorted(bs, default, worktree)), i < j,
           Sorted(bs, default, worktree)[i] \in Generated,
           Sorted(bs, default, worktree)[j] \notin Generated
    PROVE  Sorted(bs, default, worktree)[i] = default
  <1> DEFINE out == Sorted(bs, default, worktree)
             g == out[i]
             f == out[j]
             p == Bucket(g, default, worktree)
             q == Bucket(f, default, worktree)
  <1>1. g \in Among(bs) /\ f \in Among(bs) /\ Precedes(bs, default, worktree, g, f)
    BY SortedInOrder
  <1>2. g \in Names /\ f \in Names /\ g \in Generated /\ f \notin Generated
    <2> HIDE DEF g, f
    <2>1. g \in Names /\ f \in Names
      BY <1>1, ElementOfSeq DEF Among
    <2> QED
      BY <2>1 DEF g, f
  <1> HIDE DEF g, f
  <1>3. /\ p \in (0 .. 5) \X Nat /\ q \in (0 .. 5) \X Nat
        /\ g # default => p[1] \in {4, 5}
        /\ f = default => q = <<0, 0>>
        /\ f # default => q[1] \in {1, 2, 3}
    BY <1>2, BucketOf
  <1>4. Sooner(p, q) \/ p = q
    BY <1>1 DEF Precedes
  <1> HIDE DEF p, q
  <1>5. g = default
    BY <1>3, <1>4 DEF Sooner
  <1> QED
    BY <1>5 DEF g

(* The fallback for a generated default is the first branch offered that   *)
(* is not generated.                                                       *)
LEMMA FallbackOffered ==
    ASSUME NEW bs \in Seq(Names), \A i, j \in 1 .. Len(bs) : bs[i] = bs[j] => i = j,
           NEW default \in Generated, Among(bs) \ Generated # {}
    PROVE  StableFallback(bs, default) = Best(Sorted(bs, default, {}), Among(bs) \ Generated)
  <1> DEFINE fit == Among(bs) \ Generated
             C == Among(Candidates)
             key(b) == Bucket(b, default, {})
  <1>1. Candidates \in Seq(Names) /\ default \in Names /\ default # "" /\ fit \in SUBSET Among(bs)
        /\ \A b \in fit : b \in Names /\ b \notin Generated /\ b # default
    <2>1. \A b \in Among(bs) : b \in Names
      BY ElementOfSeq DEF Among
    <2> QED
      BY <2>1, BranchNamesAssumption
  <1>2. ASSUME NEW b \in fit
        PROVE  key(b) = IF b \in C THEN <<2, At(Candidates, b)>> ELSE <<3, 0>>
    <2>1. b \in Names /\ b \notin Generated /\ b # default /\ b \notin {}
      BY <1>1
    <2> HIDE DEF fit
    <2> QED
      BY <2>1, BucketOf
  <1> HIDE DEF key
  <1>3. \A a, b \in fit :
          Sooner(key(a), key(b)) \/ (key(a) = key(b) /\ At(bs, a) < At(bs, b))
            => Precedes(bs, default, {}, a, b)
    BY DEF Precedes, key
  <1>4. CASE C \cap fit # {}
    <2>1. PICK i \in 1 .. Len(Candidates) :
            Candidates[i] \in fit /\ \A j \in 1 .. i - 1 : Candidates[j] \notin fit
      <3> HIDE DEF fit
      <3> QED
        BY <1>1, <1>4, FirstIn
    <2> DEFINE m == Candidates[i]
    <2>2. m \in fit /\ m \in C /\ Best(Candidates, fit) = m
      <3> HIDE DEF fit
      <3>1. Best(Candidates, fit) = m
        BY <1>1, <2>1, BestIs
      <3> QED
        BY <2>1, <3>1 DEF Among
    <2>3. At(Candidates, m) \in Nat /\ At(Candidates, m) <= i
      <3>1. At(Candidates, m) \in 1 .. Len(Candidates) /\ At(Candidates, m) <= i
        BY <1>1, <2>2, AtIsFirst
      <3> QED
        BY <3>1
    <2>4. ASSUME NEW f \in fit, f # m PROVE Precedes(bs, default, {}, m, f)
      <3>1. key(m) = <<2, At(Candidates, m)>>
        BY <1>2, <2>2
      <3>2. CASE f \in C
        <4>1. At(Candidates, f) \in 1 .. Len(Candidates) /\ Candidates[At(Candidates, f)] = f
          BY <1>1, <3>2, AtIsFirst
        <4>2. At(Candidates, f) \notin 1 .. i - 1 /\ At(Candidates, f) # i
          BY <2>1, <2>4, <4>1
        <4>3. At(Candidates, m) < At(Candidates, f)
          <5> DEFINE k == At(Candidates, f)
                     l == At(Candidates, m)
          <5>1. k \in 1 .. Len(Candidates) /\ k \notin 1 .. i - 1 /\ k # i /\ l \in Nat /\ l <= i
            BY <2>3, <4>1, <4>2
          <5> HIDE DEF k, l
          <5>2. l < k
            BY <5>1
          <5> QED
            BY <5>2 DEF k, l
        <4>4. key(f) = <<2, At(Candidates, f)>>
          BY <1>2, <3>2
        <4> QED
          BY <1>3, <2>2, <3>1, <4>3, <4>4 DEF Sooner
      <3>3. CASE f \notin C
        <4>1. key(f) = <<3, 0>>
          BY <1>2, <3>3
        <4> QED
          BY <1>3, <2>2, <3>1, <4>1 DEF Sooner
      <3> QED
        BY <3>2, <3>3
    <2>5. Best(Sorted(bs, default, {}), fit) = m
      <3> HIDE DEF fit, m
      <3> QED
        BY <1>1, <2>2, <2>4, FirstOffered
    <2>6. StableFallback(bs, default) = Best(Candidates, fit)
      BY <1>1, <1>4 DEF StableFallback
    <2> QED
      BY <2>2, <2>5, <2>6
  <1>5. CASE C \cap fit = {}
    <2>1. PICK i \in 1 .. Len(bs) : bs[i] \in fit /\ \A j \in 1 .. i - 1 : bs[j] \notin fit
      <3>1. Among(bs) \cap fit # {}
        OBVIOUS
      <3> HIDE DEF fit
      <3> QED
        BY <3>1, FirstIn
    <2> DEFINE m == bs[i]
    <2>2. m \in fit /\ Best(bs, fit) = m
      <3> HIDE DEF fit
      <3> QED
        BY <2>1, BestIs
    <2>3. ASSUME NEW f \in fit, f # m PROVE Precedes(bs, default, {}, m, f)
      <3>1. key(m) = <<3, 0>> /\ key(f) = <<3, 0>>
        BY <1>2, <1>5, <2>2
      <3>2. At(bs, f) \in 1 .. Len(bs) /\ bs[At(bs, f)] = f
        BY AtIsFirst
      <3>3. At(bs, m) \in 1 .. Len(bs) /\ At(bs, m) <= i
        BY <2>2, AtIsFirst
      <3>4. At(bs, f) \notin 1 .. i - 1 /\ At(bs, f) # i
        BY <2>1, <2>3, <3>2
      <3>5. At(bs, m) < At(bs, f)
        <4> DEFINE k == At(bs, f)
                   l == At(bs, m)
        <4>1. k \in 1 .. Len(bs) /\ k \notin 1 .. i - 1 /\ k # i /\ l \in 1 .. Len(bs) /\ l <= i
          BY <3>2, <3>3, <3>4
        <4> HIDE DEF k, l
        <4>2. l < k
          BY <4>1
        <4> QED
          BY <4>2 DEF k, l
      <3> QED
        BY <1>3, <2>2, <3>1, <3>5
    <2>4. Best(Sorted(bs, default, {}), fit) = m
      <3> HIDE DEF fit, m
      <3> QED
        BY <1>1, <2>2, <2>3, FirstOffered
    <2>5. StableFallback(bs, default) = Best(bs, fit)
      BY <1>1, <1>5 DEF StableFallback
    <2> QED
      BY <2>2, <2>4, <2>5
  <1> QED
    BY <1>4, <1>5

(* The fallback does not depend on the order of the branches, where a      *)
(* candidate is among them.                                                *)
LEMMA FallbackOfSame ==
    ASSUME NEW bs, NEW cs, Among(cs) = Among(bs), NEW default,
           Among(Candidates) \cap (Among(bs) \ Generated) # {}
    PROVE  StableFallback(cs, default) = StableFallback(bs, default)
  BY DEF StableFallback

(* For all names, candidates, listings and worktrees: every branch is      *)
(* offered once, the default first, the generated ones last; and the       *)
(* fallback that is announced is the one that is offered first and the one *)
(* the code runner picks.                                                  *)
THEOREM OffersInOrder == Spec => []OfferedInOrder
  <1>1. OfferedInOrder
    <2> SUFFICES ASSUME NEW bs \in Listings, NEW default \in Names \cup {""},
                        NEW worktree \in {{}} \cup {{b} : b \in Names}
                 PROVE  LET out == Sorted(bs, default, worktree)
                            fit == Among(bs) \ Generated
                        IN /\ Len(out) = Len(bs) /\ Among(out) = Among(bs)
                           /\ default \in Among(bs) => out[1] = default
                           /\ \A i, j \in 1 .. Len(out) :
                                i < j /\ out[i] \in Generated /\ out[j] \in fit => out[i] = default
                           /\ default \in Generated /\ worktree = {} /\ fit # {} =>
                                StableFallback(bs, default) = Best(out, fit)
                           /\ Among(Candidates) \cap fit # {} =>
                                StableFallback(out, default) = StableFallback(bs, default)
      BY DEF OfferedInOrder
    <2> DEFINE out == Sorted(bs, default, worktree)
               fit == Among(bs) \ Generated
    <2>1. bs \in Seq(Names) /\ \A i, j \in 1 .. Len(bs) : bs[i] = bs[j] => i = j
      BY CatalogAssumption
    <2>2. Len(out) = Len(bs) /\ Among(out) = Among(bs)
      BY <2>1, SortedInOrder
    <2>3. default \in Among(bs) => out[1] = default
      BY <2>1, DefaultFirst
    <2>4. \A i, j \in 1 .. Len(out) :
            i < j /\ out[i] \in Generated /\ out[j] \in fit => out[i] = default
      BY <2>1, GeneratedLast
    <2>5. default \in Generated /\ worktree = {} /\ fit # {} => StableFallback(bs, default) = Best(out, fit)
      BY <2>1, FallbackOffered
    <2>6. Among(Candidates) \cap fit # {} => StableFallback(out, default) = StableFallback(bs, default)
      <3> HIDE DEF out
      <3> QED
        BY <2>2, FallbackOfSame
    <2> QED
      BY <2>2, <2>3, <2>4, <2>5, <2>6
  <1> QED
    BY <1>1, PTL
=============================================================================

-------------------------- MODULE SlackDeliveryProofs --------------------------
(***************************************************************************)
(* Proofs about SlackDelivery: for any number of processes, attempts and   *)
(* rotations the store has the newest token or somebody knows why not, and *)
(* only an unanswered attempt puts a message into the thread twice.        *)
(***************************************************************************)
EXTENDS SlackDelivery, TLAPS

(* What a process holds: a result only at the end, no more unanswered      *)
(* attempts than attempts, the tokens its next step needs.                 *)
Letter(r) ==
    /\ r \in Process
    /\ r.at # "done" => r.result = None
    /\ r.at \in {"rotate", "save", "send"} => r.gen \in Gens
    /\ r.at = "save" => r.new \in Gens
    /\ r.at = "send" => r.unanswered <= r.attempt
    /\ r.posted <= r.unanswered + (IF r.result = "sent" THEN 1 ELSE 0)
    /\ r.result = "sent" => r.posted > 0

LetterInv == \A p \in Processes : Letter(ps[p])

(* One process at most saves a token, the newest, which the store does not *)
(* have; a process that asks for one came from the store.                  *)
TokenInv ==
    /\ stored <= newest
    /\ \A p \in Processes : Doing(p, "rotate") => ps[p].gen <= stored
    /\ \A p \in Processes : Doing(p, "save") => ps[p].new = newest /\ stored < newest
    /\ \A p, q \in Processes : Doing(p, "save") /\ Doing(q, "save") => p = q
    /\ StoredIsNewest

IInv == TypeOK /\ LetterInv /\ TokenInv

(* An idle process.                                                        *)
LEMMA IdleLetter == Letter(Idle) /\ Idle.at = "idle"
  BY DeliveryAssumption DEF Letter, Idle, Process, Gens

(* A process about to send a message it has not attempted yet.             *)
LEMMA SendLetter ==
    ASSUME NEW g \in Gens, NEW r, r = [Idle EXCEPT !.at = "send", !.gen = g]
    PROVE  Letter(r) /\ r.at = "send"
  <1>1. 0 \in 0 .. MaxRetries /\ 0 \in 0 .. MaxRetries + 1
    BY DeliveryAssumption
  <1>2. /\ r \in Process /\ r.at = "send" /\ r.gen = g /\ r.result = None
        /\ r.posted = 0 /\ r.unanswered = 0 /\ r.attempt = 0
    BY <1>1 DEF Idle, Process
  <1> QED
    BY <1>2, DeliveryAssumption DEF Letter

(* A step of one process keeps the others what they are.                   *)
LEMMA OneProcess ==
    ASSUME NEW p \in Processes, NEW r, TypeOK, LetterInv, Letter(r), ps' = [ps EXCEPT ![p] = r]
    PROVE  /\ ps' \in [Processes -> Process] /\ LetterInv'
           /\ ps'[p] = r /\ \A q \in Processes : q # p => ps'[q] = ps[q]
  <1>1. r \in Process /\ ps \in [Processes -> Process]
    BY DEF Letter, TypeOK
  <1>2. ps' \in [Processes -> Process]
    BY <1>1
  <1>3. ps'[p] = r /\ \A q \in Processes : q # p => ps'[q] = ps[q]
    BY <1>1
  <1>4. LetterInv'
    <2>1. SUFFICES ASSUME NEW q \in Processes PROVE Letter(ps'[q])
      BY DEF LetterInv
    <2>2. CASE q = p
      BY <1>3, <2>2
    <2>3. CASE q # p
      BY <1>3, <2>3 DEF LetterInv
    <2> QED
      BY <2>2, <2>3
  <1> QED
    BY <1>2, <1>3, <1>4

(* The numbers of the generations.                                         *)
LEMMA Numbers == TypeOK => stored \in Int /\ newest \in Int /\ stored \in Gens /\ newest \in Gens
  BY DeliveryAssumption DEF TypeOK, Gens

(* A process that neither rotates nor saves afterwards, and whose token    *)
(* was not the newest before, leaves the tokens in order.                  *)
LEMMA TokensKept ==
    ASSUME NEW p \in Processes, NEW r, IInv, Letter(r), ps' = [ps EXCEPT ![p] = r],
           UNCHANGED <<stored, newest>>, lost' \in BOOLEAN,
           r.at = "rotate" => r.gen <= stored,
           r.at # "save", lost => lost', Doing(p, "save") => lost'
    PROVE  LetterInv' /\ TokenInv' /\ ps' \in [Processes -> Process]
  <1>1. /\ ps' \in [Processes -> Process] /\ LetterInv'
        /\ ps'[p] = r /\ \A q \in Processes : q # p => ps'[q] = ps[q]
    BY OneProcess DEF IInv
  <1>2. \A q \in Processes : Doing(q, "save")' => q # p /\ Doing(q, "save") /\ ps'[q] = ps[q]
    BY <1>1 DEF Doing
  <1>3. \A q \in Processes : Doing(q, "rotate")' => ps'[q].gen <= stored
    BY <1>1 DEF Doing, IInv, TokenInv
  <1>4. StoredIsNewest'
    <2>1. CASE Doing(p, "save") \/ lost
      BY <2>1 DEF StoredIsNewest
    <2>2. CASE ~Doing(p, "save") /\ ~lost
      <3>1. stored = newest \/ \E q \in Processes : q # p /\ Doing(q, "save") /\ ps[q].new = newest
        BY <2>2 DEF IInv, TokenInv, StoredIsNewest
      <3> QED
        BY <1>1, <3>1 DEF StoredIsNewest, Doing
    <2> QED
      BY <2>1, <2>2
  <1> QED
    BY <1>1, <1>2, <1>3, <1>4 DEF IInv, TokenInv

(* Everything is in order at the start.                                    *)
LEMMA InitInv == Init => IInv
  <1> SUFFICES ASSUME Init PROVE IInv
    OBVIOUS
  <1>1. \A p \in Processes : ps[p] = Idle
    BY DEF Init
  <1>2. LetterInv
    BY <1>1, IdleLetter DEF LetterInv
  <1>3. TypeOK
    <2>1. Idle \in Process
      BY IdleLetter DEF Letter
    <2>2. 0 \in Gens /\ 0 \in 0 .. Life /\ Life \in 0 .. Life
      BY DeliveryAssumption DEF Gens
    <2>3. left \in [Gens -> 0 .. Life]
      BY <2>2 DEF Init
    <2> QED
      BY <2>1, <2>2, <2>3 DEF Init, TypeOK
  <1>4. TokenInv
    BY <1>1, IdleLetter DEF Init, TokenInv, Doing, StoredIsNewest
  <1> QED
    BY <1>2, <1>3, <1>4 DEF IInv

(* A message is about to be posted: with the stored token or after a       *)
(* rotation.                                                               *)
LEMMA PostInv ==
    ASSUME IInv, NEW p \in Processes, Post(p)
    PROVE  IInv'
  <1>0. TypeOK /\ Letter(ps[p])
    BY DEF IInv, LetterInv
  <1>1. stored \in Gens /\ newest \in Gens /\ stored \in Int /\ ps[p] \in Process /\ Letter(ps[p]) /\ lost \in BOOLEAN
    <2>1. ps[p] \in Process /\ lost \in BOOLEAN
      BY <1>0 DEF TypeOK
    <2>2. stored \in Gens /\ newest \in Gens /\ stored \in Int
      BY <1>0, Numbers
    <2> QED
      BY <1>0, <2>1, <2>2
  <1>2. PICK r : ps' = [ps EXCEPT ![p] = r] /\ Letter(r) /\ (r.at = "rotate" => r.gen <= stored) /\ r.at # "save"
    <2>1. CASE left[stored] > Early
      <3> DEFINE r == [Idle EXCEPT !.at = "send", !.gen = stored]
      <3>1. ps' = [ps EXCEPT ![p] = r]
        BY <2>1 DEF Post, Send
      <3>2. Letter(r) /\ r.at = "send"
        BY <1>1, SendLetter
      <3> HIDE DEF r
      <3> QED
        BY <3>1, <3>2
    <2>2. CASE ~(left[stored] > Early)
      <3> DEFINE r == [ps[p] EXCEPT !.at = "rotate", !.gen = stored]
      <3>1. ps' = [ps EXCEPT ![p] = r]
        BY <2>2 DEF Post
      <3>2. ps[p].at = "idle" /\ ps[p].result = None
        BY <1>1 DEF Post, Doing, Letter
      <3>3. r \in Process /\ r.at = "rotate" /\ r.gen = stored /\ r.result = None
            /\ r.posted = ps[p].posted /\ r.unanswered = ps[p].unanswered
        BY <1>1, <3>2 DEF Process
      <3>4. Letter(r)
        BY <1>1, <3>2, <3>3 DEF Letter
      <3>5. r.gen <= stored /\ r.at # "save"
        BY <1>1, <3>3
      <3> HIDE DEF r
      <3> QED
        BY <3>1, <3>4, <3>5
    <2> QED
      BY <2>1, <2>2
  <1>3. UNCHANGED <<stored, newest, left, lost>> /\ ~Doing(p, "save")
    BY DEF Post, Doing
  <1>4. LetterInv' /\ TokenInv' /\ ps' \in [Processes -> Process]
    BY <1>1, <1>2, <1>3, TokensKept
  <1> QED
    BY <1>3, <1>4 DEF IInv, TypeOK

(* A refused rotation goes on with the token there is.                     *)
LEMMA RefusedInv ==
    ASSUME IInv, NEW p \in Processes, Refused(p)
    PROVE  IInv'
  <1>1. ps[p].gen \in Gens /\ lost \in BOOLEAN
    BY DEF Refused, Doing, IInv, LetterInv, Letter, TypeOK
  <1> DEFINE r == [Idle EXCEPT !.at = "send", !.gen = ps[p].gen]
  <1>2. ps' = [ps EXCEPT ![p] = r] /\ Letter(r) /\ r.at = "send"
    BY <1>1, SendLetter DEF Refused, Send
  <1> HIDE DEF r
  <1>3. UNCHANGED <<stored, newest, left, lost>> /\ ~Doing(p, "save")
    BY DEF Refused, Doing
  <1>4. LetterInv' /\ TokenInv' /\ ps' \in [Processes -> Process]
    BY <1>1, <1>2, <1>3, TokensKept
  <1> QED
    BY <1>3, <1>4 DEF IInv, TypeOK

(* Slack issues a generation only for the stored one, when nobody saves.   *)
LEMMA RotateInv ==
    ASSUME IInv, NEW p \in Processes, Rotate(p)
    PROVE  IInv'
  <1>1. /\ stored \in Gens /\ newest \in Gens /\ stored \in Int /\ newest \in Int /\ MaxGen \in Int
        /\ ps[p] \in Process /\ Letter(ps[p]) /\ ps \in [Processes -> Process]
    BY Numbers, DeliveryAssumption DEF IInv, TypeOK, LetterInv
  <1>2. ps[p].gen = newest /\ ps[p].at = "rotate" /\ ps[p].gen <= stored /\ stored <= newest
    BY DEF Rotate, Doing, IInv, TokenInv
  <1>3. stored = newest /\ newest' = newest + 1 /\ stored' = stored /\ newest' \in Gens
    BY <1>1, <1>2 DEF Rotate, Gens
  <1>4. \A q \in Processes : ~Doing(q, "save")
    BY <1>1, <1>3 DEF IInv, TokenInv
  <1>5. left' \in [Gens -> 0 .. Life]
    <2>1. Life \in 0 .. Life
      BY DeliveryAssumption
    <2> QED
      BY <1>3, <2>1 DEF Rotate, IInv, TypeOK
  <1>6. stored' < newest' /\ stored' <= newest'
    BY <1>1, <1>3
  <1>7. CASE ps' = [ps EXCEPT ![p].at = "save", ![p].new = newest'] /\ UNCHANGED lost
    <2> DEFINE r == [ps[p] EXCEPT !.at = "save", !.new = newest']
    <2>1. ps' = [ps EXCEPT ![p] = r]
      BY <1>7
    <2>2. ps[p].gen \in Gens /\ ps[p].result = None
      BY <1>1, <1>2 DEF Letter
    <2>3. r \in Process /\ r.at = "save" /\ r.new = newest' /\ r.gen = ps[p].gen /\ r.result = None
          /\ r.posted = ps[p].posted /\ r.unanswered = ps[p].unanswered
      BY <1>1, <1>3, <2>2 DEF Process
    <2>4. Letter(r)
      BY <1>1, <1>3, <2>2, <2>3 DEF Letter
    <2>5. /\ ps' \in [Processes -> Process] /\ LetterInv'
          /\ ps'[p] = r /\ \A q \in Processes : q # p => ps'[q] = ps[q]
      BY <2>1, <2>4, OneProcess DEF IInv
    <2>6. \A q \in Processes : Doing(q, "save")' => q = p
      BY <1>4, <2>5 DEF Doing
    <2>7. \A q \in Processes : Doing(q, "rotate")' => ps'[q].gen <= stored'
      BY <1>3, <2>3, <2>5 DEF Doing, IInv, TokenInv
    <2>8. TokenInv'
      BY <1>6, <2>3, <2>5, <2>6, <2>7 DEF TokenInv, StoredIsNewest, Doing
    <2> QED
      BY <1>1, <1>3, <1>5, <1>7, <2>5, <2>8 DEF IInv, TypeOK
  <1>8. CASE Send(p, ps[p].gen) /\ lost' = TRUE
    <2>1. PICK r : ps' = [ps EXCEPT ![p] = r] /\ Letter(r) /\ r.at = "send"
      BY <1>1, <1>2, <1>8, SendLetter DEF Send
    <2>2. /\ ps' \in [Processes -> Process] /\ LetterInv'
          /\ ps'[p] = r /\ \A q \in Processes : q # p => ps'[q] = ps[q]
      BY <2>1, OneProcess DEF IInv
    <2>3. \A q \in Processes : ~Doing(q, "save")'
      BY <1>4, <2>1, <2>2 DEF Doing
    <2>4. \A q \in Processes : Doing(q, "rotate")' => ps'[q].gen <= stored'
      BY <1>3, <2>1, <2>2 DEF Doing, IInv, TokenInv
    <2>5. TokenInv'
      BY <1>6, <1>8, <2>3, <2>4 DEF TokenInv, StoredIsNewest
    <2> QED
      BY <1>1, <1>3, <1>5, <1>8, <2>2, <2>5 DEF IInv, TypeOK
  <1> QED
    BY <1>7, <1>8 DEF Rotate

(* The newest token is stored, or lost.                                    *)
LEMMA SaveInv ==
    ASSUME IInv, NEW p \in Processes, Save(p)
    PROVE  IInv'
  <1>1. /\ stored \in Gens /\ newest \in Gens /\ stored \in Int /\ newest \in Int
        /\ ps[p].new = newest /\ stored < newest /\ ps[p].at = "save"
    BY Numbers DEF IInv, TokenInv, Save, Doing
  <1>2. PICK r : ps' = [ps EXCEPT ![p] = r] /\ Letter(r) /\ r.at = "send"
    BY <1>1, SendLetter DEF Save, Send
  <1>3. newest' = newest /\ left' = left
    BY DEF Save
  <1>4. CASE lost' = TRUE /\ UNCHANGED stored
    <2>1. LetterInv' /\ TokenInv' /\ ps' \in [Processes -> Process]
      BY <1>2, <1>3, <1>4, TokensKept
    <2> QED
      BY <1>3, <1>4, <2>1 DEF IInv, TypeOK
  <1>5. CASE stored' = ps[p].new /\ UNCHANGED lost
    <2>1. /\ ps' \in [Processes -> Process] /\ LetterInv'
          /\ ps'[p] = r /\ \A q \in Processes : q # p => ps'[q] = ps[q]
      BY <1>2, OneProcess DEF IInv
    <2>2. \A q \in Processes : ~Doing(q, "save")'
      BY <1>1, <1>2, <2>1 DEF Doing, IInv, TokenInv
    <2>3. \A q \in Processes : Doing(q, "rotate")' => ps'[q].gen <= stored'
      <3>1. SUFFICES ASSUME NEW q \in Processes, Doing(q, "rotate")' PROVE ps'[q].gen <= stored'
        OBVIOUS
      <3>2. q # p /\ ps'[q] = ps[q] /\ ps[q].at = "rotate"
        BY <1>2, <2>1, <3>1 DEF Doing
      <3>3. ps[q].gen \in Gens /\ ps[q].gen <= stored
        BY <3>2 DEF IInv, LetterInv, Letter, TokenInv, Doing
      <3> QED
        BY <1>1, <1>5, <3>2, <3>3 DEF Gens
    <2>4. TokenInv'
      BY <1>1, <1>3, <1>5, <2>2, <2>3 DEF TokenInv, StoredIsNewest
    <2> QED
      BY <1>1, <1>3, <1>5, <2>1, <2>4 DEF IInv, TypeOK
  <1> QED
    BY <1>4, <1>5 DEF Save

(* An attempt was answered: the message stands there once more, or Slack   *)
(* does not want it.                                                       *)
LEMMA AnsweredInv ==
    ASSUME IInv, NEW p \in Processes, Answered(p)
    PROVE  IInv'
  <1>1. Letter(ps[p]) /\ ps[p] \in Process /\ ps[p].at = "send" /\ lost \in BOOLEAN
        /\ UNCHANGED <<stored, newest, left, lost>>
    BY DEF IInv, LetterInv, Letter, Answered, Doing, TypeOK
  <1>2. /\ ps[p].result = None /\ ps[p].unanswered <= ps[p].attempt /\ ps[p].posted <= ps[p].unanswered
        /\ ps[p].attempt \in 0 .. MaxRetries /\ ps[p].posted \in Nat /\ ps[p].unanswered \in Nat /\ None # "sent"
        /\ ps[p].posted + 1 \in 0 .. MaxRetries + 1
    BY <1>1, DeliveryAssumption DEF Letter, Process
  <1>3. PICK r : ps' = [ps EXCEPT ![p] = r] /\ Letter(r) /\ r.at = "done"
    <2>1. CASE ps' = [ps EXCEPT ![p] = [End(p, "sent") EXCEPT !.posted = @ + 1]]
      <3> DEFINE r == [End(p, "sent") EXCEPT !.posted = @ + 1]
      <3>1. r \in Process /\ r.at = "done" /\ r.result = "sent" /\ r.posted = ps[p].posted + 1
            /\ r.unanswered = ps[p].unanswered
        BY <1>1, <1>2 DEF End, Process
      <3>2. Letter(r)
        BY <1>2, <3>1 DEF Letter
      <3> QED
        BY <2>1, <3>1, <3>2
    <2>2. CASE ps' = [ps EXCEPT ![p] = End(p, "failed")]
      <3> DEFINE r == End(p, "failed")
      <3>1. r \in Process /\ r.at = "done" /\ r.result = "failed" /\ r.posted = ps[p].posted
            /\ r.unanswered = ps[p].unanswered
        BY <1>1, <1>2 DEF End, Process
      <3>2. Letter(r)
        BY <1>2, <3>1 DEF Letter
      <3> QED
        BY <2>2, <3>1, <3>2
    <2> QED
      BY <2>1, <2>2 DEF Answered
  <1>4. LetterInv' /\ TokenInv' /\ ps' \in [Processes -> Process]
    <2>1. ~Doing(p, "save")
      BY <1>1 DEF Doing
    <2> QED
      BY <1>1, <1>3, <2>1, TokensKept
  <1> QED
    BY <1>1, <1>4 DEF IInv, TypeOK

(* What Retry makes of a process that sends.                               *)
LEMMA RetryLetter ==
    ASSUME NEW p \in Processes, Letter(ps[p]), ps[p].at = "send", NEW n \in 0 .. 2
    PROVE  Letter(Retry(p, n)) /\ Retry(p, n).at \in {"send", "done"}
  <1> DEFINE seen == IF n = 0 THEN ps[p] ELSE [ps[p] EXCEPT !.posted = @ + n - 1, !.unanswered = @ + 1]
  <1>1. /\ ps[p] \in Process /\ ps[p].result = None /\ ps[p].unanswered <= ps[p].attempt
        /\ ps[p].posted <= ps[p].unanswered /\ ps[p].attempt \in 0 .. MaxRetries
        /\ ps[p].posted \in Nat /\ ps[p].unanswered \in Nat /\ None # "sent" /\ MaxRetries \in Nat
        /\ ps[p].gen \in Gens
    BY DeliveryAssumption DEF Letter, Process
  <1>2. /\ seen \in Process /\ seen.result = None /\ seen.posted <= seen.unanswered /\ seen.at = "send"
        /\ seen.unanswered <= ps[p].attempt + 1 /\ seen.attempt = ps[p].attempt /\ seen.gen = ps[p].gen
    <2>1. CASE n = 0
      BY <1>1, <2>1
    <2>2. CASE n # 0
      <3>1. seen = [ps[p] EXCEPT !.posted = @ + n - 1, !.unanswered = @ + 1]
        BY <2>2
      <3>2. /\ ps[p].posted + n - 1 \in 0 .. MaxRetries + 1 /\ ps[p].unanswered + 1 \in 0 .. MaxRetries + 1
            /\ ps[p].posted + n - 1 <= ps[p].unanswered + 1 /\ ps[p].unanswered + 1 <= ps[p].attempt + 1
        BY <1>1, <2>2
      <3>3. seen \in Process /\ seen.posted = ps[p].posted + n - 1 /\ seen.unanswered = ps[p].unanswered + 1
            /\ seen.at = ps[p].at /\ seen.result = ps[p].result /\ seen.attempt = ps[p].attempt
            /\ seen.gen = ps[p].gen
        BY <1>1, <3>1, <3>2 DEF Process
      <3> QED
        BY <1>1, <3>2, <3>3
    <2> QED
      BY <2>1, <2>2
  <1>3. seen.posted \in Nat /\ seen.unanswered \in Nat
    <2> HIDE DEF seen
    <2>1. seen.posted \in 0 .. MaxRetries + 1 /\ seen.unanswered \in 0 .. MaxRetries + 1
      BY <1>2 DEF Process
    <2> QED
      BY <1>1, <2>1
  <1>4. CASE ps[p].attempt = MaxRetries
    <2> DEFINE r == [seen EXCEPT !.at = "done", !.result = "failed"]
    <2>1. Retry(p, n) = r
      BY <1>4 DEF Retry
    <2>2. r \in Process /\ r.at = "done" /\ r.result = "failed" /\ r.posted = seen.posted
          /\ r.unanswered = seen.unanswered
      BY <1>2 DEF Process
    <2>3. Letter(r)
      BY <1>2, <1>3, <2>2 DEF Letter
    <2> QED
      BY <2>1, <2>2, <2>3
  <1>5. CASE ps[p].attempt # MaxRetries
    <2> DEFINE r == [seen EXCEPT !.attempt = @ + 1]
    <2>1. Retry(p, n) = r
      BY <1>5 DEF Retry
    <2>2. ps[p].attempt + 1 \in 0 .. MaxRetries
      BY <1>1, <1>5
    <2>3. r \in Process /\ r.at = "send" /\ r.result = None /\ r.posted = seen.posted
          /\ r.unanswered = seen.unanswered /\ r.attempt = ps[p].attempt + 1 /\ r.gen = seen.gen
      BY <1>2, <2>2 DEF Process
    <2>4. Letter(r)
      BY <1>1, <1>2, <1>3, <2>3 DEF Letter
    <2> QED
      BY <2>1, <2>3, <2>4
  <1> QED
    BY <1>4, <1>5

(* An attempt was not answered.                                            *)
LEMMA UnansweredInv ==
    ASSUME IInv, NEW p \in Processes, Unanswered(p)
    PROVE  IInv'
  <1>1. Letter(ps[p]) /\ ps[p].at = "send" /\ lost \in BOOLEAN /\ UNCHANGED <<stored, newest, left, lost>>
    BY DEF IInv, LetterInv, Unanswered, Doing, TypeOK
  <1>2. PICK n \in 0 .. 2 : ps' = [ps EXCEPT ![p] = Retry(p, n)]
    <2>1. PICK n \in 0 .. (IF left[ps[p].gen] > 0 THEN 2 ELSE 1) : ps' = [ps EXCEPT ![p] = Retry(p, n)]
      BY DEF Unanswered
    <2>2. n \in 0 .. 2
      OBVIOUS
    <2> QED
      BY <2>1, <2>2
  <1>3. Letter(Retry(p, n)) /\ Retry(p, n).at \in {"send", "done"}
    BY <1>1, RetryLetter
  <1>4. LetterInv' /\ TokenInv' /\ ps' \in [Processes -> Process]
    <2>1. ~Doing(p, "save")
      BY <1>1 DEF Doing
    <2> QED
      BY <1>1, <1>2, <1>3, <2>1, TokensKept
  <1> QED
    BY <1>1, <1>4 DEF IInv, TypeOK

(* A process is done, or dies.                                             *)
LEMMA RestInv ==
    ASSUME IInv, NEW p \in Processes, Done(p) \/ Die(p)
    PROVE  IInv'
  <1>1. /\ ps' = [ps EXCEPT ![p] = Idle] /\ UNCHANGED <<stored, newest, left>>
        /\ lost' \in BOOLEAN /\ (lost => lost') /\ (Doing(p, "save") => lost')
    BY DEF Done, Die, IInv, TypeOK, Doing
  <1>2. LetterInv' /\ TokenInv' /\ ps' \in [Processes -> Process]
    BY <1>1, IdleLetter, TokensKept
  <1> QED
    BY <1>1, <1>2 DEF IInv, TypeOK

(* Time goes by.                                                           *)
LEMMA TickInv ==
    ASSUME IInv, Tick \/ UNCHANGED vars
    PROVE  IInv'
  <1>1. UNCHANGED <<stored, newest, lost, ps>>
    BY DEF Tick, vars
  <1>2. left' \in [Gens -> 0 .. Life]
    BY DeliveryAssumption DEF Tick, vars, IInv, TypeOK
  <1>3. TypeOK'
    BY <1>1, <1>2 DEF IInv, TypeOK
  <1>4. LetterInv'
    BY <1>1 DEF IInv, LetterInv
  <1>5. TokenInv'
    BY <1>1 DEF IInv, TokenInv, Doing, StoredIsNewest
  <1> QED
    BY <1>3, <1>4, <1>5 DEF IInv

(* IInv holds in every state.                                              *)
THEOREM DeliveryInvariant == Spec => []IInv
  <1>1. IInv /\ [Next]_vars => IInv'
    <2> SUFFICES ASSUME IInv, [Next]_vars PROVE IInv'
      OBVIOUS
    <2> QED
      BY PostInv, RotateInv, RefusedInv, SaveInv, AnsweredInv, UnansweredInv, RestInv, TickInv DEF Next
  <1> QED
    BY InitInv, <1>1, PTL DEF Spec

(* Every variable keeps to its values; above all no process makes more     *)
(* attempts than slack_retry allows.                                       *)
THEOREM DeliveryTyped == Spec => []TypeOK
  <1>1. IInv => TypeOK
    BY DEF IInv
  <1> QED
    BY <1>1, DeliveryInvariant, PTL

(* However many processes rotate at once, the store holds the newest       *)
(* token, unless it is being saved or was lost.                            *)
THEOREM StoreKeepsNewest == Spec => []StoredIsNewest
  <1>1. IInv => StoredIsNewest
    BY DEF IInv, TokenInv
  <1> QED
    BY <1>1, DeliveryInvariant, PTL

(* Only an attempt without an answer puts a message into the thread twice, *)
(* and what is reported as sent is there.                                  *)
THEOREM OnlyUnansweredRepeat == Spec => []RepeatsOnlyTheUnanswered
  <1>1. IInv => RepeatsOnlyTheUnanswered
    BY DEF IInv, LetterInv, Letter, RepeatsOnlyTheUnanswered
  <1> QED
    BY <1>1, DeliveryInvariant, PTL
=============================================================================

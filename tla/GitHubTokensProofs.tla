--------------------------- MODULE GitHubTokensProofs ---------------------------
(***************************************************************************)
(* Proofs about GitHubTokens, for any number of threads, teams and         *)
(* installations.  A row that serves a request goes on serving it while    *)
(* the thread is on its way to read it: rows are replaced and touched, but *)
(* none that cannot be read comes before one that can.                     *)
(***************************************************************************)
EXTENDS GitHubTokens, TLAPS

(* What a thread may rely on, by what it is about to do.                   *)

ReadsServed(r) ==
    r.at = "read" =>
        /\ r.own /\ r.since <= connects /\ r.of \in Installations
        /\ r.since # 0 =>
            LET k == Best(r.team)
            IN /\ k \in Keys /\ rows[k] # None /\ rows[k].readable
               /\ r.team # "" => rows[k].token >= r.since

TouchesServed(r) ==
    r.at = "touch" =>
        /\ r.own /\ r.row \in Keys /\ rows[r.row] # None /\ rows[r.row].readable
        /\ r.token \in 1 .. MaxConnects
        /\ r.team # "" => r.token >= r.since

OnTeam(r) == r.row # None /\ r.team # "" => r.row \in {r.team, ""}

NeedsNoUser(r) == r.own => oauth # "required" /\ r.since = 0

Waits(r) ==
    r.at \in {"cache", "lock", "locked", "fetch", "fetched"} => r.of \in Installations /\ NeedsNoUser(r)

LastsLong(r) == r.at = "fetched" => r.left \in 0 .. Life /\ r.left + r.waited >= Life

Got(r) ==
    r.at = "done" =>
        /\ r.out \in Given
        /\ IF r.out.kind = "user"
           THEN r.own /\ (r.team # "" => r.out.row \in {r.team, ""} /\ r.out.token >= r.since)
           ELSE NeedsNoUser(r)
        /\ r.out.kind = "installation" => r.out.left > Margin

Good(r) ==
    /\ r \in Thread
    /\ ReadsServed(r) /\ TouchesServed(r) /\ OnTeam(r) /\ Waits(r) /\ LastsLong(r) /\ Got(r)
    /\ r.at = "ask" => r.row \in Keys

(* A row holds a token of a callback that was.                             *)
RowInv == \A k \in Keys : rows[k] # None => rows[k] \in Row /\ rows[k].token <= connects

ThreadInv == \A t \in Threads : Good(th[t])

IInv == TypeOK /\ RowInv /\ ThreadInv

-----------------------------------------------------------------------------
(* The bounds are numbers.                                                 *)
LEMMA Bounds == MaxConnects \in Nat /\ Life \in Nat /\ Margin \in Nat /\ Life > Margin + 1
  BY TokensAssumption

(* The newest row.                                                         *)

(* It serves the team it is looked up for.                                 *)
LEMMA NewestServes ==
    ASSUME NEW team
    PROVE  Newest(team) # None => Newest(team) \in Keys /\ Serves(Newest(team), team)
<1> DEFINE hits == {k \in Keys : Serves(k, team) /\ \A j \in Keys : <<j, k>> \in later => ~Serves(j, team)}
<1>1. CASE hits = {}
  BY <1>1 DEF Newest
<1>2. CASE hits # {}
  <2>1. Newest(team) = CHOOSE k \in hits : TRUE
    BY <1>2 DEF Newest
  <2>2. Newest(team) \in hits
    BY <1>2, <2>1
  <2> QED BY <2>2
<1> QED BY <1>1, <1>2

(* So does the best row, which is the team's own or the one without a team. *)
LEMMA BestServes ==
    ASSUME NEW team \in Keys
    PROVE  Best(team) # None =>
              /\ Best(team) \in Keys /\ Serves(Best(team), team) /\ rows[Best(team)] # None
              /\ team # "" => Best(team) \in {team, ""}
<1>1. Best(team) # None => Best(team) \in Keys /\ Serves(Best(team), team)
  BY NewestServes DEF Best
<1> QED BY <1>1 DEF Serves

(* A row that is written is the newest for those it serves; for the others *)
(* nothing changes.                                                        *)
LEMMA TouchedNewest ==
    ASSUME NEW k \in Keys, rows'[k] # None, \A j \in Keys : j # k => rows'[j] = rows[j],
           later \in SUBSET (Keys \X Keys), later' = Touched(k), NEW team \in Keys
    PROVE  Newest(team)' = IF team = "" \/ k \in {team, ""} THEN k ELSE Newest(team)
<1> DEFINE Hits == {i \in Keys : Serves(i, team) /\ \A j \in Keys : <<j, i>> \in later => ~Serves(j, team)}
<1>1. \A i \in Keys : i # k => Serves(i, team)' = Serves(i, team)
  BY DEF Serves
<1>2. /\ \A i, j \in Keys : i # k /\ j # k => (<<j, i>> \in later' <=> <<j, i>> \in later)
      /\ \A j \in Keys : <<j, k>> \notin later'
      /\ \A j \in Keys : j # k /\ rows[j] # None => <<k, j>> \in later'
  BY DEF Touched
<1>3. CASE team = "" \/ k \in {team, ""}
  <2>1. Serves(k, team)'
    BY <1>3 DEF Serves
  <2>2. k \in Hits'
    BY <1>2, <2>1
  <2>3. ASSUME NEW i \in Hits', i # k PROVE FALSE
    <3>1. i \in Keys /\ Serves(i, team) /\ rows[i] # None
      BY <1>1, <2>3 DEF Serves
    <3>2. <<k, i>> \in later'
      BY <1>2, <2>3, <3>1
    <3> QED BY <2>1, <2>3, <3>2
  <2>4. Hits' = {k}
    BY <2>2, <2>3
  <2>5. Newest(team)' = IF Hits' = {} THEN None ELSE CHOOSE i \in Hits' : TRUE
    BY DEF Newest
  <2> HIDE DEF Hits
  <2> QED BY <1>3, <2>4, <2>5
<1>4. CASE ~(team = "" \/ k \in {team, ""})
  <2>1. ~Serves(k, team) /\ ~Serves(k, team)'
    BY <1>4 DEF Serves
  <2>2. ASSUME NEW i \in Keys PROVE i \in Hits' <=> i \in Hits
    BY <1>1, <1>2, <2>1
  <2>3. Hits' = Hits
    BY <2>2
  <2>4. /\ Newest(team)' = IF Hits' = {} THEN None ELSE CHOOSE i \in Hits' : TRUE
        /\ Newest(team) = IF Hits = {} THEN None ELSE CHOOSE i \in Hits : TRUE
    BY DEF Newest
  <2> HIDE DEF Hits
  <2> QED BY <1>4, <2>3, <2>4
<1> QED BY <1>3, <1>4

(* A thread on its way to a readable row still finds one, of a token no    *)
(* older, when a readable row was written.                                 *)
LEMMA StillServed ==
    ASSUME IInv, NEW k \in Keys, rows'[k] # None, rows'[k].readable,
           rows[k] = rows'[k] \/ (rows'[k].token \in Nat /\ rows'[k].token > connects),
           \A j \in Keys : j # k => rows'[j] = rows[j], later' = Touched(k),
           connects' \in Nat, connects' >= connects, UNCHANGED oauth,
           NEW r \in Thread, Good(r)
    PROVE  ReadsServed(r)'
<1> SUFFICES ASSUME r.at = "read" PROVE ReadsServed(r)'
  BY DEF ReadsServed
<1>1. r.team \in Keys /\ r.since \in Nat /\ connects \in Nat /\ r.own /\ r.since <= connects
  <2>1. r.team \in Keys /\ r.since \in 0 .. MaxConnects
    BY DEF Thread
  <2>2. connects \in 0 .. MaxConnects
    BY DEF IInv, TypeOK
  <2>3. r.own /\ r.since <= connects
    BY DEF Good, ReadsServed
  <2>4. r.since \in Nat /\ connects \in Nat
    BY <2>1, <2>2, Bounds
  <2> QED BY <2>1, <2>3, <2>4
<1>2. r.since <= connects' /\ r.of \in Installations
  <2>1. r.of \in Installations
    BY DEF Good, ReadsServed
  <2> QED BY <1>1, <2>1
<1> DEFINE c == Best(r.team)'
<1>3. ASSUME r.since # 0
      PROVE  /\ c \in Keys /\ rows'[c] # None /\ rows'[c].readable
             /\ r.team # "" => rows'[c].token >= r.since
  <2> DEFINE b == Best(r.team)
  <2>1. /\ b \in Keys /\ rows[b] # None /\ rows[b].readable
        /\ r.team # "" => rows[b].token >= r.since
    BY <1>3 DEF Good, ReadsServed
  <2>2. b # None /\ Serves(b, r.team) /\ (r.team # "" => b \in {r.team, ""})
    <3>1. b # None
      BY <2>1, TokensAssumption DEF Keys
    <3> QED BY <1>1, <3>1, BestServes
  <2>4. c \in {b, k}
    <3>1. CASE Serves(r.team, r.team)'
      <4>1. c = r.team
        BY <3>1 DEF Best
      <4>2. r.team # k => Serves(r.team, r.team)
        BY <1>1, <3>1 DEF Serves
      <4>3. r.team # k => b = r.team
        BY <4>2 DEF Best
      <4> QED BY <4>1, <4>3
    <3>2. CASE ~Serves(r.team, r.team)'
      <4>1. ~Serves(r.team, r.team)
        <5>1. r.team # k
          BY <3>2 DEF Serves
        <5>2. rows'[r.team] = rows[r.team]
          BY <1>1, <5>1
        <5> QED BY <3>2, <5>2 DEF Serves
      <4>2. c = Newest(r.team)' /\ b = Newest(r.team)
        BY <3>2, <4>1 DEF Best
      <4>3. later \in SUBSET (Keys \X Keys)
        BY DEF IInv, TypeOK
      <4>4. Newest(r.team)' \in {k, Newest(r.team)}
        BY <1>1, <4>3, TouchedNewest
      <4> QED BY <4>2, <4>4
    <3> QED BY <3>1, <3>2
  <2>5. CASE rows[k] = rows'[k]
    <3>1. rows'[b] = rows[b]
      BY <2>1, <2>5
    <3>2. CASE c = b
      BY <2>1, <3>1, <3>2
    <3>3. CASE c = k /\ c # b
      <4>1. r.team # "" => FALSE
        <5>1. ASSUME r.team # "" PROVE FALSE
          <6>1. ~Serves(r.team, r.team)'
            <7>1. ASSUME Serves(r.team, r.team)' PROVE FALSE
              <8>1. c = r.team
                BY <7>1 DEF Best
              <8>2. Serves(r.team, r.team)
                BY <1>1, <2>5, <3>3, <7>1, <8>1 DEF Serves
              <8>3. b = r.team
                BY <8>2 DEF Best
              <8> QED BY <3>3, <8>1, <8>3
            <7> QED BY <7>1
          <6>2. c = Newest(r.team)'
            BY <6>1 DEF Best
          <6>3. r.team # k
            BY <6>1 DEF Serves
          <6>4. ~Serves(r.team, r.team)
            BY <1>1, <6>1, <6>3 DEF Serves
          <6>5. b = Newest(r.team) /\ b # r.team
            BY <2>2, <6>4 DEF Best
          <6>6. b = ""
            BY <2>2, <5>1, <6>5
          <6>7. k # "" /\ k # r.team
            BY <3>3, <6>3, <6>6
          <6>8. Newest(r.team)' = Newest(r.team)
            <7>1. later \in SUBSET (Keys \X Keys)
              BY DEF IInv, TypeOK
            <7> QED BY <1>1, <5>1, <6>7, <7>1, TouchedNewest
          <6> QED BY <3>3, <6>2, <6>5, <6>8
        <5> QED BY <5>1
      <4> QED BY <3>3, <4>1
    <3> QED BY <2>4, <3>2, <3>3
  <2>6. CASE rows'[k].token > connects /\ rows'[k].token \in Nat
    <3>1. CASE c = k
      <4>1. rows'[k].token >= r.since
        BY <1>1, <2>6
      <4> QED BY <3>1, <4>1
    <3>2. CASE c # k
      <4>1. c = b /\ rows'[b] = rows[b]
        BY <2>1, <2>4, <3>2
      <4> QED BY <2>1, <4>1
    <3> QED BY <3>1, <3>2
  <2> HIDE DEF b, c
  <2> QED BY <2>5, <2>6, <1>1
<1> QED BY <1>1, <1>2, <1>3 DEF ReadsServed

(* What other threads rely on stays when a readable row is written.        *)
LEMMA OthersServed ==
    ASSUME IInv, NEW k \in Keys, rows'[k] # None, rows'[k].readable,
           rows[k] = rows'[k] \/ (rows'[k].token \in Nat /\ rows'[k].token > connects),
           \A j \in Keys : j # k => rows'[j] = rows[j], later' = Touched(k),
           connects' \in Nat, connects' >= connects, UNCHANGED oauth,
           NEW r \in Thread, Good(r)
    PROVE  Good(r)'
<1>1. ReadsServed(r)'
  BY StillServed
<1>2. TouchesServed(r)'
  BY DEF Good, TouchesServed
<1> QED BY <1>1, <1>2 DEF Good, OnTeam, NeedsNoUser, Waits, LastsLong, Got

(* So it does when no row is written.                                      *)
LEMMA Unmoved ==
    ASSUME UNCHANGED <<oauth, rows, later, connects>>
    PROVE  \A r : Good(r) => Good(r)'
<1>1. \A team : Newest(team)' = Newest(team)
  BY DEF Newest, Serves
<1>2. \A team : Best(team)' = Best(team)
  BY <1>1 DEF Best, Serves
<1> SUFFICES ASSUME NEW r, Good(r) PROVE Good(r)'
  OBVIOUS
<1>3. ReadsServed(r)'
  <2>1. Best(r.team)' = Best(r.team)
    BY <1>2
  <2>2. ReadsServed(r) /\ rows' = rows /\ connects' = connects
    BY DEF Good
  <2> QED BY <2>1, <2>2 DEF ReadsServed
<1> QED BY <1>3 DEF Good, TouchesServed, OnTeam, NeedsNoUser, Waits, LastsLong, Got

(* A step of one thread that writes no row.                                *)
LEMMA OneThread ==
    ASSUME IInv, NEW t \in Threads, NEW r, Good(r), th' = [th EXCEPT ![t] = r],
           cached' \in [Installations -> 0 .. Life \cup {None}], lock' \in Threads \cup {None},
           UNCHANGED <<oauth, mode, rows, later, connects>>
    PROVE  IInv'
<1>1. r \in Thread
  BY DEF Good
<1>2. TypeOK'
  BY <1>1 DEF IInv, TypeOK
<1>3. RowInv'
  BY DEF IInv, RowInv
<1>4. ThreadInv'
  <2> SUFFICES ASSUME NEW s \in Threads PROVE Good(th[s])'
    BY DEF ThreadInv
  <2>1. Good(th'[s])
    BY DEF IInv, TypeOK, ThreadInv
  <2>2. PICK x : x = th'[s]
    OBVIOUS
  <2>3. Good(x)'
    BY <2>1, <2>2, Unmoved
  <2> QED BY <2>2, <2>3
<1> QED BY <1>2, <1>3, <1>4 DEF IInv

(* An idle thread relies on nothing.                                       *)
LEMMA IdleGood == Good(Idle) /\ Idle \in Thread
<1>1. 0 \in 0 .. MaxConnects /\ 0 \in 0 .. 1 /\ "" \in Keys
  BY Bounds DEF Keys
<1>2. Idle \in Thread
  BY <1>1 DEF Idle, Thread
<1> QED BY <1>2 DEF Idle, Good, ReadsServed, TouchesServed, OnTeam, Waits, LastsLong, Got

(* The fields of a thread.                                                 *)
LEMMA Fields ==
    ASSUME NEW r \in Thread
    PROVE  /\ r.team \in Keys /\ r.own \in BOOLEAN /\ r.of \in Installations \cup {None}
           /\ r.row \in Keys \cup {None} /\ r.token \in 0 .. MaxConnects
           /\ r.left \in 0 .. Life \cup {None} /\ r.waited \in 0 .. 1 /\ r.since \in 0 .. MaxConnects
           /\ r.out \in Given \cup {None}
  BY DEF Thread

(* A thread that gets its token.                                           *)
LEMMA GiveGood ==
    ASSUME IInv, NEW t \in Threads, NEW out \in Given, Give(t, out),
           IF out.kind = "user"
           THEN th[t].own /\ (th[t].team # "" => out.row \in {th[t].team, ""} /\ out.token >= th[t].since)
           ELSE NeedsNoUser(th[t]),
           out.kind = "installation" => out.left > Margin
    PROVE  \E r : Good(r) /\ th' = [th EXCEPT ![t] = r] /\ r.at = "done"
<1> DEFINE r == [Idle EXCEPT !.at = "done", !.team = th[t].team, !.own = th[t].own, !.of = th[t].of,
                             !.since = th[t].since, !.out = out]
<1>1. th[t] \in Thread
  BY DEF IInv, TypeOK
<1>2. /\ r \in Thread /\ r.at = "done" /\ r.team = th[t].team /\ r.own = th[t].own
      /\ r.since = th[t].since /\ r.out = out /\ r.row = None
  BY <1>1, Fields, IdleGood DEF Idle, Thread
<1>3. th' = [th EXCEPT ![t] = r]
  BY DEF Give
<1> HIDE DEF r
<1>4. Got(r)
  BY <1>2 DEF Got, NeedsNoUser
<1>5. Good(r)
  BY <1>2, <1>4 DEF Good, ReadsServed, TouchesServed, OnTeam, Waits, LastsLong
<1> QED BY <1>2, <1>3, <1>5

-----------------------------------------------------------------------------
(* The actions.                                                            *)

(* At first there are no rows and nobody asks.                             *)
LEMMA InitInv == Init => IInv
<1> SUFFICES ASSUME Init PROVE IInv
  OBVIOUS
<1>1. TypeOK
  <2>1. Idle \in Thread /\ 0 \in 0 .. MaxConnects
    BY IdleGood, Bounds
  <2> QED BY <2>1 DEF Init, TypeOK
<1>2. RowInv
  BY DEF Init, RowInv
<1>3. ThreadInv
  BY IdleGood DEF Init, ThreadInv
<1> QED BY <1>1, <1>2, <1>3 DEF IInv

(* Touching a row relates rows.                                            *)
LEMMA TouchedTyped ==
    ASSUME NEW k \in Keys, later \in SUBSET (Keys \X Keys)
    PROVE  Touched(k) \in SUBSET (Keys \X Keys)
  BY DEF Touched

(* A thread that goes on to the tokens that are shared.                    *)
LEMMA SharedInv ==
    ASSUME IInv, NEW t \in Threads, NEW a \in Thread, OnTeam(a), NeedsNoUser(a), a.of \in Installations,
           Shared(t, a), UNCHANGED <<oauth, mode, rows, later, connects, cached, lock>>
    PROVE  IInv'
<1>0. cached' \in [Installations -> 0 .. Life \cup {None}] /\ lock' \in Threads \cup {None}
  BY DEF IInv, TypeOK
<1> DEFINE pat == [kind |-> "pat"]
<1>1. CASE th' = [th EXCEPT ![t] = [a EXCEPT !.at = "done", !.out = pat]]
  <2> DEFINE r == [a EXCEPT !.at = "done", !.out = pat]
  <2>1. pat \in Given /\ pat.kind = "pat"
    BY DEF Given
  <2> HIDE DEF pat
  <2>2. /\ r \in Thread /\ r.at = "done" /\ r.out = pat /\ r.row = a.row /\ r.team = a.team
        /\ r.own = a.own /\ r.since = a.since
    BY <2>1, Fields DEF Thread
  <2>3. th' = [th EXCEPT ![t] = r]
    BY <1>1
  <2> HIDE DEF r
  <2>4. Good(r)
    BY <2>1, <2>2 DEF Good, ReadsServed, TouchesServed, OnTeam, Waits, LastsLong, Got, NeedsNoUser
  <2> QED BY <1>0, <2>3, <2>4, OneThread
<1>2. CASE th' = [th EXCEPT ![t] = [a EXCEPT !.at = "cache"]]
  <2> DEFINE r == [a EXCEPT !.at = "cache"]
  <2>1. /\ r \in Thread /\ r.at = "cache" /\ r.row = a.row /\ r.team = a.team
        /\ r.own = a.own /\ r.since = a.since /\ r.of = a.of
    BY Fields DEF Thread
  <2>2. th' = [th EXCEPT ![t] = r]
    BY <1>2
  <2> HIDE DEF r
  <2>3. Good(r)
    BY <2>1 DEF Good, ReadsServed, TouchesServed, OnTeam, Waits, LastsLong, Got, NeedsNoUser
  <2> QED BY <1>0, <2>2, <2>3, OneThread
<1>3. CASE Fail(t)
  BY <1>0, <1>3, IdleGood, OneThread DEF Fail
<1> QED BY <1>1, <1>2, <1>3 DEF Shared

(* Without a user's token, where one is not required.                      *)
LEMMA WithoutUserInv ==
    ASSUME IInv, NEW t \in Threads, NEW a \in Thread, OnTeam(a), a.since = 0, a.of \in Installations,
           WithoutUser(t, a), UNCHANGED <<oauth, mode, rows, later, connects, cached, lock>>
    PROVE  IInv'
<1>0. cached' \in [Installations -> 0 .. Life \cup {None}] /\ lock' \in Threads \cup {None}
  BY DEF IInv, TypeOK
<1>1. CASE oauth = "required"
  BY <1>0, <1>1, IdleGood, OneThread DEF WithoutUser, Fail
<1>2. CASE oauth # "required"
  BY <1>2, SharedInv DEF WithoutUser, NeedsNoUser
<1> QED BY <1>1, <1>2

(* What a caller asks for.                                                 *)
LEMMA AskedTyped ==
    ASSUME NEW team \in Keys, NEW own \in BOOLEAN, NEW i \in Installations, NEW since \in 0 .. MaxConnects,
           NEW a, a = Asked(team, own, i, since)
    PROVE  /\ a \in Thread /\ OnTeam(a) /\ a.at = "idle" /\ a.team = team /\ a.own = own
           /\ a.of = i /\ a.since = since /\ a.row = None
  BY IdleGood, Fields DEF Asked, Idle, Thread, OnTeam

(* A request for any team, of any age.                                     *)
LEMMA NoUser == "" \in Keys /\ 0 \in 0 .. MaxConnects
  BY Bounds DEF Keys

(* What it asks for.                                                       *)
LEMMA PlainTyped ==
    ASSUME NEW own \in BOOLEAN, NEW i \in Installations
    PROVE  \A a : a = Asked("", own, i, 0) =>
                a \in Thread /\ OnTeam(a) /\ a.own = own /\ a.of = i /\ a.since = 0
<1>1. \A team \in Keys, n \in 0 .. MaxConnects : \A a :
        a = Asked(team, own, i, n) => a \in Thread /\ OnTeam(a) /\ a.own = own /\ a.of = i /\ a.since = n
  BY AskedTyped
<1> QED BY <1>1, NoUser, Zenon

(* A request starts on the way to the row that serves it best.             *)
LEMMA GetTokenInv ==
    ASSUME IInv, NEW t \in Threads, NEW team \in Keys, NEW i \in Installations,
           NEW own \in BOOLEAN, NEW actor \in BOOLEAN, GetToken(t, team, i, own, actor)
    PROVE  IInv'
<1> DEFINE k == Best(team)
           since == IF k # None /\ rows[k].readable THEN rows[k].token ELSE 0
           plain == Asked("", own, i, 0)
           full == Asked(team, own, i, since)
<1>0. /\ cached' \in [Installations -> 0 .. Life \cup {None}] /\ lock' \in Threads \cup {None}
      /\ UNCHANGED <<oauth, mode, rows, later, connects, cached, lock>>
  BY DEF IInv, TypeOK, GetToken
<1>1. k # None => k \in Keys /\ rows[k] # None /\ rows[k].token \in 1 .. MaxConnects /\ rows[k].token <= connects
  <2> SUFFICES ASSUME k # None
               PROVE  k \in Keys /\ rows[k] # None /\ rows[k].token \in 1 .. MaxConnects /\ rows[k].token <= connects
    OBVIOUS
  <2>1. k \in Keys /\ rows[k] # None
    BY BestServes
  <2>2. rows[k] \in Row /\ rows[k].token <= connects
    BY <2>1 DEF IInv, RowInv
  <2> QED BY <2>1, <2>2 DEF Row
<1>2. since \in 0 .. MaxConnects /\ since <= connects
  <2>1. connects \in Nat
    BY Bounds DEF IInv, TypeOK
  <2> QED BY <1>1, <2>1, Bounds
<1>3. /\ plain \in Thread /\ OnTeam(plain) /\ plain.own = own /\ plain.of = i /\ plain.since = 0
  BY PlainTyped
<1>4. CASE (~own \/ oauth = "off") /\ Shared(t, plain)
  <2>1. NeedsNoUser(plain)
    BY <1>3, <1>4 DEF NeedsNoUser
  <2> HIDE DEF plain
  <2> QED BY <1>0, <1>3, <1>4, <2>1, SharedInv
<1>5. CASE WithoutUser(t, plain)
  <2> HIDE DEF plain
  <2> QED BY <1>0, <1>3, <1>5, WithoutUserInv
<1>6. CASE own /\ th' = [th EXCEPT ![t] = [full EXCEPT !.at = "read"]]
  <2> DEFINE r == [full EXCEPT !.at = "read"]
  <2>1. /\ full \in Thread /\ OnTeam(full) /\ full.team = team /\ full.own = own
        /\ full.of = i /\ full.since = since /\ full.row = None
    <3> HIDE DEF since
    <3> QED BY <1>2, AskedTyped
  <2> HIDE DEF full
  <2>2. /\ r \in Thread /\ r.at = "read" /\ r.team = team /\ r.own = own
        /\ r.of = i /\ r.since = since /\ r.row = None
    BY <2>1, Fields DEF Thread
  <2>3. th' = [th EXCEPT ![t] = r]
    BY <1>6
  <2> HIDE DEF r
  <2>4. ReadsServed(r)
    <3>1. ASSUME since # 0 PROVE k # None /\ rows[k].readable /\ since = rows[k].token
      BY <3>1
    <3>2. since # 0 => k \in Keys /\ rows[k] # None /\ rows[k].readable /\ (team # "" => rows[k].token >= since)
      <4> SUFFICES ASSUME since # 0
                   PROVE  k \in Keys /\ rows[k] # None /\ rows[k].readable /\ (team # "" => rows[k].token >= since)
        OBVIOUS
      <4>1. k # None /\ rows[k].readable /\ since = rows[k].token
        BY <3>1
      <4>2. k \in Keys /\ rows[k] # None /\ rows[k].token \in Nat
        BY <1>1, <4>1, Bounds
      <4>3. rows[k].token >= since
        <5> HIDE DEF since, k
        <5> QED BY <4>1, <4>2
      <4> HIDE DEF since, k
      <4> QED BY <4>1, <4>2, <4>3
    <3> HIDE DEF since
    <3> QED BY <1>2, <1>6, <2>2, <3>2 DEF ReadsServed
  <2>5. Good(r)
    BY <2>2, <2>4 DEF Good, TouchesServed, OnTeam, Waits, LastsLong, Got
  <2> QED BY <1>0, <2>3, <2>5, OneThread
<1> QED BY <1>4, <1>5, <1>6 DEF GetToken

(* It finds the row, or there was none when it was made.                   *)
LEMMA ReadInv ==
    ASSUME IInv, NEW t \in Threads, Read(t)
    PROVE  IInv'
<1> DEFINE a == th[t]
           k == Best(a.team)
<1>0. /\ cached' \in [Installations -> 0 .. Life \cup {None}] /\ lock' \in Threads \cup {None}
      /\ UNCHANGED <<oauth, mode, rows, later, connects, cached, lock>>
  BY DEF IInv, TypeOK, Read
<1>1. /\ a \in Thread /\ Good(a) /\ ReadsServed(a) /\ a.at = "read" /\ OnTeam(a)
      /\ a.team \in Keys /\ a.since \in 0 .. MaxConnects
  BY Fields DEF IInv, TypeOK, ThreadInv, Good, Read, Doing
<1>2. /\ a.own /\ a.of \in Installations
      /\ a.since # 0 => k \in Keys /\ rows[k] # None /\ rows[k].readable
                        /\ (a.team # "" => rows[k].token >= a.since)
  BY <1>1 DEF ReadsServed
<1>3. CASE k = None \/ ~rows[k].readable
  <2>1. a.since = 0
    <3>1. None \notin Keys
      BY TokensAssumption DEF Keys
    <3> QED BY <1>2, <1>3, <3>1
  <2>2. WithoutUser(t, a)
    BY <1>3 DEF Read
  <2> HIDE DEF a
  <2> QED BY <1>0, <1>1, <1>2, <2>1, <2>2, WithoutUserInv
<1>4. CASE k # None /\ rows[k].readable
  <2> DEFINE r == [a EXCEPT !.at = "touch", !.row = k, !.token = rows[k].token]
  <2>1. th' = [th EXCEPT ![t] = r]
    <3>1. th' = [th EXCEPT ![t].at = "touch", ![t].row = k, ![t].token = rows[k].token]
      BY <1>4 DEF Read
    <3> HIDE DEF k
    <3> QED BY <3>1 DEF IInv, TypeOK
  <2>2. /\ k \in Keys /\ rows[k] # None /\ (a.team # "" => k \in {a.team, ""})
    BY <1>1, <1>4, BestServes
  <2>3. rows[k].token \in 1 .. MaxConnects
    BY <2>2 DEF IInv, RowInv, Row
  <2>4. a.team # "" => rows[k].token >= a.since
    <3>1. a.since = 0 => rows[k].token >= a.since
      BY <2>3, Bounds
    <3> QED BY <1>2, <3>1
  <2> HIDE DEF k, a
  <2>5. /\ r \in Thread /\ r.at = "touch" /\ r.row = k /\ r.token = rows[k].token
        /\ r.team = a.team /\ r.own = a.own /\ r.since = a.since
    <3>1. rows[k].token \in 0 .. MaxConnects
      BY <2>3, Bounds
    <3> DEFINE n == rows[k].token
    <3>2. n \in 0 .. MaxConnects
      BY <3>1
    <3> HIDE DEF n
    <3>3. LET s == [a EXCEPT !.at = "touch", !.row = k, !.token = n]
          IN /\ s \in Thread /\ s.at = "touch" /\ s.row = k /\ s.token = n
             /\ s.team = a.team /\ s.own = a.own /\ s.since = a.since
      BY <1>1, <2>2, <3>2, Fields DEF Thread
    <3> QED BY <3>3 DEF n
  <2> HIDE DEF r
  <2>6. TouchesServed(r)
    BY <1>2, <1>4, <2>2, <2>3, <2>4, <2>5 DEF TouchesServed
  <2>7. Good(r)
    BY <2>2, <2>5, <2>6 DEF Good, ReadsServed, OnTeam, Waits, LastsLong, Got
  <2> QED BY <1>0, <2>1, <2>7, OneThread
<1> QED BY <1>3, <1>4

(* It marks the row it uses, and nobody else is worse off.                 *)
LEMMA TouchInv ==
    ASSUME IInv, NEW t \in Threads, Touch(t)
    PROVE  IInv'
<1> DEFINE a == th[t]
           k == a.row
           out == [kind |-> "user", row |-> k, token |-> a.token]
<1>1. /\ a \in Thread /\ Good(a) /\ a.own /\ k \in Keys /\ rows[k] # None /\ rows[k].readable
      /\ a.token \in 1 .. MaxConnects /\ OnTeam(a)
      /\ a.team # "" => a.token >= a.since
  BY DEF IInv, TypeOK, ThreadInv, Good, Touch, Doing, TouchesServed
<1>2. out \in Given
  BY <1>1 DEF Given
<1>3. PICK r : Good(r) /\ th' = [th EXCEPT ![t] = r] /\ r.at = "done"
  <2>1. out.kind = "user" /\ out.row = k /\ out.token = a.token
    OBVIOUS
  <2>2. Give(t, out)
    BY DEF Touch
  <2>3. a.team # "" => k \in {a.team, ""}
    <3>1. k # None
      BY <1>1, TokensAssumption DEF Keys
    <3> QED BY <1>1, <3>1 DEF OnTeam
  <2> HIDE DEF out
  <2> QED BY <1>1, <1>2, <2>1, <2>2, <2>3, GiveGood
<1>4. /\ later' = Touched(k) /\ rows' = rows /\ connects' = connects /\ connects' \in Nat
      /\ UNCHANGED <<oauth, mode, cached, lock>> /\ connects' >= connects
  <2>1. connects \in Nat
    BY Bounds DEF IInv, TypeOK
  <2> QED BY <2>1 DEF Touch
<1> HIDE DEF out
<1>5. TypeOK'
  <2>1. Touched(k) \in SUBSET (Keys \X Keys)
    BY <1>1, TouchedTyped DEF IInv, TypeOK
  <2>2. r \in Thread
    BY <1>3 DEF Good
  <2> QED BY <1>3, <1>4, <2>1, <2>2 DEF IInv, TypeOK
<1>6. RowInv'
  BY <1>4 DEF IInv, RowInv
<1>7. \A x \in Thread : Good(x) => Good(x)'
  <2> SUFFICES ASSUME NEW x \in Thread, Good(x) PROVE Good(x)'
    OBVIOUS
  <2>1. rows'[k] # None /\ rows'[k].readable /\ rows[k] = rows'[k] /\ \A j \in Keys : j # k => rows'[j] = rows[j]
    BY <1>1, <1>4
  <2> HIDE DEF k
  <2> QED BY <1>1, <1>4, <2>1, OthersServed
<1>8. ThreadInv'
  <2> SUFFICES ASSUME NEW s \in Threads PROVE Good(th[s])'
    BY DEF ThreadInv
  <2>1. Good(th'[s])
    BY <1>3 DEF IInv, TypeOK, ThreadInv
  <2>2. PICK x : x = th'[s]
    OBVIOUS
  <2>3. Good(x)'
    BY <1>7, <2>1, <2>2 DEF Good
  <2> QED BY <2>2, <2>3
<1> QED BY <1>5, <1>6, <1>8 DEF IInv

(* A callback stores the newest token.                                     *)
LEMMA ConnectInv ==
    ASSUME IInv, NEW k \in Keys, Connect(k)
    PROVE  IInv'
<1> DEFINE new == [token |-> connects', readable |-> TRUE]
<1>1. connects \in Nat /\ connects' = connects + 1 /\ connects < MaxConnects /\ MaxConnects \in Nat
  BY Bounds DEF IInv, TypeOK, Connect
<1>2. connects' \in 1 .. MaxConnects /\ connects' \in 0 .. MaxConnects /\ connects' >= connects
      /\ connects' > connects /\ connects' \in Nat
  BY <1>1
<1>3. new \in Row /\ new # None /\ new.readable /\ new.token = connects'
  <2> DEFINE n == connects'
  <2>1. n \in 1 .. MaxConnects
    BY <1>2
  <2> HIDE DEF n
  <2>2. [token |-> n, readable |-> TRUE] \in Row
    BY <2>1 DEF Row
  <2> QED BY <2>2, NoneAssumption DEF n
<1>4. /\ rows' = [rows EXCEPT ![k] = new] /\ later' = Touched(k)
      /\ UNCHANGED <<oauth, mode, cached, lock, th>>
  BY DEF Connect
<1> HIDE DEF new
<1>5. rows'[k] = new /\ \A j \in Keys : j # k => rows'[j] = rows[j]
  BY <1>4 DEF IInv, TypeOK
<1>6. TypeOK'
  <2>1. Touched(k) \in SUBSET (Keys \X Keys)
    BY TouchedTyped DEF IInv, TypeOK
  <2> QED BY <1>2, <1>3, <1>4, <2>1 DEF IInv, TypeOK
<1>7. RowInv'
  <2> SUFFICES ASSUME NEW j \in Keys, rows'[j] # None PROVE rows'[j] \in Row /\ rows'[j].token <= connects'
    BY DEF RowInv
  <2>1. CASE j = k
    BY <1>2, <1>3, <1>5, <2>1
  <2>2. CASE j # k
    <3>1. rows[j] \in Row /\ rows[j].token <= connects /\ rows'[j] = rows[j]
      BY <1>5, <2>2 DEF IInv, RowInv
    <3>2. rows[j].token \in 1 .. MaxConnects
      BY <3>1 DEF Row
    <3>3. rows[j].token <= connects'
      BY <1>1, <3>1, <3>2
    <3> QED BY <3>1, <3>3
  <2> QED BY <2>1, <2>2
<1>8. ThreadInv'
  <2> SUFFICES ASSUME NEW s \in Threads PROVE Good(th[s])'
    BY DEF ThreadInv
  <2>1. Good(th[s]) /\ th[s] \in Thread
    BY DEF IInv, TypeOK, ThreadInv
  <2>2. PICK x : x = th[s]
    OBVIOUS
  <2>3. rows'[k] # None /\ rows'[k].readable /\ rows'[k].token \in Nat /\ rows'[k].token > connects
    BY <1>2, <1>3, <1>5
  <2>4. Good(x)'
    BY <1>2, <1>4, <1>5, <2>1, <2>2, <2>3, OthersServed
  <2> QED BY <1>4, <2>2, <2>4
<1> QED BY <1>6, <1>7, <1>8 DEF IInv

(* A new process serves nobody yet.                                        *)
LEMMA RestartInv == ASSUME IInv, Restart PROVE IInv'
<1>1. \A k \in Keys : rows[k] # None => rows'[k] # None /\ rows'[k] \in Row /\ rows'[k].token = rows[k].token
  <2> SUFFICES ASSUME NEW k \in Keys, rows[k] # None
               PROVE  rows'[k] # None /\ rows'[k] \in Row /\ rows'[k].token = rows[k].token
    OBVIOUS
  <2>1. rows[k] \in Row
    BY DEF IInv, RowInv
  <2>2. rows'[k] \in {rows[k], [rows[k] EXCEPT !.readable = FALSE]}
    BY DEF Restart
  <2>3. rows'[k] \in Row /\ rows'[k].token = rows[k].token
    BY <2>1, <2>2 DEF Row
  <2> QED BY <2>3, NoneAssumption
<1>2. \A k \in Keys : rows[k] = None => rows'[k] = None
  BY DEF Restart
<1>3. TypeOK'
  <2>1. rows' \in [Keys -> Row \cup {None}]
    <3>1. rows' = [k \in Keys |-> rows'[k]]
      BY DEF Restart
    <3> QED BY <1>1, <1>2, <3>1
  <2> QED BY <2>1, IdleGood DEF IInv, TypeOK, Restart
<1>4. RowInv'
  BY <1>1, <1>2 DEF IInv, RowInv, Restart
<1>5. ThreadInv'
  <2> SUFFICES ASSUME NEW s \in Threads PROVE Good(th[s])'
    BY DEF ThreadInv
  <2>1. th'[s] = Idle
    BY DEF Restart
  <2>2. Good(Idle)'
    BY IdleGood DEF Good, ReadsServed, TouchesServed, OnTeam, Waits, LastsLong, Got, Idle
  <2> QED BY <2>1, <2>2
<1> QED BY <1>3, <1>4, <1>5 DEF IInv

(* A thread that moves on in _get_installation_token.                      *)
LEMMA MoveGood ==
    ASSUME IInv, NEW t \in Threads, NEW s \in {"lock", "locked", "fetch"}, Move(t, s),
           th[t].at \in {"cache", "lock", "locked"}
    PROVE  \E r : Good(r) /\ th' = [th EXCEPT ![t] = r]
<1> DEFINE a == th[t]
           r == [a EXCEPT !.at = s]
<1>1. a \in Thread /\ Good(a) /\ OnTeam(a) /\ a.of \in Installations /\ NeedsNoUser(a)
  BY DEF IInv, TypeOK, ThreadInv, Good, Waits
<1>2. th' = [th EXCEPT ![t] = r]
  BY DEF IInv, TypeOK, Move
<1> HIDE DEF a
<1>3. /\ r \in Thread /\ r.at = s /\ r.row = a.row /\ r.team = a.team /\ r.own = a.own
      /\ r.of = a.of /\ r.since = a.since
  BY <1>1, Fields DEF Thread
<1> HIDE DEF r
<1>4. Good(r)
  BY <1>1, <1>3 DEF Good, ReadsServed, TouchesServed, OnTeam, NeedsNoUser, Waits, LastsLong, Got
<1> QED BY <1>2, <1>4

(* A token of an installation that lasts.                                  *)
LEMMA GiveInstallation ==
    ASSUME IInv, NEW t \in Threads, NEW n \in 0 .. Life, n > Margin,
           th[t].at \in {"cache", "locked", "fetched"},
           Give(t, [kind |-> "installation", of |-> th[t].of, left |-> n])
    PROVE  \E r : Good(r) /\ th' = [th EXCEPT ![t] = r]
<1> DEFINE out == [kind |-> "installation", of |-> th[t].of, left |-> n]
<1>1. th[t].of \in Installations /\ NeedsNoUser(th[t])
  BY DEF IInv, ThreadInv, Good, Waits
<1>2. out \in Given /\ out.kind = "installation" /\ out.left = n
  BY <1>1 DEF Given
<1>3. Give(t, out)
  OBVIOUS
<1> HIDE DEF out
<1> QED BY <1>1, <1>2, <1>3, GiveGood

(* One that is cached and fresh does.                                      *)
LEMMA CachedGood ==
    ASSUME IInv, NEW t \in Threads, th[t].at \in {"cache", "locked"}, Fresh(th[t].of), GiveCached(t)
    PROVE  \E r : Good(r) /\ th' = [th EXCEPT ![t] = r]
<1> DEFINE n == cached[th[t].of]
<1>1. th[t].of \in Installations
  BY DEF IInv, ThreadInv, Good, Waits
<1>2. n \in 0 .. Life \cup {None} /\ n # None /\ n > Margin
  BY <1>1 DEF IInv, TypeOK, Fresh
<1>3. n \in 0 .. Life
  BY <1>2
<1>4. Give(t, [kind |-> "installation", of |-> th[t].of, left |-> n])
  BY DEF GiveCached
<1> HIDE DEF n
<1> QED BY <1>2, <1>3, <1>4, GiveInstallation

(* The cache, before and after the lock.                                   *)
LEMMA CacheInv ==
    ASSUME IInv, NEW t \in Threads, Cache(t) \/ Lock(t) \/ Locked(t)
    PROVE  IInv'
<1>1. /\ cached' \in [Installations -> 0 .. Life \cup {None}] /\ lock' \in Threads \cup {None}
      /\ UNCHANGED <<oauth, mode, rows, later, connects>>
  BY DEF IInv, TypeOK, Cache, Lock, Locked
<1>2. PICK r : Good(r) /\ th' = [th EXCEPT ![t] = r]
  <2>1. CASE Cache(t)
    BY <2>1, CachedGood, MoveGood DEF Cache, Doing
  <2>2. CASE Lock(t)
    BY <2>2, MoveGood DEF Lock, Doing
  <2>3. CASE Locked(t)
    BY <2>3, CachedGood, MoveGood DEF Locked, Doing
  <2> QED BY <2>1, <2>2, <2>3
<1> QED BY <1>1, <1>2, OneThread

(* GitHub's answer is a token for its whole life.                          *)
LEMMA FetchInv == ASSUME IInv, NEW t \in Threads, Fetch(t) PROVE IInv'
<1> DEFINE a == th[t]
           r == [a EXCEPT !.at = "fetched", !.left = Life, !.waited = 0]
<1>1. /\ cached' \in [Installations -> 0 .. Life \cup {None}] /\ lock' \in Threads \cup {None}
      /\ UNCHANGED <<oauth, mode, rows, later, connects>>
  BY DEF IInv, TypeOK, Fetch
<1>2. a \in Thread /\ Good(a) /\ OnTeam(a) /\ a.of \in Installations /\ NeedsNoUser(a)
  BY DEF IInv, TypeOK, ThreadInv, Good, Waits, Fetch, Doing
<1>3. CASE th' = [th EXCEPT ![t].at = "fetched", ![t].left = Life, ![t].waited = 0]
  <2>1. th' = [th EXCEPT ![t] = r]
    BY <1>3 DEF IInv, TypeOK
  <2> HIDE DEF a
  <2>2. Life \in 0 .. Life /\ 0 \in 0 .. 1 /\ Life + 0 >= Life
    BY Bounds
  <2>3. /\ r \in Thread /\ r.at = "fetched" /\ r.row = a.row /\ r.team = a.team /\ r.own = a.own
        /\ r.of = a.of /\ r.since = a.since /\ r.left = Life /\ r.waited = 0
    BY <1>2, <2>2, Fields DEF Thread
  <2> HIDE DEF r
  <2>4. LastsLong(r)
    BY <2>2, <2>3 DEF LastsLong
  <2>5. Good(r)
    BY <1>2, <2>3, <2>4 DEF Good, ReadsServed, TouchesServed, OnTeam, NeedsNoUser, Waits, Got
  <2> QED BY <1>1, <2>1, <2>5, OneThread
<1>4. CASE Fail(t)
  BY <1>1, <1>4, IdleGood, OneThread DEF Fail
<1> QED BY <1>3, <1>4 DEF Fetch

(* It is stored and given while it lasts.                                  *)
LEMMA FetchedInv == ASSUME IInv, NEW t \in Threads, Fetched(t) PROVE IInv'
<1> DEFINE n == th[t].left
<1>1. th[t] \in Thread /\ LastsLong(th[t]) /\ th[t].at = "fetched" /\ th[t].waited \in 0 .. 1
  BY Fields DEF IInv, TypeOK, ThreadInv, Good, Fetched, Doing
<1>2. n \in 0 .. Life /\ n > Margin
  <2>1. n \in 0 .. Life /\ n + th[t].waited >= Life
    BY <1>1 DEF LastsLong
  <2> QED BY <1>1, <2>1, Bounds
<1>3. /\ cached' \in [Installations -> 0 .. Life \cup {None}] /\ lock' \in Threads \cup {None}
      /\ UNCHANGED <<oauth, mode, rows, later, connects>>
  BY <1>2 DEF IInv, TypeOK, Fetched
<1>4. Give(t, [kind |-> "installation", of |-> th[t].of, left |-> n])
  BY DEF Fetched
<1> HIDE DEF n
<1>5. PICK r : Good(r) /\ th' = [th EXCEPT ![t] = r]
  BY <1>1, <1>2, <1>4, GiveInstallation
<1> QED BY <1>3, <1>5, OneThread

(* A thread that has used its token.                                       *)
LEMMA UsedInv == ASSUME IInv, NEW t \in Threads, Used(t) PROVE IInv'
<1>1. /\ cached' \in [Installations -> 0 .. Life \cup {None}] /\ lock' \in Threads \cup {None}
      /\ UNCHANGED <<oauth, mode, rows, later, connects>>
  BY DEF IInv, TypeOK, Used
<1> QED BY <1>1, IdleGood, OneThread DEF Used, Fail

(* What the user is told of a row that serves the team.                    *)
LEMMA TellInv ==
    ASSUME IInv, NEW t \in Threads, NEW team \in Keys, NEW k \in Keys \cup {None},
           k # None /\ team # "" => k \in {team, ""},
           NEW v \in {"connected", "expired", "unknown"}, Tell(t, team, k, v),
           UNCHANGED <<oauth, mode, rows, later, connects, cached, lock>>
    PROVE  IInv'
<1> DEFINE out == [kind |-> v]
           r == [Idle EXCEPT !.at = "told", !.team = team, !.row = k, !.out = out]
<1>1. out \in Given
  BY DEF Given
<1>2. th' = [th EXCEPT ![t] = r]
  BY DEF Tell
<1> HIDE DEF out
<1>3. r \in Thread /\ r.at = "told" /\ r.team = team /\ r.row = k
  BY <1>1, IdleGood, Fields DEF Idle, Thread
<1> HIDE DEF r
<1>4. Good(r)
  BY <1>3 DEF Good, ReadsServed, TouchesServed, OnTeam, Waits, LastsLong, Got
<1>5. cached' \in [Installations -> 0 .. Life \cup {None}] /\ lock' \in Threads \cup {None}
  BY DEF IInv, TypeOK
<1> QED BY <1>2, <1>4, <1>5, OneThread

(* The check looks at a row that serves the team.                          *)
LEMMA CheckInv ==
    ASSUME IInv, NEW t \in Threads, NEW team \in Keys, Check(t, team)
    PROVE  IInv'
<1> DEFINE k == Newest(team)
<1>1. UNCHANGED <<oauth, mode, rows, later, connects, cached, lock>>
  BY DEF Check
<1>2. None \in Keys \cup {None}
  OBVIOUS
<1>3. k # None => k \in Keys /\ rows[k] # None /\ (team # "" => k \in {team, ""})
  BY NewestServes DEF Serves
<1>4. CASE Tell(t, team, None, "unknown")
  BY <1>1, <1>2, <1>4, TellInv
<1>5. CASE k # None /\ Tell(t, team, k, "expired")
  <2> HIDE DEF k
  <2> QED BY <1>1, <1>3, <1>5, TellInv
<1>6. ASSUME k # None,
             th' = [th EXCEPT ![t] = [Idle EXCEPT !.at = "ask", !.team = team, !.row = k, !.token = rows[k].token]]
      PROVE  IInv'
  <2> DEFINE n == rows[k].token
             r == [Idle EXCEPT !.at = "ask", !.team = team, !.row = k, !.token = n]
  <2>1. n \in 0 .. MaxConnects
    <3>1. rows[k].token \in 1 .. MaxConnects
      BY <1>3, <1>6 DEF IInv, RowInv, Row
    <3> QED BY <3>1, Bounds
  <2>2. th' = [th EXCEPT ![t] = r]
    BY <1>6
  <2> HIDE DEF n, k
  <2>3. r \in Thread /\ r.at = "ask" /\ r.team = team /\ r.row = k
    BY <1>3, <1>6, <2>1, IdleGood, Fields DEF Idle, Thread
  <2> HIDE DEF r
  <2>4. Good(r)
    BY <1>3, <1>6, <2>3 DEF Good, ReadsServed, TouchesServed, OnTeam, Waits, LastsLong, Got
  <2>5. cached' \in [Installations -> 0 .. Life \cup {None}] /\ lock' \in Threads \cup {None}
    BY <1>1 DEF IInv, TypeOK
  <2> QED BY <1>1, <2>2, <2>4, <2>5, OneThread
<1> QED BY <1>4, <1>5, <1>6 DEF Check

(* GitHub's answer is about that row.                                      *)
LEMMA AnswerInv == ASSUME IInv, NEW t \in Threads, Answer(t) PROVE IInv'
<1> DEFINE a == th[t]
<1>1. a \in Thread /\ OnTeam(a) /\ a.row \in Keys /\ a.team \in Keys
  BY Fields DEF IInv, TypeOK, ThreadInv, Good, Answer, Doing
<1>2. a.row \in Keys \cup {None} /\ (a.row # None /\ a.team # "" => a.row \in {a.team, ""})
  BY <1>1 DEF OnTeam
<1>3. PICK v \in {"connected", "expired", "unknown"} : Tell(t, a.team, a.row, v)
  BY DEF Answer
<1>4. UNCHANGED <<oauth, mode, rows, later, connects, cached, lock>>
  BY DEF Answer
<1> HIDE DEF a
<1> QED BY <1>1, <1>2, <1>3, <1>4, TellInv

(* Tokens grow older by one tick at most while one is on its way.          *)
LEMMA TickInv == ASSUME IInv, Tick PROVE IInv'
<1>1. \A n \in 0 .. Life \cup {None} : Down(n) \in 0 .. Life \cup {None}
  <2> SUFFICES ASSUME NEW n \in 0 .. Life \cup {None} PROVE Down(n) \in 0 .. Life \cup {None}
    OBVIOUS
  <2>1. CASE n = None
    BY <2>1 DEF Down
  <2>2. CASE n # None /\ n \in 0 .. Life
    <3>1. (IF n > 0 THEN n - 1 ELSE 0) \in 0 .. Life
      BY <2>2, Bounds
    <3> QED BY <2>2, <3>1 DEF Down
  <2> QED BY <2>1, <2>2
<1>2. UNCHANGED <<oauth, mode, rows, later, connects, lock>>
  BY DEF Tick
<1>3. ASSUME NEW s \in Threads PROVE Good(th'[s])
  <2> DEFINE a == th[s]
             n == Down(a.left)
             r == [a EXCEPT !.left = n, !.waited = 1]
  <2>1. a \in Thread /\ Good(a)
    BY DEF IInv, TypeOK, ThreadInv
  <2>2. CASE ~Doing(s, "fetched")
    BY <2>1, <2>2 DEF Tick
  <2>3. CASE Doing(s, "fetched")
    <3>1. th'[s] = r
      BY <2>3 DEF Tick
    <3>2. a.at = "fetched" /\ a.waited = 0
      BY <2>3 DEF Tick, Doing
    <3>3. a.left = Life
      <4>1. a.left \in 0 .. Life /\ a.left + a.waited >= Life
        BY <2>1, <3>2 DEF Good, LastsLong
      <4> QED BY <3>2, <4>1, Bounds
    <3>4. n \in 0 .. Life /\ n + 1 >= Life
      <4>1. Life # None
        BY TokensAssumption
      <4>2. n = IF Life > 0 THEN Life - 1 ELSE 0
        BY <3>3, <4>1 DEF Down
      <4> HIDE DEF n
      <4> QED BY <4>2, Bounds
    <3> HIDE DEF n, a
    <3>5. 1 \in 0 .. 1
      OBVIOUS
    <3>6. /\ r \in Thread /\ r.at = "fetched" /\ r.row = a.row /\ r.team = a.team /\ r.own = a.own
          /\ r.of = a.of /\ r.since = a.since /\ r.left = n /\ r.waited = 1
      <4>1. n \in 0 .. Life \cup {None} /\ a \in Thread
        BY <2>1, <3>4
      <4>2. r \in Thread
        BY <3>5, <4>1 DEF Thread
      <4> QED BY <3>2, <4>1, <4>2 DEF Thread
    <3> HIDE DEF r
    <3>7. LastsLong(r)
      BY <3>4, <3>6 DEF LastsLong
    <3>8. Good(r)
      BY <2>1, <3>2, <3>6, <3>7 DEF Good, ReadsServed, TouchesServed, OnTeam, NeedsNoUser, Waits, Got
    <3> QED BY <3>1, <3>8
  <2> QED BY <2>2, <2>3
<1>4. TypeOK'
  <2>1. th' \in [Threads -> Thread]
    <3>1. th' = [s \in Threads |-> th'[s]]
      BY DEF Tick
    <3>2. \A s \in Threads : th'[s] \in Thread
      BY <1>3 DEF Good
    <3> QED BY <3>1, <3>2
  <2>2. cached' \in [Installations -> 0 .. Life \cup {None}]
    BY <1>1 DEF Tick, IInv, TypeOK
  <2> QED BY <1>2, <2>1, <2>2 DEF IInv, TypeOK
<1>5. RowInv'
  BY <1>2 DEF IInv, RowInv
<1>6. ThreadInv'
  <2> SUFFICES ASSUME NEW s \in Threads PROVE Good(th[s])'
    BY DEF ThreadInv
  <2>1. PICK x : x = th'[s]
    OBVIOUS
  <2>2. Good(x)'
    BY <1>2, <1>3, <2>1, Unmoved
  <2> QED BY <2>1, <2>2
<1> QED BY <1>4, <1>5, <1>6 DEF IInv

(* Nothing happens.                                                        *)
LEMMA StutterInv == ASSUME IInv, UNCHANGED vars PROVE IInv'
<1>1. TypeOK'
  BY DEF IInv, TypeOK, vars
<1>2. RowInv'
  BY DEF IInv, RowInv, vars
<1>3. ThreadInv'
  <2> SUFFICES ASSUME NEW s \in Threads PROVE Good(th[s])'
    BY DEF ThreadInv
  <2>1. PICK x : x = th[s] /\ x = th'[s] /\ Good(x)
    BY DEF IInv, ThreadInv, vars
  <2>2. Good(x)'
    BY <2>1, Unmoved DEF vars
  <2> QED BY <2>1, <2>2
<1> QED BY <1>1, <1>2, <1>3 DEF IInv

(* Every step keeps the invariant.                                         *)
LEMMA Inductive == IInv /\ [Next]_vars => IInv'
<1> SUFFICES ASSUME IInv, [Next]_vars PROVE IInv'
  OBVIOUS
<1>1. CASE UNCHANGED vars
  BY <1>1, StutterInv
<1>2. ASSUME NEW k \in Keys, Connect(k) PROVE IInv'
  BY <1>2, ConnectInv
<1>3. CASE Restart
  BY <1>3, RestartInv
<1>4. ASSUME NEW t \in Threads, NEW team \in Keys, NEW i \in Installations,
             NEW own \in BOOLEAN, NEW actor \in BOOLEAN, GetToken(t, team, i, own, actor)
      PROVE  IInv'
  BY <1>4, GetTokenInv
<1>5. ASSUME NEW t \in Threads, Read(t) \/ Touch(t) PROVE IInv'
  BY <1>5, ReadInv, TouchInv
<1>6. ASSUME NEW t \in Threads, Cache(t) \/ Lock(t) \/ Locked(t) PROVE IInv'
  BY <1>6, CacheInv
<1>7. ASSUME NEW t \in Threads, Fetch(t) \/ Fetched(t) \/ Used(t) \/ Answer(t) PROVE IInv'
  BY <1>7, FetchInv, FetchedInv, UsedInv, AnswerInv
<1>8. ASSUME NEW t \in Threads, NEW team \in Keys, Check(t, team) PROVE IInv'
  BY <1>8, CheckInv
<1>9. CASE Tick
  BY <1>9, TickInv
<1> QED BY <1>1, <1>2, <1>3, <1>4, <1>5, <1>6, <1>7, <1>8, <1>9 DEF Next

(* The invariant holds in every behaviour.                                 *)
LEMMA Invariant == Spec => []IInv
  BY InitInv, Inductive, PTL DEF Spec

-----------------------------------------------------------------------------
(* Type correctness, for any threads, teams and installations.             *)
THEOREM TokensTyped == Spec => []TypeOK
<1>1. IInv => TypeOK
  BY DEF IInv
<1> QED BY <1>1, Invariant, PTL

(* Every caller acts for its own user, with no token that was replaced     *)
(* when it asked, and without a user only where that is allowed.           *)
THEOREM TokensActForRequester == Spec => []ActsForRequester
<1>1. IInv => ActsForRequester
  <2> SUFFICES ASSUME IInv, NEW t \in Threads
               PROVE  /\ th[t].row # None /\ th[t].team # "" => th[t].row \in {th[t].team, ""}
                      /\ Doing(t, "done") =>
                          IF th[t].out.kind = "user"
                          THEN /\ th[t].own
                               /\ th[t].team # "" => /\ th[t].out.row \in {th[t].team, ""}
                                                     /\ th[t].out.token >= th[t].since
                          ELSE th[t].own => oauth # "required" /\ th[t].since = 0
    BY DEF ActsForRequester
  <2>1. OnTeam(th[t]) /\ Got(th[t])
    BY DEF IInv, ThreadInv, Good
  <2> QED BY <2>1 DEF OnTeam, Got, NeedsNoUser, Doing
<1> QED BY <1>1, Invariant, PTL

(* An installation's token lasts longer than the margin when it is given.  *)
THEOREM TokensLast == Spec => []TokenLasts
<1>1. IInv => TokenLasts
  BY DEF IInv, ThreadInv, Good, Got, TokenLasts, Doing
<1> QED BY <1>1, Invariant, PTL

(* No step brings back a token that a callback has replaced.               *)
THEOREM ReplacedNeverBack == Spec => NeverBack
<1>1. IInv /\ [Next]_vars => \A k \in Keys : rows[k] # None => rows'[k] # None /\ rows'[k].token >= rows[k].token
  <2> SUFFICES ASSUME IInv, [Next]_vars, NEW k \in Keys, rows[k] # None
               PROVE  rows'[k] # None /\ rows'[k].token >= rows[k].token
    OBVIOUS
  <2>0. rows[k] \in Row /\ rows[k].token \in Nat /\ rows[k].token <= connects /\ connects \in Nat
    <3>1. rows[k] \in Row /\ rows[k].token <= connects
      BY DEF IInv, RowInv
    <3>2. rows[k].token \in 1 .. MaxConnects
      BY <3>1 DEF Row
    <3>3. connects \in 0 .. MaxConnects
      BY DEF IInv, TypeOK
    <3> QED BY <3>1, <3>2, <3>3, Bounds
  <2>1. CASE rows' = rows
    BY <2>0, <2>1
  <2>2. ASSUME NEW j \in Keys, Connect(j) PROVE rows'[k] # None /\ rows'[k].token >= rows[k].token
    <3>1. IInv'
      BY <2>2, ConnectInv
    <3>2. CASE j = k
      <4> DEFINE n == connects'
                 new == [token |-> n, readable |-> TRUE]
      <4>1. rows'[k] = new /\ n = connects + 1 /\ n \in 1 .. MaxConnects
        <5>1. rows'[k] = new /\ n = connects + 1 /\ connects < MaxConnects
          BY <2>2, <3>2 DEF Connect, IInv, TypeOK
        <5> HIDE DEF n, new
        <5> QED BY <2>0, <5>1, Bounds
      <4> HIDE DEF n
      <4>2. new \in Row /\ new.token = n
        BY <4>1 DEF Row
      <4>3. new # None
        BY <4>2, NoneAssumption
      <4> HIDE DEF new
      <4>4. n >= rows[k].token
        BY <2>0, <4>1
      <4> QED BY <4>1, <4>2, <4>3, <4>4
    <3>3. CASE j # k
      <4>1. rows'[k] = rows[k]
        BY <2>2, <3>3 DEF Connect, IInv, TypeOK
      <4> QED BY <2>0, <4>1
    <3> QED BY <3>2, <3>3
  <2>3. CASE Restart
    <3>1. rows'[k] \in {rows[k], [rows[k] EXCEPT !.readable = FALSE]}
      BY <2>3 DEF Restart
    <3>2. rows'[k] \in Row /\ rows'[k].token = rows[k].token
      BY <2>0, <3>1 DEF Row
    <3>3. rows'[k] # None
      BY <3>2, NoneAssumption
    <3> QED BY <2>0, <3>2, <3>3
  <2> QED BY <2>1, <2>2, <2>3 DEF Next, vars, GetToken, Read, Touch, Cache, Lock, Locked, Fetch, Fetched,
                                  Used, Answer, Check, Tick
<1> QED BY <1>1, Invariant, PTL DEF Spec, NeverBack
=============================================================================

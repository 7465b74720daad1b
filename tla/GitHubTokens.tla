---------------------------- MODULE GitHubTokens ----------------------------
(***************************************************************************)
(* With which GitHub token the adapters and the intake act.  A Slack user  *)
(* connects GitHub accounts, one row for each Slack team and one, without  *)
(* a team, for all of them; without a usable one the requests act with the *)
(* access token of the deployment or with a token of the GitHub App, which *)
(* the threads of a process share and which expires.                       *)
(*                                                                         *)
(* One Slack user, whose rows meet; a token is the number of the callback  *)
(* that stored it.  A callback runs on the event loop of the one API       *)
(* process, so none overlaps another.                                      *)
(***************************************************************************)
EXTENDS Integers

CONSTANTS
    Threads,
    Teams,          \* the Slack teams the user is in
    Installations,  \* of the GitHub App
    Life, Margin,   \* of an installation's token, in ticks
    MaxConnects,    \* bounds the callbacks
    None

(* A request to GitHub times out in a tick.                                *)
ASSUME TokensAssumption ==
    /\ Life \in Nat /\ Margin \in Nat /\ Life > Margin + 1
    /\ MaxConnects \in Nat /\ "" \notin Teams
    /\ None \notin Nat /\ None \notin Teams \cup {""}

Keys == Teams \cup {""}

Row   == [token : 1 .. MaxConnects, readable : BOOLEAN]

ASSUME NoneAssumption == None \notin Row

VARIABLES
    oauth,      \* github_user_oauth_enabled, github_user_oauth_required_effective
    mode,       \* GITHUB_AUTH_MODE
    rows,       \* GitHubUserConnection: team or "" -> None or the row
    later,      \* <<j, k>>: row j was updated after row k
    connects,   \* the callbacks so far
    cached,     \* _cached_by_installation: None, or the ticks the token has left
    lock,       \* _lock
    th          \* thread -> what it does

vars == <<oauth, mode, rows, later, connects, cached, lock, th>>

Given == [kind : {"user"}, row : Keys, token : 1 .. MaxConnects]
            \cup [kind : {"installation"}, of : Installations, left : 0 .. Life]
            \cup [kind : {"pat", "connected", "expired", "unknown"}]

Idle ==
    [at |-> "idle", team |-> "", own |-> FALSE, of |-> None, row |-> None, token |-> 0,
     left |-> None, waited |-> 0, since |-> 0, out |-> None]

Thread ==
    [at : {"idle", "read", "touch", "cache", "lock", "locked", "fetch", "fetched", "done", "ask", "told"},
     team : Keys, own : BOOLEAN, of : Installations \cup {None}, row : Keys \cup {None}, token : 0 .. MaxConnects,
     left : 0 .. Life \cup {None}, waited : 0 .. 1, since : 0 .. MaxConnects,
     out : Given \cup {None}]

TypeOK ==
    /\ oauth \in {"off", "allowed", "required"} /\ mode \in {"pat", "app"}
    /\ rows \in [Keys -> Row \cup {None}]
    /\ later \in SUBSET (Keys \X Keys)
    /\ connects \in 0 .. MaxConnects
    /\ cached \in [Installations -> 0 .. Life \cup {None}]
    /\ lock \in Threads \cup {None}
    /\ th \in [Threads -> Thread]

Init ==
    /\ oauth \in {"off", "allowed", "required"} /\ mode \in {"pat", "app"}
    /\ rows = [k \in Keys |-> None]
    /\ later = {}
    /\ connects = 0
    /\ cached = [i \in Installations |-> None]
    /\ lock = None
    /\ th = [t \in Threads |-> Idle]

-----------------------------------------------------------------------------
(* What a query for a user's rows matches: those of the team and the row   *)
(* without one, or all of them when it names no team.                      *)

Serves(k, team) == rows[k] # None /\ (team # "" => k \in {team, ""})

Newest(team) ==
    LET hits == {k \in Keys : Serves(k, team) /\ \A j \in Keys : <<j, k>> \in later => ~Serves(j, team)}
    IN IF hits = {} THEN None ELSE CHOOSE k \in hits : TRUE

(* resolve_github_user_access_token: the team's own row first.             *)
Best(team) == IF Serves(team, team) THEN team ELSE Newest(team)

(* updated_at is set by every update of a row.                             *)
Touched(k) ==
    {p \in later : k \notin {p[1], p[2]}} \cup ({k} \X {j \in Keys \ {k} : rows[j] # None})

-----------------------------------------------------------------------------
(* complete_github_oauth_callback; one that fails stores nothing.          *)
Connect(k) ==
    /\ oauth # "off" /\ connects < MaxConnects
    /\ connects' = connects + 1
    /\ rows' = [rows EXCEPT ![k] = [token |-> connects', readable |-> TRUE]]
    /\ later' = Touched(k)
    /\ UNCHANGED <<oauth, mode, cached, lock, th>>

(* The process starts again, with another encryption key perhaps.          *)
Restart ==
    /\ \E same \in BOOLEAN :
        rows' = [k \in Keys |-> IF rows[k] = None \/ same THEN rows[k] ELSE [rows[k] EXCEPT !.readable = FALSE]]
    /\ cached' = [i \in Installations |-> None]
    /\ lock' = None
    /\ th' = [t \in Threads |-> Idle]
    /\ UNCHANGED <<oauth, mode, later, connects>>

-----------------------------------------------------------------------------
(* get_token and what it calls.                                            *)

Doing(t, s)  == th[t].at = s
Move(t, s)   == th' = [th EXCEPT ![t].at = s]
Give(t, out) ==
    th' = [th EXCEPT ![t] = [Idle EXCEPT !.at = "done", !.team = th[t].team, !.own = th[t].own, !.of = th[t].of,
                                !.since = th[t].since, !.out = out]]
Fail(t)      == th' = [th EXCEPT ![t] = Idle]

(* What a caller asks for.  own: a user's token will do.                   *)
Asked(team, own, i, since) == [Idle EXCEPT !.team = team, !.own = own, !.of = i, !.since = since]

(* The deployment's own token, or the installation that is configured or   *)
(* looked up, which may fail.                                              *)
Shared(t, asked) ==
    \/ mode = "pat" /\ th' = [th EXCEPT ![t] = [asked EXCEPT !.at = "done", !.out = [kind |-> "pat"]]]
    \/ mode = "app" /\ th' = [th EXCEPT ![t] = [asked EXCEPT !.at = "cache"]]
    \/ Fail(t)

(* Mutation: without a user token the deployment's is taken, whatever is   *)
(* required.                                                               *)
WithoutUserMutant(t, asked) == Shared(t, asked)

WithoutUser(t, asked) == IF oauth = "required" THEN Fail(t) ELSE Shared(t, asked)

(* actor: the caller names the user.                                       *)
GetToken(t, team, i, own, actor) ==
    /\ Doing(t, "idle")
    /\ LET k     == Best(team)
           since == IF k # None /\ rows[k].readable THEN rows[k].token ELSE 0
       IN IF ~own \/ oauth = "off" THEN Shared(t, Asked("", own, i, 0))
          ELSE IF actor THEN th' = [th EXCEPT ![t] = [Asked(team, own, i, since) EXCEPT !.at = "read"]]
          ELSE WithoutUser(t, Asked("", own, i, 0))
    /\ UNCHANGED <<oauth, mode, rows, later, connects, cached, lock>>

Read(t) ==
    /\ Doing(t, "read")
    /\ LET k == Best(th[t].team) IN
        IF k = None \/ ~rows[k].readable THEN WithoutUser(t, th[t])
        ELSE th' = [th EXCEPT ![t].at = "touch", ![t].row = k, ![t].token = rows[k].token]
    /\ UNCHANGED <<oauth, mode, rows, later, connects, cached, lock>>

(* Mutation: the whole row is written, as it was read.                     *)
TouchMutant(t) ==
    /\ Doing(t, "touch")
    /\ rows' = [rows EXCEPT ![th[t].row].token = th[t].token]
    /\ later' = Touched(th[t].row)
    /\ Give(t, [kind |-> "user", row |-> th[t].row, token |-> th[t].token])
    /\ UNCHANGED <<oauth, mode, connects, cached, lock>>

(* Only the time of use is written.                                        *)
Touch(t) ==
    /\ Doing(t, "touch")
    /\ later' = Touched(th[t].row)
    /\ Give(t, [kind |-> "user", row |-> th[t].row, token |-> th[t].token])
    /\ UNCHANGED <<oauth, mode, rows, connects, cached, lock>>

(* _get_installation_token.                                                *)
Fresh(i) == cached[i] # None /\ cached[i] > Margin

GiveCached(t) == Give(t, [kind |-> "installation", of |-> th[t].of, left |-> cached[th[t].of]])

Cache(t) ==
    /\ Doing(t, "cache")
    /\ IF Fresh(th[t].of) THEN GiveCached(t) ELSE Move(t, "lock")
    /\ UNCHANGED <<oauth, mode, rows, later, connects, cached, lock>>

Lock(t) ==
    /\ Doing(t, "lock") /\ lock = None
    /\ lock' = t
    /\ Move(t, "locked")
    /\ UNCHANGED <<oauth, mode, rows, later, connects, cached>>

(* Mutation: what is cached after the wait is taken to be fresh.           *)
LockedMutant(t) ==
    /\ Doing(t, "locked")
    /\ IF cached[th[t].of] # None THEN GiveCached(t) /\ lock' = None ELSE Move(t, "fetch") /\ UNCHANGED lock
    /\ UNCHANGED <<oauth, mode, rows, later, connects, cached>>

Locked(t) ==
    /\ Doing(t, "locked")
    /\ IF Fresh(th[t].of) THEN GiveCached(t) /\ lock' = None ELSE Move(t, "fetch") /\ UNCHANGED lock
    /\ UNCHANGED <<oauth, mode, rows, later, connects, cached>>

(* _fetch_installation_token.                                              *)
Fetch(t) ==
    /\ Doing(t, "fetch")
    /\ \/ th' = [th EXCEPT ![t].at = "fetched", ![t].left = Life, ![t].waited = 0] /\ UNCHANGED lock
       \/ Fail(t) /\ lock' = None
    /\ UNCHANGED <<oauth, mode, rows, later, connects, cached>>

Fetched(t) ==
    /\ Doing(t, "fetched")
    /\ cached' = [cached EXCEPT ![th[t].of] = th[t].left]
    /\ lock' = None
    /\ Give(t, [kind |-> "installation", of |-> th[t].of, left |-> th[t].left])
    /\ UNCHANGED <<oauth, mode, rows, later, connects>>

Used(t) ==
    /\ th[t].at \in {"done", "told"}
    /\ Fail(t)
    /\ UNCHANGED <<oauth, mode, rows, later, connects, cached, lock>>

-----------------------------------------------------------------------------
(* check_github_connection looks at the row that was updated last.         *)
Tell(t, team, k, v) ==
    th' = [th EXCEPT ![t] = [Idle EXCEPT !.at = "told", !.team = team, !.row = k, !.out = [kind |-> v]]]

Check(t, team) ==
    /\ Doing(t, "idle") /\ oauth # "off"
    /\ LET k == Newest(team) IN
        IF k = None THEN Tell(t, team, None, "unknown")
        ELSE IF ~rows[k].readable THEN Tell(t, team, k, "expired")
        ELSE th' = [th EXCEPT ![t] = [Idle EXCEPT !.at = "ask", !.team = team, !.row = k, !.token = rows[k].token]]
    /\ UNCHANGED <<oauth, mode, rows, later, connects, cached, lock>>

(* The token may be revoked, GitHub out of reach or the rate limited.      *)
Answer(t) ==
    /\ Doing(t, "ask")
    /\ \E v \in {"connected", "expired", "unknown"} : Tell(t, th[t].team, th[t].row, v)
    /\ UNCHANGED <<oauth, mode, rows, later, connects, cached, lock>>

-----------------------------------------------------------------------------
Down(n) == IF n = None THEN None ELSE IF n > 0 THEN n - 1 ELSE 0

Tick ==
    /\ mode = "app" /\ oauth # "required"
    /\ \A t \in Threads : Doing(t, "fetched") => th[t].waited = 0
    /\ cached' = [i \in Installations |-> Down(cached[i])]
    /\ th' = [t \in Threads |->
                IF Doing(t, "fetched") THEN [th[t] EXCEPT !.left = Down(@), !.waited = 1] ELSE th[t]]
    /\ UNCHANGED <<oauth, mode, rows, later, connects, lock>>

Next ==
    \/ \E k \in Keys : Connect(k)
    \/ Restart
    \/ \E t \in Threads, team \in Keys, i \in Installations, own, actor \in BOOLEAN :
        GetToken(t, team, i, own, actor)
    \/ \E t \in Threads :
        Read(t) \/ Touch(t) \/ Cache(t) \/ Lock(t) \/ Locked(t) \/ Fetch(t) \/ Fetched(t) \/ Used(t) \/ Answer(t)
    \/ \E t \in Threads, team \in Keys : Check(t, team)
    \/ Tick

Spec == Init /\ [][Next]_vars

-----------------------------------------------------------------------------
(* A request for a team, or a check of its connection, meets the rows of   *)
(* that team and of none, however the rows are touched meanwhile, and gets *)
(* no token that was replaced when it was made.  Where a user's token is   *)
(* required, a caller to whom one would do gets no other; where it is      *)
(* allowed, a user who was connected is not acted for by the deployment.   *)
ActsForRequester ==
    \A t \in Threads :
        /\ th[t].row # None /\ th[t].team # "" => th[t].row \in {th[t].team, ""}
        /\ Doing(t, "done") =>
            IF th[t].out.kind = "user"
            THEN /\ th[t].own
                 /\ th[t].team # "" => /\ th[t].out.row \in {th[t].team, ""}
                                       /\ th[t].out.token >= th[t].since
            ELSE th[t].own => oauth # "required" /\ th[t].since = 0

(* The installation's token a thread gets lasts longer than the margin,    *)
(* however long it waited for the lock and whatever became of the others'  *)
(* requests.                                                               *)
TokenLasts ==
    \A t \in Threads :
        Doing(t, "done") /\ th[t].out.kind = "installation" => th[t].out.left > Margin

(* A token that a reconnect has replaced does not come back, although      *)
(* whoever reads a row writes it too.                                      *)
NeverBack ==
    [][\A k \in Keys : rows[k] # None => rows'[k] # None /\ rows'[k].token >= rows[k].token]_vars
=============================================================================

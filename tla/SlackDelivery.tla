---------------------------- MODULE SlackDelivery ----------------------------
(***************************************************************************)
(* How the processes post to Slack: with the bot token of the workspace,   *)
(* which each of them rotates when it is about to expire, and with a few   *)
(* attempts for each message.                                              *)
(*                                                                         *)
(* One workspace with token rotation.  A rotation yields the next          *)
(* generation of access and refresh token; Slack takes only the newest     *)
(* refresh token and lets an access token live until it expires.           *)
(***************************************************************************)
EXTENDS Integers, FiniteSets

CONSTANTS
    Processes,
    Life, Early,   \* of an access token, TOKEN_ROTATION_EARLY_REFRESH_MINUTES, in ticks
    MaxRetries,    \* MAX_RETRIES
    MaxGen,        \* bounds the rotations
    None

ASSUME DeliveryAssumption ==
    /\ Early \in Nat /\ Life \in Nat /\ Early < Life
    /\ MaxRetries \in Nat /\ MaxGen \in Nat /\ None \notin Nat
    /\ None \notin {"sent", "failed"}

VARIABLES
    stored,   \* the generation in the installation store
    newest,   \* the generation whose refresh token Slack takes
    left,     \* generation -> the ticks its access token has left
    lost,     \* a generation was issued and never stored
    ps        \* process -> the message it posts

vars == <<stored, newest, left, lost, ps>>

Gens == 0 .. MaxGen

(* posted: how often the message stands in the thread; unanswered: how     *)
(* many attempts got no answer that tells whether it does.                 *)
Idle == [at |-> "idle", gen |-> None, new |-> None, attempt |-> 0, posted |-> 0, unanswered |-> 0, result |-> None]

Process ==
    [at : {"idle", "rotate", "save", "send", "done"}, gen : Gens \cup {None}, new : Gens \cup {None},
     attempt : 0 .. MaxRetries, posted : 0 .. MaxRetries + 1, unanswered : 0 .. MaxRetries + 1,
     result : {None, "sent", "failed"}]

TypeOK ==
    /\ stored \in Gens /\ newest \in Gens
    /\ left \in [Gens -> 0 .. Life]
    /\ lost \in BOOLEAN
    /\ ps \in [Processes -> Process]

Init ==
    /\ stored = 0 /\ newest = 0
    /\ left = [g \in Gens |-> IF g = 0 THEN Life ELSE 0]
    /\ lost = FALSE
    /\ ps = [p \in Processes |-> Idle]

Doing(p, s)   == ps[p].at = s
Send(p, g) == ps' = [ps EXCEPT ![p] = [Idle EXCEPT !.at = "send", !.gen = g]]

-----------------------------------------------------------------------------
(* resolve_slack_bot_token: find_installed_bot; the rotator refreshes only *)
(* what is about to expire.                                                *)
Post(p) ==
    /\ Doing(p, "idle")
    /\ IF left[stored] > Early THEN Send(p, stored)
       ELSE ps' = [ps EXCEPT ![p].at = "rotate", ![p].gen = stored]
    /\ UNCHANGED <<stored, newest, left, lost>>

(* Slack answers the refresh token with the next generation.               *)
Rotate(p) ==
    /\ Doing(p, "rotate")
    /\ ps[p].gen = newest /\ newest < MaxGen
    /\ newest' = newest + 1
    /\ left' = [left EXCEPT ![newest'] = Life]
    /\ \/ ps' = [ps EXCEPT ![p].at = "save", ![p].new = newest'] /\ UNCHANGED lost
       \/ Send(p, ps[p].gen) /\ lost' = TRUE
    /\ UNCHANGED stored

(* Mutation: a bot that could not be refreshed is saved as it was found.   *)
RefusedMutant(p) ==
    /\ Doing(p, "rotate")
    /\ Send(p, ps[p].gen)
    /\ stored' = ps[p].gen
    /\ UNCHANGED <<newest, left, lost>>

(* It refuses a refresh token that was used, or cannot be reached: the     *)
(* process goes on with the bot it found.                                  *)
Refused(p) ==
    /\ Doing(p, "rotate")
    /\ Send(p, ps[p].gen)
    /\ UNCHANGED <<stored, newest, left, lost>>

(* save_bot may fail; the process goes on with the new token.              *)
Save(p) ==
    /\ Doing(p, "save")
    /\ \/ stored' = ps[p].new /\ UNCHANGED lost
       \/ lost' = TRUE /\ UNCHANGED stored
    /\ Send(p, ps[p].new)
    /\ UNCHANGED <<newest, left>>

-----------------------------------------------------------------------------
(* slack_retry; the adapter logs what it raises.                           *)

End(p, r) == [ps[p] EXCEPT !.at = "done", !.result = r]

(* Mutation: running out of attempts raises nothing.                       *)
RetryMutant(p, n) ==
    LET seen == IF n = 0 THEN ps[p] ELSE [ps[p] EXCEPT !.posted = @ + n - 1, !.unanswered = @ + 1] IN
    IF ps[p].attempt = MaxRetries THEN [seen EXCEPT !.at = "done", !.result = "sent"]
    ELSE [seen EXCEPT !.attempt = @ + 1]

(* n = 0: a rate limit; otherwise no answer, and the message stands n - 1  *)
(* times more.                                                             *)
Retry(p, n) ==
    LET seen == IF n = 0 THEN ps[p] ELSE [ps[p] EXCEPT !.posted = @ + n - 1, !.unanswered = @ + 1] IN
    IF ps[p].attempt = MaxRetries THEN [seen EXCEPT !.at = "done", !.result = "failed"]
    ELSE [seen EXCEPT !.attempt = @ + 1]

(* Slack takes the message, or refuses it for good.                        *)
Answered(p) ==
    /\ Doing(p, "send")
    /\ \/ left[ps[p].gen] > 0 /\ ps' = [ps EXCEPT ![p] = [End(p, "sent") EXCEPT !.posted = @ + 1]]
       \/ ps' = [ps EXCEPT ![p] = End(p, "failed")]
    /\ UNCHANGED <<stored, newest, left, lost>>

(* A rate limit, a server error, or no answer at all.                      *)
Unanswered(p) ==
    /\ Doing(p, "send")
    /\ \E n \in 0 .. (IF left[ps[p].gen] > 0 THEN 2 ELSE 1) : ps' = [ps EXCEPT ![p] = Retry(p, n)]
    /\ UNCHANGED <<stored, newest, left, lost>>

Done(p) ==
    /\ Doing(p, "done")
    /\ ps' = [ps EXCEPT ![p] = Idle]
    /\ UNCHANGED <<stored, newest, left, lost>>

-----------------------------------------------------------------------------
Die(p) ==
    /\ ~Doing(p, "idle")
    /\ lost' = (lost \/ Doing(p, "save"))
    /\ ps' = [ps EXCEPT ![p] = Idle]
    /\ UNCHANGED <<stored, newest, left>>

Tick ==
    /\ \E g \in Gens : left[g] > 0
    /\ left' = [g \in Gens |-> IF left[g] > 0 THEN left[g] - 1 ELSE 0]
    /\ UNCHANGED <<stored, newest, lost, ps>>

Next ==
    \/ \E p \in Processes :
        Post(p) \/ Rotate(p) \/ Refused(p) \/ Save(p) \/ Answered(p) \/ Unanswered(p) \/ Done(p) \/ Die(p)
    \/ Tick

Spec == Init /\ [][Next]_vars

-----------------------------------------------------------------------------
(* However many processes rotate at once, the store holds the refresh      *)
(* token that Slack takes, unless one of them is about to save it or it    *)
(* was lost between Slack's answer and the store.                          *)
StoredIsNewest ==
    stored = newest \/ lost \/ \E p \in Processes : Doing(p, "save") /\ ps[p].new = newest

(* What is reported to have been sent stands in the thread, and a message  *)
(* stands there twice only when an attempt was not answered; one that is   *)
(* given up after all the attempts may still stand there.                  *)
RepeatsOnlyTheUnanswered ==
    \A p \in Processes :
        /\ ps[p].posted <= ps[p].unanswered + (IF ps[p].result = "sent" THEN 1 ELSE 0)
        /\ ps[p].result = "sent" => ps[p].posted > 0
=============================================================================

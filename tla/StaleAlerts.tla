----------------------------- MODULE StaleAlerts -----------------------------
(***************************************************************************)
(* The cleanup worker's reminders about features that wait in PR_OPENED    *)
(* for a preview callback, and the STOP reply that mutes them.  A run is   *)
(* one transaction: it SELECTs the features that have not been updated for *)
(* longest, at most MaxRows of them, looks up for each whether it was      *)
(* alerted or muted, adds the event, posts to Slack at once (a post that   *)
(* gets no answer is repeated), and commits when it is through with all.   *)
(***************************************************************************)
EXTENDS Naturals, FiniteSets

CONSTANTS
    Features,    \* features with a Slack thread, or without
    Threads,     \* those with a Slack thread
    MaxRows,     \* callback_stale_check_max_per_run
    StaleAfter,  \* callback_stale_alert_minutes
    MaxRetries,  \* MAX_RETRIES of slack_retry
    MaxTime,     \* bound: the clock
    MaxAborts    \* bound: runs that end without a commit

ASSUME ThreadsAssumption == Threads \subseteq Features /\ IsFiniteSet(Features)
ASSUME BoundsAssumption  == MaxRows \in Nat \ {0} /\ StaleAfter \in Nat \ {0}
                            /\ MaxRetries \in Nat /\ MaxTime \in Nat /\ MaxAborts \in Nat

VARIABLES
    now,      \* the clock
    opened,   \* features whose committed status is PR_OPENED
    updated,  \* feature -> updated_at
    alerted,  \* feature -> committed callback_stale_alerted events
    muted,    \* features with a callback_stale_alerts_disabled event
    posts,    \* feature -> reminders in its Slack thread
    late,     \* feature -> those of them that appeared after the STOP
    unsure,   \* feature -> attempts to post whose outcome the worker never learnt
    run,      \* the cleanup worker's transaction
    aborts    \* runs that ended without a commit

slackVars == <<posts, late, unsure>>

vars == <<now, opened, updated, alerted, muted, slackVars, run, aborts>>

(* thread: the feature whose reminder is being posted, if there is one.    *)
Idle == [at |-> "sleeping", batch |-> {}, staged |-> {}, thread |-> {}, attempt |-> 0]

Run == [at : {"sleeping", "scanning", "posting"}, batch : SUBSET Features, staged : SUBSET Features,
        thread : SUBSET Features, attempt : 0 .. MaxRetries]

TypeOK ==
    /\ now \in 0 .. MaxTime
    /\ opened \subseteq Features /\ muted \subseteq Features
    /\ updated \in [Features -> 0 .. MaxTime]
    /\ alerted \in [Features -> Nat] /\ posts \in [Features -> Nat]
    /\ late \in [Features -> Nat] /\ unsure \in [Features -> Nat]
    /\ run \in Run
    /\ aborts \in 0 .. MaxAborts

Init ==
    /\ now = 0
    /\ opened = {}
    /\ updated = [f \in Features |-> 0]
    /\ alerted = [f \in Features |-> 0] /\ posts = [f \in Features |-> 0]
    /\ late = [f \in Features |-> 0] /\ unsure = [f \in Features |-> 0]
    /\ muted = {}
    /\ run = Idle
    /\ aborts = 0

-----------------------------------------------------------------------------
(* The rest of the system.                                                 *)

Tick ==
    /\ now < MaxTime
    /\ now' = now + 1
    /\ UNCHANGED <<opened, updated, alerted, muted, slackVars, run, aborts>>

(* A transaction that changes the row sets updated_at (onupdate).          *)
Update(f) ==
    /\ opened' \in {opened \cup {f}, opened \ {f}}
    /\ updated' = [updated EXCEPT ![f] = now]
    /\ UNCHANGED <<now, alerted, muted, slackVars, run, aborts>>

(* _disable_stale_alerts_for_thread: adds the event once; an event does not *)
(* touch the feature's row.                                                *)
Stop(f) ==
    /\ f \in Threads \ muted
    /\ muted' = muted \cup {f}
    /\ UNCHANGED <<now, opened, updated, alerted, slackVars, run, aborts>>

-----------------------------------------------------------------------------
(* run_stale_callback_alerts_once.                                         *)

Stale(f)   == f \in opened /\ updated[f] + StaleAfter <= now
Candidates == {f \in Features : Stale(f)}

(* Mutation: ORDER BY updated_at DESC. *)
BatchMutant(B) ==
    /\ Cardinality(B) <= MaxRows
    /\ Cardinality(B) < MaxRows => B = Candidates
    /\ \A f \in B, g \in Candidates \ B : updated[f] >= updated[g]

(* ORDER BY updated_at LIMIT max_rows. *)
Batch(B) ==
    /\ Cardinality(B) <= MaxRows
    /\ Cardinality(B) < MaxRows => B = Candidates
    /\ \A f \in B, g \in Candidates \ B : updated[f] <= updated[g]

Select ==
    /\ run.at = "sleeping"
    /\ \E B \in SUBSET Candidates : Batch(B) /\ run' = [Idle EXCEPT !.at = "scanning", !.batch = B]
    /\ UNCHANGED <<now, opened, updated, alerted, muted, slackVars, aborts>>

(* Mutation: only the STOP event is looked up. *)
DueMutant(f) == f \notin muted

(* Mutation: only the alert event is looked up. *)
DueUnmutedMutant(f) == alerted[f] = 0

(* The counts see what is committed. *)
Due(f) == alerted[f] = 0 /\ f \notin muted

Skip(f) ==
    /\ run.at = "scanning" /\ f \in run.batch
    /\ ~Due(f)
    /\ run' = [run EXCEPT !.batch = @ \ {f}]
    /\ UNCHANGED <<now, opened, updated, alerted, muted, slackVars, aborts>>

(* The event is added; the reminder goes to the feature's thread.          *)
Remind(f) ==
    /\ run.at = "scanning" /\ f \in run.batch
    /\ Due(f)
    /\ run' = [run EXCEPT !.batch = @ \ {f}, !.staged = @ \cup {f},
                          !.at = IF f \in Threads THEN "posting" ELSE "scanning",
                          !.thread = {f} \cap Threads]
    /\ UNCHANGED <<now, opened, updated, alerted, muted, slackVars, aborts>>

Appears(f) ==
    /\ posts' = [posts EXCEPT ![f] = @ + 1]
    /\ late' = [late EXCEPT ![f] = IF f \in muted THEN @ + 1 ELSE @]

Posted == [run EXCEPT !.at = "scanning", !.thread = {}, !.attempt = 0]

(* The last attempt raises; post_thread_message only logs it.              *)
Again == IF run.attempt = MaxRetries THEN Posted ELSE [run EXCEPT !.attempt = @ + 1]

(* Slack takes the message, or refuses it for good.                        *)
Answered(f) ==
    /\ f \in run.thread
    /\ run' = Posted
    /\ Appears(f) \/ UNCHANGED <<posts, late>>
    /\ UNCHANGED <<now, opened, updated, alerted, muted, unsure, aborts>>

(* Slack asks to wait: nothing was posted. *)
RateLimited(f) ==
    /\ f \in run.thread
    /\ run' = Again
    /\ UNCHANGED <<now, opened, updated, alerted, muted, slackVars, aborts>>

(* A server error or no answer: the message may be in the thread.          *)
Unanswered(f) ==
    /\ f \in run.thread
    /\ run' = Again
    /\ unsure' = [unsure EXCEPT ![f] = @ + 1]
    /\ Appears(f) \/ UNCHANGED <<posts, late>>
    /\ UNCHANGED <<now, opened, updated, alerted, muted, aborts>>

Commit ==
    /\ run.at = "scanning" /\ run.batch = {}
    /\ alerted' = [f \in Features |-> IF f \in run.staged THEN alerted[f] + 1 ELSE alerted[f]]
    /\ run' = Idle
    /\ UNCHANGED <<now, opened, updated, muted, slackVars, aborts>>

(* A crash, a timeout or a failed statement: every event is rolled back.   *)
Abort ==
    /\ run.at # "sleeping"
    /\ aborts < MaxAborts
    /\ aborts' = aborts + 1
    /\ run' = Idle
    /\ UNCHANGED <<now, opened, updated, alerted, muted, slackVars>>

Send == \E f \in Features : Answered(f) \/ RateLimited(f) \/ Unanswered(f)

Scan == Select \/ Commit \/ Send \/ \E f \in Features : Skip(f) \/ Remind(f)

Next == Tick \/ Scan \/ Abort \/ \E f \in Features : Update(f) \/ Stop(f)

Spec == Init /\ [][Next]_vars

(* The worker's loop goes on after every error and every sleep. *)
FairSpec == Spec /\ WF_vars(Scan)

-----------------------------------------------------------------------------
(* A feature has at most one callback_stale_alerted event, ever: a staged  *)
(* event and a committed one exclude each other although the scan reads    *)
(* its candidates long before it commits.                                  *)
AlertedOnce == \A f \in Features : alerted[f] <= (IF f \in run.staged THEN 0 ELSE 1)

(* Slack is told before the database, and told again when it does not      *)
(* answer: a thread gets one reminder, one more for each run that rolled   *)
(* back and one more for each attempt without an answer, never more.       *)
EveryReminderAccounted == \A f \in Features : posts[f] <= 1 + aborts + unsure[f]

(* STOP may come between the look at the events and the post, or between   *)
(* two attempts: what still appears is that one reminder (again only after *)
(* attempts without an answer), whatever is rolled back and looked at      *)
(* afresh.                                                                 *)
QuietAfterStop == \A f \in Features : late[f] <= 1 + unsure[f]

(* The batch has no room for f: enough candidates that were updated no     *)
(* later, each alerted or muted before, so that no run will drop them.     *)
Starved(f) == Cardinality({g \in Candidates \ {f} : ~Due(g) /\ updated[g] <= updated[f]}) >= MaxRows

(* docs/PRODUCTION_READINESS.md:10: the detector emits an event when a     *)
(* build remains in PR_OPENED.  It does so unless the feature was muted or *)
(* is starved by features that need no alert.                              *)
StaleIsReported ==
    \A f \in Features : Stale(f) ~> alerted[f] > 0 \/ f \in muted \/ ~Stale(f) \/ Starved(f)
=============================================================================

----------------------------- MODULE SlackIntake -----------------------------
(***************************************************************************)
(* The Slack intake of one thread and one user.  The session is a Python   *)
(* object that every handler of the process shares through ACTIVE_INTAKES  *)
(* and a database row that survives the process.  Slack runs handlers on a *)
(* pool of threads: each fetches the session, changes it, and calls Slack, *)
(* the model or the API, and other handlers run while it waits.  A handler *)
(* keeps the object it fetched when the cache moves on to another one.     *)
(*                                                                         *)
(* A step is the code between two calls that leave the process; the store  *)
(* of a session belongs to the step that changes it.                       *)
(***************************************************************************)
EXTENDS Naturals, Sequences, FiniteSets

CONSTANTS
    Handlers,     \* handlers that may run at once
    Texts,        \* what the user may type
    Repos,        \* those texts that contain a slash, and the dropdown's repositories
    Missing,      \* fields that validation may report missing
    Extracted,    \* fields that the model reads from a text
    UseModel,     \* the intake router is there and a key is configured
    RequireRepo,  \* _repo_required_for_slack_intake
    Minimal,      \* slack_intake_minimal
    Faults,       \* "crash", "store" (a failed write), "slack" (a failed post)
    MaxEvents,    \* bound: messages and clicks, those that overlap counted twice
    None          \* no session, no summary

Fields   == {"title", "problem", "business_justification", "links", "repo", "base_branch",
             "implementation_mode", "source_repos", "edit_scope", "proposed_solution",
             "acceptance_criteria"}
Editable == {"title", "problem", "repo", "base_branch", "acceptance_criteria"}

ASSUME TextsAssumption  == Texts # {} /\ Repos \subseteq Texts /\ Missing \cup Extracted \subseteq Fields
ASSUME FaultsAssumption == Faults \subseteq {"crash", "store", "slack"}
ASSUME FlagsAssumption  == {UseModel, RequireRepo, Minimal} \subseteq BOOLEAN
ASSUME BoundAssumption  == MaxEvents \in Nat /\ IsFiniteSet(Handlers)

VARIABLES
    heap,       \* the session objects the process holds references to
    cache,      \* ACTIVE_INTAKES: the object's number, or 0
    row,        \* the slack_intake_sessions row
    hs,         \* the handlers
    shown,      \* the spec in the last summary posted
    buttons,    \* buttons that some message of the thread shows
    feature,    \* the spec of the request the thread created
    confirms,   \* clicks on Confirm that were handled
    requests,   \* requests created: from create sessions, from update sessions
    disturbed,  \* what happened that a careful user alone does not cause
    events      \* messages and clicks so far

vars == <<heap, cache, row, hs, shown, buttons, feature, confirms, requests, disturbed, events>>
thread == <<shown, buttons, feature, confirms, requests>>

-----------------------------------------------------------------------------
(* The session and its fields.  An answer is a text, "" or "absent".       *)

Words   == Texts \cup {"", "absent", "scratch", "reuse", "auto"}
Answers == [Fields -> Words]
Objects == 1 .. Cardinality(Handlers) + 2

Session ==
    [mode : {"create", "update"}, flow : {"model", "hardcoded", "none"},
     queue : Seq(Fields), ans : Answers, asked : SUBSET Fields, base : Answers,
     dev : BOOLEAN, awaiting : BOOLEAN, confirmed : BOOLEAN, editing : BOOLEAN,
     target : Editable \cup {""}, waiting : BOOLEAN, paused : BOOLEAN, suggested : Repos \cup {""}]

ASSUME NoneAssumption == None \notin Session \cup Answers

Blank == [f \in Fields |-> "absent"]
Given(v) == v \notin {"", "absent"}
Value(s, f) == IF Given(s.ans[f]) THEN s.ans[f] ELSE s.base[f]
Reuse(s) == Value(s, "implementation_mode") = "reuse"

(* The fields of q that are in F, in their order.                          *)
Only(q, F) ==
    LET kept == {i \in DOMAIN q : q[i] \in F}
    IN  [k \in 1 .. Cardinality(kept) |->
            q[CHOOSE i \in kept : Cardinality({j \in kept : j < i}) = k - 1]]

Drop(s, f) == [s EXCEPT !.queue = Only(@, Fields \ {f})]

(* The questions a session skips, and the first one it does not.           *)
Applies(s, f) ==
    /\ f = "base_branch" => Given(Value(s, "repo")) /\ (s.flow = "model" \/ s.dev)
    /\ f \in {"edit_scope", "source_repos"} => Reuse(s)

Pending(s) == {i \in DOMAIN s.queue : Applies(s, s.queue[i])}
First(S)   == CHOOSE i \in S : \A j \in S : i <= j
Peek(s)    == IF Pending(s) = {} THEN "" ELSE s.queue[First(Pending(s))]

(* next_field removes what it skips, in memory only.                       *)
Pruned(s) ==
    [s EXCEPT !.queue = IF Pending(s) = {} THEN <<>> ELSE SubSeq(@, First(Pending(s)), Len(@))]

CreateQueue ==
    LET all == IF Minimal THEN <<"title", "repo", "base_branch">>
               ELSE <<"title", "implementation_mode", "edit_scope", "problem", "repo",
                      "base_branch", "acceptance_criteria", "links">>
    IN  Only(all, IF RequireRepo THEN Fields ELSE Fields \ {"repo", "base_branch"})

UpdateQueue ==
    LET asked == Only(<<"title", "problem", "business_justification", "acceptance_criteria",
                        "implementation_mode", "source_repos", "edit_scope">>, Missing)
    IN  IF asked # <<>> THEN asked
        ELSE <<"repo", "base_branch", "implementation_mode", "edit_scope", "source_repos", "problem",
               "business_justification", "acceptance_criteria", "proposed_solution", "links">>

NewSession(mode, flow, queue, base) ==
    [mode |-> mode, flow |-> flow, queue |-> queue, ans |-> Blank, asked |-> {}, base |-> base,
     dev |-> mode = "update", awaiting |-> FALSE, confirmed |-> FALSE, editing |-> FALSE,
     target |-> "", waiting |-> FALSE, paused |-> FALSE, suggested |-> ""]

RepoMutable(s)   == s.mode = "create" /\ (s.dev \/ Peek(s) \in {"repo", "base_branch"})
BranchMutable(s) == s.mode = "create" /\ (s.dev \/ Peek(s) = "base_branch")

(* Neither a summary nor an edit is under way.                             *)
Plain(s) == ~s.awaiting /\ ~s.editing /\ s.target = ""

Answer(s, f, v) == [s EXCEPT !.ans[f] = v, !.asked = @ \cup {f}]

(* A repository chosen in place of old: the other repository's branch goes, *)
(* and a developer is asked for a new one.                                  *)
RepoChanged(s, old) ==
    IF s.ans["repo"] = old \/ (~Given(s.ans["repo"]) /\ ~Given(old)) THEN s
    ELSE LET bare == [s EXCEPT !.ans["base_branch"] = "absent", !.asked = @ \ {"base_branch"}]
         IN  IF s.dev /\ Given(s.ans["repo"])
             THEN [Drop(bare, "base_branch") EXCEPT !.queue = <<"base_branch">> \o @]
             ELSE bare

(* capture_field_answer: whether a text is taken for a field, and what it  *)
(* changes.  A text with a slash stands for one with a link.               *)
IsSkip(t) == t \in {"skip", ""}

Accepts(s, f, t) ==
    CASE f \in {"title", "problem", "business_justification"} -> ~IsSkip(t)
      [] f = "repo" -> ~(IsSkip(t) /\ s.mode = "create" /\ RequireRepo /\ ~s.dev)
      [] f = "base_branch" -> t # "two words"
      [] f = "implementation_mode" -> t \in {"scratch", "reuse"}
      [] OTHER -> TRUE

Captured(s, f, t) ==
    CASE f = "links" -> IF t \in Repos THEN Answer(s, f, t) ELSE s
      [] f \in {"repo", "base_branch"} /\ IsSkip(t) -> [s EXCEPT !.ans[f] = ""]
      [] f = "implementation_mode" /\ t = "scratch" ->
            Answer([s EXCEPT !.ans["source_repos"] = "absent", !.ans["edit_scope"] = "absent",
                             !.asked = @ \ {"source_repos", "edit_scope"}], f, t)
      [] f \in {"source_repos", "edit_scope"} /\ ~Reuse(s) -> s
      [] f = "source_repos" /\ IsSkip(t) -> Answer(s, f, "")
      [] f = "edit_scope" /\ IsSkip(t) -> Answer(s, f, "auto")
      [] f = "proposed_solution" /\ IsSkip(t) -> s
      [] f = "acceptance_criteria" /\ t = "" -> [s EXCEPT !.ans[f] = ""]
      [] OTHER -> Answer(s, f, t)

(* What the API is sent: the whole spec, or the fields that were asked.    *)
SpecOf(s) ==
    [f \in Fields |->
        CASE Given(s.ans[f]) -> s.ans[f]
          [] f = "implementation_mode" -> "scratch"
          [] f = "edit_scope" /\ s.ans["implementation_mode"] = "reuse" -> "auto"
          [] OTHER -> ""]

Patch(s) == {f \in s.asked : s.ans[f] # "absent"}
Patched(s, spec) == [f \in Fields |-> IF f \in Patch(s) THEN s.ans[f] ELSE spec[f]]

-----------------------------------------------------------------------------
(* Handlers.  Between steps a handler has fetched the session ("got"),     *)
(* waits for the model ("think"), will take the text as the answer to a    *)
(* question ("capture"), posts a note before the next question             *)
(* ("advance"), is about to finish the session ("finalize"), posts the     *)
(* summary ("review"), waits for the API ("send") or drops the session     *)
(* ("drop").                                                               *)

Kinds == {"message", "confirm", "edit", "cancel", "toggle", "repo", "accept", "branch",
          "repo_dropdown", "branch_dropdown", "github", "frontier", "human"}

Clicks ==
    {<<k, "">> : k \in Kinds \ {"message", "repo", "accept", "branch"}}
        \cup ({"accept"} \X Repos)
        \cup ({"repo"} \X (Repos \cup {"none", "new"}))
        \cup ({"branch"} \X (Repos \cup {"none", "new"}))

Idle == [pc |-> "idle", ref |-> 0, event |-> <<>>, via |-> "direct", spec |-> None]

Handler ==
    [pc : {"idle", "got", "think", "capture", "advance", "finalize", "review", "send", "drop"},
     ref : Objects \cup {0}, event : {<<>>} \cup ({"message", "start"} \X Texts) \cup Clicks,
     via : {"direct", "model", "seed", "frontier", "affirm"}, spec : Answers \cup {None}]

Ses(h)   == heap[hs[h].ref]
Kind(h)  == hs[h].event[1]
Arg(h)   == hs[h].event[2]
Busy     == {h \in Handlers : hs[h].pc # "idle"}
Goes(h, pc) == hs' = [hs EXCEPT ![h] = IF pc = "idle" THEN Idle ELSE [@ EXCEPT !.pc = pc]]

TypeOK ==
    /\ heap \in [Objects -> Session \cup {None}]
    /\ cache \in Objects \cup {0}
    /\ cache # 0 => heap[cache] # None
    /\ row \in Session \cup {None}
    /\ hs \in [Handlers -> Handler]
    /\ \A h \in Busy : heap[hs[h].ref] # None
    /\ {shown, feature} \subseteq Answers \cup {None}
    /\ buttons \subseteq Kinds \cup {"details"}
    /\ confirms \in Nat
    /\ requests \in [{"create", "update"} -> Nat]
    /\ disturbed \subseteq {"overlap", "crash", "store", "slack", "late", "early", "moot", "expired"}
    /\ events \in 0 .. MaxEvents

Init ==
    /\ heap = [o \in Objects |-> None] /\ cache = 0
    /\ row = None
    /\ hs = [h \in Handlers |-> Idle]
    /\ shown = None /\ buttons = {} /\ feature = None /\ confirms = 0
    /\ requests = [m \in {"create", "update"} |-> 0]
    /\ disturbed = {}
    /\ events = 0

(* The object with number o becomes s; objects that nothing refers to go.  *)
Holding(o, s) ==
    heap' = [p \in Objects |-> IF p = cache' \/ \E h \in Handlers : hs'[h].ref = p
                               THEN IF p = o THEN s ELSE heap[p]
                               ELSE None]

(* One fault at most.                                                      *)
Fails(f) == f \in Faults /\ Faults \cap disturbed = {}

(* store_session: into the cache, and into the row unless the write fails; *)
(* the row gets w, what the session was when it was written.               *)
StoreAs(o, s, w, more) ==
    /\ cache' = o
    /\ \/ row' = w /\ disturbed' = disturbed \cup more
       \/ Fails("store") /\ row' = row /\ disturbed' = disturbed \cup more \cup {"store"}
    /\ Holding(o, s)

Store(o, s, more) == StoreAs(o, s, s, more)

(* drop_session: whatever object the cache has now, and the row.           *)
DropSession ==
    /\ cache' = 0
    /\ \/ row' = None /\ UNCHANGED disturbed
       \/ Fails("store") /\ row' = row /\ disturbed' = disturbed \cup {"store"}
    /\ Holding(0, None)

(* The handler changes its object to s and stores it, or lets it be.       *)
Saves(h, s)   == Store(hs[h].ref, s, {})
Changes(h, s) == UNCHANGED <<cache, row, disturbed>> /\ Holding(hs[h].ref, s)
Leaves(h)     == Changes(h, Ses(h))

(* The spec may change after its summary was shown.                        *)
Late == IF shown # None THEN {"late"} ELSE {}

(* A summary's button may be clicked when a question is open again.        *)
Early(s) == IF Plain(s) THEN {"early"} ELSE {}

(* The questions that are left may no longer apply.                        *)
Moot(s, t) == IF Peek(s) # "" /\ Peek(t) = "" THEN {"moot"} ELSE {}

(* What a question adds to the thread: developers get a dropdown.          *)
Dropdown(s, f) == IF s.mode = "create" /\ s.dev /\ f \in {"repo", "base_branch"}
                  THEN {IF f = "repo" THEN "repo" ELSE "branch"} ELSE {}
Shows(b) == buttons' = buttons \cup b /\ UNCHANGED <<shown, feature, confirms, requests, events>>
Quiet    == UNCHANGED <<thread, events>>

-----------------------------------------------------------------------------
(* Beginnings.                                                             *)

(* The next thing goes to some thread of the pool that is free.            *)
Takes(h) == hs[h] = Idle /\ h = CHOOSE g \in Handlers : hs[g] = Idle

Free == CHOOSE o \in Objects : heap[o] = None /\ o # cache

(* /prfactory: a new thread, with the model at once if there is a prompt.  *)
Start(h) ==
    /\ events = 0 /\ MaxEvents > 0 /\ Takes(h)
    /\ events' = 1
    /\ \E pc \in IF UseModel THEN {"think", "idle"} ELSE {"idle"} :
        /\ hs' = [hs EXCEPT ![h] = IF pc = "idle" THEN Idle
                    ELSE [@ EXCEPT !.pc = pc, !.ref = Free, !.via = "seed",
                                   !.event = <<"start", CHOOSE t \in Texts : TRUE>>]]
        /\ Store(Free, NewSession("create", IF UseModel THEN "model" ELSE "hardcoded",
                                  CreateQueue, Blank), {})
    /\ buttons' = {"toggle"}
    /\ UNCHANGED <<shown, feature, confirms, requests>>

(* Add more context: an update session takes the place of any other.       *)
StartUpdate(h) ==
    /\ "details" \in buttons /\ Takes(h) /\ events < MaxEvents
    /\ events' = events + 1
    /\ hs' = hs
    /\ LET s == NewSession("update", "none", UpdateQueue, feature)
       IN  Store(Free, s, (IF Busy = {} THEN {} ELSE {"overlap"}) \cup (IF Peek(s) = "" THEN {"moot"} ELSE {}))
    /\ UNCHANGED thread

(* A message or a click, and get_session: the cached object, unless it is  *)
(* two hours old, or a new one from the row.                               *)
Receive(h, e) ==
    /\ Takes(h) /\ events > 0
    /\ e[1] = "message" \/ e[1] \in buttons
    /\ events' = events + (IF Busy = {} THEN 1 ELSE 2) /\ events' <= MaxEvents
    /\ \E expired \in {cache = 0, TRUE} :
        LET o == IF expired THEN Free ELSE cache
        IN  /\ expired => row # None
            /\ cache' = o
            /\ hs' = [hs EXCEPT ![h] = [@ EXCEPT !.pc = "got", !.ref = o, !.event = e]]
            /\ Holding(o, IF expired THEN row ELSE heap[o])
            /\ disturbed' = disturbed \cup (IF Busy = {} THEN {} ELSE {"overlap"})
                                      \cup (IF Busy # {} /\ cache # 0 /\ expired THEN {"expired"} ELSE {})
    /\ UNCHANGED <<row, thread>>

Got(h, k) == hs[h].pc = "got" /\ Kind(h) = k

-----------------------------------------------------------------------------
(* Messages.                                                               *)

(* "cancel" at any time.                                                   *)
MessageCancel(h) ==
    /\ Got(h, "message") /\ Arg(h) = "cancel"
    /\ Goes(h, "idle") /\ DropSession /\ Quiet

(* Text does not answer a summary, an unknown field name, or a session     *)
(* that waits for a human.                                                 *)
MessageIgnored(h) ==
    /\ Got(h, "message") /\ Arg(h) # "cancel"
    /\ LET s == Ses(h)
       IN  \/ s.awaiting
           \/ ~s.awaiting /\ s.editing /\ Arg(h) \notin Editable
           \/ Plain(s) /\ Peek(s) # "" /\ s.paused
    /\ Goes(h, "idle") /\ Changes(h, Pruned(Ses(h))) /\ Quiet

(* The name of the field to edit.                                          *)
ChooseField(h) ==
    /\ Got(h, "message") /\ Arg(h) \in Editable
    /\ ~Ses(h).awaiting /\ Ses(h).editing
    /\ Goes(h, "idle")
    /\ Saves(h, [Ses(h) EXCEPT !.editing = FALSE, !.target = Arg(h), !.queue = <<Arg(h)>>])
    /\ Shows(Dropdown(Ses(h), Arg(h)))

(* The new value of the field that is being edited.                        *)
Edited(s, t) ==
    LET f    == s.target
        done == Drop([Captured(s, f, t) EXCEPT !.target = ""], f)
    IN  IF f = "repo" /\ RepoChanged(done, s.ans["repo"]) # done
        THEN RepoChanged(Drop(done, "base_branch"), s.ans["repo"])
        ELSE done

EditAnswer(h) ==
    /\ Got(h, "message") /\ Arg(h) # "cancel"
    /\ LET s == Ses(h)
       IN  /\ ~s.awaiting /\ ~s.editing /\ s.target # ""
           /\ IF Accepts(s, s.target, Arg(h))
              THEN Goes(h, "advance") /\ Saves(h, Edited(s, Arg(h))) /\ Quiet
              ELSE Goes(h, "idle") /\ Changes(h, Pruned(s)) /\ Shows(Dropdown(s, s.target))

(* No question is left and no summary was shown: the session is dropped.   *)
MessageStranded(h) ==
    /\ Got(h, "message") /\ Arg(h) # "cancel"
    /\ Plain(Ses(h)) /\ Peek(Ses(h)) = ""
    /\ Goes(h, "idle") /\ DropSession /\ Quiet

Answering(h) ==
    /\ Got(h, "message") /\ Arg(h) # "cancel"
    /\ Plain(Ses(h)) /\ Peek(Ses(h)) # "" /\ ~Ses(h).paused

(* While GitHub is not connected a repository may be typed.                *)
RepoWhileWaiting(h) ==
    /\ Answering(h) /\ Ses(h).waiting /\ Arg(h) \in Repos
    /\ Goes(h, "advance")
    /\ Saves(h, Drop([Captured(Pruned(Ses(h)), "repo", Arg(h)) EXCEPT !.waiting = FALSE], "repo"))
    /\ Quiet

(* The repository and branch dropdowns, which may find GitHub unauthorised. *)
Wait(s) == [s EXCEPT !.waiting = TRUE]

RepoDropdown(s, suggestions) ==
    {<<Wait(s), {"github"}>>}
        \cup {<<[s EXCEPT !.suggested = IF r = "" THEN @ ELSE r],
                {"repo"} \cup IF r = "" THEN {} ELSE {"accept", "repo_dropdown"}>> : r \in suggestions}

BranchDropdown(s) ==
    IF ~Given(Value(s, "repo")) THEN RepoDropdown(s, {""})
    ELSE LET d == [s EXCEPT !.dev = TRUE]
         IN  {<<Wait(d), {"github"}>>, <<d, {"branch", "branch_dropdown"}>>}

(* Any other message while waiting looks at the connection again.          *)
ReconnectChecked(h) ==
    /\ Answering(h) /\ Ses(h).waiting /\ Arg(h) \notin Repos
    /\ Goes(h, "idle")
    /\ LET s == [Pruned(Ses(h)) EXCEPT !.waiting = FALSE]
       IN  \/ Changes(h, Pruned(Ses(h))) /\ Quiet
           \/ \E d \in RepoDropdown(s, {""}) : Saves(h, d[1]) /\ Shows(d[2])

TryModel(s) == s.flow = "model" \/ (s.flow = "none" /\ UseModel)
Affirms(h)  == Arg(h) = "yes" /\ Ses(h).suggested # "" /\ ~Given(Ses(h).ans["repo"])

(* "yes" to a suggested repository.                                        *)
Affirm(h) ==
    /\ Answering(h) /\ ~Ses(h).waiting /\ TryModel(Ses(h)) /\ Affirms(h)
    /\ hs' = [hs EXCEPT ![h] = [@ EXCEPT !.pc = "advance", !.via = "affirm"]]
    /\ Saves(h, Drop([Answer(Pruned(Ses(h)), "repo", Ses(h).suggested) EXCEPT !.suggested = ""], "repo"))
    /\ Quiet

AskModel(h) ==
    /\ Answering(h) /\ ~Ses(h).waiting /\ TryModel(Ses(h)) /\ ~Affirms(h)
    /\ hs' = [hs EXCEPT ![h] = [@ EXCEPT !.pc = "think", !.via = "model"]]
    /\ Changes(h, Pruned(Ses(h))) /\ Quiet

(* The text answers the next question: the flow without a model, and what  *)
(* the model flow falls back on.                                           *)
CaptureAnswer(h) ==
    /\ \/ Answering(h) /\ ~Ses(h).waiting /\ ~TryModel(Ses(h))
       \/ hs[h].pc = "capture"
    /\ LET s == Pruned(Ses(h))  f == Peek(s)
       IN  \/ /\ f = ""
              /\ Goes(h, "idle") /\ DropSession /\ Quiet
           \/ /\ f # "" /\ ~Accepts(s, f, Arg(h))
              /\ Goes(h, "idle") /\ Changes(h, s) /\ Shows(Dropdown(s, f))
           \/ /\ f # "" /\ Accepts(s, f, Arg(h))
              /\ hs' = [hs EXCEPT ![h] = [@ EXCEPT !.pc = "advance", !.via = "direct"]]
              /\ Saves(h, [Captured(s, f, Arg(h)) EXCEPT !.queue = Tail(@)])
              /\ Quiet

-----------------------------------------------------------------------------
(* The model's answer.                                                     *)

(* It has extracted some fields, none of them a session marker, and asks,  *)
(* shows a dropdown, wants GitHub connected, finishes, or escalates.       *)
Extracts(s) ==
    {[s EXCEPT !.ans = [f \in Fields |-> IF f \in F THEN r ELSE s.ans[f]]] :
        F \in SUBSET Extracted, r \in Repos}

Verdicts(s) ==
    {<<s, {}>>, <<s, {"frontier", "human"}>>, <<Wait(s), {"github"}>>}
        \cup (IF Given(s.ans["repo"]) THEN {} ELSE RepoDropdown(s, Repos \cup {""}))
        \cup (IF Given(s.ans["base_branch"]) THEN {} ELSE BranchDropdown(s))

ModelAsks(h) ==
    /\ hs[h].pc = "think"
    /\ Goes(h, "idle")
    /\ \E s \in Extracts(Ses(h)) : \E v \in Verdicts(s) :
        /\ IF v[1] = Ses(h) THEN Leaves(h)
           ELSE Store(hs[h].ref, v[1], Late \cup Moot(Ses(h), v[1]))
        /\ Shows(v[2])

(* Mutation: the model's fields may include the session's own markers.     *)
ModelFinishesMutant(h) ==
    /\ hs[h].pc = "think"
    /\ Goes(h, "finalize")
    /\ Store(hs[h].ref, [Ses(h) EXCEPT !.confirmed = TRUE], Late)
    /\ Quiet

(* "confirm", or enough fields and no question.                            *)
ModelFinishes(h) ==
    /\ hs[h].pc = "think"
    /\ Goes(h, "finalize")
    /\ \E s \in Extracts(Ses(h)) :
        IF s = Ses(h) THEN Leaves(h)
        ELSE Store(hs[h].ref, s, Late)
    /\ Quiet

ModelCancels(h) ==
    /\ hs[h].pc = "think"
    /\ Goes(h, "idle") /\ DropSession /\ Quiet

(* An answer that cannot be used, or an exception on the way.              *)
ModelFails(h) ==
    /\ hs[h].pc = "think"
    /\ CASE hs[h].via = "model" -> Goes(h, "capture") /\ Leaves(h)
         [] hs[h].via = "seed" ->
                Goes(h, "idle") /\ \E flow \in {"model", "hardcoded"} : Saves(h, [Ses(h) EXCEPT !.flow = flow])
         [] OTHER -> Goes(h, "idle") /\ Changes(h, Pruned(Ses(h)))
    /\ Quiet

-----------------------------------------------------------------------------
(* Buttons and dropdowns.                                                  *)

ConfirmSpec(h) ==
    /\ Got(h, "confirm")
    /\ Goes(h, "finalize")
    /\ Store(hs[h].ref, [Ses(h) EXCEPT !.awaiting = FALSE, !.confirmed = TRUE], Early(Ses(h)))
    /\ confirms' = confirms + 1
    /\ UNCHANGED <<shown, buttons, feature, requests, events>>

(* Mutation: the session does not remember that it is being edited.        *)
EditFieldMutant(h) ==
    /\ Got(h, "edit")
    /\ Goes(h, "idle")
    /\ Store(hs[h].ref, [Ses(h) EXCEPT !.awaiting = FALSE, !.confirmed = FALSE, !.target = "",
                                       !.queue = <<>>], Early(Ses(h)))
    /\ Quiet

EditField(h) ==
    /\ Got(h, "edit")
    /\ Goes(h, "idle")
    /\ Store(hs[h].ref, [Ses(h) EXCEPT !.awaiting = FALSE, !.confirmed = FALSE, !.target = "",
                                       !.editing = TRUE, !.queue = <<>>], Early(Ses(h)))
    /\ Quiet

CancelIntake(h) ==
    /\ Got(h, "cancel")
    /\ Goes(h, "idle") /\ DropSession /\ Quiet

(* Normal mode asks no base branch: a session that was waiting for one has *)
(* no question left.                                                       *)
ToggleMode(h) ==
    /\ Got(h, "toggle")
    /\ LET s == [Ses(h) EXCEPT !.dev = ~@]  p == Pruned(s)  shows == Dropdown(p, Peek(p))
       IN  /\ Goes(h, "idle")
           /\ StoreAs(hs[h].ref, p, IF shows = {} THEN s ELSE p,
                      Moot(Ses(h), s))
           /\ Shows(shows)

(* ff_github_reauth, ff_github_connect                                     *)
ConnectGithub(h) ==
    /\ Got(h, "github")
    /\ Goes(h, "idle") /\ Saves(h, Wait(Ses(h))) /\ Quiet

(* Mutation: the pause is not stored.                                      *)
EscalateHumanMutant(h) ==
    /\ Got(h, "human")
    /\ Goes(h, "idle") /\ Changes(h, [Ses(h) EXCEPT !.paused = TRUE]) /\ Quiet

EscalateHuman(h) ==
    /\ Got(h, "human")
    /\ Goes(h, "idle") /\ Saves(h, [Ses(h) EXCEPT !.paused = TRUE]) /\ Quiet

EscalateFrontier(h) ==
    /\ Got(h, "frontier")
    /\ hs' = [hs EXCEPT ![h] = [@ EXCEPT !.pc = "think", !.via = "frontier"]]
    /\ Leaves(h) /\ Quiet

ShowDropdown(h) ==
    /\ hs[h].pc = "got" /\ Kind(h) \in {"repo_dropdown", "branch_dropdown"}
    /\ LET s == Ses(h)
           options == IF Kind(h) = "repo_dropdown"
                      THEN IF RepoMutable(s) THEN RepoDropdown(s, {""}) ELSE {}
                      ELSE IF BranchMutable(s) THEN BranchDropdown(s) ELSE {}
       IN  /\ Goes(h, "idle")
           /\ \/ options = {} /\ Leaves(h) /\ Quiet
              \/ \E d \in options : Saves(h, d[1]) /\ Shows(d[2])

(* A repository chosen, or none; "new" asks for it to be typed.            *)
RepoChosen(s, r) ==
    LET t == Drop([s EXCEPT !.target = ""], "repo")
    IN  IF r = "none"
        THEN Drop([Answer(t, "repo", "") EXCEPT !.ans["base_branch"] = "absent",
                                                !.asked = @ \ {"base_branch"}], "base_branch")
        ELSE RepoChanged(Answer(t, "repo", r), s.ans["repo"])

SelectRepo(h) ==
    /\ hs[h].pc = "got" /\ Kind(h) \in {"repo", "accept"}
    /\ LET s == IF Kind(h) = "accept" THEN [Ses(h) EXCEPT !.suggested = ""] ELSE Ses(h)
       IN  IF RepoMutable(Ses(h)) /\ Arg(h) # "new"
           THEN Goes(h, "advance") /\ Store(hs[h].ref, RepoChosen(s, Arg(h)), Late)
           ELSE Goes(h, "idle") /\ Leaves(h)
    /\ Quiet

(* A base branch chosen, or the default one, which may be replaced by a    *)
(* stable one when it looks generated.                                     *)
BranchChosen(s, b) ==
    {Drop([t EXCEPT !.target = ""], "base_branch") :
        t \in IF b = "none" THEN {[s EXCEPT !.ans["base_branch"] = ""], Answer(s, "base_branch", "auto")}
              ELSE {Answer(s, "base_branch", b)}}

SelectBranch(h) ==
    /\ Got(h, "branch")
    /\ LET s == Ses(h)
       IN  IF BranchMutable(s) /\ Given(s.ans["repo"]) /\ Arg(h) # "new"
           THEN Goes(h, "advance") /\ \E t \in BranchChosen(s, Arg(h)) : Store(hs[h].ref, t, Late)
           ELSE Goes(h, "idle") /\ Leaves(h)
    /\ Quiet

-----------------------------------------------------------------------------
(* After an answer: a note, then the next question or the end.             *)

Advance(h) ==
    /\ hs[h].pc = "advance"
    /\ LET s == Pruned(Ses(h))  f == Peek(s)
       IN  \/ /\ f = ""
              /\ Goes(h, "finalize") /\ Changes(h, s) /\ Quiet
           \/ /\ f = "base_branch" /\ (hs[h].via = "affirm" \/ Kind(h) \in {"repo", "accept"})
              /\ Goes(h, "idle")
              /\ \E d \in IF hs[h].via = "affirm" THEN BranchDropdown(s) ELSE {<<Wait(s), {"github"}>>} :
                    Saves(h, d[1]) /\ Shows(d[2])
           \/ /\ f # "" /\ ~(f = "base_branch" /\ hs[h].via = "affirm")
              /\ Goes(h, "idle") /\ Shows(Dropdown(s, f))
              /\ (Changes(h, s) \/ (Dropdown(s, f) # {} /\ Saves(h, s)))

(* A create session (or the confirm button of any) is summarised until it  *)
(* is confirmed, and then sent; an update session sends its patch.         *)
Creates(h) == Ses(h).mode = "create" \/ Kind(h) = "confirm"

Ends(h, pc, spec) == hs' = [hs EXCEPT ![h] = [@ EXCEPT !.pc = pc, !.spec = spec]]

(* Mutation: the session is stored before its summary is posted.           *)
SummariseMutant(h) ==
    /\ hs[h].pc = "finalize" /\ Creates(h) /\ ~Ses(h).confirmed
    /\ Ends(h, "review", SpecOf(Ses(h)))
    /\ Saves(h, [Ses(h) EXCEPT !.awaiting = TRUE]) /\ Quiet

Summarise(h) ==
    /\ hs[h].pc = "finalize" /\ Creates(h) /\ ~Ses(h).confirmed
    /\ Ends(h, "review", SpecOf(Ses(h)))
    /\ Changes(h, [Ses(h) EXCEPT !.awaiting = TRUE]) /\ Quiet

(* Mutation: a confirmation is not used up.                                *)
SendSpecMutant(h) ==
    /\ hs[h].pc = "finalize" /\ Creates(h) /\ Ses(h).confirmed
    /\ Ends(h, "send", SpecOf(Ses(h)))
    /\ Leaves(h) /\ Quiet

SendSpec(h) ==
    /\ hs[h].pc = "finalize" /\ Creates(h) /\ Ses(h).confirmed
    /\ Ends(h, "send", SpecOf(Ses(h)))
    /\ Changes(h, [Ses(h) EXCEPT !.awaiting = FALSE, !.confirmed = FALSE]) /\ Quiet

SendPatch(h) ==
    /\ hs[h].pc = "finalize" /\ ~Creates(h) /\ Patch(Ses(h)) # {}
    /\ Ends(h, "send", Patched(Ses(h), feature))
    /\ Leaves(h) /\ Quiet

NothingToSend(h) ==
    /\ hs[h].pc = "finalize" /\ ~Creates(h) /\ Patch(Ses(h)) = {}
    /\ Goes(h, "idle") /\ DropSession /\ Quiet

(* The summary with its Confirm, Edit and Cancel buttons.                  *)
Review(h) ==
    /\ hs[h].pc = "review"
    /\ Goes(h, "idle") /\ Saves(h, Ses(h))
    /\ shown' = hs[h].spec
    /\ buttons' = buttons \cup {"confirm", "edit", "cancel"}
    /\ UNCHANGED <<feature, confirms, requests, events>>

(* A post to Slack raises: the handler ends there, but the model flow      *)
(* catches it and takes the text as an answer.                             *)
SlackFails(h) ==
    /\ Fails("slack") /\ hs[h].pc \in {"advance", "review"}
    /\ disturbed' = disturbed \cup {"slack"}
    /\ Goes(h, IF hs[h].via = "model" THEN "capture" ELSE "idle")
    /\ IF hs[h].via = "seed"
       THEN LET s == [Ses(h) EXCEPT !.flow = "hardcoded"]
            IN  cache' = hs[h].ref /\ row' = s /\ Holding(hs[h].ref, s)
       ELSE UNCHANGED <<cache, row>> /\ Holding(hs[h].ref, Ses(h))
    /\ Quiet

(* The API creates or patches the request, or refuses or cannot be reached *)
(* (an answer may also be lost); whatever it says the session goes.        *)
Sent(h) ==
    /\ hs[h].pc = "send"
    /\ Goes(h, "drop") /\ Leaves(h)
    /\ feature' = hs[h].spec
    /\ requests' = IF Creates(h) THEN [requests EXCEPT ![Ses(h).mode] = @ + 1] ELSE requests
    /\ buttons' = buttons \cup {"details"}
    /\ UNCHANGED <<shown, confirms, events>>

SendFails(h) ==
    /\ hs[h].pc = "send"
    /\ Goes(h, "drop") /\ Leaves(h) /\ Quiet

(* Mutation: the session stays when its request was sent.                  *)
DroppedMutant(h) ==
    /\ hs[h].pc = "drop"
    /\ Goes(h, "idle") /\ Leaves(h) /\ Quiet

Dropped(h) ==
    /\ hs[h].pc = "drop"
    /\ Goes(h, "idle") /\ DropSession /\ Quiet

-----------------------------------------------------------------------------
(* The row ends two hours after it was last stored, and the session with   *)
(* it; a crash forgets all but the row.                                    *)

Expire ==
    /\ Busy = {} /\ row # None
    /\ cache' = 0 /\ row' = None
    /\ hs' = hs /\ Holding(0, None)
    /\ UNCHANGED disturbed /\ Quiet

Crash ==
    /\ Fails("crash") /\ row # None
    /\ cache' = 0 /\ hs' = [h \in Handlers |-> Idle] /\ Holding(0, None)
    /\ disturbed' = disturbed \cup {"crash"}
    /\ UNCHANGED row /\ Quiet

Message(h) ==
    \/ MessageCancel(h) \/ MessageIgnored(h) \/ ChooseField(h) \/ EditAnswer(h) \/ MessageStranded(h)
    \/ RepoWhileWaiting(h) \/ ReconnectChecked(h) \/ Affirm(h) \/ AskModel(h) \/ CaptureAnswer(h)

Model(h) == ModelAsks(h) \/ ModelFinishes(h) \/ ModelCancels(h) \/ ModelFails(h)

Click(h) ==
    \/ ConfirmSpec(h) \/ EditField(h) \/ CancelIntake(h) \/ ToggleMode(h) \/ ConnectGithub(h)
    \/ EscalateHuman(h) \/ EscalateFrontier(h) \/ ShowDropdown(h) \/ SelectRepo(h) \/ SelectBranch(h)

Ending(h) ==
    \/ Advance(h) \/ Summarise(h) \/ SendSpec(h) \/ SendPatch(h) \/ NothingToSend(h)
    \/ Review(h) \/ SlackFails(h) \/ Sent(h) \/ SendFails(h) \/ Dropped(h)

Next ==
    \/ \E h \in Handlers :
        \/ Start(h) \/ StartUpdate(h)
        \/ \E e \in ({"message"} \X Texts) \cup Clicks : Receive(h, e)
        \/ Message(h) \/ Model(h) \/ Click(h) \/ Ending(h)
    \/ Expire \/ Crash

Spec == Init /\ [][Next]_vars

-----------------------------------------------------------------------------
(* What holds unless something in disturbed went wrong first.              *)

(* A request is created with the spec of the last summary the user saw.    *)
ReviewedSpec ==
    [][\A h \in Handlers :
         hs[h].pc = "send" /\ hs'[h].pc = "drop" /\ requests'["create"] > requests["create"]
            => hs[h].spec = shown \/ disturbed # {}]_vars

(* An intake creates one request, however often its buttons are clicked.   *)
OneRequest == requests["create"] > 1 => disturbed \cap {"overlap", "crash", "store", "expired"} # {}

(* Every request has its own confirmation, even when clicks and messages   *)
(* overlap on one session.                                                 *)
RequestsConfirmed ==
    requests["create"] + requests["update"] <= confirms \/ disturbed \cap {"crash", "store", "expired"} # {}

(* A session stored as waiting for a confirmation is the one whose summary  *)
(* the thread shows.                                                       *)
AwaitsWhatWasShown ==
    row # None /\ row.awaiting =>
        shown = SpecOf(row) \/ disturbed \cap {"overlap", "slack", "late"} # {}

(* Between handlers the row is the session: a restart loses nothing.       *)
RowIsSession ==
    Busy = {} /\ cache # 0 /\ disturbed \cap {"overlap", "store", "slack", "expired"} = {}
        => row # None /\ Pruned(row) = Pruned(heap[cache])

(* A session at rest has a next step for the user, and is not dropped by   *)
(* the next message.                                                       *)
NextStepKnown ==
    Busy = {} /\ row # None /\ disturbed \subseteq {"early"} => ~(Plain(row) /\ Peek(row) = "")
=============================================================================

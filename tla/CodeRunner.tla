----------------------------- MODULE CodeRunner -----------------------------
(***************************************************************************)
(* One call of a code runner: clone the target, let the agent or a model's *)
(* patches change it, verify, commit, push, and open a pull request on a   *)
(* GitHub that may carry out a request and lose the reply.                 *)
(*                                                                         *)
(* A tree is told by what is in it besides the base branch: how many       *)
(* changes of the model (0: none, or they cancel out), whether the install *)
(* command left files, and whether the verification command did.  The      *)
(* agent may commit, and stays on the branch it is given.                  *)
(***************************************************************************)
EXTENDS BranchNames

CONSTANTS
    Attempts,     \* of the agent (1 + opencode_no_change_retry_attempts), or patch rounds
    MaxTries,     \* of one GitHub request
    Requested,    \* base branches a request may name; "" for none
    Heads,        \* branches the remote may have, as ls-remote lists them
    DefaultBase,  \* github_default_branch
    None

ASSUME CountsAssumption == Attempts \in Nat \ {0} /\ MaxTries \in Nat \ {0}
ASSUME RemoteAssumption ==
    /\ Requested \subseteq Names \cup {""} /\ Heads \subseteq Seq(Names) /\ DefaultBase \in Names

VARIABLES
    settings,   \* of the deployment and the request
    remote,     \* the repository: its branches and the default one
    known,      \* of the remote: all before the clone, its heads at least, or nothing
    pc, attempt,
    raised,     \* an exception ends the run
    base, cut,  \* the pull request's base, and the branch the tree was cut from
    work, head, \* the working tree, and what is committed
    commits,    \* who has committed, be it nothing: HEAD is another commit than at first
    verified,   \* the tree accepted for the pull request, and why
    agent,      \* the temporary agent
    pushed, tries, pr, outcome

job    == <<settings, remote>>
target == <<known, base, cut>>
repo   == <<work, head, commits>>
hub    == <<pushed, tries, pr>>
vars   == <<job, target, pc, attempt, raised, repo, verified, agent, hub, outcome>>

Tree    == [changes : 0 .. Attempts, install : BOOLEAN, tests : BOOLEAN]
Patch   == [changes : 0 .. Attempts, install : BOOLEAN]
Verdict == [tree : Tree, why : {"passed", "untested", "missing"}]
Clean   == [changes |-> 0, install |-> FALSE, tests |-> FALSE]

Settings ==
    {s \in [runner : {"opencode", "native"}, debug : BOOLEAN, install : BOOLEAN, test : BOOLEAN,
            keep : BOOLEAN, requested : Requested] :
        s.runner = "native" => ~s.debug /\ ~s.keep}

Steps == {"clone", "prepare", "add", "ask", "changes", "cleanup", "check", "verify", "status",
          "commit", "push", "post", "lookup"}

ASSUME NoneAssumption == None \notin Tree \cup Patch \cup Verdict \cup [tree : Tree, base : Names]

TypeOK ==
    /\ settings \in Settings
    /\ remote \in [heads : Heads, default : Names] /\ known \in {"nothing", "heads", "all"}
    /\ pc \in Steps /\ attempt \in 0 .. Attempts /\ raised \in BOOLEAN
    /\ base \in Names \cup {""} /\ cut \in Names \cup {""}
    /\ work \in Tree /\ head \in Tree /\ commits \subseteq {"agent", "runner"}
    /\ verified \in Verdict \cup {None}
    /\ agent \in {"none", "up", "stuck"}
    /\ pushed \in Tree \cup {None} /\ tries \in 1 .. MaxTries
    /\ pr \in [tree : Tree, base : Names] \cup {None}
    /\ outcome \in {"running", "opened", "failed", "dead"}

Init ==
    /\ settings \in Settings
    /\ remote \in [heads : Heads, default : Names] /\ remote.default \in Among(remote.heads)
    /\ known = "nothing"
    /\ pc = "clone" /\ attempt = 0 /\ raised = FALSE
    /\ base = "" /\ cut = "" /\ work = Clean /\ head = Clean /\ commits = {}
    /\ verified = None /\ agent = "none"
    /\ pushed = None /\ tries = 1 /\ pr = None /\ outcome = "running"

Doing(p) == outcome = "running" /\ pc = p
Goto(p)  == pc' = p /\ UNCHANGED <<raised, outcome>>
Fail     == outcome' = "failed" /\ UNCHANGED <<pc, raised>>
OpenCode == settings.runner = "opencode"

-----------------------------------------------------------------------------
(* The target.                                                             *)

(* A base branch that is named is cloned, or is not there.                 *)
CloneRequested ==
    /\ Doing("clone") /\ settings.requested # ""
    /\ IF settings.requested \in Among(remote.heads)
       THEN Goto("prepare") /\ base' = settings.requested /\ cut' = base'
       ELSE Fail /\ UNCHANGED <<base, cut>>
    /\ UNCHANGED <<job, known, attempt, repo, verified, agent, hub>>

(* After the clone of the default branch: if it is generated, a fallback   *)
(* is fetched, checked out and returned, and returned as well if it cannot *)
(* be checked out.                                                         *)
LookAfterClone(listed, default, seen, again) ==
    LET bs   == IF listed = <<>> /\ seen \in Generated THEN again ELSE listed
        late == IF seen \in Generated THEN StableFallback(bs, seen) ELSE ""
    IN /\ base' = IF late # "" THEN late ELSE IF seen # "" THEN seen ELSE DefaultBase
       /\ cut' \in IF late # "" THEN {late, remote.default} ELSE {remote.default}
       /\ known' = IF bs = <<>> THEN "nothing" ELSE IF listed = <<>> \/ default = "" THEN "heads" ELSE "all"

(* Mutation: the clone is not told the branch.                             *)
CloneDefaultMutant ==
    /\ Doing("clone") /\ settings.requested = ""
    /\ \E listed \in {remote.heads, <<>>}, default \in {remote.default, ""} :
        LET stable == IF default \in Generated THEN StableFallback(listed, default) ELSE "" IN
        IF stable # ""
        THEN base' = stable /\ cut' = remote.default /\ known' = "all"
        ELSE \E seen \in {remote.default, ""}, again \in {remote.heads, <<>>} :
                LookAfterClone(listed, default, seen, again)
    /\ Goto("prepare")
    /\ UNCHANGED <<job, attempt, repo, verified, agent, hub>>

(* _prepare_target_repo: a generated default branch is replaced before the *)
(* clone, or after it if it could not be read before.  Each listing and    *)
(* each look at the default branch may fail.                               *)
CloneDefault ==
    /\ Doing("clone") /\ settings.requested = ""
    /\ \E listed \in {remote.heads, <<>>}, default \in {remote.default, ""} :
        LET stable == IF default \in Generated THEN StableFallback(listed, default) ELSE "" IN
        IF stable # ""
        THEN base' = stable /\ cut' = stable /\ known' = "all"
        ELSE \E seen \in {remote.default, ""}, again \in {remote.heads, <<>>} :
                LookAfterClone(listed, default, seen, again)
    /\ Goto("prepare")
    /\ UNCHANGED <<job, attempt, repo, verified, agent, hub>>

(* A new branch; the install command, whose files may be left; a debug     *)
(* build writes its marker itself.                                         *)
Prepare ==
    /\ Doing("prepare")
    /\ \E left \in IF settings.install THEN BOOLEAN ELSE {FALSE} :
        work' = [work EXCEPT !.install = left, !.changes = IF settings.debug THEN 1 ELSE 0]
    /\ Goto(IF settings.debug THEN "check" ELSE IF OpenCode THEN "add" ELSE "ask")
    /\ attempt' = IF settings.debug THEN 1 ELSE 0
    /\ UNCHANGED <<job, target, head, commits, verified, agent, hub>>

-----------------------------------------------------------------------------
(* local_openclaw.                                                         *)

AddAgent ==
    /\ Doing("add")
    /\ agent' = "up" /\ Goto("ask")
    /\ UNCHANGED <<job, target, attempt, repo, verified, hub>>

(* The agent commits all, its own part, or nothing new (an empty commit,   *)
(* or changes that cancel out); or it commits nothing.                     *)
AgentCommits ==
    \/ UNCHANGED <<head, commits>>
    \/ /\ head' \in {head, work', [work' EXCEPT !.install = head.install]}
       /\ commits' = commits \cup {"agent"}

(* Mutation: attempts are not counted.                                     *)
AskMutant ==
    /\ Doing("ask") /\ OpenCode
    /\ UNCHANGED attempt
    /\ \E n \in {0, work.changes, attempt + 1} : work' = [work EXCEPT !.changes = n]
    /\ AgentCommits
    /\ Goto("changes")
    /\ UNCHANGED <<job, target, verified, agent, hub>>

(* The agent changes something or nothing, or takes back what it changed.  *)
Ask ==
    /\ Doing("ask") /\ OpenCode
    /\ attempt' = attempt + 1
    /\ \E n \in {0, work.changes, attempt'} : work' = [work EXCEPT !.changes = n]
    /\ AgentCommits
    /\ Goto("changes")
    /\ UNCHANGED <<job, target, verified, agent, hub>>

(* Mutation: a HEAD that cannot be read is another HEAD.                   *)
HasChangesMutant(status, sha) == (status /\ work # head) \/ ~sha \/ commits # {}

(* _repo_has_changes compares commits by their ids; what it cannot read    *)
(* counts as unchanged.                                                    *)
HasChanges(status, sha) == (status /\ work # head) \/ (sha /\ commits # {})

(* Mutation: one attempt too many.                                         *)
ChangesMutant ==
    /\ Doing("changes")
    /\ \E status, sha \in BOOLEAN :
        \/ HasChanges(status, sha) /\ Goto("cleanup")
        \/ ~HasChanges(status, sha) /\ attempt <= Attempts /\ Goto("ask")
        \/ /\ ~HasChanges(status, sha) /\ attempt > Attempts
           /\ pc' = "cleanup" /\ raised' = TRUE /\ UNCHANGED outcome
    /\ UNCHANGED <<job, target, attempt, repo, verified, agent, hub>>

(* No change leads to another attempt, with a prompt that says so.         *)
Changes ==
    /\ Doing("changes")
    /\ \E status, sha \in BOOLEAN :
        \/ HasChanges(status, sha) /\ Goto("cleanup")
        \/ ~HasChanges(status, sha) /\ attempt < Attempts /\ Goto("ask")
        \/ /\ ~HasChanges(status, sha) /\ attempt = Attempts
           /\ pc' = "cleanup" /\ raised' = TRUE /\ UNCHANGED outcome
    /\ UNCHANGED <<job, target, attempt, repo, verified, agent, hub>>

(* The finally clause: the temporary agent is deleted, or cannot be.       *)
Cleanup ==
    /\ Doing("cleanup")
    /\ IF settings.keep THEN UNCHANGED agent ELSE agent' \in {"none", "stuck"}
    /\ IF raised THEN Fail ELSE Goto("check")
    /\ UNCHANGED <<job, target, attempt, repo, verified, hub>>

Untested == verified' = [tree |-> work', why |-> "untested"]

(* The repository is looked at again.                                      *)
Check ==
    /\ Doing("check")
    /\ \E status, sha \in BOOLEAN :
        IF ~HasChanges(status, sha) THEN Fail /\ UNCHANGED <<work, verified>>
        ELSE IF settings.test THEN Goto("verify") /\ UNCHANGED <<work, verified>>
        ELSE Goto("commit") /\ UNCHANGED work /\ Untested
    /\ UNCHANGED <<job, target, attempt, head, commits, agent, hub>>

(* The verification command may leave files.                               *)
RunTests == \E left \in {work.tests, TRUE} : work' = [work EXCEPT !.tests = left]

(* Mutation: a failed verification is a warning as well.                   *)
VerifyMutant ==
    /\ Doing("verify") /\ OpenCode
    /\ RunTests /\ Goto("commit")
    /\ \E why \in {"passed", "missing", "untested"} : verified' = [tree |-> work, why |-> why]
    /\ UNCHANGED <<job, target, attempt, head, commits, agent, hub>>

(* A command that fails with "not found" in what it prints counts as       *)
(* missing.                                                                *)
Verify ==
    /\ Doing("verify") /\ OpenCode
    /\ RunTests
    /\ \/ Goto("commit") /\ \E why \in {"passed", "missing"} : verified' = [tree |-> work, why |-> why]
       \/ Fail /\ UNCHANGED verified
    /\ UNCHANGED <<job, target, attempt, head, commits, agent, hub>>

-----------------------------------------------------------------------------
(* native_llm.                                                             *)

(* Each patch is applied on top of the earlier ones, and may undo them.    *)
AskPatch ==
    /\ Doing("ask") /\ ~OpenCode
    /\ attempt' = attempt + 1
    /\ \E n \in (0 .. attempt') \ {work.changes} : work' = [work EXCEPT !.changes = n]
    /\ IF settings.test THEN Goto("verify") /\ UNCHANGED verified ELSE Goto("status") /\ Untested
    /\ UNCHANGED <<job, target, head, commits, agent, hub>>

(* Mutation: the last round ends the loop whatever came of it.             *)
VerifyPatchMutant ==
    /\ Doing("verify") /\ ~OpenCode
    /\ RunTests
    /\ \/ Goto("status") /\ verified' = [tree |-> work, why |-> "passed"]
       \/ attempt < Attempts /\ Goto("ask") /\ UNCHANGED verified
       \/ attempt = Attempts /\ Goto("status") /\ UNCHANGED verified
    /\ UNCHANGED <<job, target, attempt, head, commits, agent, hub>>

(* A round that fails leads to the next; what the command left stays.  The *)
(* job's timeout, raised while the command runs, is one such failure.      *)
VerifyPatch ==
    /\ Doing("verify") /\ ~OpenCode
    /\ RunTests
    /\ \/ Goto("status") /\ verified' = [tree |-> work, why |-> "passed"]
       \/ attempt < Attempts /\ Goto("ask") /\ UNCHANGED verified
       \/ attempt = Attempts /\ Fail /\ UNCHANGED verified
    /\ UNCHANGED <<job, target, attempt, head, commits, agent, hub>>

(* The tree is looked at when the loop is through, with all that the       *)
(* verification command left in it.                                        *)
Status ==
    /\ Doing("status")
    /\ IF work # head THEN Goto("commit") ELSE Fail
    /\ UNCHANGED <<job, target, attempt, repo, verified, agent, hub>>

-----------------------------------------------------------------------------
(* Both.                                                                   *)

(* git add -A, and git commit if that staged anything.                     *)
Commit ==
    /\ Doing("commit")
    /\ IF work # head THEN head' = work /\ commits' = commits \cup {"runner"} ELSE UNCHANGED <<head, commits>>
    /\ Goto("push")
    /\ UNCHANGED <<job, target, attempt, work, verified, agent, hub>>

(* git push, which may time out after the remote has taken the branch.     *)
Push ==
    /\ Doing("push")
    /\ pushed' = head /\ (Goto("post") \/ Fail)
    /\ UNCHANGED <<job, target, attempt, repo, verified, agent, tries, pr>>

(* _request_with_retry: no answer, a 429 or a 5xx.                         *)
Unanswered ==
    IF tries < MaxTries THEN tries' = tries + 1 /\ UNCHANGED <<pc, raised, outcome>>
    ELSE Fail /\ UNCHANGED tries

Opened == outcome' = "opened" /\ UNCHANGED <<pc, raised>>

(* Of a branch without commits there is no pull request; one that was cut  *)
(* from another branch than its base may have commits of its own.          *)
Acceptable == base \in Among(remote.heads) /\ (commits # {} \/ cut # base)
Refusable  == base \notin Among(remote.heads) \/ commits = {} \/ cut # base

(* Mutation: what GitHub refuses is an error.                              *)
PostMutant ==
    /\ Doing("post")
    /\ \/ UNCHANGED pr /\ Unanswered
       \/ /\ pr = None /\ Acceptable
          /\ pr' = [tree |-> pushed, base |-> base]
          /\ \/ Opened /\ UNCHANGED tries
             \/ Unanswered
       \/ (pr # None \/ Refusable) /\ Fail /\ UNCHANGED <<tries, pr>>
    /\ UNCHANGED <<job, target, attempt, repo, verified, agent, pushed>>

(* create_pull_request.  GitHub refuses a second one for the branch, a     *)
(* base it does not have, and a branch with nothing new.                   *)
Post ==
    /\ Doing("post")
    /\ \/ UNCHANGED pr /\ Unanswered
       \/ /\ pr = None /\ Acceptable
          /\ pr' = [tree |-> pushed, base |-> base]
          /\ \/ Opened /\ UNCHANGED tries
             \/ Unanswered
       \/ pr # None /\ Goto("lookup") /\ tries' = 1 /\ UNCHANGED pr
       \/ pr = None /\ Refusable /\ Fail /\ UNCHANGED <<tries, pr>>
    /\ UNCHANGED <<job, target, attempt, repo, verified, agent, pushed>>

(* _find_existing_pull_request_url, whose errors all mean that there is    *)
(* none.                                                                   *)
Lookup ==
    /\ Doing("lookup")
    /\ Unanswered \/ (Opened /\ UNCHANGED tries)
    /\ UNCHANGED <<job, target, attempt, repo, verified, agent, pushed, pr>>

(* Mutation: the agent is added outside of the try statement.              *)
RaiseMutant ==
    /\ outcome = "running" /\ pc # "cleanup"
    /\ raised' = TRUE
    /\ IF OpenCode /\ pc = "changes"
       THEN pc' = "cleanup" /\ UNCHANGED outcome
       ELSE outcome' = "failed" /\ UNCHANGED pc
    /\ UNCHANGED <<job, target, attempt, repo, verified, agent, hub>>

(* Any other exception: a command that fails, a token that is refused, a   *)
(* model without a patch, the job's timeout.                               *)
Raise ==
    /\ outcome = "running" /\ pc # "cleanup"
    /\ raised' = TRUE
    /\ IF OpenCode /\ pc \in {"add", "ask", "changes"}
       THEN pc' = "cleanup" /\ UNCHANGED outcome
       ELSE outcome' = "failed" /\ UNCHANGED pc
    /\ UNCHANGED <<job, target, attempt, repo, verified, agent, hub>>

(* The worker is killed.                                                   *)
Die ==
    /\ outcome = "running" /\ outcome' = "dead"
    /\ UNCHANGED <<job, target, pc, attempt, raised, repo, verified, agent, hub>>

Next ==
    \/ CloneRequested \/ CloneDefault \/ Prepare
    \/ AddAgent \/ Ask \/ Changes \/ Cleanup \/ Check \/ Verify
    \/ AskPatch \/ VerifyPatch \/ Status
    \/ Commit \/ Push \/ Post \/ Lookup
    \/ Raise \/ Die

Spec     == Init /\ [][Next]_vars
(* Every command and every request has a timeout.                          *)
FairSpec == Spec /\ WF_vars(Next)

-----------------------------------------------------------------------------
(* A pull request holds the changes that were verified, no later and no    *)
(* fewer, however often the model was asked and whoever committed; only    *)
(* where no command is set, or (openclaw) it seems to be missing, was      *)
(* nothing verified.                                                       *)
VerifiedPR ==
    pr # None =>
        /\ verified # None
        /\ [pr.tree EXCEPT !.tests = verified.tree.tests] = verified.tree
        /\ settings.test => verified.why = "passed" \/ (OpenCode /\ verified.why = "missing")

(* A pull request has a change of the model.  Without the files of an      *)
(* install command there are two ways around it: the agent has committed   *)
(* itself, and its commits come to nothing; or a later patch takes back    *)
(* the earlier ones, and the verification command leaves files.            *)
ModelWroteIt ==
    pr # None /\ ~settings.install /\ pr.tree.changes = 0 =>
        IF OpenCode THEN "agent" \in commits ELSE attempt > 1 /\ pr.tree.tests

(* A run that fails leaves a pull request behind only where GitHub         *)
(* answered none of its last requests, or an exception came between: a     *)
(* repeated request finds the one whose answer was lost.                   *)
NoPRIsLost == outcome = "failed" /\ pr # None /\ ~raised => tries = MaxTries

(* However a run ends, short of its process, its temporary agent is        *)
(* deleted if it can be.                                                   *)
AgentGone == outcome \in {"opened", "failed"} /\ ~settings.keep => agent # "up"

(* Generated branches are neither built upon nor merged into unless that   *)
(* was asked for or configured, or nothing else is known; and where the    *)
(* base is another branch than the one the tree was cut from, the default  *)
(* branch could not be read, or was generated and not known to be so       *)
(* before the clone.                                                       *)
BaseFitsTree ==
    base # "" =>
        /\ cut \in Generated =>
              cut = settings.requested \/ known # "all" \/ Among(remote.heads) \subseteq Generated
        /\ base \in Generated =>
              \/ base \in {settings.requested, DefaultBase} \/ known = "nothing"
              \/ Among(remote.heads) \subseteq Generated
        /\ base # cut =>
              cut = remote.default /\ (base = DefaultBase \/ (known # "all" /\ cut \in Generated))

(* Every run ends: every retry is counted.                                 *)
Ends == <>(outcome # "running")

Change(t) == [changes |-> t.changes, install |-> t.install]

Promise == INSTANCE RunnerPromise WITH
    Trees    <- Patch,
    accepted <- IF verified = None THEN None ELSE Change(verified.tree),
    pr       <- IF pr = None THEN None ELSE Change(pr.tree)

(* A run keeps what the build worker relies on (RunnerPromise).            *)
PromiseKept == Promise!Spec
=============================================================================

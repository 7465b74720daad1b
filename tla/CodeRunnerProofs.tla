-------------------------- MODULE CodeRunnerProofs --------------------------
(***************************************************************************)
(* Proofs about CodeRunner, for any number of attempts and tries and any   *)
(* repository.  From the moment a tree is accepted it no longer changes,   *)
(* up to the files of the verification command, and it is what is          *)
(* committed, pushed and opened.                                           *)
(***************************************************************************)
EXTENDS CodeRunner, WellFoundedInduction, SequenceTheorems, TLAPS

Late == {"commit", "push", "post", "lookup"}

AttemptInv ==
    /\ pc = "ask" => attempt < Attempts
    /\ work.changes <= attempt
    /\ pc \in {"clone", "prepare"} => work = Clean /\ head = Clean /\ commits = {}
    /\ pc \in {"add", "changes", "cleanup", "check"} => OpenCode
    /\ pc = "status" => ~OpenCode
    /\ pc = "add" => attempt = 0
    /\ ~OpenCode /\ pc \in Late \cup {"verify", "status"} => attempt >= 1

AgentInv ==
    /\ agent # "none" => OpenCode
    /\ outcome = "running" /\ agent = "up" /\ ~settings.keep => pc \in {"ask", "changes", "cleanup"}
    /\ AgentGone

AcceptedInv ==
    /\ pc \in Late \cup {"status"} =>
        /\ verified # None
        /\ verified.tree.changes = work.changes /\ verified.tree.install = work.install
        /\ settings.test => verified.why = "passed" \/ (OpenCode /\ verified.why = "missing")
    /\ pc \in Late \ {"commit"} => head = work
    /\ pc \in {"post", "lookup"} => pushed = head
    /\ pr # None => pc \in {"post", "lookup"} /\ pr.tree = work
    /\ pc = "lookup" => pr # None

(* Until the runner commits, HEAD is the agent's or the one of the clone.  *)
CommitsInv ==
    /\ pc \notin {"push", "post", "lookup"} => commits \subseteq {"agent"}
    /\ pc \notin {"push", "post", "lookup"} /\ "agent" \notin commits => head = Clean
    /\ ~OpenCode => "agent" \notin commits

WroteInv ==
    /\ OpenCode /\ pc \notin Late \cup {"verify"} => ~work.tests /\ ~head.tests
    /\ ~settings.install => ~work.install /\ ~head.install
    /\ OpenCode /\ ~settings.install /\ pc \in Late \cup {"verify"} =>
        work.changes > 0 \/ "agent" \in commits
    /\ ~OpenCode /\ attempt = 1 => work.changes > 0
    /\ ~OpenCode /\ ~settings.install /\ pc \in Late =>
        work.changes > 0 \/ (work.tests /\ attempt > 1)

RetryInv ==
    /\ outcome = "running" /\ raised => pc = "cleanup"
    /\ NoPRIsLost

IInv == TypeOK /\ AttemptInv /\ AgentInv /\ AcceptedInv /\ CommitsInv /\ WroteInv /\ RetryInv

(* None is no tree, no verdict and no pull request.                        *)
LEMMA NoneIsNothing ==
    /\ None \notin Tree /\ None \notin Verdict /\ None \notin [tree : Tree, base : Names]
    /\ \A t \in Tree, w \in {"passed", "untested", "missing"} :
        [tree |-> t, why |-> w] \in Verdict /\ [tree |-> t, why |-> w] # None
  BY NoneAssumption DEF Verdict

(* The fields of a tree.                                                   *)
LEMMA TreeFields ==
    ASSUME NEW t \in Tree
    PROVE  t.changes \in 0 .. Attempts /\ t.install \in BOOLEAN /\ t.tests \in BOOLEAN
  BY DEF Tree

(* A tree with one more change of the model.                               *)
LEMMA WithChanges ==
    ASSUME NEW t \in Tree, NEW n \in 0 .. Attempts, NEW u, u = [t EXCEPT !.changes = n]
    PROVE  u \in Tree /\ u.changes = n /\ u.install = t.install /\ u.tests = t.tests
  BY DEF Tree

(* A tree with other files of the install command.                         *)
LEMMA WithInstall ==
    ASSUME NEW t \in Tree, NEW b \in BOOLEAN, NEW u, u = [t EXCEPT !.install = b]
    PROVE  u \in Tree /\ u.changes = t.changes /\ u.install = b /\ u.tests = t.tests
  BY DEF Tree

(* A tree with other files of the verification command.                    *)
LEMMA WithTests ==
    ASSUME NEW t \in Tree, NEW b \in BOOLEAN, NEW u, u = [t EXCEPT !.tests = b]
    PROVE  u \in Tree /\ u.changes = t.changes /\ u.install = t.install /\ u.tests = b
  BY DEF Tree

(* A set of naturals that is not empty has a least element.                *)
LEMMA LeastNatural ==
    ASSUME NEW T, T \subseteq Nat, T # {}
    PROVE  \E x \in T : \A y \in T : x <= y
  <1> DEFINE R == OpToRel(<, Nat)
  <1>1. IsWellFoundedOn(R, Nat)
    BY NatLessThanWellFounded
  <1>2. \A x, y \in Nat : <<y, x>> \in R <=> y < x
    BY DEF OpToRel
  <1> HIDE DEF R
  <1>3. PICK x \in T : \A y \in T : ~(<<y, x>> \in R)
    BY <1>1, WFMin
  <1>4. \A y \in T : x <= y
    <2> SUFFICES ASSUME NEW y \in T PROVE x <= y
      OBVIOUS
    <2>1. x \in Nat /\ y \in Nat /\ ~(y < x)
      BY <1>2, <1>3
    <2> QED
      BY <2>1
  <1> QED
    BY <1>4

(* The first name of a list that is in a set.                              *)
LEMMA BestIsFirst ==
    ASSUME NEW bs \in Seq(Names), NEW P, Among(bs) \cap P # {}
    PROVE  Best(bs, P) \in Among(bs) \cap P
  <1> DEFINE T == {i \in 1 .. Len(bs) : bs[i] \in P}
  <1>1. T \subseteq Nat /\ T # {}
    BY DEF Among
  <1>2. PICK i \in T : \A j \in T : i <= j
    BY <1>1, LeastNatural
  <1>3. i \in 1 .. Len(bs) /\ bs[i] \in P /\ \A j \in 1 .. i - 1 : bs[j] \notin P
    BY <1>2
  <1> HIDE DEF T
  <1> DEFINE k == CHOOSE n \in 1 .. Len(bs) : bs[n] \in P /\ \A j \in 1 .. n - 1 : bs[j] \notin P
  <1>4. k \in 1 .. Len(bs) /\ bs[k] \in P
    BY <1>3
  <1> QED
    BY <1>4 DEF Best, Among

(* The fallback is the default branch unless that is generated, else one   *)
(* that is not, if there is one.                                           *)
LEMMA StableFallbackFits ==
    ASSUME NEW bs \in Seq(Names), NEW d \in Names \cup {""}
    PROVE  /\ StableFallback(bs, d) \in Names \cup {""}
           /\ StableFallback(bs, d) \notin Generated \ {""}
           /\ StableFallback(bs, d) = "" => Among(bs) \subseteq Generated
  <1> DEFINE fit == Among(bs) \ Generated
  <1>1. fit \subseteq Names /\ Candidates \in Seq(Names) /\ "" \notin Names
    <2>1. \A i \in 1 .. Len(bs) : bs[i] \in Names
      BY ElementOfSeq
    <2> QED
      BY <2>1, BranchNamesAssumption DEF Among
  <1>2. CASE d # "" /\ d \notin Generated
    BY <1>2 DEF StableFallback
  <1>3. CASE ~(d # "" /\ d \notin Generated) /\ Among(Candidates) \cap fit # {}
    <2>1. Best(Candidates, fit) \in fit
      BY <1>1, <1>3, BestIsFirst
    <2> QED
      BY <1>1, <1>3, <2>1 DEF StableFallback
  <1>4. CASE ~(d # "" /\ d \notin Generated) /\ Among(Candidates) \cap fit = {} /\ fit # {}
    <2>1. Best(bs, fit) \in fit
      BY <1>1, <1>4, BestIsFirst
    <2> QED
      BY <1>1, <1>4, <2>1 DEF StableFallback
  <1>5. CASE ~(d # "" /\ d \notin Generated) /\ Among(Candidates) \cap fit = {} /\ fit = {}
    BY <1>1, <1>5 DEF StableFallback
  <1> QED
    BY <1>2, <1>3, <1>4, <1>5

(* Nothing has happened yet.                                               *)
LEMMA InitInv == Init => IInv
  <1> SUFFICES ASSUME Init PROVE IInv
    OBVIOUS
  <1>1. Clean \in Tree /\ Clean.changes = 0 /\ ~Clean.tests /\ ~Clean.install
    BY CountsAssumption DEF Clean, Tree
  <1>2. attempt = 0 /\ work = Clean /\ head = Clean /\ commits = {} /\ pc = "clone" /\ ~raised
    BY DEF Init
  <1>3. TypeOK
    <2>1. attempt \in 0 .. Attempts /\ tries \in 1 .. MaxTries
      <3>1. attempt = 0 /\ tries = 1
        BY DEF Init
      <3> QED
        BY <3>1, CountsAssumption
    <2>2. pc \in Steps
      BY DEF Init, Steps
    <2> QED
      BY <1>1, <2>1, <2>2 DEF Init, TypeOK
  <1>4. AttemptInv /\ CommitsInv /\ WroteInv
    BY <1>1, <1>2, CountsAssumption DEF AttemptInv, CommitsInv, WroteInv, Late
  <1>5. AgentInv /\ AcceptedInv /\ RetryInv
    BY DEF Init, AgentInv, AgentGone, AcceptedInv, RetryInv, NoPRIsLost, Late
  <1> QED
    BY <1>3, <1>4, <1>5 DEF IInv

(* What types say of the current state.                                    *)
LEMMA Current ==
    ASSUME IInv
    PROVE  /\ attempt \in Nat /\ attempt <= Attempts /\ tries \in Nat /\ tries >= 1 /\ tries <= MaxTries
           /\ work \in Tree /\ head \in Tree
           /\ work.changes \in Nat /\ work.changes <= Attempts /\ head.changes \in Nat
           /\ work.install \in BOOLEAN /\ work.tests \in BOOLEAN
  <1>1. attempt \in 0 .. Attempts /\ tries \in 1 .. MaxTries /\ work \in Tree /\ head \in Tree
    BY DEF IInv, TypeOK
  <1>2. work.changes \in 0 .. Attempts /\ head.changes \in 0 .. Attempts
        /\ work.install \in BOOLEAN /\ work.tests \in BOOLEAN
    BY <1>1, TreeFields
  <1> QED
    BY <1>1, <1>2, CountsAssumption

(* The default branch was cloned, having been unreadable or without a      *)
(* fallback before: what is chosen then, whatever could be read.           *)
LEMMA LookFits ==
    ASSUME TypeOK, UNCHANGED job, settings.requested = "",
           NEW listed \in {remote.heads, <<>>}, NEW default \in {remote.default, ""},
           NEW seen \in {remote.default, ""}, NEW again \in {remote.heads, <<>>},
           default \in Generated => StableFallback(listed, default) = "",
           LookAfterClone(listed, default, seen, again)
    PROVE  /\ base' \in Names \cup {""} /\ cut' \in Names /\ known' \in {"nothing", "heads", "all"}
           /\ BaseFitsTree'
  <1> DEFINE bs   == IF listed = <<>> /\ seen \in Generated THEN again ELSE listed
             late == IF seen \in Generated THEN StableFallback(bs, seen) ELSE ""
  <1>1. remote.heads \in Seq(Names) /\ <<>> \in Seq(Names) /\ remote.default \in Names
        /\ "" \notin Names /\ Generated \subseteq Names
    <2>1. remote \in [heads : Heads, default : Names] /\ Heads \subseteq Seq(Names)
      BY RemoteAssumption DEF TypeOK
    <2>2. <<>> \in Seq(Names)
      BY EmptySeq
    <2>3. "" \notin Names /\ Generated \subseteq Names
      BY BranchNamesAssumption
    <2> QED
      BY <2>1, <2>2, <2>3
  <1>2. bs \in {remote.heads, <<>>} /\ bs \in Seq(Names) /\ seen \in Names \cup {""}
    BY <1>1
  <1>3. settings' = settings /\ remote' = remote
    BY DEF job
  <1>4. base' = (IF late # "" THEN late ELSE IF seen # "" THEN seen ELSE DefaultBase)
    BY DEF LookAfterClone
  <1>5. cut' \in (IF late # "" THEN {late, remote.default} ELSE {remote.default})
    BY DEF LookAfterClone
  <1>6. known' = (IF bs = <<>> THEN "nothing" ELSE IF listed = <<>> \/ default = "" THEN "heads" ELSE "all")
    BY DEF LookAfterClone
  <1>7. /\ StableFallback(bs, seen) \in Names \cup {""} /\ StableFallback(bs, seen) \notin Generated \ {""}
        /\ StableFallback(bs, seen) = "" => Among(bs) \subseteq Generated
    <2> HIDE DEF bs
    <2> QED
      BY <1>2, StableFallbackFits
  <1>8. known' = "all" => listed = remote.heads /\ default = remote.default /\ bs = listed
    <2>1. known' = "all" => bs # <<>> /\ listed # <<>> /\ default # ""
      BY <1>6
    <2> QED
      BY <2>1
  <1>9. remote.default \in Generated /\ known' = "all" => Among(remote.heads) \subseteq Generated
    <2> SUFFICES ASSUME remote.default \in Generated, known' = "all"
                 PROVE  Among(remote.heads) \subseteq Generated
      OBVIOUS
    <2>1. StableFallback(remote.heads, remote.default) = ""
      BY <1>8
    <2> QED
      BY <1>1, <2>1, StableFallbackFits
  <1>10. late \in Names \cup {""} /\ late \notin Generated \ {""}
    BY <1>1, <1>7
  <1>11. base' \in Names \cup {""} /\ cut' \in Names /\ known' \in {"nothing", "heads", "all"}
    <2> HIDE DEF bs, late
    <2>1. DefaultBase \in Names
      BY RemoteAssumption
    <2>2. base' \in Names \cup {""}
      BY <1>2, <1>4, <1>10, <2>1
    <2>3. cut' \in Names
      BY <1>1, <1>5, <1>10
    <2>4. known' \in {"nothing", "heads", "all"}
      BY <1>6
    <2> QED
      BY <2>2, <2>3, <2>4
  <1> DEFINE Fits == /\ cut' \in Generated => known' # "all" \/ Among(remote.heads) \subseteq Generated
                     /\ base' \in Generated =>
                           \/ base' = DefaultBase \/ known' = "nothing"
                           \/ Among(remote.heads) \subseteq Generated
                     /\ base' # cut' =>
                           /\ cut' = remote.default
                           /\ base' = DefaultBase \/ (known' # "all" /\ cut' \in Generated)
  <1>12. ASSUME late # "" PROVE Fits
    <2>1. seen \in Generated /\ seen = remote.default /\ late = StableFallback(bs, seen)
      BY <1>1, <1>12
    <2>2. base' = late /\ base' \notin Generated /\ cut' \in {late, remote.default}
      <3> HIDE DEF bs, late
      <3> QED
        BY <1>4, <1>5, <1>10, <1>12
    <2>3. known' # "all"
      <3>1. SUFFICES ASSUME known' = "all" PROVE FALSE
        OBVIOUS
      <3>2. StableFallback(bs, seen) = ""
        BY <1>8, <2>1, <3>1
      <3> QED
        BY <1>12, <2>1, <3>2
    <2> HIDE DEF bs, late
    <2> QED
      BY <2>1, <2>2, <2>3
  <1>13. ASSUME late = "", seen # "" PROVE Fits
    <2>1. base' = remote.default /\ cut' = remote.default
      <3>1. seen = remote.default
        BY <1>13
      <3> HIDE DEF bs, late
      <3> QED
        BY <1>4, <1>5, <1>13, <3>1
    <2>2. remote.default \in Generated => known' = "nothing" \/ Among(remote.heads) \subseteq Generated
      <3> SUFFICES ASSUME remote.default \in Generated, known' # "nothing"
                   PROVE  Among(remote.heads) \subseteq Generated
        OBVIOUS
      <3>1. StableFallback(bs, seen) = ""
        BY <1>13
      <3>2. bs # <<>>
        BY <1>6
      <3>3. bs = remote.heads
        BY <1>2, <3>2
      <3> QED
        BY <1>7, <3>1, <3>3
    <2> HIDE DEF bs, late
    <2> QED
      BY <1>9, <2>1, <2>2
  <1>14. ASSUME late = "", seen = "" PROVE Fits
    <2>1. base' = DefaultBase /\ cut' = remote.default
      <3> HIDE DEF bs, late
      <3> QED
        BY <1>4, <1>5, <1>14
    <2> HIDE DEF bs, late
    <2> QED
      BY <1>9, <2>1
  <1>15. Fits
    BY <1>12, <1>13, <1>14
  <1>16. BaseFitsTree'
    BY <1>3, <1>15 DEF BaseFitsTree
  <1> QED
    BY <1>11, <1>16

(* The base and the branch the tree is cut from, whatever the two listings *)
(* and the two looks at the default branch yield.                          *)
LEMMA CloneFits ==
    ASSUME TypeOK, CloneRequested \/ CloneDefault
    PROVE  /\ base' \in Names \cup {""} /\ cut' \in Names \cup {""}
           /\ known' \in {"nothing", "heads", "all"}
           /\ BaseFitsTree => BaseFitsTree'
  <1>1. UNCHANGED job
    BY DEF CloneRequested, CloneDefault
  <1>2. settings' = settings /\ remote' = remote
    BY <1>1 DEF job
  <1>3. CASE CloneRequested
    <2>1. settings.requested \in Names \cup {""} /\ known' = known /\ known \in {"nothing", "heads", "all"}
      BY <1>3, RemoteAssumption DEF CloneRequested, TypeOK, Settings
    <2>2. \/ base' = settings.requested /\ cut' = settings.requested
          \/ base' = base /\ cut' = cut
      BY <1>3 DEF CloneRequested
    <2>3. CASE base' = settings.requested /\ cut' = settings.requested
      BY <1>2, <2>1, <2>3 DEF BaseFitsTree
    <2>4. CASE base' = base /\ cut' = cut
      BY <1>2, <2>1, <2>4 DEF BaseFitsTree, TypeOK
    <2> QED
      BY <2>2, <2>3, <2>4
  <1>4. CASE CloneDefault
    <2>0. settings.requested = ""
      BY <1>4 DEF CloneDefault
    <2>1. PICK listed \in {remote.heads, <<>>}, default \in {remote.default, ""} :
            LET stable == IF default \in Generated THEN StableFallback(listed, default) ELSE "" IN
            IF stable # ""
            THEN base' = stable /\ cut' = stable /\ known' = "all"
            ELSE \E seen \in {remote.default, ""}, again \in {remote.heads, <<>>} :
                    LookAfterClone(listed, default, seen, again)
      BY <1>4 DEF CloneDefault
    <2>2. CASE default \in Generated /\ StableFallback(listed, default) # ""
      <3>1. base' = StableFallback(listed, default) /\ cut' = base' /\ known' = "all"
        BY <2>1, <2>2
      <3>2. listed \in Seq(Names) /\ default \in Names \cup {""}
        <4>1. remote \in [heads : Heads, default : Names] /\ Heads \subseteq Seq(Names)
          BY RemoteAssumption DEF TypeOK
        <4>2. <<>> \in Seq(Names)
          BY EmptySeq
        <4> QED
          BY <4>1, <4>2
      <3>3. StableFallback(listed, default) \in Names \cup {""}
            /\ StableFallback(listed, default) \notin Generated \ {""}
        BY <3>2, StableFallbackFits
      <3>4. base' \in Names /\ cut' \in Names /\ base' \notin Generated
        BY <2>2, <3>1, <3>3
      <3> QED
        BY <3>1, <3>4 DEF BaseFitsTree
    <2>3. CASE ~(default \in Generated /\ StableFallback(listed, default) # "")
      <3>1. PICK seen \in {remote.default, ""}, again \in {remote.heads, <<>>} :
              LookAfterClone(listed, default, seen, again)
        BY <2>1, <2>3
      <3> QED
        BY <1>1, <2>0, <2>3, <3>1, LookFits
    <2> QED
      BY <2>2, <2>3
  <1> QED
    BY <1>3, <1>4

(* A base branch is chosen, or there is none of that name.                 *)
LEMMA CloneInv ==
    ASSUME IInv, CloneRequested \/ CloneDefault
    PROVE  IInv'
  <1>1. /\ pc = "clone" /\ pc' \in {"clone", "prepare"} /\ outcome = "running"
        /\ outcome' \in {"running", "failed"} /\ (outcome' = "failed" => pc' = "clone")
        /\ UNCHANGED <<settings, remote, attempt, raised, work, head, commits, verified, agent,
                       pushed, tries, pr>>
    BY DEF CloneRequested, CloneDefault, Doing, Goto, Fail, job, repo, hub
  <1>2. /\ base' \in Names \cup {""} /\ cut' \in Names \cup {""}
        /\ known' \in {"nothing", "heads", "all"}
    BY CloneFits DEF IInv
  <1>3. TypeOK'
    BY <1>1, <1>2 DEF IInv, TypeOK, Steps
  <1>4. pr = None
    BY <1>1 DEF IInv, AcceptedInv
  <1> QED
    BY <1>1, <1>2, <1>3, <1>4 DEF IInv, AttemptInv, AgentInv, AgentGone, AcceptedInv, CommitsInv, WroteInv,
       RetryInv, NoPRIsLost, Late, OpenCode

(* The branch is there; the agent, the patches or the debug marker follow. *)
LEMMA PrepareInv ==
    ASSUME IInv, Prepare
    PROVE  IInv'
  <1>1. /\ pc = "prepare" /\ outcome = "running" /\ outcome' = outcome /\ ~raised /\ raised' = raised
        /\ UNCHANGED <<settings, remote, known, base, cut, head, commits, verified, agent, pushed, tries, pr>>
        /\ work = Clean /\ head = Clean /\ commits = {} /\ pr = None
    BY DEF Prepare, Doing, Goto, job, target, hub, IInv, AttemptInv, RetryInv, AcceptedInv
  <1>2. PICK left \in BOOLEAN :
          /\ work' = [Clean EXCEPT !.install = left, !.changes = IF settings.debug THEN 1 ELSE 0]
          /\ left => settings.install
    BY <1>1 DEF Prepare
  <1>3. /\ Clean.changes = 0 /\ ~Clean.tests /\ ~Clean.install
        /\ work' = [changes |-> IF settings.debug THEN 1 ELSE 0, install |-> left, tests |-> FALSE]
    BY <1>2 DEF Clean
  <1>4. attempt' = (IF settings.debug THEN 1 ELSE 0) /\ attempt' \in 0 .. Attempts
    BY CountsAssumption DEF Prepare
  <1>5. work' \in Tree /\ work'.changes = attempt' /\ ~work'.tests /\ (work'.install => settings.install)
    <2>1. work' = [changes |-> attempt', install |-> left, tests |-> FALSE]
      BY <1>3, <1>4
    <2>2. [changes |-> attempt', install |-> left, tests |-> FALSE] \in Tree
      BY <1>2, <1>4 DEF Tree
    <2>3. left => settings.install
      BY <1>2
    <2>4. work'.changes = attempt' /\ work'.tests = FALSE /\ work'.install = left
      BY <2>1
    <2> QED
      BY <2>1, <2>2, <2>3, <2>4
  <1>6. /\ settings.debug => pc' = "check" /\ OpenCode
        /\ ~settings.debug /\ OpenCode => pc' = "add"
        /\ ~settings.debug /\ ~OpenCode => pc' = "ask"
    BY DEF Prepare, Goto, IInv, TypeOK, Settings, OpenCode
  <1>7. TypeOK'
    <2>1. pc' \in Steps
      BY <1>6 DEF Steps
    <2> QED
      BY <1>1, <1>4, <1>5, <2>1 DEF IInv, TypeOK
  <1>8. AttemptInv'
    BY <1>1, <1>4, <1>5, <1>6, CountsAssumption DEF AttemptInv, Late, OpenCode
  <1>9. AgentInv' /\ RetryInv' /\ AcceptedInv'
    BY <1>1, <1>6 DEF IInv, AgentInv, AgentGone, RetryInv, NoPRIsLost, AcceptedInv, Late, OpenCode
  <1>10. CommitsInv' /\ WroteInv'
    <2>1. ~OpenCode => attempt' = 0
      BY <1>4 DEF IInv, TypeOK, Settings, OpenCode
    <2> QED
      BY <1>1, <1>3, <1>4, <1>5, <1>6, <2>1 DEF CommitsInv, WroteInv, Late, OpenCode
  <1> QED
    BY <1>7, <1>8, <1>9, <1>10 DEF IInv

(* The temporary agent is there.                                           *)
LEMMA AddAgentInv ==
    ASSUME IInv, AddAgent
    PROVE  IInv'
  <1>1. TypeOK'
    BY DEF IInv, TypeOK, AddAgent, Doing, Goto, Steps, job, target, repo, hub
  <1>2. OpenCode /\ OpenCode' /\ pr = None /\ pc = "add" /\ pc' = "ask" /\ agent' = "up"
        /\ outcome = "running" /\ outcome' = "running" /\ raised' = raised
        /\ UNCHANGED <<settings, attempt, work, head, commits, verified, pushed, tries, pr>>
    BY DEF IInv, AttemptInv, AcceptedInv, AddAgent, Doing, Goto, job, target, repo, hub, OpenCode
  <1>3. AttemptInv'
    BY <1>2, CountsAssumption DEF IInv, AttemptInv
  <1> QED
    BY <1>1, <1>2, <1>3 DEF IInv, AgentInv, AgentGone, AcceptedInv, CommitsInv, WroteInv, RetryInv,
       NoPRIsLost, Late, OpenCode

(* The agent may change the tree once more, and commit.                    *)
LEMMA AskInv ==
    ASSUME IInv, Ask
    PROVE  IInv'
  <1>1. /\ pc = "ask" /\ pc' = "changes" /\ outcome = "running" /\ outcome' = "running"
        /\ raised' = raised /\ ~raised /\ OpenCode /\ OpenCode' /\ pr = None
        /\ UNCHANGED <<settings, remote, known, base, cut, verified, agent, pushed, tries, pr>>
    BY DEF Ask, Doing, Goto, job, target, hub, IInv, RetryInv, AcceptedInv, OpenCode
  <1>2. attempt' = attempt + 1 /\ attempt' \in 0 .. Attempts /\ attempt \in 0 .. Attempts
    <2>1. attempt' = attempt + 1
      BY DEF Ask
    <2>2. attempt < Attempts
      BY <1>1 DEF IInv, AttemptInv
    <2> QED
      BY <2>1, <2>2, Current, CountsAssumption
  <1>3. PICK n \in {0, work.changes, attempt'} : work' = [work EXCEPT !.changes = n]
    BY DEF Ask
  <1>4. \/ head' = head /\ commits' = commits
        \/ /\ head' \in {head, work', [work' EXCEPT !.install = head.install]}
           /\ commits' = commits \cup {"agent"}
    BY DEF Ask, AgentCommits
  <1>5. work.changes \in Nat /\ work.changes <= attempt /\ ~work.tests /\ ~head.tests
    BY <1>1, Current DEF IInv, AttemptInv, WroteInv, Late
  <1>6. n \in 0 .. Attempts /\ n <= attempt'
    <2>1. n = 0 \/ n = work.changes \/ n = attempt'
      BY <1>3
    <2> QED
      BY <2>1, <1>2, <1>5, CountsAssumption
  <1>7. work' \in Tree /\ work'.changes = n /\ work'.install = work.install /\ work'.tests = work.tests
    <2>1. work \in Tree
      BY DEF IInv, TypeOK
    <2> QED
      BY <2>1, <1>3, <1>6, WithChanges
  <1>8. head \in Tree /\ head.install \in BOOLEAN
    BY TreeFields DEF IInv, TypeOK
  <1>9. head' \in Tree /\ ~head'.tests /\ head'.install \in {head.install, work.install}
    <2>3. CASE head' = head
      BY <1>5, <1>8, <2>3
    <2>4. CASE head' = work'
      BY <1>5, <1>7, <2>4
    <2>5. CASE head' = [work' EXCEPT !.install = head.install]
      <3>1. head' \in Tree /\ head'.install = head.install /\ head'.tests = work'.tests
        BY <1>7, <1>8, <2>5, WithInstall
      <3> QED
        BY <1>5, <1>7, <3>1
    <2> QED
      BY <1>4, <2>3, <2>4, <2>5
  <1>10. /\ commits' \subseteq {"agent", "runner"} /\ commits' \subseteq {"agent"}
         /\ "agent" \notin commits' => head' = head /\ "agent" \notin commits
    BY <1>1, <1>4 DEF IInv, CommitsInv
  <1>11. TypeOK'
    BY <1>1, <1>2, <1>7, <1>9, <1>10 DEF IInv, TypeOK, Steps
  <1>12. AttemptInv'
    BY <1>1, <1>6, <1>7 DEF AttemptInv
  <1>13. CommitsInv'
    BY <1>1, <1>10 DEF IInv, CommitsInv
  <1>14. WroteInv'
    BY <1>1, <1>5, <1>7, <1>9 DEF IInv, WroteInv, Late
  <1>15. AgentInv' /\ AcceptedInv' /\ RetryInv'
    BY <1>1 DEF IInv, AgentInv, AgentGone, AcceptedInv, RetryInv, NoPRIsLost, Late
  <1> QED
    BY <1>11, <1>12, <1>13, <1>14, <1>15 DEF IInv

(* The next attempt, the end of the last one, or a change.                 *)
LEMMA ChangesInv ==
    ASSUME IInv, Changes
    PROVE  IInv'
  <1>1. /\ pc = "changes" /\ outcome = "running" /\ outcome' = "running" /\ ~raised /\ OpenCode /\ OpenCode'
        /\ pr = None
        /\ UNCHANGED <<settings, remote, known, attempt, base, cut, work, head, commits, verified, agent, pushed, tries, pr>>
    BY DEF Changes, Doing, Goto, job, target, repo, hub, IInv, AttemptInv, RetryInv, AcceptedInv, OpenCode
  <1>2. \/ pc' = "cleanup" /\ raised' \in BOOLEAN
        \/ pc' = "ask" /\ raised' = raised /\ attempt < Attempts
    <2>1. PICK status, sha \in BOOLEAN :
            \/ HasChanges(status, sha) /\ Goto("cleanup")
            \/ ~HasChanges(status, sha) /\ attempt < Attempts /\ Goto("ask")
            \/ /\ ~HasChanges(status, sha) /\ attempt = Attempts
               /\ pc' = "cleanup" /\ raised' = TRUE /\ UNCHANGED outcome
      BY DEF Changes
    <2>2. raised \in BOOLEAN
      BY DEF IInv, TypeOK
    <2> QED
      BY <2>1, <2>2 DEF Goto
  <1>3. TypeOK'
    <2>1. raised' \in BOOLEAN
      BY <1>2 DEF IInv, TypeOK
    <2> QED
      BY <1>1, <1>2, <2>1 DEF IInv, TypeOK, Steps
  <1>4. AttemptInv'
    BY <1>1, <1>2 DEF IInv, AttemptInv
  <1> QED
    BY <1>1, <1>2, <1>3, <1>4 DEF IInv, AgentInv, AgentGone, AcceptedInv, CommitsInv, WroteInv, RetryInv,
       NoPRIsLost, Late

(* The agent is gone, or is not to go, or cannot be deleted.               *)
LEMMA CleanupInv ==
    ASSUME IInv, Cleanup
    PROVE  IInv'
  <1>1. /\ pc = "cleanup" /\ outcome = "running" /\ OpenCode /\ OpenCode' /\ pr = None
        /\ UNCHANGED <<settings, remote, known, attempt, base, cut, work, head, commits, verified, pushed, tries, pr>>
        /\ UNCHANGED raised
    BY DEF Cleanup, Doing, Goto, Fail, job, target, repo, hub, IInv, AttemptInv, AcceptedInv, OpenCode
  <1>2. (settings.keep /\ agent' = agent) \/ agent' \in {"none", "stuck"}
    BY DEF Cleanup
  <1>3. \/ raised /\ outcome' = "failed" /\ pc' = "cleanup"
        \/ ~raised /\ outcome' = "running" /\ pc' = "check"
    BY <1>1 DEF Cleanup, Fail, Goto
  <1>4. TypeOK'
    BY <1>1, <1>2, <1>3 DEF IInv, TypeOK, Steps
  <1> QED
    BY <1>1, <1>2, <1>3, <1>4 DEF IInv, AttemptInv, AgentInv, AgentGone, AcceptedInv, CommitsInv, WroteInv,
       RetryInv,
       NoPRIsLost, Late

(* A change in the tree is left, or the agent has committed.               *)
LEMMA SomethingChanged ==
    ASSUME IInv, OpenCode, pc \in {"changes", "check"}, ~settings.install,
           NEW status, NEW sha, HasChanges(status, sha)
    PROVE  work.changes > 0 \/ "agent" \in commits
  <1>1. work \in Tree /\ ~work.tests /\ ~work.install /\ work.changes \in Nat
    BY Current DEF IInv, WroteInv, Late
  <1>2. work = [changes |-> work.changes, install |-> FALSE, tests |-> FALSE]
    BY <1>1 DEF Tree
  <1>3. "agent" \notin commits => head = Clean /\ commits = {}
    BY DEF IInv, CommitsInv
  <1>4. SUFFICES ASSUME work.changes = 0, "agent" \notin commits PROVE FALSE
    BY <1>1
  <1>5. work = head
    BY <1>2, <1>3, <1>4 DEF Clean
  <1> QED
    BY <1>3, <1>4, <1>5 DEF HasChanges

(* Something has changed, and is accepted where there is nothing to verify *)
(* it with.                                                                *)
LEMMA CheckInv ==
    ASSUME IInv, Check
    PROVE  IInv'
  <1>1. /\ pc = "check" /\ outcome = "running" /\ OpenCode /\ OpenCode' /\ ~raised /\ ~raised' /\ pr = None
        /\ UNCHANGED <<settings, remote, known, attempt, raised, base, cut, head, commits, agent,
                       pushed, tries, pr>>
    BY DEF Check, Doing, Goto, Fail, job, target, hub, IInv, AttemptInv, RetryInv, AcceptedInv, OpenCode
  <1>2. PICK status \in BOOLEAN, sha \in BOOLEAN :
          IF ~HasChanges(status, sha) THEN Fail /\ UNCHANGED <<work, verified>>
          ELSE IF settings.test THEN Goto("verify") /\ UNCHANGED <<work, verified>>
          ELSE Goto("commit") /\ UNCHANGED work /\ Untested
    BY DEF Check
  <1>3. work' = work /\ work \in Tree
    BY <1>2 DEF IInv, TypeOK
  <1>4. \/ outcome' = "failed" /\ pc' = "check" /\ verified' = verified
        \/ /\ outcome' = "running" /\ pc' = "verify" /\ verified' = verified
           /\ ~settings.install => work.changes > 0 \/ "agent" \in commits
        \/ /\ outcome' = "running" /\ pc' = "commit" /\ verified' = [tree |-> work, why |-> "untested"]
           /\ ~settings.test /\ (~settings.install => work.changes > 0 \/ "agent" \in commits)
    <2>1. CASE ~HasChanges(status, sha)
      BY <1>1, <1>2, <2>1 DEF Fail
    <2>2. CASE HasChanges(status, sha)
      <3>1. ~settings.install => work.changes > 0 \/ "agent" \in commits
        BY <1>1, <2>2, SomethingChanged
      <3>2. CASE settings.test
        BY <1>1, <1>2, <2>2, <3>1, <3>2 DEF Goto
      <3>3. CASE ~settings.test
        BY <1>1, <1>2, <1>3, <2>2, <3>1, <3>3 DEF Goto, Untested
      <3> QED
        BY <3>2, <3>3
    <2> QED
      BY <2>1, <2>2
  <1>5. pc' \in {"check", "verify", "commit"} /\ outcome' \in {"running", "failed"}
    BY <1>4
  <1>6. /\ verified' \in Verdict \cup {None}
        /\ pc' = "commit" => verified' # None /\ verified'.tree = work /\ ~settings.test
    <2>1. CASE verified' = verified /\ pc' # "commit"
      BY <2>1 DEF IInv, TypeOK
    <2>2. CASE ~settings.test /\ verified' = [tree |-> work, why |-> "untested"]
      <3>1. verified' \in Verdict /\ verified' # None /\ verified'.tree = work
        BY <1>3, <2>2, NoneIsNothing
      <3> QED
        BY <2>2, <3>1
    <2> QED
      BY <1>4, <2>1, <2>2
  <1>7. TypeOK'
    BY <1>1, <1>3, <1>5, <1>6 DEF IInv, TypeOK, Steps
  <1>8. AttemptInv' /\ CommitsInv'
    BY <1>1, <1>3, <1>5 DEF IInv, AttemptInv, CommitsInv
  <1>9. AcceptedInv'
    BY <1>1, <1>3, <1>5, <1>6 DEF AcceptedInv, Late
  <1>10. WroteInv'
    BY <1>1, <1>3, <1>4 DEF IInv, WroteInv, Late
  <1>11. AgentInv' /\ RetryInv'
    BY <1>1, <1>5 DEF IInv, AgentInv, AgentGone, RetryInv, NoPRIsLost
  <1> QED
    BY <1>7, <1>8, <1>9, <1>10, <1>11 DEF IInv

(* The verification command leaves all but its own files as they are.      *)
LEMMA RunTestsKeeps ==
    ASSUME IInv, RunTests
    PROVE  /\ work' \in Tree /\ work'.changes = work.changes /\ work'.install = work.install
  <1>1. work \in Tree /\ work.tests \in BOOLEAN
    BY TreeFields DEF IInv, TypeOK
  <1>2. PICK left \in {work.tests, TRUE} : work' = [work EXCEPT !.tests = left]
    BY DEF RunTests
  <1>3. left \in BOOLEAN
    BY <1>1, <1>2
  <1> QED
    BY <1>1, <1>2, <1>3, WithTests

(* The tree is verified, or not.                                           *)
LEMMA VerifyInv ==
    ASSUME IInv, Verify \/ VerifyPatch
    PROVE  IInv'
  <1>1. /\ pc = "verify" /\ outcome = "running" /\ ~raised /\ raised' = raised /\ pr = None
        /\ UNCHANGED <<settings, remote, known, attempt, base, cut, head, commits, agent, pushed, tries, pr>>
        /\ (OpenCode' <=> OpenCode)
    BY DEF Verify, VerifyPatch, Doing, Goto, Fail, job, target, hub, IInv, RetryInv, AcceptedInv, OpenCode
  <1>2. work' \in Tree /\ work'.changes = work.changes /\ work'.install = work.install
    BY RunTestsKeeps DEF Verify, VerifyPatch
  <1>3. work \in Tree /\ pc \in Steps /\ work.changes <= attempt
    BY <1>1 DEF IInv, TypeOK, AttemptInv, Steps
  <1>4. agent # "none" => (settings.keep /\ OpenCode) \/ (agent = "stuck" /\ OpenCode)
    BY <1>1 DEF IInv, AgentInv, TypeOK
  <1>5. \/ /\ outcome' = outcome
           /\ pc' = IF OpenCode THEN "commit" ELSE "status"
           /\ \E why \in {"passed", "missing"} :
               verified' = [tree |-> work, why |-> why] /\ (why = "missing" => OpenCode)
        \/ /\ outcome' = outcome /\ pc' = "ask" /\ verified' = verified
           /\ ~OpenCode /\ attempt < Attempts
        \/ outcome' = "failed" /\ pc' = "verify" /\ verified' = verified
    BY <1>1 DEF Verify, VerifyPatch, Goto, Fail
  <1>6. /\ verified' \in Verdict \cup {None}
        /\ pc' \in {"commit", "status"} =>
             /\ verified' # None /\ verified'.tree.changes = work'.changes
             /\ verified'.tree.install = work'.install
             /\ verified'.why = "passed" \/ (OpenCode /\ verified'.why = "missing")
    <2>1. CASE pc' \in {"commit", "status"}
      <3>1. PICK why \in {"passed", "missing"} :
               verified' = [tree |-> work, why |-> why] /\ (why = "missing" => OpenCode)
        BY <1>5, <2>1
      <3>2. verified' \in Verdict /\ verified' # None /\ verified'.tree = work /\ verified'.why = why
        BY <1>3, <3>1, NoneIsNothing
      <3> QED
        BY <1>2, <3>1, <3>2
    <2>2. CASE pc' \notin {"commit", "status"}
      BY <1>5, <2>2 DEF IInv, TypeOK
    <2> QED
      BY <2>1, <2>2
  <1>7. pc' \in {"commit", "status", "ask", "verify"} /\ outcome' \in {"running", "failed"}
    BY <1>1, <1>5
  <1>8. TypeOK'
    BY <1>1, <1>2, <1>6, <1>7 DEF IInv, TypeOK, Steps
  <1>9. AttemptInv'
    BY <1>1, <1>2, <1>3, <1>5 DEF IInv, AttemptInv, Late
  <1>10. AcceptedInv'
    BY <1>1, <1>6, <1>7 DEF AcceptedInv, Late
  <1>11. CommitsInv'
    BY <1>1, <1>7 DEF IInv, CommitsInv
  <1>12. WroteInv'
    BY <1>1, <1>2, <1>5 DEF IInv, WroteInv, Late
  <1>13. AgentInv' /\ RetryInv'
    BY <1>1, <1>4, <1>7 DEF IInv, AgentInv, AgentGone, RetryInv, NoPRIsLost
  <1> QED
    BY <1>8, <1>9, <1>10, <1>11, <1>12, <1>13 DEF IInv

(* Another patch is applied, and accepted where there is nothing to verify *)
(* it with.                                                                *)
LEMMA AskPatchInv ==
    ASSUME IInv, AskPatch
    PROVE  IInv'
  <1>1. /\ pc = "ask" /\ outcome = "running" /\ outcome' = "running" /\ ~raised /\ raised' = raised
        /\ ~OpenCode /\ ~OpenCode' /\ pr = None
        /\ UNCHANGED <<settings, remote, known, base, cut, head, commits, agent, pushed, tries, pr>>
    BY DEF AskPatch, Doing, Goto, Untested, job, target, hub, IInv, RetryInv, AcceptedInv, OpenCode
  <1>2. attempt' = attempt + 1 /\ attempt' \in 0 .. Attempts /\ attempt' > 0
    <2>1. attempt' = attempt + 1
      BY DEF AskPatch
    <2>2. attempt < Attempts
      BY <1>1 DEF IInv, AttemptInv
    <2> QED
      BY <2>1, <2>2, Current, CountsAssumption
  <1>3. PICK n \in (0 .. attempt') \ {work.changes} : work' = [work EXCEPT !.changes = n]
    BY DEF AskPatch
  <1>4. n \in 0 .. Attempts /\ n <= attempt' /\ n >= 0
    BY <1>2, <1>3, CountsAssumption
  <1>5. work' \in Tree /\ work'.changes = n /\ work'.install = work.install
    <2>1. work \in Tree
      BY DEF IInv, TypeOK
    <2> QED
      BY <1>3, <1>4, <2>1, WithChanges
  <1>6. attempt' = 1 => n > 0
    <2>1. work.changes \in Nat /\ work.changes <= attempt /\ attempt \in Nat
      BY Current DEF IInv, AttemptInv
    <2> QED
      BY <1>2, <1>3, <1>4, <2>1
  <1>7. agent = "none"
    BY <1>1 DEF IInv, AgentInv
  <1>8. \/ settings.test /\ pc' = "verify" /\ verified' = verified
        \/ ~settings.test /\ pc' = "status" /\ verified' = [tree |-> work', why |-> "untested"]
    BY DEF AskPatch, Goto, Untested
  <1>9. /\ verified' \in Verdict \cup {None}
        /\ pc' = "status" => verified' # None /\ verified'.tree = work' /\ ~settings.test
    <2>1. CASE verified' = verified /\ pc' = "verify"
      BY <2>1 DEF IInv, TypeOK
    <2>2. CASE ~settings.test /\ verified' = [tree |-> work', why |-> "untested"]
      <3>1. verified' \in Verdict /\ verified' # None /\ verified'.tree = work'
        BY <1>5, <2>2, NoneIsNothing
      <3> QED
        BY <2>2, <3>1
    <2> QED
      BY <1>8, <2>1, <2>2
  <1>10. TypeOK'
    BY <1>1, <1>2, <1>5, <1>8, <1>9 DEF IInv, TypeOK, Steps
  <1>11. AttemptInv'
    BY <1>1, <1>2, <1>4, <1>5, <1>8 DEF AttemptInv, Late
  <1>12. AcceptedInv'
    BY <1>1, <1>8, <1>9 DEF AcceptedInv, Late
  <1>13. CommitsInv'
    BY <1>1, <1>8 DEF IInv, CommitsInv
  <1>14. WroteInv'
    BY <1>1, <1>5, <1>6, <1>8 DEF IInv, WroteInv, Late
  <1>15. AgentInv' /\ RetryInv'
    BY <1>1, <1>7, <1>8 DEF AgentInv, AgentGone, RetryInv, NoPRIsLost
  <1> QED
    BY <1>10, <1>11, <1>12, <1>13, <1>14, <1>15 DEF IInv

(* The tree differs from the base by a change of the model, by files of    *)
(* the install command or by those of the verification command.            *)
LEMMA StatusInv ==
    ASSUME IInv, Status
    PROVE  IInv'
  <1>1. /\ pc = "status" /\ outcome = "running" /\ ~raised /\ raised' = raised
        /\ ~OpenCode /\ ~OpenCode' /\ pr = None
        /\ UNCHANGED <<settings, remote, known, attempt, base, cut, work, head, commits, verified,
                       agent, pushed, tries, pr>>
    BY DEF Status, Doing, Goto, Fail, job, target, repo, hub, IInv, AttemptInv, RetryInv, AcceptedInv,
       OpenCode
  <1>2. \/ work # head /\ pc' = "commit" /\ outcome' = outcome
        \/ pc' = pc /\ outcome' = "failed"
    BY DEF Status, Goto, Fail
  <1>3. ~settings.install /\ work # head => work.changes > 0 \/ (work.tests /\ attempt > 1)
    <2> SUFFICES ASSUME ~settings.install, work # head, ~(work.changes > 0)
                 PROVE  work.tests /\ attempt > 1
      OBVIOUS
    <2>1. head = Clean
      BY <1>1 DEF IInv, CommitsInv
    <2>2. work \in Tree /\ work.changes = 0 /\ work.install = FALSE
      BY Current DEF IInv, WroteInv
    <2>3. work = [changes |-> 0, install |-> FALSE, tests |-> work.tests] /\ work.tests \in BOOLEAN
      BY <2>2, TreeFields DEF Tree
    <2>4. work.tests
      BY <2>1, <2>3 DEF Clean
    <2>5. attempt \in Nat /\ attempt >= 1 /\ attempt # 1
      BY <1>1, Current DEF IInv, AttemptInv, WroteInv
    <2> QED
      BY <2>4, <2>5
  <1>4. TypeOK'
    BY <1>1, <1>2 DEF IInv, TypeOK, Steps
  <1>5. AttemptInv' /\ AcceptedInv' /\ CommitsInv'
    BY <1>1, <1>2 DEF IInv, AttemptInv, AcceptedInv, CommitsInv, Late
  <1>6. WroteInv'
    BY <1>1, <1>2, <1>3 DEF IInv, WroteInv, Late
  <1>7. AgentInv' /\ RetryInv'
    BY <1>1, <1>2 DEF IInv, AgentInv, AgentGone, RetryInv, NoPRIsLost
  <1> QED
    BY <1>4, <1>5, <1>6, <1>7 DEF IInv

(* The accepted tree is committed, and pushed.                             *)
LEMMA CommitInv ==
    ASSUME IInv, Commit \/ Push
    PROVE  IInv'
  <1>1. /\ pc \in {"commit", "push"} /\ outcome = "running" /\ ~raised /\ raised' = raised /\ pr = None
        /\ UNCHANGED <<settings, remote, known, attempt, base, cut, work, verified, agent, tries, pr>>
    BY DEF Commit, Push, Doing, Goto, Fail, job, target, repo, hub, IInv, RetryInv, AcceptedInv
  <1>2. \/ pc = "commit" /\ head' = work /\ pushed' = pushed /\ pc' = "push" /\ outcome' = outcome
        \/ pc = "push" /\ head' = head /\ pushed' = head /\ pc' = "post" /\ outcome' = outcome
        \/ pc = "push" /\ head' = head /\ pushed' = head /\ pc' = pc /\ outcome' = "failed"
    BY DEF Commit, Push, Doing, Goto, Fail, repo, hub
  <1>3. commits' = commits \/ commits' = commits \cup {"runner"}
    BY DEF Commit, Push, repo
  <1>4. TypeOK'
    BY <1>1, <1>2, <1>3 DEF IInv, TypeOK, Steps
  <1>5. AcceptedInv'
    BY <1>1, <1>2 DEF IInv, AcceptedInv, Late, OpenCode
  <1>6. AttemptInv' /\ CommitsInv'
    BY <1>1, <1>2, <1>3 DEF IInv, AttemptInv, CommitsInv, Late, OpenCode
  <1>7. WroteInv'
    BY <1>1, <1>2, <1>3 DEF IInv, WroteInv, Late, OpenCode
  <1>8. AgentInv' /\ RetryInv'
    BY <1>1, <1>2 DEF IInv, AgentInv, AgentGone, RetryInv, NoPRIsLost, OpenCode
  <1> QED
    BY <1>4, <1>5, <1>6, <1>7, <1>8 DEF IInv

(* The tree that was pushed is opened, by this request or an earlier one.  *)
LEMMA PostInv ==
    ASSUME IInv, Post \/ Lookup
    PROVE  IInv'
  <1>1. /\ pc \in {"post", "lookup"} /\ outcome = "running" /\ ~raised /\ ~raised' /\ raised' = raised
        /\ (pc = "lookup" => pr # None) /\ pushed = work /\ work \in Tree
        /\ UNCHANGED <<settings, remote, known, attempt, base, cut, work, head, commits, verified, agent, pushed>>
    <2>1. /\ pc \in {"post", "lookup"} /\ outcome = "running"
          /\ UNCHANGED <<settings, remote, known, attempt, base, cut, work, head, commits, verified, agent, pushed>>
      BY DEF Post, Lookup, Doing, job, target, repo
    <2>2. raised' = raised
      BY <2>1 DEF Post, Lookup, Goto, Fail, Unanswered, Opened
    <2> QED
      BY <2>1, <2>2 DEF IInv, RetryInv, AcceptedInv, TypeOK, Late
  <1>2. tries \in Nat /\ tries >= 1 /\ tries <= MaxTries /\ MaxTries \in Nat /\ MaxTries >= 1
    BY Current, CountsAssumption
  <1>3. \/ pr' = pr /\ (pr # None => pr.tree = work)
        \/ pr = None /\ pr' \in [tree : Tree, base : Names] /\ pr'.tree = work /\ pc = "post"
    <2>1. pr # None => pr.tree = work
      BY DEF IInv, AcceptedInv
    <2>2. CASE pr' = pr
      BY <2>1, <2>2
    <2>3. CASE pr' # pr
      <3>1. pr = None /\ base \in Among(remote.heads) /\ pr' = [tree |-> pushed, base |-> base] /\ pc = "post"
        BY <2>3 DEF Post, Lookup, Doing, Acceptable
      <3>2. remote.heads \in Seq(Names)
        BY RemoteAssumption DEF IInv, TypeOK
      <3>3. base \in Names
        <4>1. PICK i \in 1 .. Len(remote.heads) : base = remote.heads[i]
          BY <3>1 DEF Among
        <4> QED
          BY <3>2, <4>1, ElementOfSeq
      <3> QED
        BY <1>1, <3>1, <3>3
    <2> QED
      BY <2>2, <2>3
  <1>4. \/ pc' = pc /\ outcome' = "running" /\ tries' = tries + 1 /\ tries < MaxTries
        \/ pc' = pc /\ outcome' = "failed" /\ tries' = tries /\ tries >= MaxTries
        \/ pc' = pc /\ outcome' = "failed" /\ tries' = tries /\ pr = None /\ pr' = pr
        \/ pc' = pc /\ outcome' = "opened" /\ tries' = tries
        \/ pc' = "lookup" /\ outcome' = "running" /\ tries' = 1 /\ pr # None /\ pr' = pr
    <2>1. CASE Post
      <3>1. outcome = "running" /\ pc = "post"
        BY <2>1 DEF Post, Doing
      <3> QED
        BY <1>2, <2>1, <3>1 DEF Post, Unanswered, Opened, Goto, Fail
    <2>2. CASE Lookup
      <3>1. outcome = "running" /\ pc = "lookup"
        BY <2>2 DEF Lookup, Doing
      <3> QED
        BY <1>2, <2>2, <3>1 DEF Lookup, Unanswered, Opened, Goto, Fail
    <2> QED
      BY <2>1, <2>2
  <1>5. tries' \in 1 .. MaxTries /\ (outcome' = "failed" /\ pr' # None => tries' = MaxTries)
    <2>1. tries' \in 1 .. MaxTries
      BY <1>2, <1>4
    <2>2. outcome' = "failed" /\ pr' # None => tries >= MaxTries /\ tries' = tries
      BY <1>4
    <2> QED
      BY <1>2, <2>1, <2>2
  <1>6. pc' \in {"post", "lookup"} /\ outcome' \in {"running", "opened", "failed"}
        /\ (pc' = "lookup" => pr' # None) /\ (pr' # None => pr'.tree = work)
        /\ pr' \in [tree : Tree, base : Names] \cup {None}
    <2>1. pr \in [tree : Tree, base : Names] \cup {None}
      BY DEF IInv, TypeOK
    <2>2. pr # None => pr' # None
      BY <1>3
    <2> QED
      BY <1>1, <1>3, <1>4, <2>1, <2>2
  <1>7. TypeOK'
    BY <1>1, <1>5, <1>6 DEF IInv, TypeOK, Steps
  <1>8. AcceptedInv'
    BY <1>1, <1>6 DEF IInv, AcceptedInv, Late, OpenCode
  <1>9. RetryInv'
    BY <1>1, <1>5, <1>6 DEF RetryInv, NoPRIsLost
  <1> QED
    BY <1>1, <1>6, <1>7, <1>8, <1>9 DEF IInv, AttemptInv, AgentInv, AgentGone, CommitsInv, WroteInv, Late,
       OpenCode

(* An exception ends the run, by way of the finally clause where there is  *)
(* one; the worker may die.                                                *)
LEMMA RaiseInv ==
    ASSUME IInv, Raise \/ Die
    PROVE  IInv'
  <1>1. /\ outcome = "running"
        /\ UNCHANGED <<settings, remote, known, attempt, base, cut, work, head, commits, verified, agent, pushed, tries, pr>>
    BY DEF Raise, Die, job, target, repo, hub
  <1>2. \/ raised' = TRUE /\ pc \in {"add", "ask", "changes"} /\ OpenCode /\ pc' = "cleanup" /\ outcome' = outcome
        \/ raised' = TRUE /\ outcome' = "failed" /\ pc' = pc /\ pc # "cleanup"
           /\ ~(OpenCode /\ pc \in {"add", "ask", "changes"})
        \/ raised' = raised /\ outcome' = "dead" /\ pc' = pc
    BY DEF Raise, Die
  <1>3. TypeOK'
    <2>1. raised' \in BOOLEAN
      BY <1>2 DEF IInv, TypeOK
    <2>2. pc' \in Steps
      BY <1>2 DEF IInv, TypeOK, Steps
    <2>3. outcome' \in {"running", "opened", "failed", "dead"}
      BY <1>1, <1>2
    <2> QED
      BY <1>1, <2>1, <2>2, <2>3 DEF IInv, TypeOK
  <1>4. AttemptInv' /\ AcceptedInv'
    BY <1>1, <1>2 DEF IInv, AttemptInv, AcceptedInv, Late, OpenCode
  <1>7. CommitsInv' /\ WroteInv'
    BY <1>1, <1>2 DEF IInv, CommitsInv, WroteInv, Late, OpenCode
  <1>5. AgentInv'
    BY <1>1, <1>2 DEF IInv, AgentInv, AgentGone, OpenCode
  <1>6. RetryInv'
    BY <1>1, <1>2 DEF IInv, RetryInv, NoPRIsLost
  <1> QED
    BY <1>3, <1>4, <1>5, <1>6, <1>7 DEF IInv

(* IInv is inductive.                                                      *)
LEMMA NextInv == IInv /\ [Next]_vars => IInv'
  <1> SUFFICES ASSUME IInv, [Next]_vars PROVE IInv'
    OBVIOUS
  <1>1. CASE Next
    BY <1>1, CloneInv, PrepareInv, AddAgentInv, AskInv, ChangesInv, CleanupInv, CheckInv, VerifyInv,
       AskPatchInv, StatusInv, CommitInv, PostInv, RaiseInv DEF Next
  <1>2. CASE UNCHANGED vars
    <2>1. UNCHANGED <<settings, remote, known, pc, attempt, raised, base, cut, work, head, commits, verified, agent, pushed,
                      tries, pr, outcome>>
      BY <1>2 DEF vars, job, target, repo, hub
    <2>2. TypeOK'
      BY <2>1 DEF IInv, TypeOK
    <2>5. AttemptInv'
      BY <2>1 DEF IInv, AttemptInv, OpenCode
    <2>3. AgentInv' /\ RetryInv'
      BY <2>1 DEF IInv, AgentInv, AgentGone, RetryInv, NoPRIsLost, OpenCode
    <2>4. AcceptedInv' /\ CommitsInv' /\ WroteInv'
      BY <2>1 DEF IInv, AcceptedInv, CommitsInv, WroteInv, OpenCode
    <2> QED
      BY <2>2, <2>3, <2>4, <2>5 DEF IInv
  <1> QED
    BY <1>1, <1>2

(* IInv holds in every state of a run, whatever the fairness.              *)
THEOREM RunnerInvariant == Spec => []IInv
  BY InitInv, NextInv, PTL DEF Spec

(* Every variable keeps to its values.                                     *)
THEOREM RunnerTyped == Spec => []TypeOK
  <1>1. IInv => TypeOK
    BY DEF IInv
  <1> QED
    BY <1>1, RunnerInvariant, PTL

(* A pull request holds what was verified (coderunner_adapter.py).         *)
THEOREM PullRequestsAreVerified == Spec => []VerifiedPR
  <1>1. IInv => VerifiedPR
    <2> SUFFICES ASSUME IInv, pr # None PROVE VerifiedPR
      BY DEF VerifiedPR
    <2>1. pc \in Late /\ pr.tree = work /\ verified # None
          /\ verified.tree.changes = work.changes /\ verified.tree.install = work.install
          /\ (settings.test => verified.why = "passed" \/ (OpenCode /\ verified.why = "missing"))
      BY DEF IInv, AcceptedInv, Late
    <2>2. verified.tree \in Tree /\ work \in Tree
      BY <2>1 DEF IInv, TypeOK, Verdict
    <2>3. [work EXCEPT !.tests = verified.tree.tests] = verified.tree
      BY <2>1, <2>2 DEF Tree
    <2> QED
      BY <2>1, <2>3 DEF VerifiedPR
  <1> QED
    BY <1>1, RunnerInvariant, PTL

(* A pull request has a change of the model in it.                         *)
THEOREM PullRequestsHoldAChange == Spec => []ModelWroteIt
  <1>1. IInv => ModelWroteIt
    BY DEF IInv, AcceptedInv, CommitsInv, WroteInv, ModelWroteIt, Late
  <1> QED
    BY <1>1, RunnerInvariant, PTL

(* A run that fails has not lost track of a pull request that GitHub would *)
(* have told it of.                                                        *)
THEOREM NoPullRequestIsLost == Spec => []NoPRIsLost
  <1>1. IInv => NoPRIsLost
    BY DEF IInv, RetryInv
  <1> QED
    BY <1>1, RunnerInvariant, PTL

(* The temporary agent is deleted at every end but the worker's.           *)
THEOREM AgentsAreDeleted == Spec => []AgentGone
  <1>1. IInv => AgentGone
    BY DEF IInv, AgentInv
  <1> QED
    BY <1>1, RunnerInvariant, PTL

(* What a tree holds for the build worker.                                 *)
LEMMA ChangeIsPatch ==
    ASSUME NEW t \in Tree
    PROVE  Change(t) \in Patch /\ Change(t) # None
  BY TreeFields, NoneAssumption DEF Change, Patch

(* A step that accepts nothing and opens nothing ends the run or is hidden *)
(* from the build worker.                                                  *)
LEMMA QuietStep ==
    ASSUME outcome = "running", verified' = verified, pr' = pr,
           outcome' \in {"running", "failed", "dead"} \/ (outcome' = "opened" /\ pr # None),
           TypeOK
    PROVE  [Promise!Next]_<<IF verified = None THEN None ELSE Change(verified.tree),
                            IF pr = None THEN None ELSE Change(pr.tree), outcome>>
  <1>1. CASE outcome' = "running"
    BY <1>1
  <1>2. CASE outcome' # "running"
    <2>1. outcome' \in {"opened", "failed", "dead"}
      BY <1>2
    <2>2. pr # None => (IF pr = None THEN None ELSE Change(pr.tree)) # None
      BY ChangeIsPatch DEF TypeOK
    <2>3. Promise!End(outcome')
      BY <2>1, <2>2 DEF Promise!End
    <2> QED
      BY <2>1, <2>3 DEF Promise!Next
  <1> QED
    BY <1>1, <1>2

(* A step that accepts a tree.                                             *)
LEMMA AcceptStep ==
    ASSUME outcome = "running", outcome' = "running", pr = None, pr' = pr,
           NEW t \in Tree, NEW w \in {"passed", "untested", "missing"},
           verified' = [tree |-> t, why |-> w]
    PROVE  Promise!Next
  <1>1. verified' # None /\ verified'.tree = t
    BY NoneIsNothing
  <1>2. Promise!Accept(Change(t))
    BY <1>1 DEF Promise!Accept
  <1> QED
    BY <1>2, ChangeIsPatch DEF Promise!Next

(* The step that opens the pull request opens what was accepted.           *)
LEMMA OpenStep ==
    ASSUME IInv, outcome = "running", outcome' \in {"running", "opened", "failed"}, pc = "post", pr = None,
           pr' = [tree |-> pushed, base |-> base], base \in Names, verified' = verified
    PROVE  Promise!Next
  <1>1. verified # None /\ verified.tree.changes = work.changes /\ verified.tree.install = work.install
        /\ pushed = work /\ work \in Tree
    BY DEF IInv, AcceptedInv, TypeOK, Late
  <1>2. Change(verified.tree) = Change(work) /\ Change(work) # None
    BY <1>1, ChangeIsPatch DEF Change
  <1>3. pr' # None /\ pr'.tree = work
    BY <1>1, NoneIsNothing
  <1>4. Promise!Open
    BY <1>1, <1>2, <1>3 DEF Promise!Open
  <1> QED
    BY <1>4 DEF Promise!Next

(* Every step of a runner is a step of RunnerPromise, or hidden from it.   *)
LEMMA StepKeepsPromise ==
    ASSUME IInv, [Next]_vars
    PROVE  [Promise!Next]_<<IF verified = None THEN None ELSE Change(verified.tree),
                            IF pr = None THEN None ELSE Change(pr.tree), outcome>>
  <1>1. CASE UNCHANGED vars
    BY <1>1 DEF vars, hub
  <1>2. TypeOK
    BY DEF IInv
  <1>3. CASE CloneRequested \/ CloneDefault \/ Prepare \/ AddAgent \/ Ask \/ Changes
    <2>1. outcome = "running" /\ outcome' \in {"running", "failed"} /\ verified' = verified /\ pr' = pr
      BY <1>3 DEF CloneRequested, CloneDefault, Prepare, AddAgent, Ask, Changes, Doing, Goto, Fail, hub
    <2> QED
      BY <1>2, <2>1, QuietStep
  <1>4. CASE Cleanup \/ Status \/ Commit \/ Push \/ Raise \/ Die
    <2>1. outcome = "running" /\ outcome' \in {"running", "failed", "dead"} /\ verified' = verified /\ pr' = pr
      BY <1>4 DEF Cleanup, Status, Commit, Push, Raise, Die, Doing, Goto, Fail, hub
    <2> QED
      BY <1>2, <2>1, QuietStep
  <1>5. CASE Check \/ AskPatch
    <2>1. outcome = "running" /\ pr' = pr /\ pr = None
      BY <1>5 DEF Check, AskPatch, Doing, hub, IInv, AcceptedInv
    <2>2. \/ verified' = verified /\ outcome' \in {"running", "failed"}
          \/ verified' = [tree |-> work', why |-> "untested"] /\ outcome' = "running"
      BY <1>5, <2>1 DEF Check, AskPatch, Goto, Fail, Untested
    <2>3. work' \in Tree
      BY <1>5, CheckInv, AskPatchInv DEF IInv, TypeOK
    <2>4. CASE verified' = verified /\ outcome' \in {"running", "failed"}
      BY <1>2, <2>1, <2>4, QuietStep
    <2>5. CASE verified' = [tree |-> work', why |-> "untested"] /\ outcome' = "running"
      BY <2>1, <2>3, <2>5, AcceptStep
    <2> QED
      BY <2>2, <2>4, <2>5
  <1>6. CASE Verify \/ VerifyPatch
    <2>1. outcome = "running" /\ pr' = pr /\ pr = None /\ work \in Tree
      BY <1>6 DEF Verify, VerifyPatch, Doing, hub, IInv, AcceptedInv, TypeOK
    <2>2. \/ verified' = verified /\ outcome' \in {"running", "failed"}
          \/ outcome' = "running" /\ \E w \in {"passed", "missing"} : verified' = [tree |-> work, why |-> w]
      BY <1>6, <2>1 DEF Verify, VerifyPatch, Goto, Fail
    <2>3. CASE verified' = verified /\ outcome' \in {"running", "failed"}
      BY <1>2, <2>1, <2>3, QuietStep
    <2>4. CASE outcome' = "running" /\ \E w \in {"passed", "missing"} : verified' = [tree |-> work, why |-> w]
      <3>1. PICK w \in {"passed", "missing"} : verified' = [tree |-> work, why |-> w]
        BY <2>4
      <3> QED
        BY <2>1, <2>4, <3>1, AcceptStep
    <2> QED
      BY <2>2, <2>3, <2>4
  <1>7. CASE Post
    <2>1. outcome = "running" /\ pc = "post" /\ verified' = verified
          /\ outcome' \in {"running", "opened", "failed"}
      BY <1>7 DEF Post, Doing, Unanswered, Opened, Goto, Fail
    <2>2. \/ pr' = pr /\ outcome' \in {"running", "failed"}
          \/ pr = None /\ base \in Among(remote.heads) /\ pr' = [tree |-> pushed, base |-> base]
      BY <1>7, <2>1 DEF Post, Unanswered, Goto, Fail, Acceptable
    <2>3. CASE pr' = pr /\ outcome' \in {"running", "failed"}
      BY <1>2, <2>1, <2>3, QuietStep
    <2>4. CASE pr = None /\ base \in Among(remote.heads) /\ pr' = [tree |-> pushed, base |-> base]
      <3>1. remote.heads \in Seq(Names)
        BY RemoteAssumption DEF IInv, TypeOK
      <3>2. PICK i \in 1 .. Len(remote.heads) : base = remote.heads[i]
        BY <2>4 DEF Among
      <3>3. base \in Names
        BY <3>1, <3>2, ElementOfSeq
      <3> QED
        BY <2>1, <2>4, <3>3, OpenStep
    <2> QED
      BY <2>2, <2>3, <2>4
  <1>8. CASE Lookup
    <2>1. outcome = "running" /\ pc = "lookup" /\ pr # None /\ verified' = verified /\ pr' = pr
      BY <1>8 DEF Lookup, Doing, IInv, AcceptedInv
    <2>2. outcome' \in {"running", "opened", "failed"}
      BY <1>8, <2>1 DEF Lookup, Unanswered, Opened, Fail
    <2> QED
      BY <1>2, <2>1, <2>2, QuietStep
  <1> QED
    BY <1>1, <1>3, <1>4, <1>5, <1>6, <1>7, <1>8 DEF Next

(* A code runner implements what the build worker relies on                *)
(* (RunnerPromise): it opens one pull request at most, with the tree it    *)
(* accepted, and reports only one that is there.                           *)
THEOREM RunnerKeepsPromise == Spec => PromiseKept
  <1>1. Init => Promise!Init
    BY DEF Init, Promise!Init
  <1>2. IInv /\ [Next]_vars =>
          [Promise!Next]_<<IF verified = None THEN None ELSE Change(verified.tree),
                           IF pr = None THEN None ELSE Change(pr.tree), outcome>>
    BY StepKeepsPromise
  <1> QED
    BY <1>1, <1>2, RunnerInvariant, PTL DEF Spec, PromiseKept, Promise!Spec

(* The base of the pull request is the branch the tree was cut from, and   *)
(* no generated one that was not asked for, but for the cases BaseFitsTree *)
(* names, whichever of the listings and of the looks at the default branch *)
(* failed (coderunner_adapter.py, _prepare_target_repo).                   *)
THEOREM BaseMatchesTree == Spec => []BaseFitsTree
  <1>1. Init => BaseFitsTree
    BY DEF Init, BaseFitsTree
  <1>2. IInv /\ BaseFitsTree /\ [Next]_vars => BaseFitsTree'
    <2> SUFFICES ASSUME IInv, BaseFitsTree, [Next]_vars PROVE BaseFitsTree'
      OBVIOUS
    <2>1. CASE CloneRequested \/ CloneDefault
      BY <2>1, CloneFits DEF IInv
    <2>2. CASE UNCHANGED <<job, target>>
      <3>1. UNCHANGED <<settings, remote, known, base, cut>>
        BY <2>2 DEF job, target
      <3> QED
        BY <3>1 DEF BaseFitsTree
    <2>3. CASE Prepare \/ AddAgent \/ Ask \/ Changes \/ Cleanup \/ Check \/ Verify
      BY <2>2, <2>3 DEF Prepare, AddAgent, Ask, Changes, Cleanup, Check, Verify
    <2>4. CASE AskPatch \/ VerifyPatch \/ Status \/ Commit \/ Push \/ Post \/ Lookup
      BY <2>2, <2>4 DEF AskPatch, VerifyPatch, Status, Commit, Push, Post, Lookup
    <2>5. CASE Raise \/ Die \/ UNCHANGED vars
      BY <2>2, <2>5 DEF Raise, Die, vars
    <2> QED
      BY <2>1, <2>3, <2>4, <2>5 DEF Next
  <1> QED
    BY <1>1, <1>2, RunnerInvariant, PTL DEF Spec
=============================================================================

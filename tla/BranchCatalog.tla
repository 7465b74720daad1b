---------------------------- MODULE BranchCatalog ----------------------------
(***************************************************************************)
(* What the intake offers to choose from: repositories, the branches of    *)
(* one, and its default branch, from the caches of the slackbot process,   *)
(* the indexer, a local clone or GitHub.  A handler runs in a thread of    *)
(* its own, and nothing locks the caches.                                  *)
(*                                                                         *)
(* Content is told by its age: what GitHub held that many ticks ago.  Ages *)
(* stop at Old, so time needs no bound.  An entry that has expired is not  *)
(* there: only the order of a list may still come from one.  The caches of *)
(* repositories and of branches do not meet, so that a behaviour is about  *)
(* the one or the other.                                                   *)
(***************************************************************************)
EXTENDS BranchNames

CONSTANTS
    Threads,
    Ttl,        \* GITHUB_OPTION_CACHE_TTL_SECONDS
    Listings,   \* in which orders a remote's branches may be listed
    None

(* No listing holds a name twice: a repeated one is dropped where branches *)
(* are read and again where they are sorted.                               *)
ASSUME CatalogAssumption ==
    /\ Ttl \in Nat \ {0} /\ Listings \subseteq Seq(Names)
    /\ \A bs \in Listings : \A i, j \in 1 .. Len(bs) : bs[i] = bs[j] => i = j

VARIABLES
    lists,      \* what is asked for
    indexer,    \* repo_indexer_enabled
    options,    \* GITHUB_{REPO,BRANCH}_OPTIONS_CACHE, GITHUB_REPO_DEFAULT_BRANCH_CACHE
    payload,    \* INDEXER_CATALOG_CACHE
    clone,      \* None, or the age of origin/HEAD in the local clone
    th          \* thread -> what its handler is fetching

vars == <<lists, indexer, options, payload, clone, th>>

Old      == 2 * Ttl
Repos    == {"repos"}
Branches == {"branches", "default"}
Lists    == Repos \cup Branches

(* An entry and a payload are kept under the time at which fetching them   *)
(* began; kept is a default branch from a clone whose origin/HEAD could    *)
(* not be updated.                                                         *)
Entry   == [stamp : 0 .. Ttl - 1, age : 0 .. Old, kept : BOOLEAN]
Payload == [stamp : 0 .. Ttl - 1, age : 0 .. Old]
Default == [age : 0 .. Old, kept : BOOLEAN]

Idle ==
    [at |-> "idle", list |-> "repos", stamp |-> 0, asked |-> 0, got |-> 0, default |-> None]

Thread ==
    [at : {"idle", "index", "suggest", "suggested", "token", "sync", "synced", "api", "answered"},
     list : Lists, stamp : 0 .. Ttl, asked : 0 .. Ttl, got : 0 .. Old, default : Default \cup {None}]

TypeOK ==
    /\ lists \in {Repos, Branches} /\ indexer \in BOOLEAN
    /\ options \in [lists -> Entry \cup {None}]
    /\ payload \in Payload \cup {None}
    /\ clone \in 0 .. Old \cup {None}
    /\ th \in [Threads -> Thread]

Init ==
    /\ lists \in {Repos, Branches} /\ indexer \in BOOLEAN
    /\ options = [l \in lists |-> None]
    /\ payload = None
    /\ clone = None
    /\ th = [t \in Threads |-> Idle]

Doing(t, s)    == th[t].at = s
Move(t, s)  == th' = [th EXCEPT ![t] = [Idle EXCEPT !.at = s, !.list = th[t].list, !.stamp = th[t].stamp]]
Done(t)     == th' = [th EXCEPT ![t] = Idle]

-----------------------------------------------------------------------------
(* fetch_repositories_for_user, fetch_branches_for_repo,                   *)
(* fetch_default_branch_for_repo.                                          *)

(* What is cached and fresh is the answer.                                 *)
Ask(t, l) ==
    /\ Doing(t, "idle")
    /\ IF options[l] # None THEN UNCHANGED th
       ELSE th' = [th EXCEPT ![t] = [Idle EXCEPT !.at = IF indexer THEN "index" ELSE "token", !.list = l]]
    /\ UNCHANGED <<lists, indexer, options, payload, clone>>

(* Mutation: an entry is stamped when it is stored.                        *)
KeptMutant(t, age, old) == [stamp |-> 0, age |-> age, kept |-> old]

Kept(t, age, old) ==
    IF th[t].stamp < Ttl THEN [stamp |-> th[t].stamp, age |-> age, kept |-> old] ELSE None

(* An indexer's payload may have nothing of what is asked for; a branch    *)
(* list may come with the default branch.                                  *)
Use(t, age) ==
    \/ \E ls \in {{th[t].list}, {"branches", "default"}} :
        /\ th[t].list \in ls /\ (ls # {th[t].list} => th[t].list = "branches")
        /\ options' = [l \in lists |-> IF l \in ls THEN Kept(t, age, FALSE) ELSE options[l]]
        /\ Done(t)
    \/ Move(t, "token") /\ UNCHANGED options

(* fetch_indexer_catalog_payload has a cache of its own.                   *)
Index(t) ==
    /\ Doing(t, "index")
    /\ IF payload # None THEN Use(t, payload.age)
       ELSE th' = [th EXCEPT ![t].at = "suggest", ![t].asked = 0] /\ UNCHANGED options
    /\ UNCHANGED <<lists, indexer, payload, clone>>

(* The indexer looks at GitHub; its answer may get lost.                   *)
Suggest(t) ==
    /\ Doing(t, "suggest")
    /\ \/ th' = [th EXCEPT ![t].at = "suggested", ![t].got = 0]
       \/ Move(t, "token")
    /\ UNCHANGED <<lists, indexer, options, payload, clone>>

Suggested(t) ==
    /\ Doing(t, "suggested")
    /\ payload' = IF th[t].asked < Ttl THEN [stamp |-> th[t].asked, age |-> th[t].got] ELSE None
    /\ Use(t, th[t].got)
    /\ UNCHANGED <<lists, indexer, clone>>

(* The user has a token, or gets no list.                                  *)
Token(t) ==
    /\ Doing(t, "token")
    /\ \/ Done(t)
       \/ Move(t, IF th[t].list = "repos" THEN "api" ELSE "sync")
    /\ UNCHANGED <<lists, indexer, options, payload, clone>>

(* fetch_branches_via_worktree_catalog: fetching the branches or cloning   *)
(* may fail; updating origin/HEAD may fail and is not missed.              *)
Sync(t) ==
    /\ Doing(t, "sync")
    /\ \/ Move(t, "api") /\ UNCHANGED clone
       \/ \E updated \in BOOLEAN, known \in BOOLEAN :
            /\ clone' = IF updated \/ clone = None THEN 0 ELSE clone
            /\ th' = [th EXCEPT ![t].at = "synced", ![t].got = 0,
                        ![t].default = IF known THEN [age |-> clone', kept |-> ~updated /\ clone # None]
                                       ELSE None]
    /\ UNCHANGED <<lists, indexer, options, payload>>

Synced(t) ==
    /\ Doing(t, "synced")
    /\ LET d == th[t].default IN
        IF th[t].list = "default" /\ d = None THEN Move(t, "api") /\ UNCHANGED options
        ELSE /\ options' = [options EXCEPT
                    !["branches"] = Kept(t, th[t].got, FALSE),
                    !["default"] = IF d = None THEN @ ELSE Kept(t, d.age, d.kept)]
             /\ Done(t)
    /\ UNCHANGED <<lists, indexer, payload, clone>>

(* A token that is refused raises GitHubAuthError; any other error evicts  *)
(* what is cached.                                                         *)
Api(t) ==
    /\ Doing(t, "api")
    /\ \/ th' = [th EXCEPT ![t].at = "answered", ![t].got = 0] /\ UNCHANGED options
       \/ Done(t) /\ UNCHANGED options
       \/ Done(t) /\ options' = [options EXCEPT ![th[t].list] = None]
    /\ UNCHANGED <<lists, indexer, payload, clone>>

Answered(t) ==
    /\ Doing(t, "answered")
    /\ options' = [options EXCEPT ![th[t].list] = Kept(t, th[t].got, FALSE)]
    /\ Done(t)
    /\ UNCHANGED <<lists, indexer, payload, clone>>

Later(n, max) == IF n < max THEN n + 1 ELSE n

LaterEntry(e) ==
    IF e = None \/ e.stamp = Ttl - 1 THEN None ELSE [e EXCEPT !.stamp = @ + 1, !.age = Later(@, Old)]

Tick ==
    /\ options' = [l \in lists |-> LaterEntry(options[l])]
    /\ payload' = LaterEntry(payload)
    /\ clone' = IF clone = None THEN None ELSE Later(clone, Old)
    /\ th' = [t \in Threads |->
                IF Doing(t, "idle") THEN Idle
                ELSE [th[t] EXCEPT
                        !.stamp = Later(@, Ttl), !.asked = Later(@, Ttl), !.got = Later(@, Old),
                        !.default = IF @ = None THEN None ELSE [age |-> Later(@.age, Old), kept |-> @.kept]]]
    /\ UNCHANGED <<lists, indexer>>

Next ==
    \/ \E t \in Threads, l \in lists : Ask(t, l)
    \/ \E t \in Threads :
        Index(t) \/ Suggest(t) \/ Suggested(t) \/ Token(t) \/ Sync(t) \/ Synced(t) \/ Api(t) \/ Answered(t)
    \/ Tick

Spec == Init /\ [][Next]_vars

-----------------------------------------------------------------------------
(* What a handler is offered from a cache was on GitHub less than a Ttl    *)
(* ago, or less than two where the indexer's cache is behind it, whatever  *)
(* the threads do to each other's entries; only a default branch from a    *)
(* clone that could not update it may be older.                            *)
BoundedStaleness ==
    \A l \in lists :
        options[l] # None /\ ~options[l].kept =>
            options[l].age < (IF indexer THEN 2 * Ttl ELSE Ttl)

(* A clone has just been synchronised, and nobody fetches anything.        *)
JustListed ==
    /\ clone = 0 /\ payload = None /\ lists = Branches
    /\ \A l \in lists : options[l] = [stamp |-> 0, age |-> 0, kept |-> FALSE]
    /\ \A t \in Threads : th[t] = Idle

(* Whatever is listed, and whichever worktree was left: every branch is    *)
(* offered once, the default first, the generated ones last; the fallback  *)
(* that is announced for a generated default is the first branch below it  *)
(* that is not generated, unless the worktree's is, and the one the code   *)
(* runner picks from another listing, where a candidate exists.            *)
OfferedInOrder ==
    JustListed =>
    \A bs \in Listings, default \in Names \cup {""}, worktree \in {{}} \cup {{b} : b \in Names} :
        LET out == Sorted(bs, default, worktree)
            fit == Among(bs) \ Generated
        IN /\ Len(out) = Len(bs) /\ Among(out) = Among(bs)
           /\ default \in Among(bs) => out[1] = default
           /\ \A i, j \in 1 .. Len(out) :
                i < j /\ out[i] \in Generated /\ out[j] \in fit => out[i] = default
           /\ default \in Generated /\ worktree = {} /\ fit # {} =>
                StableFallback(bs, default) = Best(out, fit)
           /\ Among(Candidates) \cap fit # {} =>
                StableFallback(out, default) = StableFallback(bs, default)
=============================================================================

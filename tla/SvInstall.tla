----------------------------- MODULE SvInstall -----------------------------
(***************************************************************************)
(* `sv install` (sv/sv.js): clone or update a repository to a branch of a  *)
(* remote, then install the dependencies that its settings.yaml names, by  *)
(* calling itself.  One shell runs installs one after another; the         *)
(* developer works in the clones at any time, a prompt included, and       *)
(* others push to the remotes.                                             *)
(*                                                                         *)
(* The history of a remote branch is linear: a commit is its number.  A    *)
(* local branch holds one of them and may have commits of its own on top.  *)
(***************************************************************************)
EXTENDS Integers, Sequences

CONSTANTS
    Repos,      \* repositories: <<type, name>>
    Remotes,    \* "origin" and forks
    EndsWith,   \* <<x, y>>: the name of remote x ends with that of remote y
    Branches,   \* names of branches, as the sequences of their parts
    Published,  \* the branches a repository has: <<remote, branch>>
    Deps,       \* dependencies in the settings.yaml of <<repo, upstream>>,
                \* which only applications have
    Requests,   \* command lines
    Developed,  \* repositories somebody works on
    Topic,      \* name of a branch the developer makes, without an upstream
    MaxTip,     \* bound: commits of <<repository, remote branch>>
    Nil

Upstreams == Remotes \X Branches
Dependencies == [repo : Repos, branch : Branches]

\* desiredLocalBranch: the branch, or remote-branch.  The branch "x" of the
\* remote "fork" and the branch "fork-x" of origin share a name.
LocalName(up) == IF up[1] = "origin" THEN up[2] ELSE <<up[1]>> \o up[2]
Locals == {LocalName(up) : up \in Upstreams} \cup {Topic}

\* A clone knows the commits of the remotes' branches as of the last fetch, 0
\* of those that it has not seen.
Branch == [up : Upstreams \cup {Nil}, n : Nat, own : BOOLEAN]
Clones == [head : Locals, local : [Locals -> Branch \cup {Nil}],
           track : [Upstreams -> Nat], remotes : SUBSET Remotes,
           dirty : BOOLEAN]

ASSUME InstallAssumption ==
    /\ Repos \subseteq {"app", "container"} \X STRING
    /\ "origin" \in Remotes /\ <<"master">> \in Branches
    /\ \A x \in Remotes : <<x, x>> \in EndsWith
    /\ \A r \in Repos : /\ <<"origin", <<"master">> >> \in Published[r]
                        /\ Published[r] \subseteq Upstreams
    /\ Deps \in [Repos \X Upstreams -> Seq(Dependencies)]
    /\ \A r \in Repos, up \in Upstreams : r[1] # "app" => Deps[r, up] = <<>>
    /\ Requests \subseteq [repo : Repos, up : Upstreams, deps : BOOLEAN]
    /\ Developed \subseteq Repos
    /\ MaxTip \in [Repos \X Upstreams -> Nat \ {0}]
    /\ Nil \notin Upstreams /\ Nil \notin Branch /\ Nil \notin Clones

VARIABLES
    tip,      \* the last commit of each remote branch of each repository
    clone,    \* the clones under /sv, Nil if there is none
    stack,    \* the running invocations of sv install, the innermost first
    partial   \* history: a prompt was answered no, or a clone was not clean

vars == <<tip, clone, stack, partial>>

Frame(r, up, deps) ==
    [repo |-> r, up |-> up, deps |-> deps, todo |-> <<>>, pc |-> "clone"]
Top == Head(stack)
Idle == stack = <<>>
At(label) == ~Idle /\ Top.pc = label

\* The innermost invocation goes on at a label, or all of them end: what
\* throws in one makes the exec of the one that called it throw.
Goto(label) == stack' = <<[Top EXCEPT !.pc = label]>> \o Tail(stack)
Throw == stack' = <<>>

Repo == clone[Top.repo]
SetRepo(c) == clone' = [clone EXCEPT ![Top.repo] = c]
Here(c) == c.local[c.head]
-----------------------------------------------------------------------------
Init ==
    /\ tip = [r \in Repos |->
                  [up \in Upstreams |-> IF up \in Published[r] THEN 1 ELSE 0]]
    /\ clone = [r \in Repos |-> Nil]
    /\ stack = <<>>
    /\ partial = FALSE

\* sv install of a command line.
Request(q) ==
    /\ Idle
    /\ stack' = <<Frame(q.repo, q.up, q.deps)>>
    /\ partial' = FALSE
    /\ UNCHANGED <<tip, clone>>

\* git clone checks out the master branch of origin.
Cloned(r) ==
    LET master == <<"origin", <<"master">> >>
    IN  [head |-> <<"master">>,
         local |-> [b \in Locals |-> IF b = <<"master">>
                      THEN [up |-> master, n |-> tip[r][master], own |-> FALSE]
                      ELSE Nil],
         track |-> [up \in Upstreams |->
                      IF up[1] = "origin" THEN tip[r][up] ELSE 0],
         remotes |-> {"origin"},
         dirty |-> FALSE]

\* existsSync, or git clone.
Clone ==
    /\ At("clone")
    /\ \/ /\ Repo = Nil
          /\ SetRepo(Cloned(Top.repo))
       \/ Repo # Nil /\ UNCHANGED clone
    /\ Goto("fetch")
    /\ UNCHANGED <<tip, partial>>

Fetched(r, c, remote) ==
    [up \in Upstreams |-> IF up[1] = remote THEN tip[r][up] ELSE c.track[up]]

\* A mutated form: git fetch without the name of the remote.
FetchOrigin ==
    /\ At("fetch")
    /\ SetRepo([Repo EXCEPT !.remotes = @ \cup {Top.up[1]},
                            !.track = Fetched(Top.repo, Repo, "origin")])
    /\ Goto("check")
    /\ UNCHANGED <<tip, partial>>

\* `git remote | grep <remote>$`, or git remote add; then git fetch, which may
\* fail.  When only the end of another remote's name matched, the remote is not
\* there.
Fetch ==
    LET remote == Top.up[1]
        matched == \E x \in Repo.remotes : <<x, remote>> \in EndsWith
        c == [Repo EXCEPT !.remotes = IF matched THEN @ ELSE @ \cup {remote}]
    IN  /\ At("fetch")
        /\ \/ /\ remote \in c.remotes
              /\ SetRepo([c EXCEPT !.track = Fetched(Top.repo, c, remote)])
              /\ Goto("check")
           \/ SetRepo(c) /\ Throw
        /\ UNCHANGED <<tip, partial>>

\* git_state: with uncommitted changes the install of this repository is over,
\* which is no error.
Dirty ==
    /\ At("check")
    /\ Repo.dirty
    /\ partial' = TRUE
    /\ stack' = Tail(stack)
    /\ UNCHANGED <<tip, clone>>

\* git rev-parse @{u} throws when the current branch has no upstream.
Tracking ==
    /\ At("check")
    /\ ~Repo.dirty
    /\ \/ Here(Repo).up = Nil /\ Throw
       \/ /\ Here(Repo).up # Nil
          /\ Goto(IF Here(Repo).up = Top.up THEN "status" ELSE "switch")
    /\ UNCHANGED <<tip, clone, partial>>

\* git show-ref of the local branch, or git branch --track, for which there has
\* to be a branch to track.
Created(c) ==
    LET b == LocalName(Top.up)
    IN  IF c.local[b] # Nil THEN c
        ELSE [c EXCEPT !.local[b] =
                 [up |-> Top.up, n |-> c.track[Top.up], own |-> FALSE]]
Creatable == \/ Repo.local[LocalName(Top.up)] # Nil
             \/ Top.up \in Published[Top.repo]

\* A mutated form: git checkout --force.
SwitchForced ==
    /\ At("switch")
    /\ Creatable
    /\ SetRepo([Created(Repo) EXCEPT !.head = LocalName(Top.up),
                                     !.dirty = FALSE])
    /\ Goto("status")
    /\ UNCHANGED <<tip, partial>>

\* Enter at the prompt: git checkout keeps uncommitted changes that were made
\* since the check, or refuses because of them; the branch has been made then.
Switch ==
    /\ At("switch")
    /\ \/ /\ Creatable
          /\ SetRepo([Created(Repo) EXCEPT !.head = LocalName(Top.up)])
          /\ Goto("status")
       \/ /\ Creatable
          /\ SetRepo(Created(Repo))
          /\ Throw
       \/ /\ ~Creatable
          /\ Throw
          /\ UNCHANGED clone
    /\ UNCHANGED <<tip, partial>>

\* A mutated form: a clone that is "ahead" has nothing to pull.
StatusBehind(c) == IF Here(c).n = c.track[Here(c).up] \/ Here(c).own
                   THEN "equal" ELSE "behind"

\* gitStatus, of a branch with an upstream.  Its "ahead" is every branch with
\* commits of its own, whether or not its upstream has new ones as well.
GitStatus(c) ==
    LET here == Here(c)
    IN  IF here.own THEN "ahead"
        ELSE IF here.n = c.track[here.up] THEN "equal" ELSE "behind"

Status ==
    /\ At("status")
    /\ IF Here(Repo).up = Nil THEN Throw
       ELSE Goto(IF GitStatus(Repo) = "equal" THEN "settings" ELSE "pull")
    /\ UNCHANGED <<tip, clone, partial>>

\* Enter at the prompt: git pull fetches once more, and fast-forwards or
\* merges.  Changes in the way or a conflict make it fail; a merge with
\* conflicts stays behind for the developer.
Pull ==
    LET up == Here(Repo).up
        c == [Repo EXCEPT !.track = Fetched(Top.repo, Repo, up[1])]
        new == c.track[up] # Here(c).n
    IN  /\ At("pull")
        /\ \/ SetRepo([c EXCEPT !.local[c.head].n = c.track[up]])
              /\ Goto("settings")
           \/ /\ new /\ c.dirty
              /\ SetRepo(c) /\ Throw
           \/ /\ new /\ Here(c).own
              /\ SetRepo([c EXCEPT !.dirty = TRUE]) /\ Throw
        /\ UNCHANGED <<tip, partial>>

\* "no" at one of the two prompts.
Skip ==
    /\ At("switch") \/ At("pull")
    /\ partial' = TRUE
    /\ Goto(IF At("switch") THEN "status" ELSE "settings")
    /\ UNCHANGED <<tip, clone>>

\* The dependencies in the settings.yaml of what is checked out now.
SettingsDeps ==
    IF Top.repo[1] = "app" /\ Top.deps
    THEN Deps[Top.repo, Here(Repo).up] ELSE <<>>

LoadSettings ==
    /\ At("settings")
    /\ stack' = <<[Top EXCEPT !.todo = SettingsDeps, !.pc = "deps"]>>
                \o Tail(stack)
    /\ UNCHANGED <<tip, clone, partial>>

Child(d) == Frame(d.repo, <<"origin", d.branch>>, TRUE)
Returns == Top.todo = <<>> /\ stack' = Tail(stack)

\* A mutated form: only the first dependency is installed.
RecurseOnce ==
    /\ At("deps")
    /\ \/ /\ Top.todo # <<>>
          /\ stack' = <<Child(Head(Top.todo)), [Top EXCEPT !.todo = <<>>]>>
                      \o Tail(stack)
       \/ Returns
    /\ UNCHANGED <<tip, clone, partial>>

\* A mutated form: the loop does not advance.
RecurseAgain ==
    /\ At("deps")
    /\ \/ Top.todo # <<>> /\ stack' = <<Child(Head(Top.todo))>> \o stack
       \/ Returns
    /\ UNCHANGED <<tip, clone, partial>>

\* exec of sv install for the next dependency, which is always of origin; the
\* loop is over after the last one.
Recurse ==
    /\ At("deps")
    /\ \/ /\ Top.todo # <<>>
          /\ stack' = <<Child(Head(Top.todo)), [Top EXCEPT !.todo = Tail(@)]>>
                      \o Tail(stack)
       \/ Returns
    /\ UNCHANGED <<tip, clone, partial>>

\* git and the network fail, or ctrl+c at a prompt or in a command.
Fail ==
    /\ ~Idle
    /\ Throw
    /\ UNCHANGED <<tip, clone, partial>>
-----------------------------------------------------------------------------
\* Others push to a remote branch.
PushElsewhere(r, up) ==
    /\ tip[r][up] < MaxTip[r, up]
    /\ tip' = [tip EXCEPT ![r][up] = @ + 1]
    /\ UNCHANGED <<clone, stack, partial>>

\* The developer leaves changes in the clone, or commits.
Work(r) ==
    /\ clone[r] # Nil
    /\ \/ clone' = [clone EXCEPT ![r].dirty = TRUE]
       \/ clone' = [clone EXCEPT ![r].dirty = FALSE,
                                 ![r].local[clone[r].head].own = TRUE]
    /\ UNCHANGED <<tip, stack, partial>>

\* Between two installs: git checkout of a branch that is there, or of a new
\* one.
Checkout(r, b) ==
    /\ Idle
    /\ clone[r] # Nil
    /\ clone[r].local[b] # Nil \/ b = Topic
    /\ clone' = [clone EXCEPT ![r].head = b,
          ![r].local[b] = IF @ = Nil THEN [Here(clone[r]) EXCEPT !.up = Nil]
                          ELSE @]
    /\ UNCHANGED <<tip, stack, partial>>

Step == \/ Clone \/ Fetch \/ Dirty \/ Tracking \/ Status
        \/ LoadSettings \/ Recurse
Answer == Switch \/ Pull \/ Skip

Next ==
    \/ \E q \in Requests : Request(q)
    \/ Step \/ Answer \/ Fail
    \/ \E r \in Repos : \E up \in Published[r] : PushElsewhere(r, up)
    \/ \E r \in Developed : Work(r) \/ \E b \in Locals : Checkout(r, b)

\* git ends by itself, and a user who is asked answers in the end.
Spec == Init /\ [][Next]_vars /\ WF_vars(Step) /\ WF_vars(Answer)
-----------------------------------------------------------------------------
Labels == {"clone", "fetch", "check", "switch", "status", "pull", "settings",
           "deps"}
Frames == [repo : Repos, up : Upstreams, deps : BOOLEAN,
           todo : Seq(Dependencies), pc : Labels]

\* The type of every variable.  What is checked out is a branch, what an
\* upstream is followed from is a remote of the clone, and only a repository
\* that is cloned gets past the first step.
TypeOK ==
    /\ tip \in [Repos -> [Upstreams -> Nat]]
    /\ clone \in [Repos -> Clones \cup {Nil}]
    /\ \A r \in Repos : clone[r] # Nil =>
          /\ Here(clone[r]) # Nil
          /\ \A b \in Locals : LET l == clone[r].local[b]
                               IN  l # Nil /\ l.up # Nil =>
                                       /\ l.up \in Published[r]
                                       /\ l.up[1] \in clone[r].remotes
                                       /\ l.n \in 1..clone[r].track[l.up]
    /\ stack \in Seq(Frames)
    /\ \A i \in DOMAIN stack :
          /\ stack[i].pc # "clone" => clone[stack[i].repo] # Nil
          /\ i > 1 => stack[i].pc = "deps"
    /\ partial \in BOOLEAN

\* The repository is on the local branch that has the name of what was asked
\* for, with everything that was fetched of the branch it follows: the one that
\* was asked for, or another that has the same local name.
InPlace(r, up) ==
    LET c == clone[r]
    IN  /\ c # Nil
        /\ c.head = LocalName(up)
        /\ Here(c).up \in {u \in Published[r] : LocalName(u) = LocalName(up)}
        /\ Here(c).n = c.track[Here(c).up]

\* An install that comes to its end without a "no" and without uncommitted
\* changes leaves the repository in place, even if the clone had diverged, had
\* been switched or was worked on.
InstallsWhatWasAsked == At("deps") /\ ~partial => InPlace(Top.repo, Top.up)

\* "It will update it to the desired remote, branch and perform a git pull"
\* (docs/sv_install.md:5): at that end what is checked out follows the branch of
\* the remote that was asked for.
InstallsDesired == At("deps") /\ ~partial => Here(Repo).up = Top.up

\* "It will also install/update those": at that end all dependencies of the
\* application are in place as well, and those of its dependencies.
DependenciesInPlace ==
    At("deps") /\ Top.todo = <<>> /\ Top.deps /\ ~partial =>
        LET Needs(r) == Deps[r, Here(clone[r]).up]
            Have(r) == \A i \in DOMAIN Needs(r) : InPlace(Needs(r)[i].repo,
                           <<"origin", Needs(r)[i].branch>>)
        IN  /\ Have(Top.repo)
            /\ \A i \in DOMAIN Needs(Top.repo) : Have(Needs(Top.repo)[i].repo)

\* No step of an install loses work: commits of the developer stay on their
\* branch and uncommitted changes in the clone.
WorkKeptStep ==
    stack' # stack => \A r \in Repos : clone[r] # Nil =>
        /\ clone[r].dirty => clone'[r].dirty
        /\ \A b \in Locals : clone[r].local[b] # Nil /\ clone[r].local[b].own =>
              clone'[r].local[b] # Nil /\ clone'[r].local[b].own
WorkKept == [][WorkKeptStep]_vars

\* An install ends: the recursion over the dependencies comes to its end.
Ends == ~Idle ~> Idle
=============================================================================

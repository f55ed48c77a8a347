--------------------------- MODULE DeployPipeline ---------------------------
(***************************************************************************)
(* The CI jobs of one repository (sv/deploy/default.js): setup, build and  *)
(* push the image, helm upgrade --wait --atomic, and for a pull request    *)
(* test and undeploy.  Each job has a machine of its own; the jobs share   *)
(* the image registry and the clusters.                                    *)
(***************************************************************************)
EXTENDS DeployVars, SequencesExt

CONSTANTS
    Jobs,       \* CI jobs
    Input,      \* per job: branch, pr, and the commit it was started for
    MaxJobs,    \* how many of them are run
    Foreign,    \* releases of other repositories that may be in the clusters
    Good        \* commits whose tests pass

\* The slug of a preview branch, and the number of a pull request.
Optional == Seq(STRING) \cup {Nil}

ASSUME DeployAssumption ==
    /\ Legacy \in BOOLEAN
    /\ MaxName \in Nat /\ MaxJobs \in Nat
    /\ DOMAIN Input = Jobs
    /\ Foreign \subseteq Seq(STRING)
    /\ Foreign \cap {AliasName(Input[j]) : j \in Jobs} = {}
    /\ \A j \in Jobs :
        /\ Input[j].branch \in [base : STRING, slug : Optional]
        /\ Input[j].pr \in Optional
        /\ Input[j].branch.slug # Nil => Input[j].branch.base \in Previewable
    /\ Nil \notin Jobs /\ Nil \notin [by : Jobs, image : Jobs \cup {Nil}]

VARIABLES
    registry,   \* the job whose image a tag is on, by tag
    release,    \* per cluster and release name: the job that deployed it and
                \* the job whose image its pods run, Nil if not installed
    pc,         \* where each job is
    red,        \* the tests of the job failed (process.exitCode = 1)
    tested      \* the releases whose tests a job ran

vars == <<registry, release, pc, red, tested>>

AliasOf(j) == AliasName(Input[j])
TagOf(j) == Tag(Input[j])
EnvOf(j) == Env(Input[j])
Aliases == {AliasOf(j) : j \in Jobs}
Clusters == {EnvOf(j) : j \in Jobs}

Goto(j, label) == pc' = [pc EXCEPT ![j] = label]

Init ==
    /\ registry = [t \in {TagOf(j) : j \in Jobs} |-> Nil]
    /\ release = [at \in Clusters \X Aliases |-> Nil]
    /\ pc = [j \in Jobs |-> "setup"]
    /\ red = [j \in Jobs |-> FALSE]
    /\ tested = [j \in Jobs |-> {}]

\* getVars, then the credentials of the cluster: there is none for an
\* undefined environment.
Setup(j) ==
    /\ pc[j] = "setup"
    /\ Cardinality({i \in Jobs : pc[i] # "setup"}) < MaxJobs
    /\ \/ ~Throws(Input[j]) /\ EnvOf(j) # Nil /\ Goto(j, "build")
       \/ Goto(j, "failed")
    /\ UNCHANGED <<registry, release, red, tested>>

\* sv start --build --push: any build may throw, before or after a push.
BuildPush(j) ==
    /\ pc[j] = "build"
    /\ \/ /\ registry' = [registry EXCEPT ![TagOf(j)] = j]
          /\ Goto(j, "upgrade") \/ Goto(j, "failed")
       \/ UNCHANGED registry /\ Goto(j, "failed")
    /\ UNCHANGED <<release, red, tested>>

\* A mutated form: every job tests what it deployed.
UpgradeThenTest(j) ==
    /\ pc[j] = "upgrade"
    /\ \/ /\ release' = [release EXCEPT ![<<EnvOf(j), AliasOf(j)>>] =
                            [by |-> j, image |-> registry[TagOf(j)]]]
          /\ Goto(j, "test")
       \/ UNCHANGED release /\ Goto(j, "failed")
    /\ UNCHANGED <<registry, red, tested>>

\* helm upgrade --wait --atomic: the pods have pulled the image that the tag
\* is on by now, or everything is rolled back.  The decrypted secrets and the
\* rest of sv start are SvStart's.
Upgrade(j) ==
    /\ pc[j] = "upgrade"
    /\ \/ /\ release' = [release EXCEPT ![<<EnvOf(j), AliasOf(j)>>] =
                            [by |-> j, image |-> registry[TagOf(j)]]]
          /\ Goto(j, IF IsPull(Input[j]) THEN "test" ELSE "done")
       \/ UNCHANGED release /\ Goto(j, "failed")
    /\ UNCHANGED <<registry, red, tested>>

\* A mutated form: sv test without a name.
MatchedAll(j) == {a \in Aliases : release[<<EnvOf(j), a>>] # Nil}

\* sv test <alias> takes every pod of the cluster whose name the alias occurs
\* in: those of each release whose name it is a part of.
Takes(j, a) == AliasOf(j) \in SubSeqs(a)
Matched(j) == {a \in Aliases : Takes(j, a) /\ release[<<EnvOf(j), a>>] # Nil}

\* Releases of other repositories come and go, and their tests pass or fail.
MatchedForeign(j) == SUBSET {a \in Foreign : Takes(j, a)}
ForeignFails(others) == IF others = {} THEN {FALSE} ELSE BOOLEAN

Passes(j, a) == Input[release[<<EnvOf(j), a>>].image].commit \in Good
OwnFails(j) == \E a \in Matched(j) : ~Passes(j, a)

\* A mutated form: the job stops when there is no pod or a test has failed.
TestThenStop(j) ==
    /\ pc[j] = "test"
    /\ tested' = [tested EXCEPT ![j] = Matched(j)]
    /\ IF Matched(j) # {} /\ ~OwnFails(j)
         THEN Goto(j, "undeploy") /\ UNCHANGED red
         ELSE Goto(j, "failed") /\ red' = [red EXCEPT ![j] = TRUE]
    /\ UNCHANGED <<registry, release>>

\* A mutated form: the exit code of a test is lost.
TestQuietly(j) ==
    /\ pc[j] = "test"
    /\ tested' = [tested EXCEPT ![j] = Matched(j)]
    /\ red' = [red EXCEPT ![j] = Matched(j) = {}]
    /\ Goto(j, "undeploy")
    /\ UNCHANGED <<registry, release>>

\* The tests of all matched pods are run; one that fails, or no pod at all,
\* makes the job red, and it goes on to undeploy.
Test(j) ==
    /\ pc[j] = "test"
    /\ \E others \in MatchedForeign(j) : \E failed \in ForeignFails(others) :
         LET found == Matched(j) \cup others
         IN  /\ tested' = [tested EXCEPT ![j] = found]
             /\ red' = [red EXCEPT ![j] = found = {} \/ failed \/ OwnFails(j)]
    /\ Goto(j, "undeploy")
    /\ UNCHANGED <<registry, release>>

\* sv stop without --ignore-not-found.
Undeploy(j) ==
    LET at == <<EnvOf(j), AliasOf(j)>>
    IN  /\ pc[j] = "undeploy"
        /\ \/ /\ release[at] # Nil
              /\ release' = [release EXCEPT ![at] = Nil]
              /\ Goto(j, IF red[j] THEN "failed" ELSE "done")
           \/ UNCHANGED release /\ Goto(j, "stuck")
        /\ UNCHANGED <<registry, red, tested>>

\* The job is cancelled, or its machine is lost.  What a step had done by
\* then is what the step does just before.
Cancel(j) ==
    /\ pc[j] \in {"build", "upgrade", "test", "undeploy"}
    /\ Goto(j, "cancelled")
    /\ UNCHANGED <<registry, release, red, tested>>

Next == \E j \in Jobs : \/ Setup(j) \/ BuildPush(j) \/ Upgrade(j) \/ Test(j)
                        \/ Undeploy(j) \/ Cancel(j)

Spec == Init /\ [][Next]_vars
-----------------------------------------------------------------------------
\* What a developer would call one deployment: a branch or a pull request.
Identity(j) == IF IsPull(Input[j]) THEN Input[j].pr ELSE Input[j].branch
Siblings(i, j) == IsPull(Input[i]) = IsPull(Input[j]) /\ Identity(i) = Identity(j)

Labels == {"setup", "build", "upgrade", "test", "undeploy", "done", "failed",
           "stuck", "cancelled"}

\* The type of every variable.  Only pull requests are ever red.
TypeOK ==
    /\ registry \in [{TagOf(j) : j \in Jobs} -> Jobs \cup {Nil}]
    /\ release \in [Clusters \X Aliases ->
                       [by : Jobs, image : Jobs \cup {Nil}] \cup {Nil}]
    /\ pc \in [Jobs -> Labels]
    /\ red \in [Jobs -> BOOLEAN]
    /\ tested \in [Jobs -> SUBSET (Aliases \cup Foreign)]
    /\ \A j \in Jobs : red[j] => IsPull(Input[j])

\* "The tag stays unique per preview", and unique per pull request: the pods
\* of a release run an image that was built for the branch or pull request of
\* the job that deployed it, however the jobs of all of them interleave.
ImagesDoNotCross ==
    \A at \in DOMAIN release : release[at] # Nil =>
        release[at].image # Nil /\ Siblings(release[at].by, release[at].image)

\* "Execute all tests within all containers" of an application
\* (docs/sv_test.md:9): a pull request's tests are those of its own release.
TestsOwnRelease == \A j \in Jobs : tested[j] \subseteq {AliasOf(j)}

\* When no other job of the same pull request is there to replace the release,
\* the verdict of a job that has tested tells of its own commit, whatever the
\* pattern takes besides: it has tested its own release, a bad commit is never
\* green, and a good one is red only if the pattern took other releases too.
VerdictIsOwn ==
    \A j \in Jobs :
        /\ IsPull(Input[j]) /\ pc[j] \in {"undeploy", "done"}
        /\ \A i \in Jobs \ {j} : ~Siblings(i, j)
        => /\ AliasOf(j) \in tested[j]
           /\ Input[j].commit \notin Good => red[j]
           /\ Input[j].commit \in Good /\ red[j] => tested[j] # {AliasOf(j)}

\* The release of a pull request does not outlive its jobs: while it is
\* installed there is a job of that pull request that has still to undeploy
\* it, or that was cancelled or failed in sv stop.
PullReleaseHasOwner ==
    \A at \in DOMAIN release :
        release[at] # Nil /\ IsPull(Input[release[at].by]) =>
            \E j \in Jobs :
                /\ Siblings(j, release[at].by)
                /\ pc[j] \in {"test", "undeploy", "cancelled", "stuck"}
=============================================================================

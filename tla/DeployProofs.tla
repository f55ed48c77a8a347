---------------------------- MODULE DeployProofs ----------------------------
(***************************************************************************)
(* Theorems about DeployPipeline, for any CI jobs: whose images and        *)
(* releases the names of getVars lead to, however the jobs interleave.     *)
(***************************************************************************)
EXTENDS DeployPipeline, TLAPS

\* getVars and the credentials let the job go on.
Deploys(j) == ~Throws(Input[j]) /\ EnvOf(j) # Nil

Place(j) == <<EnvOf(j), AliasOf(j)>>
Tags == {TagOf(j) : j \in Jobs}
Places == Clusters \X Aliases

\* A tag is on an image of a job that has this tag.
RegistryOK ==
    \A t \in Tags : registry[t] # Nil =>
        TagOf(registry[t]) = t /\ Deploys(registry[t])

\* A release is where the job that deployed it puts its own, and runs an
\* image of a job with the same tag.
ReleaseOK ==
    \A at \in Places : release[at] # Nil =>
        LET r == release[at]
        IN  /\ at = Place(r.by) /\ Deploys(r.by)
            /\ r.image # Nil /\ TagOf(r.image) = TagOf(r.by) /\ Deploys(r.image)

\* Past setup a job deploys, past its push its tag is on an image, and only a
\* pull request is tested.
JobOK(j) ==
    /\ pc[j] \in {"build", "upgrade", "test", "undeploy"} => Deploys(j)
    /\ pc[j] = "upgrade" => registry[TagOf(j)] # Nil
    /\ pc[j] \in {"test", "undeploy"} => IsPull(Input[j])

DeployInv ==
    /\ TypeOK /\ RegistryOK /\ ReleaseOK
    /\ \A j \in Jobs : JobOK(j)

\* What VerdictIsOwn says of a job.
Verdict(j) ==
    /\ AliasOf(j) \in tested[j]
    /\ Input[j].commit \notin Good => red[j]
    /\ Input[j].commit \in Good /\ red[j] => tested[j] # {AliasOf(j)}

\* The only job of a pull request finds its own image when it tests.
Single(j) == IsPull(Input[j]) /\ \A i \in Jobs \ {j} : ~Siblings(i, j)
SingleOK(j) ==
    Single(j) =>
        /\ pc[j] \in {"test", "undeploy"} =>
              release[Place(j)] # Nil /\ release[Place(j)].image = j
        /\ pc[j] \in {"undeploy", "done"} => Verdict(j)
VerdictInv == DeployInv /\ \A j \in Jobs : SingleOK(j)
-----------------------------------------------------------------------------
Names == Seq(STRING)

\* A name is one in any larger alphabet.
LEMMA Widen ==
    ASSUME NEW A, NEW B, A \subseteq B, NEW s \in Seq(A)
    PROVE  s \in Seq(B)
OBVIOUS

LEMMA SameTail ==
    ASSUME NEW A, NEW h \in Seq(A), NEW s \in Seq(A), NEW t \in Seq(A),
           h \o s = h \o t
    PROVE  s = t
<1>1. Len(s) = Len(t)
  <2>1. Len(h \o s) = Len(h) + Len(s) /\ Len(h \o t) = Len(h) + Len(t)
    OBVIOUS
  <2>2. Len(h) \in Nat /\ Len(s) \in Nat /\ Len(t) \in Nat
    OBVIOUS
  <2>3. QED
    BY <2>1, <2>2
<1>2. ASSUME NEW k \in 1..Len(s) PROVE s[k] = t[k]
  <2>1. Len(h) \in Nat /\ Len(s) \in Nat
    OBVIOUS
  <2>2. (h \o s)[Len(h) + k] = s[k] /\ (h \o t)[Len(h) + k] = t[k]
    BY <1>1, <2>1
  <2>3. QED
    BY <2>2
<1>3. QED
  BY <1>1, <1>2

LEMMA InputType ==
    ASSUME NEW j \in Jobs
    PROVE  LET i == Input[j]
           IN  /\ i.branch \in [base : STRING, slug : Optional]
               /\ IsPull(i) => i.pr \in Names
               /\ IsPreview(i) =>
                     i.branch.slug \in Names /\ i.branch.base \in Previewable
BY DeployAssumption DEF Optional, Names, IsPull, IsPreview

\* The environment of a job is the one that envs has for its branch.
LEMMA EnvOfBranch ==
    ASSUME NEW i, Env(i) # Nil
    PROVE  <<BranchName(i), Env(i)>> \in EnvMap
<1> DEFINE m == CHOOSE m \in EnvMap : m[1] = BranchName(i)
<1>1. \E x \in EnvMap : x[1] = BranchName(i)
  BY DEF Env
<1>2. m \in EnvMap /\ m[1] = BranchName(i) /\ Env(i) = m[2]
  BY <1>1 DEF Env
<1>3. m = <<m[1], m[2]>>
  <2> HIDE DEF m
  <2> QED
    BY <1>2 DEF EnvMap
<1>4. QED
  BY <1>2, <1>3

LEMMA EnvNames ==
    ASSUME NEW i, Env(i) # Nil
    PROVE  Env(i) # "p" /\ Env(i) # "pull"
BY EnvOfBranch DEF EnvMap

\* Pull requests are all tested in one cluster.
LEMMA PullEnv ==
    ASSUME NEW i, IsPull(i), NEW k, IsPull(k)
    PROVE  Env(i) = Env(k)
BY DEF Env, BranchName

\* The first two parts of a tag tell what kind of job it is of.
LEMMA TagShape ==
    ASSUME NEW j \in Jobs, Deploys(j)
    PROVE  LET i == Input[j]
           IN  /\ IsPull(i) => TagOf(j) = <<"pull">> \o i.pr /\ TagOf(j)[1] = "pull"
               /\ IsPreview(i) => /\ TagOf(j) = <<"p", Env(i)>> \o i.branch.slug
                                  /\ TagOf(j)[1] = "p" /\ TagOf(j)[2] = Env(i)
               /\ ~IsPull(i) /\ ~IsPreview(i) =>
                     TagOf(j) = <<Env(i)>> /\ TagOf(j)[1] = Env(i)
<1> DEFINE i == Input[j]
<1>2. CASE IsPull(i)
  <2>1. TagOf(j) = <<"pull">> \o i.pr /\ i.pr \in Names
    BY <1>2, InputType DEF TagOf, Tag, PullName
  <2>2. \A s \in Names : (<<"pull">> \o s)[1] = "pull"
    BY DEF Names
  <2>3. QED
    BY <1>2, <2>1, <2>2 DEF IsPreview
<1>3. CASE IsPreview(i)
  <2>1. TagOf(j) = <<"p", Env(i)>> \o i.branch.slug /\ i.branch.slug \in Names
    BY <1>3, InputType DEF TagOf, Tag, PreviewName, IsPreview
  <2>2. \A e, s : s \in Names =>
          (<<"p", e>> \o s)[1] = "p" /\ (<<"p", e>> \o s)[2] = e
    BY DEF Names
  <2>3. QED
    BY <1>3, <2>1, <2>2 DEF IsPreview
<1>4. CASE ~IsPull(i) /\ ~IsPreview(i)
  BY <1>4 DEF TagOf, Tag
<1>5. QED
  BY <1>2, <1>3, <1>4

\* The tag of a pull request is its own.
LEMMA PullTag ==
    ASSUME NEW i \in Jobs, NEW j \in Jobs, Deploys(i), Deploys(j),
           TagOf(i) = TagOf(j), IsPull(Input[i])
    PROVE  Siblings(j, i)
<1>1. EnvOf(j) # "pull"
  BY EnvNames DEF Deploys, EnvOf
<1>2. IsPull(Input[j])
  BY <1>1, TagShape DEF EnvOf
<1>3. Input[i].pr = Input[j].pr
  <2> DEFINE A == STRING \cup {"pull"}
  <2>1. /\ Input[i].pr \in Seq(A) /\ Input[j].pr \in Seq(A)
        /\ <<"pull">> \in Seq(A)
    BY <1>2, InputType, Widen DEF Names
  <2>2. <<"pull">> \o Input[i].pr = <<"pull">> \o Input[j].pr
    BY <1>2, TagShape
  <2>3. QED
    BY <2>1, <2>2, SameTail
<1>4. QED
  BY <1>2, <1>3 DEF Siblings, Identity

\* In the legacy clusters every tag is that of one branch, preview branch or
\* pull request: no two branches that can be deployed share an environment.
LEMMA TagsTellApart ==
    ASSUME Legacy, NEW i \in Jobs, NEW j \in Jobs, Deploys(i), Deploys(j),
           TagOf(i) = TagOf(j)
    PROVE  Siblings(i, j)
<1> DEFINE a == Input[i]
           b == Input[j]
<1>1. CASE IsPull(a) \/ IsPull(b)
  BY <1>1, PullTag DEF Siblings
<1>2. CASE ~IsPull(a) /\ ~IsPull(b)
  <2>1. Env(a) # Nil /\ Env(b) # Nil
    BY DEF Deploys, EnvOf
  <2>2. Env(a) # "p" /\ Env(b) # "p"
    BY <2>1, EnvNames
  <2>3. IsPreview(a) <=> IsPreview(b)
    BY <1>2, <2>2, TagShape
  <2>4. Env(a) = Env(b)
    BY <1>2, <2>3, TagShape
  <2>5. BranchName(a) = BranchName(b)
    BY <2>1, <2>4, EnvOfBranch DEF EnvMap
  <2>6. a.branch.slug = b.branch.slug
    <3>1. CASE IsPreview(a)
      <4> DEFINE A == STRING \cup {"p", Env(a)}
      <4>1. /\ a.branch.slug \in Seq(A) /\ b.branch.slug \in Seq(A)
            /\ <<"p", Env(a)>> \in Seq(A)
        BY <2>3, <3>1, InputType, Widen DEF Names
      <4>2. <<"p", Env(a)>> \o a.branch.slug = <<"p", Env(a)>> \o b.branch.slug
        BY <2>3, <2>4, <3>1, TagShape
      <4>3. QED
        BY <4>1, <4>2, SameTail
    <3>2. CASE ~IsPreview(a)
      BY <1>2, <2>3, <3>2 DEF IsPreview
    <3>3. QED
      BY <3>1, <3>2
  <2>7. a.branch.base = b.branch.base
    BY <1>2, <2>3, <2>5, InputType DEF BranchName, PreviewBranch, Previewable
  <2>8. a.branch = b.branch
    BY <2>6, <2>7, InputType
  <2>9. IsPull(a) = IsPull(b)
    BY <1>2 DEF IsPull
  <2>10. QED
    BY <1>2, <2>8, <2>9 DEF Siblings, Identity
<1>3. QED
  BY <1>1, <1>2

\* So is the name of a pull request's release.
LEMMA AliasShape ==
    ASSUME NEW j \in Jobs
    PROVE  LET i == Input[j]
           IN  /\ IsPull(i) => AliasOf(j) = <<"repo", "pull">> \o i.pr
               /\ IsPull(i) => AliasOf(j)[2] = "pull" /\ Len(AliasOf(j)) >= 2
               /\ IsPreview(i) => AliasOf(j)[2] = "p" /\ Len(AliasOf(j)) >= 2
               /\ ~IsPull(i) /\ ~IsPreview(i) => AliasOf(j) = <<"repo">>
<1> DEFINE i == Input[j]
<1>1. CASE IsPull(i)
  <2>1. AliasOf(j) = <<"repo">> \o (<<"pull">> \o i.pr) /\ i.pr \in Names
    BY <1>1, InputType DEF AliasOf, AliasName, PullName
  <2>2. \A s \in Names : <<"repo">> \o (<<"pull">> \o s) = <<"repo", "pull">> \o s
    BY DEF Names
  <2>3. \A s \in Names : /\ (<<"repo", "pull">> \o s)[2] = "pull"
                         /\ Len(<<"repo", "pull">> \o s) >= 2
    BY DEF Names
  <2>4. QED
    BY <1>1, <2>1, <2>2, <2>3 DEF IsPreview
<1>2. CASE IsPreview(i)
  <2>1. AliasOf(j) = <<"repo">> \o (<<"p", Env(i)>> \o i.branch.slug)
        /\ i.branch.slug \in Names
    BY <1>2, InputType DEF AliasOf, AliasName, PreviewName, IsPreview
  <2>2. \A e, s : s \in Names =>
          LET t == <<"repo">> \o (<<"p", e>> \o s)
          IN  t[2] = "p" /\ Len(t) >= 2
    BY DEF Names
  <2>3. QED
    BY <1>2, <2>1, <2>2 DEF IsPreview
<1>3. CASE ~IsPull(i) /\ ~IsPreview(i)
  BY <1>3 DEF AliasOf, AliasName
<1>4. QED
  BY <1>1, <1>2, <1>3

LEMMA PullAlias ==
    ASSUME NEW i \in Jobs, NEW j \in Jobs,
           AliasOf(i) = AliasOf(j), IsPull(Input[i])
    PROVE  Siblings(j, i)
<1>1. IsPull(Input[j])
  <2>1. AliasOf(i) # <<"repo">>
    BY AliasShape
  <2>2. QED
    BY <2>1, AliasShape
<1> DEFINE A == STRING \cup {"repo", "pull"}
<1>2. /\ Input[i].pr \in Seq(A) /\ Input[j].pr \in Seq(A)
      /\ <<"repo", "pull">> \in Seq(A)
  BY <1>1, InputType, Widen DEF Names
<1>3. <<"repo", "pull">> \o Input[i].pr = <<"repo", "pull">> \o Input[j].pr
  BY <1>1, AliasShape
<1>4. Input[i].pr = Input[j].pr
  BY <1>2, <1>3, SameTail
<1>5. QED
  BY <1>1, <1>4 DEF Siblings, Identity

LEMMA SiblingsShare ==
    ASSUME NEW i \in Jobs, NEW j \in Jobs, Siblings(i, j), IsPull(Input[i])
    PROVE  Place(i) = Place(j)
BY PullEnv DEF Siblings, Identity, Place, EnvOf, AliasOf, AliasName, PullName
-----------------------------------------------------------------------------
LEMMA JobNames ==
    ASSUME NEW j \in Jobs
    PROVE  TagOf(j) \in Tags /\ Place(j) \in Places /\ AliasOf(j) \in Aliases
BY DEF Tags, Place, Places, Clusters, Aliases

\* The step of a job leaves the others where they are.
Acts(j) == \/ Setup(j) \/ BuildPush(j) \/ Upgrade(j) \/ Test(j)
           \/ Undeploy(j) \/ Cancel(j)

LEMMA JobsApart ==
    ASSUME TypeOK, NEW j \in Jobs, Acts(j), NEW k \in Jobs, k # j
    PROVE  pc'[k] = pc[k] /\ red'[k] = red[k] /\ tested'[k] = tested[k]
<1> USE DEF TypeOK, Goto
<1>1. CASE Setup(j) \/ BuildPush(j) \/ Upgrade(j)
  BY <1>1 DEF Setup, BuildPush, Upgrade
<1>2. CASE Test(j) \/ Undeploy(j) \/ Cancel(j)
  BY <1>2 DEF Test, Undeploy, Cancel
<1>3. QED
  BY <1>1, <1>2 DEF Acts

LEMMA DeployInit == Init => DeployInv
BY DeployAssumption
   DEF Init, DeployInv, TypeOK, RegistryOK, ReleaseOK, JobOK, Tags, Places,
       Labels

LEMMA DeployStep ==
    ASSUME DeployInv, NEW j \in Jobs, Acts(j)
    PROVE  DeployInv'
<1> USE DEF DeployInv
<1>1. TypeOK
  OBVIOUS
<1>2. ASSUME NEW k \in Jobs, k # j,
             \A t \in Tags : registry[t] # Nil => registry'[t] # Nil
      PROVE  JobOK(k)'
  BY <1>2, JobsApart, JobNames DEF JobOK
<1>3. CASE Setup(j)
  <2>1. TypeOK' /\ RegistryOK' /\ ReleaseOK'
    BY <1>3 DEF Setup, Goto, TypeOK, RegistryOK, ReleaseOK, Labels
  <2>2. JobOK(j)'
    BY <1>3 DEF Setup, Goto, TypeOK, JobOK, Deploys
  <2>3. QED
    BY <1>2, <1>3, <2>1, <2>2 DEF Setup
<1>4. CASE BuildPush(j)
  <2>1. Deploys(j) /\ j # Nil
    BY <1>4, DeployAssumption DEF BuildPush, JobOK
  <2>2. CASE registry' = [registry EXCEPT ![TagOf(j)] = j]
    <3>1. TypeOK'
      BY <1>4, <2>2, JobNames DEF BuildPush, Goto, TypeOK, Labels, Tags
    <3>2. RegistryOK'
      BY <2>1, <2>2 DEF TypeOK, RegistryOK, Tags
    <3>3. ReleaseOK'
      BY <1>4 DEF BuildPush, ReleaseOK
    <3>4. \A t \in Tags : registry[t] # Nil => registry'[t] # Nil
      BY <2>1, <2>2 DEF TypeOK, Tags
    <3>5. JobOK(j)'
      BY <1>4, <2>1, <2>2, JobNames
         DEF BuildPush, Goto, TypeOK, JobOK, Tags
    <3>6. QED
      BY <1>2, <3>1, <3>2, <3>3, <3>4, <3>5
  <2>3. CASE UNCHANGED registry /\ Goto(j, "failed")
    BY <1>2, <1>4, <2>3
       DEF BuildPush, Goto, TypeOK, RegistryOK, ReleaseOK, JobOK, Labels
  <2>4. QED
    BY <1>4, <2>2, <2>3 DEF BuildPush
<1>5. CASE Upgrade(j)
  <2>1. /\ Deploys(j) /\ registry[TagOf(j)] # Nil /\ pc[j] = "upgrade"
        /\ registry[TagOf(j)] \in Jobs
        /\ TagOf(registry[TagOf(j)]) = TagOf(j) /\ Deploys(registry[TagOf(j)])
    BY <1>5, JobNames DEF Upgrade, JobOK, RegistryOK, TypeOK, Tags
  <2> DEFINE new == [by |-> j, image |-> registry[TagOf(j)]]
  <2>2. CASE /\ release' = [release EXCEPT ![Place(j)] = new]
             /\ Goto(j, IF IsPull(Input[j]) THEN "test" ELSE "done")
    <3>1. release' \in [Places -> [by : Jobs, image : Jobs \cup {Nil}] \cup {Nil}]
      BY <2>1, <2>2, JobNames DEF TypeOK, Places
    <3>2. TypeOK'
      BY <1>5, <2>2, <3>1 DEF Upgrade, Goto, TypeOK, Labels, Places
    <3>3. RegistryOK'
      BY <1>5 DEF Upgrade, RegistryOK
    <3>4. ReleaseOK'
      BY <2>1, <2>2 DEF TypeOK, ReleaseOK, Places
    <3>5. JobOK(j)'
      BY <1>5, <2>1, <2>2 DEF Upgrade, Goto, TypeOK, JobOK
    <3>6. QED
      BY <1>2, <1>5, <3>2, <3>3, <3>4, <3>5 DEF Upgrade
  <2>3. CASE UNCHANGED release /\ Goto(j, "failed")
    BY <1>2, <1>5, <2>3
       DEF Upgrade, Goto, TypeOK, RegistryOK, ReleaseOK, JobOK, Labels
  <2>4. QED
    BY <1>5, <2>2, <2>3 DEF Upgrade, Place
<1>6. CASE Test(j)
  <2>1. IsPull(Input[j]) /\ Deploys(j) /\ Matched(j) \subseteq Aliases
    BY <1>6 DEF Test, JobOK, Matched
  <2>2. TypeOK'
    BY <1>6, <2>1 DEF Test, MatchedForeign, ForeignFails, Goto, TypeOK, Labels
  <2>3. RegistryOK' /\ ReleaseOK' /\ JobOK(j)'
    BY <1>6, <2>1
       DEF Test, Goto, TypeOK, RegistryOK, ReleaseOK, JobOK
  <2>4. QED
    BY <1>2, <1>6, <2>2, <2>3 DEF Test
<1>7. CASE Undeploy(j)
  <2>1. /\ UNCHANGED <<registry, red, tested>> /\ Place(j) \in Places
        /\ \E l \in {"done", "failed", "stuck"} : Goto(j, l)
        /\ release' = [release EXCEPT ![Place(j)] = Nil] \/ UNCHANGED release
    BY <1>7, JobNames DEF Undeploy, Place
  <2>2. TypeOK'
    BY <2>1 DEF Goto, TypeOK, Labels, Places
  <2>3. RegistryOK' /\ ReleaseOK' /\ JobOK(j)'
    BY <2>1 DEF Goto, TypeOK, RegistryOK, ReleaseOK, JobOK, Places
  <2>4. QED
    BY <1>2, <2>1, <2>2, <2>3
<1>8. CASE Cancel(j)
  <2>1. TypeOK' /\ RegistryOK' /\ ReleaseOK' /\ JobOK(j)'
    BY <1>8 DEF Cancel, Goto, TypeOK, RegistryOK, ReleaseOK, JobOK, Labels
  <2>2. QED
    BY <1>2, <1>8, <2>1 DEF Cancel
<1>9. QED
  BY <1>3, <1>4, <1>5, <1>6, <1>7, <1>8 DEF Acts

LEMMA DeployNext == DeployInv /\ [Next]_vars => DeployInv'
<1>1. ASSUME DeployInv, UNCHANGED vars PROVE DeployInv'
  BY <1>1 DEF DeployInv, TypeOK, RegistryOK, ReleaseOK, JobOK, vars
<1>2. QED
  BY <1>1, DeployStep DEF Next, Acts

LEMMA DeployInvariant == Spec => []DeployInv
BY DeployInit, DeployNext, PTL DEF Spec

\* Type correctness.
THEOREM TypeCorrect == Spec => []TypeOK
<1>1. DeployInv => TypeOK
  BY DEF DeployInv
<1>2. QED
  BY <1>1, DeployInvariant, PTL

\* In the legacy clusters the pods of a release run an image of the branch or
\* pull request that the release is of, however many jobs build and deploy at
\* the same time.
THEOREM LegacyImagesDoNotCross ==
    ASSUME Legacy
    PROVE  Spec => []ImagesDoNotCross
<1>1. DeployInv => ImagesDoNotCross
  <2> SUFFICES ASSUME DeployInv, NEW at \in Places, release[at] # Nil
               PROVE  /\ release[at].image # Nil
                      /\ Siblings(release[at].by, release[at].image)
    BY DEF ImagesDoNotCross, DeployInv, TypeOK, Places
  <2>1. /\ release[at].by \in Jobs /\ release[at].image \in Jobs \cup {Nil}
        /\ Deploys(release[at].by) /\ Deploys(release[at].image)
        /\ release[at].image # Nil
        /\ TagOf(release[at].image) = TagOf(release[at].by)
    BY DEF DeployInv, TypeOK, ReleaseOK, Places
  <2>2. QED
    BY <2>1, TagsTellApart
<1>2. QED
  BY <1>1, DeployInvariant, PTL
-----------------------------------------------------------------------------
\* The release of a pull request has a job of the same pull request that can
\* still undeploy it, or that was cancelled or failed in sv stop.
LEMMA OwnerStep ==
    ASSUME DeployInv, PullReleaseHasOwner, NEW k \in Jobs, Acts(k)
    PROVE  PullReleaseHasOwner'
<1> DEFINE owner == {"test", "undeploy", "cancelled", "stuck"}
<1> USE DEF DeployInv
<1> SUFFICES ASSUME NEW at \in Places, release'[at] # Nil,
                    IsPull(Input[release'[at].by])
             PROVE  \E j \in Jobs : /\ Siblings(j, release'[at].by)
                                    /\ pc'[j] \in owner
  <2>1. DOMAIN release' = Places
    BY DeployStep DEF TypeOK, Places
  <2>2. QED
    BY <2>1 DEF PullReleaseHasOwner, Siblings, Identity
<1>1. CASE release'[at] = release[at]
  <2>1. PICK j \in Jobs : Siblings(j, release[at].by) /\ pc[j] \in owner
    BY <1>1 DEF PullReleaseHasOwner, TypeOK, Places
  <2>2. CASE j # k
    BY <1>1, <2>1, <2>2, JobsApart
  <2>3. CASE j = k /\ ~Undeploy(k)
    BY <1>1, <2>1, <2>3
       DEF Acts, Setup, BuildPush, Upgrade, Test, Cancel, Goto, TypeOK
  <2>4. CASE j = k /\ Undeploy(k)
    <3>1. release[at].by \in Jobs /\ Place(release[at].by) = at
      BY <1>1 DEF TypeOK, ReleaseOK, Places
    <3>2. Place(k) = at
      BY <1>1, <2>1, <2>4, <3>1, SiblingsShare DEF Siblings
    <3>3. pc'[k] = "stuck"
      BY <2>4, <3>2 DEF Undeploy, Place, Goto, TypeOK, Places
    <3>4. QED
      BY <1>1, <2>1, <2>4, <3>3
  <2>5. QED
    BY <2>2, <2>3, <2>4
<1>2. CASE release'[at] # release[at]
  <2>1. Upgrade(k)
    BY <1>2 DEF Acts, Setup, BuildPush, Test, Cancel, Undeploy, TypeOK, Places
  <2>2. release'[at].by = k
    BY <1>2, <2>1 DEF Upgrade, TypeOK, Places
  <2>3. pc'[k] = "test"
    BY <1>2, <2>1, <2>2 DEF Upgrade, Goto, TypeOK
  <2>4. QED
    BY <2>2, <2>3 DEF Siblings
<1>3. QED
  BY <1>1, <1>2

\* While a pull request has a release, one of its jobs has still to test or to
\* undeploy it, was cancelled, or is stuck in sv stop.
THEOREM PullReleasesHaveOwners == Spec => []PullReleaseHasOwner
<1>1. Init => PullReleaseHasOwner
  BY DEF Init, PullReleaseHasOwner
<1>2. DeployInv /\ PullReleaseHasOwner /\ [Next]_vars => PullReleaseHasOwner'
  <2>1. UNCHANGED vars /\ PullReleaseHasOwner => PullReleaseHasOwner'
    BY DEF vars, PullReleaseHasOwner, Siblings, Identity
  <2>2. QED
    BY <2>1, OwnerStep DEF Next, Acts
<1>3. QED
  BY <1>1, <1>2, DeployInvariant, PTL DEF Spec
-----------------------------------------------------------------------------
\* The pattern takes a job's own release.
LEMMA TakesItself ==
    ASSUME NEW j \in Jobs, IsPull(Input[j])
    PROVE  Takes(j, AliasOf(j))
<1> DEFINE A == STRING \cup {"repo", "pull"}
<1>1. Input[j].pr \in Seq(A) /\ <<"repo", "pull">> \in Seq(A)
  BY InputType, Widen DEF Names
<1>2. <<"repo", "pull">> \o Input[j].pr \in Seq(A)
  BY <1>1
<1>3. AliasOf(j) \in Seq(A)
  BY <1>2, AliasShape
<1>4. ASSUME NEW s \in Seq(A) PROVE s \in SubSeqs(s)
  <2>1. Len(s) \in 0..Len(s) /\ 0 \in 0..Len(s)
    OBVIOUS
  <2>2. s = SubSeq(s, 0 + 1, Len(s))
    OBVIOUS
  <2>3. QED
    BY <2>1, <2>2 DEF SubSeqs
<1>5. QED
  BY <1>3, <1>4 DEF Takes

\* The tests of a job that finds its own image give the verdict of its commit.
LEMMA TestVerdict ==
    ASSUME DeployInv, NEW j \in Jobs, IsPull(Input[j]), Test(j),
           release[Place(j)] # Nil, release[Place(j)].image = j
    PROVE  Verdict(j)'
<1> USE DEF DeployInv, TypeOK
<1>1. AliasOf(j) \in Matched(j)
  BY TakesItself, JobNames DEF Matched, Place
<1>2. Passes(j, AliasOf(j)) <=> Input[j].commit \in Good
  BY DEF Passes, Place
<1>3. PICK others \in MatchedForeign(j) : \E failed \in ForeignFails(others) :
        /\ tested' = [tested EXCEPT ![j] = Matched(j) \cup others]
        /\ red' = [red EXCEPT ![j] =
                      Matched(j) \cup others = {} \/ failed \/ OwnFails(j)]
  BY DEF Test
<1>4. PICK failed \in ForeignFails(others) :
        /\ tested' = [tested EXCEPT ![j] = Matched(j) \cup others]
        /\ red' = [red EXCEPT ![j] =
                      Matched(j) \cup others = {} \/ failed \/ OwnFails(j)]
  BY <1>3
<1>5. /\ tested'[j] = Matched(j) \cup others
      /\ red'[j] <=> failed \/ OwnFails(j)
  BY <1>1, <1>4
<1>6. Input[j].commit \notin Good => OwnFails(j)
  BY <1>1, <1>2 DEF OwnFails
<1>7. ASSUME Input[j].commit \in Good, failed PROVE tested'[j] # {AliasOf(j)}
  <2>1. PICK a \in Foreign : a \in others
    BY <1>7 DEF ForeignFails, MatchedForeign
  <2>2. AliasOf(j) \notin Foreign
    BY DeployAssumption DEF AliasOf
  <2>3. QED
    BY <1>5, <2>1, <2>2
<1>8. ASSUME Input[j].commit \in Good, OwnFails(j)
      PROVE  tested'[j] # {AliasOf(j)}
  BY <1>2, <1>5, <1>8 DEF OwnFails
<1>9. QED
  BY <1>1, <1>5, <1>6, <1>7, <1>8 DEF Verdict, AliasOf

\* The release of a single job of its pull request is its own business.
LEMMA SingleStep ==
    ASSUME VerdictInv, NEW k \in Jobs, Acts(k), NEW j \in Jobs
    PROVE  SingleOK(j)'
<1> USE DEF VerdictInv, DeployInv
<1> SUFFICES ASSUME Single(j)
             PROVE  /\ pc'[j] \in {"test", "undeploy"} =>
                         /\ release'[Place(j)] # Nil
                         /\ release'[Place(j)].image = j
                    /\ pc'[j] \in {"undeploy", "done"} => Verdict(j)'
  BY DEF SingleOK, Single, Siblings, Identity, Place, EnvOf, AliasOf
<1>1. IsPull(Input[j]) /\ Place(j) \in Places /\ SingleOK(j)
  BY JobNames DEF Single
<1>2. CASE k # j
  <2>1. Place(k) # Place(j)
    BY <1>1, <1>2, PullAlias DEF Single, Place
  <2>2. release'[Place(j)] = release[Place(j)]
    BY <1>1, <2>1, JobNames
       DEF Acts, Setup, BuildPush, Upgrade, Test, Undeploy, Cancel, Place,
           TypeOK, Places
  <2>3. pc'[j] = pc[j] /\ red'[j] = red[j] /\ tested'[j] = tested[j]
    BY <1>2, JobsApart
  <2>4. QED
    BY <1>1, <2>2, <2>3 DEF SingleOK, Verdict, AliasOf
<1>3. CASE Upgrade(j)
  <2>1. /\ Deploys(j) /\ registry[TagOf(j)] \in Jobs
        /\ TagOf(registry[TagOf(j)]) = TagOf(j) /\ Deploys(registry[TagOf(j)])
    BY <1>3, JobNames DEF Upgrade, JobOK, RegistryOK, TypeOK, Tags
  <2>2. registry[TagOf(j)] = j
    BY <1>1, <2>1, PullTag DEF Single
  <2>3. pc'[j] # "undeploy" /\ pc'[j] # "done"
    BY <1>1, <1>3 DEF Upgrade, Goto, TypeOK
  <2>4. pc'[j] = "test" => release'[Place(j)] = [by |-> j, image |-> j]
    BY <1>1, <1>3, <2>2 DEF Upgrade, Goto, TypeOK, Place, Places
  <2>5. [by |-> j, image |-> j] # Nil
    BY DeployAssumption
  <2>6. QED
    BY <2>3, <2>4, <2>5
<1>4. CASE Test(j)
  <2>1. release[Place(j)] # Nil /\ release[Place(j)].image = j
    BY <1>1, <1>4 DEF Test, SingleOK
  <2>2. Verdict(j)'
    BY <1>1, <1>4, <2>1, TestVerdict
  <2>3. QED
    BY <1>4, <2>1, <2>2 DEF Test, TypeOK, Goto
<1>5. CASE Undeploy(j)
  BY <1>1, <1>5 DEF Undeploy, Goto, TypeOK, SingleOK, Verdict, AliasOf
<1>6. CASE Setup(j) \/ BuildPush(j) \/ Cancel(j)
  BY <1>1, <1>6 DEF Setup, BuildPush, Cancel, Goto, TypeOK
<1>7. QED
  BY <1>2, <1>3, <1>4, <1>5, <1>6 DEF Acts

\* The only job of a pull request has tested its own commit and is red if that
\* is bad, whatever other pull requests, branches and repositories do meanwhile
\* and whichever of their releases its pattern takes.
THEOREM VerdictsAreOwn == Spec => []VerdictIsOwn
<1>1. Init => VerdictInv
  BY DeployInit DEF Init, VerdictInv, SingleOK
<1>2. VerdictInv /\ [Next]_vars => VerdictInv'
  <2>1. ASSUME VerdictInv, UNCHANGED vars PROVE VerdictInv'
    <3>1. DeployInv'
      BY <2>1, DeployNext DEF VerdictInv
    <3>2. QED
      BY <2>1, <3>1 DEF VerdictInv, SingleOK, Single, Siblings, Identity,
                        Verdict, Place, EnvOf, AliasOf, vars
  <2>2. ASSUME VerdictInv, NEW k \in Jobs, Acts(k) PROVE VerdictInv'
    BY <2>2, SingleStep, DeployStep DEF VerdictInv
  <2>3. QED
    BY <2>1, <2>2 DEF Next, Acts
<1>3. VerdictInv => VerdictIsOwn
  BY DEF VerdictInv, SingleOK, Single, Verdict, VerdictIsOwn
<1>4. QED
  BY <1>1, <1>2, <1>3, PTL DEF Spec
=============================================================================

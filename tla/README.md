# A TLA+ model of sv-kubernetes

sv-kubernetes is a command line program (`sv`, node) and a set of shell scripts
with which developers build and run applications on a kubernetes cluster: a
local one (minikube, docker-desktop) or a shared one in the cloud. It has no
daemon. What makes it hard is that its commands run for minutes, several of
them at a time (shells of one developer, jobs of a CI service), on state that
nothing locks: the chart folder of an application, the kubeconfig, image tags,
helm releases, and repositories that are moved between two file systems.

Check a module with `tlc -config X.cfg M`, its proofs with `tlapm M.tla`; the
runs are listed under *Runs* and in `PROJECT.json`.

## Inventory

| Part | Source | State | Operations | What makes it correct |
|---|---|---|---|---|
| start, stop | `sv/sv.js`, `sv/utils.js` | `chart/templates/*.dec.yaml`, current context, helm releases | prompt, build, decrypt, checksum, `helm upgrade`, delete secrets; `helm uninstall` | the release gets the secrets of its files and environment; plaintext is deleted; a shared cluster changes only with consent |
| editSecrets, switchContext | `sv/sv.js` | encrypted files, current context | edit in place; use-context | seen by the starts that run at the time |
| logs --watch | `sv/sv.js` | `_watched`, child processes | list, spawn, kill, `close` | one child per running container, none forgotten |
| CI deployment | `sv/deploy/*` | registry tags, releases per cluster, exit code | setup, build and push, upgrade, test, undeploy | jobs of different branches do not meet; the verdict is the commit's own |
| test | `sv/sv.js` | exit code | select pods, run their commands | tests what it was asked to test |
| WSL migration | `scripts/migrate_wsl.sh`, `rollback_wsl.sh`, `copy_repos.sh`, `write_wsl_conf.sh` | two copies of the repositories, `.env`, `/etc/wsl.conf`, mount, link, flag | migrate, roll back | no work is lost; everything points to the same copy |
| build, _buildSvInfo | `sv/scripts.js`, `sv/sv.js` | images of two docker daemons, registry, `sv.json` | pull, build, push, list, write | pods run what was built for them, and their annotation tells which image that is |
| install, gitStatus | `sv/sv.js` | clones, their branches and remotes | clone, fetch, switch, pull, recurse | ends; leaves the branch that was asked for, dependencies included; keeps the developer's work |
| authentication | `sv/scripts.js`, `sv/utils.js` | three files under `internal/` | authLogin, authToken | the three files are of one user, or become so with the next login |
| pod commands | `sv/sv.js`, `sv/scripts.js` | none (a list of pods, soon stale) | exec, copy, restart, delete | leave none of what failed, and delete nothing else; end |
| provisioning | `scripts/*.sh` | packages and services of a machine | install, configure | can be run again |

How they interact. `sv start --build` runs `sv build` for each container and
`sv _buildSvInfo`, whose file it passes to helm with the user information that
authLogin wrote. `sv start` renders whatever is in `chart/templates`; helm and
kubectl both read the current context at the moment they run, which
`sv switchContext` writes. A CI job is one `sv start`, and for a pull request
one `sv test` and one `sv stop`. The folders in which all of them look for
applications come from `.env`, which the migration rewrites.

The behaviours that are hard: two invocations that share the chart folder; a
prompt whose answer is used minutes later; ctrl+c, which ends node during an
`execSync` so that no `finally` block runs; a helm upgrade that fails half way;
callbacks between two turns of the log watch; CI jobs that race on a tag;
scripts interrupted and run again. `PROJECT.json` lists each with its line.

## Modules

| Module | Models |
|---|---|
| `SvStart` | `sv start` and `sv stop` of one application, any number of invocations, with `sv editSecrets`, `sv switchContext` and ctrl+c |
| `SvStartProofs` | theorems about it |
| `SvSecretsProofs` | theorems about what it brings to the cluster, the refinement of `SvRelease` among them |
| `SvRelease` | what a start promises about secrets: a release is deployed with them all at once; `SvStart` implements it |
| `SvAuth` | `sv authLogin` and `sv authToken` |
| `SvBuild` | `sv build`, `_buildSvInfo` and helm's use of the images; extends `SvAuth`, whose files helm gets as well |
| `BuildProofs` | theorems about `SvBuild` and `SvAuth` |
| `SvInstall` | `sv install` of a repository and of its dependencies |
| `InstallProofs` | theorems about it |
| `PodCommands` | the commands that list pods and then run kubectl for some of them |
| `PodProofs` | theorems about it |
| `LogFollow` | what the log watch promises: per container, one child after another |
| `LogWatch` | the log watch; implements `LogFollow` |
| `LogWatchProofs` | theorems about it, the refinement among them |
| `DeployVars` | `getVars`: cluster, tag and release name of a CI job |
| `DeployPipeline` | the CI jobs of one repository over a shared registry and clusters; extends `DeployVars` |
| `DeployProofs` | theorems about them |
| `WslMigration` | migration and rollback |
| `WslProofs` | theorems about it |
| `MCSvStart`, `MCBuild`, `MCInstall`, `MCPods`, `MCDeploy`, `MCWsl` | the command lines, repositories, jobs and files of the instances |

### SvStart

A member of `Procs` is one invocation; `Job` is its command line. `pc` says
which statement it is at and `run` holds its variables (the record is `Fresh`
before and after). Each action is one statement whose effect others can see:
`LogContext` and `Answer` are the prompt, `Validate` the checks that may throw,
`Build` the `sv build` of the containers, `OpenDecrypted`, `Decrypt` or
`DecryptFails`, and `Checksum` one turn of the loop over `secretFilesArray`,
`HelmLoad` helm reading the chart and the context, `HelmUpgrade` or
`HelmUpgradeFails` its effect on the cluster, `CheckExists` and `Unlink` one
turn of `deleteSecrets`.

* `dec` is the plaintext on the disk by file. The shell truncates a file
  (`Empty`) before kubesec writes it; `writers` are the invocations that have it
  open, so that a write to a file unlinked in between goes nowhere, and two
  different writes over each other may give `Torn`.
* `release` is what the cluster has: the Secret objects, the checksum
  annotations and environment of the deployment, and the secrets its pods
  started with. Pods are replaced exactly when the annotations or the
  environment change (src/readme.md:205-206 recommends the annotations to
  charts); a failed upgrade may have applied nothing, the Secrets, or all, and
  so may one that ctrl+c has ended, or an uninstall.
* All `secrets_<env>` files define the same Secret
  (`internal/secretsTemplate.yaml`), so with several in the chart one wins.
* `Disturb` names what may happen while an invocation is running: another
  invocation ("overlap"), ctrl+c ("kill"), an edit, a switch of context. What
  is not in it still happens between invocations.

`SvRelease` has none of this: a deployment, in one step, puts the secrets that
the files hold into the Secrets, the annotations and the pods. `Promised` is
the refinement; it maps every step but helm's, `sv stop` and the edits to a
stutter. It is stronger than `SuccessDelivers`: failed deployments and stops
are in it too.

### SvAuth and SvBuild

An invocation of `SvAuth` waits for the service (`Fetch`) before it writes
anything, then writes its files one by one; a write may fail before or after
the file was truncated (`Empty`), and the invocation is then `torn`.

In `SvBuild` an image is a record of what went into it: the source, the build
arguments and the base image; two builds of the same are one image, as with
docker's cache. `images[d]` is what the tags of a daemon point to: `host`, the
one docker finds by itself, and `minikube`, which `getDockerEnv` chooses when
the program minikube is installed (`machine`). A start goes through
`BuildOrder`, one `Pull`, `Build` and `Push` per container, then `List` and
`Write` of `sv.json`, then `Helm`. `Upgraded` compares image ids as the
annotation that src/readme.md:196 recommends does; `Found` is where the pods
of an environment get their images, the registry but for `local`; a pod that
did not find its image is started later (`Retry`). The prompt and the secrets
of a start are left to `SvStart`, whose `Build` step this refines informally.
A tag without an image holds `NoImage`, which is no container's, and a write of
`sv.json` that breaks off leaves `NoImages`: no id for any tag. A base image
goes by a name that only containers of /sv/containers have (`External`).

Pods are *stale* when they run another image than the annotation says. Where a
start builds, `Delivers` says that the pods get what it built, unless they were
stale before: then an image id that comes back does not replace them. That
needs a start without a build in the same environment, or a separate
`sv build`, which moves the tag and not `sv.json`; `StaleHasCause` says that
nothing else does. With `Concurrent = TRUE` these properties fail: two starts
share the tags and `sv.json`, and nothing locks them. `OneUser` stops at the
first write that fails half way, since nothing could hold of the files then;
what the code does promise after it is `LoginRepairs`.

### SvInstall

A commit of a remote branch is its number; a local branch has an upstream, the
commit it holds, and whether there are commits of the developer's on top
(`own`). `stack` holds the invocations: `exec` of `sv install` for a dependency
pushes one, an error in it makes all of them throw. The developer works in the
clones and others push at any time, at the two prompts above all; branches are
switched between installs. `partial` (history) notes that a prompt was answered
with no or that a clone had uncommitted changes, after which the program
promises nothing. `gitStatus` is modelled as it is: whatever has commits of its
own is "ahead", diverged or not, and a pull is offered. Names of branches are
sequences, so that the local name of the branch x of a fork and a branch
"fork-x" can be the same. `InPlace` is then satisfied by either, and
`InstallsDesired` is not. Remotes whose names end
alike (`EndsWith`) make `Fetch` throw. A command that fails leaves what was done
before it: the remote that was added, the branch that was made. Commit 0 of a remote branch is one
that is not published, or that the clone has not fetched.

### PodCommands

A shell runs one command after another. `List` is `getCurrentPods` and what the
command makes of the result, in one step, because nothing happens in between;
then each kubectl command is a step of its own, and kubernetes moves pods at any
time. A name is used once, but for those of StatefulSets (`Sticky`); the `uid`
tells the pods of a name apart, and `Wait` is kubectl waiting for the one that
it deleted: by name, so that for a StatefulSet it may be a newer pod than the
one on the list, which `DeletesFailed` says is the only case. describePod, copyFrom and copyTo are the same as execPod here.

### LogWatch

`kid[k][n]` is the state of child `n` of container `k`; `watched[k]` the child
`_watched` names. `List` and `Apply` are the two halves of `watchPods`: kubectl
is called synchronously, so children and cluster move in between, but no
`close` event is delivered there. `MaxKids` bounds the children of one
container that exist at a time; that two are enough is itself a consequence of
`WatchedIsExact`, which TLC finds violated when `Apply` or `Spawns` is wrong.

### DeployVars and DeployPipeline

Names are sequences of parts, so that two names can be equal and one can occur
in another, which is all the properties tell apart. sv test takes every pod whose
name its argument occurs in (`Takes`), of releases of this repository and of
others (`Foreign`), which come and go and whose tests pass or fail as they like.
So `TestsOwnRelease` does not hold, and `VerdictIsOwn` says what a verdict is
worth all the same. `registry` maps a
tag to the job whose image it is on, `release` a cluster and release name to
the job that deployed it and the job whose image its pods pulled. The steps of
`default.js` are actions; any may fail, and a job may be cancelled anywhere.

### WslMigration

One action per statement of the two scripts, in their order, with `pc` the
next one. The unit is a file of a repository, because rsync replaces files one
by one, through a temporary name, and deletes none. `Interrupt` ends a script
anywhere; `Restart` is `wsl --shutdown`, after which only what the boot command
of `wsl.conf` mounts is mounted; `Work` is a developer who writes a file where
`sv` looks for it. `last` (history) says how the last script ended.

## Runs

| Run | Instance | Shows |
|---|---|---|
| `start_alone` | two starts in `dev`, one in `test` with a build, a stop; one at a time, edits in between | `AlwaysDeleted`, `InstallsWhatItDecrypted`, `SuccessDelivers`, `PlaintextGoes`, `ReleaseSpec` |
| `start_disturbed` | a developer's and a CI start of one chart at the same time, kills and edits anywhere, a local and a cloud context | `TypeOK`, `DecryptedFileHasOwner`, `NonLocalNeedsConsent` |
| `start_killed` | start in `dev` killed, start in `test` | violation of `OwnEnvSecrets` |
| `log_watch` | two containers, two children each | `TypeOK`, `WatchedIsExact`, `FollowSpec`, `IterationsFollowed`, `GoneContainersReaped` |
| `deploy` | any four of seven jobs: pull request 4 (its commit good), 42 (bad) and 7 (two jobs), two previews of one slug, one refused; and a release of a repository that is called `my` and this one's name | `TypeOK`, `VerdictIsOwn`, `PullReleaseHasOwner`, `ImagesDoNotCross` |
| `deploy_previews` | `preview/dev/x` and `preview/int/x`, not legacy | violation of `ImagesDoNotCross` |
| `build` | any three commands of two starts in `local` and two in `dev` that build, a start and a build of one container that do not, two logins and a new token; one at a time, edits in between, minikube or not | `TypeOK`, `StaleHasCause`, `OneUser`, `Delivers`, `LoginRepairs` |
| `build_minikube` | one start that builds and pushes, with minikube | violation of `PushedIsBuilt` |
| `install` | an application and its fork, with two dependencies of which one needs the other; work and pushes anywhere | `TypeOK`, `InstallsWhatWasAsked`, `DependenciesInPlace`, `WorkKept`, `Ends` |
| `pods` | two shells with every command, a pod of a deployment and two of a StatefulSet | `TypeOK`, `CleanedUp`, `DeletesFailed`, `Finishes` |
| `wsl` | three files in two folders, two versions each, interruptions anywhere | `TypeOK`, `OneWholeCopy`, `SeesNewest`, `PiecesAgree` |
| `wsl_skip` | the answer n | violation of `NothingLost` |

The violations are what the code does and a document or comment says it does
not; `PROJECT.json` quotes the line under `findings`. More of the kind are not
among the runs; TLC finds each with other constants:

* `Disturb = {"overlap"}`, `Procs = {"dev", "again"}` in `SvStartAlone.cfg`:
  `InstallsWhatItDecrypted` is violated, as one start truncates and deletes the
  files from under the other.
* `Disturb = {"edit"}`, `MaxVersion = 2`, the same two: `SuccessRestarts` is
  violated. The checksum
  is that of a second read of the file (sv.js:405), so a release may have the old
  secrets under the new checksum, and the next start replaces no pod, against
  what src/readme.md:220 recommends the checksum for.
* `Disturb = {"switch"}`, a local and a cloud context: `NonLocalNeedsConsent` is
  violated, since helm reads the context long after the prompt.
* `Jobs = {"pr4", "pr42"}` in `Deploy.cfg`: `TestsOwnRelease` is violated, as the
  name of one release occurs in those of the pods of the other (utils.js:201).
* `Concurrent = TRUE`, `Procs = {"local", "again"}` in `Build.cfg`:
  `StaleHasCause` is violated.
* `NamesCollide`, `PublishedCollide`, `RequestsCollide` and `TopicApart` of
  `MCInstall` in `Install.cfg`: `InstallsDesired` is violated, as the branch x of
  the remote fork and a branch fork-x of origin have one local name (sv.js:140),
  and the one that is there is checked out (sv.js:174).

Bounds. `MaxVersion = 1` gives each secret file up to three states (absent,
template, edited), enough for an edit between any two statements; two
invocations are enough for every race on a file, since each file has one writer
and one deleter in conflict; four sequential ones give every order of success
and failure before a success. `MaxKids = 2` lets a second child appear.
`MaxName = 5` parts is what helm's 53 characters are for a slug of two parts.
`MaxWork = 2` and three files let a file be stale, current or absent in either
copy; `MaxMounts = 3` lets mounts stack up over interrupted runs (a migration
that would go beyond waits, as the rest of the state is covered by then).
`MaxCommands = 3` of nine command lines, each run once, in every order: two
starts that build for one environment with anything between them (a start for
the other environment, a separate build, a start that does not build, a login),
failures and half-written lists included. The base image has one version and the
other container two, so that an image can change and change back. `MaxJobs = 4`
of seven jobs: two of one pull request with two others, or any two that might
share a tag with two more. The names are such that a number is a prefix of
another and a name the end of another, and a good commit is on a pull request
with one job, which is the case in which green must mean something. In `install`
the dependencies form a diamond, as one is needed by two; the application has
two commits on `master` (`MaxTip`), enough for a clone to be behind, ahead or
diverged; a cycle of dependencies would make the stack infinite, and is a hazard
of the code that no bound can excuse: `Ends` holds for what has none. In `pods`
`MaxUid = 2` lets one pod of a StatefulSet follow another, and two shells race
for every pod.

Deadlock is checked for the log watch, the installs and the migration, which go
on for ever; invocations that run once end, and in `pods` the names are used up.

Fairness. `SvStart` assumes weak fairness of the program's own steps: kubesec,
helm (which has a time limit) and the builds end by themselves. Nothing makes a
user answer the prompt, start a command or press ctrl+c. `LogWatch` assumes
that `setInterval` fires, that a turn of the loop runs to its end, and that
children whose stream is over exit (weak), and strong fairness for the delivery
of `close` events, since the event loop alternates between its timers and its
events. No fairness is asked of the cluster. `SvInstall` assumes that git ends
by itself and that a user who is asked answers something in the end, and
nothing of those who work or push. `PodCommands` assumes that kubectl ends and
that a pod that is being deleted is gone when its grace period is over: what a
deletion waits for is that one pod, not its name. The other modules have safety
properties only.

## Proofs

Each theorem holds for every value of the constants that satisfies the module's
named assumption; what else it needs, of the disturbances, of the settings or
of the names of branches, the theorem states. All safety properties of the
passing runs are proved, and both refinements.

* `SvStartProofs`. `TypeCorrect` and `DecryptedFilesHaveOwners` hold whatever
  overlaps, fails or is killed. The invariant behind the second adds to
  `DecryptedFileHasOwner` that who writes a file owes it: `Owes` follows an
  invocation from the decryption of a slot to the slot's turn in
  `deleteSecrets`. `AlwaysDeletedAlone` adds that one invocation runs at a time.
  `ConsentWithoutSwitch` needs that the context an invocation was shown is still
  the current one, which is inductive when nobody switches it meanwhile.
* `SvSecretsProofs` follows the loop over `secretFilesArray`, in which a slot is
  ahead, at its turn or passed. `ReadInv`: what was read for a slot is no newer
  than its file, and the checksum no older than that, whatever happens.
  `ChartInv`, without overlap and kill: the chart holds what the one running
  invocation has decrypted (`InstalledIsDecrypted`). `DeliverInv`, without edits
  either: what it has decrypted is what the files hold, and a release tells what
  its pods run with; from it come `SuccessIsDelivered` and, step by step, the
  refinement `StartImplementsRelease`. The violations listed above show that
  neither hypothesis can go.
* `BuildProofs`. `TypeCorrect` holds whatever runs at the same time. The others
  assume `Concurrent = FALSE`. `UserInv` says of which user each file is at each
  point of authLogin and authToken (`FilesOfOneUser`), as long as no write was
  torn; `RepairInv` follows one authLogin from its first write, over whatever it
  finds (`LoginsRepair`). `BuildInv` is about a start that builds: an image that
  it has built is what all its tags say, in the daemon and, once pushed, in the
  registry; no container is built again after it; and what is listed, written and
  read by helm is what the daemon has. That gives `StartDelivers` and, for
  machines without minikube, `PushesWhatItBuilt`, the property that run
  `build_minikube` refutes for the others. They need `OrdersOnce`: the order of
  builds has no container twice. No code checks it; in which order they are, and
  where base images come, does not matter. For `StalePodsExplained` the order has
  every container (`OrdersWhole`), and `CoverInv` and `PodsInv` say that each is
  built or left to build, and that pods which only such starts have made are not
  stale.
* `InstallProofs`. `InstallInv` says of every clone which of its branches,
  remotes and commits there are, and of every invocation on the stack what it
  has established by the statement it is at; `TypeCorrect` and `WorkIsKept`
  follow for any dependencies. A local branch that a refused checkout has left
  behind is covered by it too (`Seen`: what it holds was fetched). `AskedIsInstalled`
  assumes that dependencies have no cycle (`Acyclic`; with one sv install would
  not end): then an invocation on the stack is of lower rank than those that wait
  for it, so none of the clones these have finished with is touched (`Stage`).
  Which of two branches of one local name a clone follows it leaves open;
  `DesiredIsInstalled` is the promise of the docs where no two names collide
  (`NamesApart`), so that a collision is the only way to break it.
  `DependenciesAreInPlace` assumes, besides `Acyclic`, that no two settings name
  different branches of one repository (`Consistent`). Otherwise the last that is
  installed wins, which TLC confirms on a diamond; it is listed as a hazard. The
  invariant says of every dependency that it is settled and its own dependencies
  are complete, or that an invocation on the stack will still install it
  (`Progress`), since one that is complete may be gone through again.
* `PodProofs`. `PodInv`: the pods of a name only get newer, and whatever a shell
  has on its list had failed when it was listed, and is left to do, waited for,
  or over. `ListedPodsAreGone` follows for any number of shells, and pods that
  come and go at any time; and so does `OnlyReusedNames`: a pod that has not
  failed is deleted in one way only, by the name that a StatefulSet has given it
  since the list was made.
* `DeployProofs` rests on lemmas about the names of `getVars`: which jobs have
  the same tag, alias and place. `DeployInv` says that a tag is on an image of a
  job with that tag and a release where its job puts it, which gives
  `PullReleasesHaveOwners` (while a release is there, a job of its pull request
  has still to test or undeploy it, was cancelled or is stuck) and for the legacy
  clusters `LegacyImagesDoNotCross`, as run `deploy_previews` refutes it for
  others. `VerdictsAreOwn` has no hypothesis on names: `VerdictInv` says that the
  only job of a pull request finds its own release, with its own image, among
  what the pattern takes.
* `LogWatchProofs`. `WatchedExact`: exactness is inductive together with "no
  container has two children", which is what is left of it after a crash.
  `WatchFollows`: every step of `LogWatch` maps to a step or a stutter of
  `LogFollow`; the mapping forgets everything but the children that exist.
  `TypeCorrect` completes them.
* `WslProofs`. `WholeCopyStays` and `NewestIsSeen` assume that the user answers
  y, rsync succeeds and nobody uses --force. The flag separates two phases:
  without it the copy on the C: drive is whole; with it WSL's copy holds last
  versions only, and is whole unless the other one is. The invariant adds what
  each script has done up to each statement. `PiecesStayInAgreement` and
  `TypeCorrect` assume nothing about the answers.

Only model-checked are the liveness properties (`PlaintextGoes`,
`IterationsFollowed`, `GoneContainersReaped`, `Ends`, `Finishes`), which are
beyond the prover. `OwnEnvSecrets`, `SuccessRestarts`, `TestsOwnRelease` and
`NothingLost` are violated by the code and nothing is proved of them;
`ImagesDoNotCross`, `PushedIsBuilt`, `StaleHasCause`, `InstallsWhatItDecrypted`,
`NonLocalNeedsConsent` and `InstallsDesired` are proved under the conditions on
which they hold.

## Not modelled

Argument parsing beyond "it may throw"; an encrypted file that disappears
between kubesec and its md5 (sv.js:405 is outside the `try`, so a start would
end there with its plaintext left); an alias that replaces a part of the
registry's path because the name of the application occurs there first
(scripts.js:68, `Prefix` is a clean renaming); failures of the statements of the
WSL scripts other than rsync, past which the scripts would run on, as they do
not set -e; which base image a build gets where starts overlap, beyond that it
is the one the tag has then; the values other than secrets, images
and the user that are passed to helm; the text of build arguments (one that
holds a second equals sign is cut); files that git ignores, folders without
`.git`, and deletions of files in `WslMigration`; submodules in `SvInstall`;
`checkOutdated`, whose call is a comment (sv.js:894); `topPods`,
`getSecretsGroups` and the other commands that print and change nothing; and
the components marked `not_modelled` in `PROJECT.json`: the provisioning and
Windows scripts are linear scripts of installations that stop at the first
error, and have no state of their own to speak of. One of them writes state
that is modelled: windows_init.ps1:62 puts `.env` back to what it was before a
migration. It is listed as a hazard; as an action of `WslMigration` it violates
`PiecesAgree` at once, and there is no promise that it may be run again.

## Plan

Done: `SvStart`, and `SvRelease`, which it implements; `LogFollow`, which
`LogWatch` implements; `DeployVars` and `DeployPipeline`; `WslMigration`;
`SvAuth` and `SvBuild`; `SvInstall`; `PodCommands`; all of their safety
properties proved.

Next:

1. Weaker hypotheses. `InstalledIsDecrypted` and `AlwaysDeletedAlone` for
   invocations that overlap but share no chart file; `FilesOfOneUser` for logins
   that run one by one while builds and starts overlap.
2. What `Delivers` still promises when two starts of different environments
   overlap.
3. The `Build` step of `SvStart` as an abstraction of `SvBuild`, stated and not
   only described.

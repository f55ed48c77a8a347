------------------------------ MODULE SvBuild ------------------------------
(***************************************************************************)
(* `sv build`, and the part of `sv start` that is about images: the build  *)
(* of every container, `sv _buildSvInfo`, and what helm makes of them.     *)
(* Images live in a docker daemon under mutable tags.  A machine with      *)
(* minikube has two daemons, and getDockerEnv chooses minikube's for some  *)
(* of the docker commands.  The chart compares the image ids of            *)
(* /sv/internal/sv.json to decide whether pods are replaced.               *)
(*                                                                         *)
(* The secrets of a start are in SvStart: here its steps from the prompt   *)
(* to the decryption are left out.                                         *)
(***************************************************************************)
EXTENDS SvAuth, Sequences

CONSTANTS
    App,         \* the application; its name begins the names of its images
    Containers,  \* the containers it is made of
    External,    \* those of /sv/containers, which other applications share
    From,        \* whose :local image a Dockerfile starts from, or Nil
    UseAlias,    \* buildArgs: containers whose images --alias-image renames
    Skips,       \* buildArgs: <<container, env>> whose `build` may be false
    Setting,     \* buildArgs: values by container, environment and argument
    BuildOrder,  \* buildOrder_<env> or buildOrder, by environment
    Envs,        \* environments, "local" among them
    Versions,    \* of the source of each container
    Machines     \* "minikube", "desktop": what this machine may be

ArgNames == {"SV_ENV", "API"}
Daemons == {"host", "minikube"}
Starting == {p \in Procs : Job[p].cmd = "start"}
Building == {p \in Procs : Job[p].cmd = "build"}

Tags == ({Nil, App} \cup {Job[p].alias : p \in Starting \cup Building})
            \X Containers \X Envs

\* A Dockerfile names a base image as container:local, which only containers of
\* /sv/containers have for a name.
ASSUME BuildAssumption ==
    /\ External \subseteq Containers
    /\ From \in [Containers -> External \cup {Nil}]
    /\ \A c \in Containers : 1 \in Versions[c]
    /\ "local" \in Envs
    /\ Machines \subseteq {"minikube", "desktop"}
    /\ \A p \in Starting : /\ Job[p].env \in Envs
                            /\ BuildOrder[Job[p].env] \in Seq(Containers)
    /\ \A p \in Building : Job[p].only \in Containers
    /\ Nil \notin Envs \cup Containers \cup Tags

\* No image under a tag, and none under any.
NoImage == [c |-> Nil]
NoImages == [t \in Tags |-> NoImage]

VARIABLES
    machine,   \* what the machine is
    src,       \* the version of the source of each container
    images,    \* the daemons: tag to image
    registry,  \* the registry: tag to image
    svjson,    \* sv.json: tag to image id; Nil if it is missing
    release,   \* what each environment runs, Nil if nothing
    run        \* the variables of each invocation

Labels == {"pull", "build", "push", "list", "write", "helm"}

imageVars == <<images, registry>>
vars == <<authVars, pc, machine, src, imageVars, svjson, release, run>>

Fresh == [todo |-> <<>>,                             \* containers left to build
          built |-> [c \in Containers |-> NoImage],  \* what it has built
          ids |-> Nil]                               \* what _buildSvInfo listed
-----------------------------------------------------------------------------
\* containerName: the part of an image name before the container's.
Prefix(p, c) == IF c \in External THEN Nil
                ELSE IF c \in UseAlias /\ Job[p].alias # Nil
                  THEN Job[p].alias ELSE App

LocalTag(p, c) == <<Prefix(p, c), c, "local">>

\* sv start --push passes dockerRegistry, the name and the environment; the
\* containers of external/ get no pushTag.
PushTag(p, c) == IF Job[p].push /\ c \notin External
                 THEN <<Prefix(p, c), c, Job[p].env>> ELSE Nil

\* The image a deployment of the chart names: sv.tag is the environment.
Ref(p, c) == <<Prefix(p, c), c, Job[p].env>>

Tagged(c) == {t \in Tags : t[2] = c}

\* getDockerEnv.
BuildDaemon == IF machine = "minikube" THEN "minikube" ELSE "host"

\* The build arguments: the environment wins over the command line (which sv
\* start does not pass on to external containers), and that over the values
\* of the settings (which `sv build` of an external one does not load).
BuildArgs(p, c) ==
    LET Line(a) == IF p \in Starting /\ c \in External THEN Nil
                   ELSE Job[p].arg[a]
        Values(a) == IF p \in Building /\ c \in External THEN Nil
                     ELSE Setting[c, Job[p].env][a]
    IN  [a \in ArgNames |->
            IF a = "SV_ENV" /\ Job[p].env # Nil THEN Job[p].env
            ELSE IF Line(a) # Nil THEN Line(a) ELSE Values(a)]

\* The image of a build, as its id tells it from others: a hash of its
\* contents, the layers it was built from included.
BaseImage(c) == IF From[c] = Nil THEN NoImage
                ELSE images[BuildDaemon][<<Nil, From[c], "local">>]
Built(p, c) == [c |-> c, src |-> src[c], args |-> BuildArgs(p, c),
                from |-> BaseImage(c)]

Current(p) == Head(run[p].todo)
MayBeSkipped(p, c) == /\ <<c, Job[p].env>> \in Skips
                      /\ p \in Starting \/ c \notin External
-----------------------------------------------------------------------------
\* An image that the registry has from another machine, a CI job for one: the
\* application has been deployed before.
Elsewhere(c) == [c |-> c, src |-> 1, args |-> [a \in ArgNames |-> Nil],
                 from |-> NoImage]
Pushed == {t \in Tags : t[2] \notin External /\ t[3] # "local"}

\* setup.sh, which starts minikube, has run sv _buildSvInfo.
Init ==
    /\ AuthInit
    /\ machine \in Machines
    /\ src = [c \in Containers |-> 1]
    /\ images = [d \in Daemons |-> NoImages]
    /\ registry = [t \in Tags |-> IF t \in Pushed THEN Elsewhere(t[2])
                                  ELSE NoImage]
    /\ svjson = IF machine = "minikube" THEN NoImages ELSE Nil
    /\ release = [e \in Envs |-> Nil]
    /\ run = [p \in Procs |-> Fresh]

\* The containers that are left, one by one, then _buildSvInfo.
Onwards(todo) == IF todo = <<>> THEN "list" ELSE "pull"

\* A command line of sv start, with or without --build, or of sv build.
Begin(p) ==
    /\ \/ /\ Starts(p, "start")
          /\ \/ /\ Job[p].build
                /\ Goto(p, Onwards(BuildOrder[Job[p].env]))
                /\ run' = [run EXCEPT ![p].todo = BuildOrder[Job[p].env]]
             \/ ~Job[p].build /\ Goto(p, "helm") /\ UNCHANGED run
       \/ /\ Starts(p, "build")
          /\ Goto(p, "pull")
          /\ run' = [run EXCEPT ![p].todo = <<Job[p].only>>]
    /\ UNCHANGED <<authVars, machine, src, imageVars, svjson, release>>

Exit(p) == Goto(p, "over") /\ run' = [run EXCEPT ![p] = Fresh]

\* The `sv build` of a container is over: the next one, or _buildSvInfo.
NextContainer(p, r) ==
    LET rest == Tail(r.todo)
    IN  IF rest = <<>> /\ p \in Building
          THEN Exit(p)
          ELSE /\ Goto(p, Onwards(rest))
               /\ run' = [run EXCEPT ![p] = [r EXCEPT !.todo = rest]]

\* docker pull of the pushTag || true, to prime the cache: with the
\* environment of node, that is from the daemon of the host.
Pull(p) ==
    LET tag == PushTag(p, Current(p))
    IN  /\ pc[p] = "pull"
        /\ \/ UNCHANGED images
           \/ /\ tag # Nil /\ registry[tag] # NoImage
              /\ images' = [images EXCEPT !["host"][tag] = registry[tag]]
        /\ Goto(p, "build")
        /\ UNCHANGED <<authVars, machine, src, registry, svjson, release, run>>

\* The tags of one build move to the new image.
Retagged(p, c, image) ==
    images' = [images EXCEPT ![BuildDaemon] = [t \in Tags |->
                   IF t \in {LocalTag(p, c), PushTag(p, c)} THEN image
                   ELSE @[t]]]

\* A mutated form: every build is followed by a push.
BuildThenPush(p) ==
    LET c == Current(p)
    IN  /\ pc[p] = "build"
        /\ Retagged(p, c, Built(p, c))
        /\ run' = [run EXCEPT ![p].built[c] = Built(p, c)]
        /\ Goto(p, "push")
        /\ UNCHANGED <<authVars, machine, src, registry, svjson, release>>

\* docker build -t, unless the `build` of the settings says not to: a value of
\* the chart or of its secrets.  The base image has to exist.
Build(p) ==
    LET c == Current(p)
        r == [run[p] EXCEPT !.built[c] = Built(p, c)]
    IN  /\ pc[p] = "build"
        /\ \/ /\ MayBeSkipped(p, c)
              /\ NextContainer(p, run[p])
              /\ UNCHANGED images
           \/ /\ From[c] # Nil => BaseImage(c) # NoImage
              /\ Retagged(p, c, Built(p, c))
              /\ IF PushTag(p, c) = Nil
                   THEN NextContainer(p, r)
                   ELSE Goto(p, "push") /\ run' = [run EXCEPT ![p] = r]
        /\ UNCHANGED <<authVars, machine, src, registry, svjson, release>>

\* docker push, again with the environment of node: the image that the daemon
\* of the host has under the tag.
Push(p) ==
    LET tag == PushTag(p, Current(p))
    IN  /\ pc[p] = "push"
        /\ images["host"][tag] # NoImage
        /\ registry' = [registry EXCEPT ![tag] = images["host"][tag]]
        /\ \/ NextContainer(p, run[p])
           \/ Exit(p)
        /\ UNCHANGED <<authVars, machine, src, images, svjson, release>>

\* A mutated form: the images of the host, without getDockerEnv.
ListHost(p) ==
    /\ pc[p] = "list"
    /\ run' = [run EXCEPT ![p].ids = images["host"]]
    /\ Goto(p, "write")
    /\ UNCHANGED <<authVars, machine, src, imageVars, svjson, release>>

\* _buildSvInfo: docker image list ...
List(p) ==
    /\ pc[p] = "list"
    /\ run' = [run EXCEPT ![p].ids = images[BuildDaemon]]
    /\ Goto(p, "write")
    /\ UNCHANGED <<authVars, machine, src, imageVars, svjson, release>>

\* ... and writeFileSync, which may leave an empty file behind.
Write(p) ==
    /\ pc[p] = "write"
    /\ \/ /\ svjson' = run[p].ids
          /\ Goto(p, "helm")
          /\ run' = [run EXCEPT ![p].ids = Nil]
       \/ svjson' = NoImages /\ Exit(p)
    /\ UNCHANGED <<authVars, machine, src, imageVars, release>>
-----------------------------------------------------------------------------
\* Where the pods of an environment find an image: on the machine itself, or
\* in the registry.
Found(e, tag) == IF e = "local" THEN images[BuildDaemon][tag]
                 ELSE registry[tag]

Deployed == Containers \ External

\* A mutated form: the deployment has no checksum of the image.
UpgradedByName(p) ==
    LET e == Job[p].env
        old == release[e]
    IN  [ref |-> [c \in Deployed |-> Ref(p, c)],
         sum |-> [c \in Deployed |-> svjson[Ref(p, c)]],
         pods |-> [c \in Deployed |->
            IF old # Nil /\ old.pods[c] # NoImage /\ old.ref[c] = Ref(p, c)
            THEN old.pods[c] ELSE Found(e, Ref(p, c))],
         user |-> <<auth["refresh_token"], auth["user_info"]>>]

\* What helm makes of a release: each deployment names its image and has the
\* image's id for an annotation (src/readme.md:196); kubernetes replaces the
\* pods when either of them changes.
Upgraded(p) ==
    LET e == Job[p].env
        old == release[e]
        Same(c) == /\ old # Nil
                   /\ old.pods[c] # NoImage
                   /\ old.ref[c] = Ref(p, c)
                   /\ old.sum[c] = svjson[Ref(p, c)]
    IN  [ref |-> [c \in Deployed |-> Ref(p, c)],
         sum |-> [c \in Deployed |-> svjson[Ref(p, c)]],
         pods |-> [c \in Deployed |-> IF Same(c) THEN old.pods[c]
                                      ELSE Found(e, Ref(p, c))],
         user |-> <<auth["refresh_token"], auth["user_info"]>>]

\* helm upgrade -f sv.json, with the refresh token and the email of the user
\* on its command line: nothing of it or all of it is done when it fails.
Helm(p) ==
    /\ pc[p] = "helm"
    /\ svjson # Nil
    /\ release' = [release EXCEPT ![Job[p].env] = Upgraded(p)]
    /\ Exit(p)
    /\ UNCHANGED <<authVars, machine, src, imageVars, svjson>>

\* A command throws before it has done anything, or ctrl+c ends the program.
Fail(p) ==
    /\ pc[p] \in Labels
    /\ Exit(p)
    /\ UNCHANGED <<authVars, machine, src, imageVars, svjson, release>>

\* A pod whose image was not found starts as soon as it is there.
Retry(e, c) ==
    /\ release[e] # Nil
    /\ release[e].pods[c] = NoImage
    /\ Found(e, release[e].ref[c]) # NoImage
    /\ release' = [release EXCEPT ![e].pods[c] = Found(e, release[e].ref[c])]
    /\ UNCHANGED <<authVars, pc, machine, src, imageVars, svjson, run>>

\* The developer changes the source of a container, or changes it back.
Edit(c) ==
    /\ MayBegin
    /\ \E v \in Versions[c] : src' = [src EXCEPT ![c] = v]
    /\ UNCHANGED <<authVars, pc, machine, imageVars, svjson, release, run>>

Authenticate(p) ==
    /\ AuthStep(p)
    /\ UNCHANGED <<machine, src, imageVars, svjson, release, run>>

Step(p) ==
    \/ Pull(p) \/ Build(p) \/ Push(p) \/ List(p) \/ Write(p) \/ Helm(p)
    \/ Fail(p)

Next ==
    \/ \E p \in Procs : Begin(p) \/ Step(p) \/ Authenticate(p)
    \/ \E e \in Envs, c \in Deployed : Retry(e, c)
    \/ \E c \in Containers : Edit(c)

Spec == Init /\ [][Next]_vars
-----------------------------------------------------------------------------
\* The type of every variable.  A push is only ever made of a tag, and only
\* starts get as far as to helm.
IsImage(i, c) ==
    /\ i.c = c /\ i.src \in Versions[c] /\ DOMAIN i.args = ArgNames
    /\ i.from # NoImage => i.from.c = From[c]
IsStore(s) == /\ DOMAIN s = Tags
              /\ \A t \in Tags : s[t] # NoImage => IsImage(s[t], t[2])
IsRun(r) == /\ DOMAIN r = {"todo", "built", "ids"}
            /\ r.todo \in Seq(Containers)
            /\ DOMAIN r.built = Containers
            /\ r.ids # Nil => IsStore(r.ids)
IsRelease(r) == /\ DOMAIN r = {"ref", "sum", "pods", "user"}
                /\ DOMAIN r.pods = Deployed
                /\ \A c \in Deployed :
                      /\ r.ref[c] \in Tagged(c)
                      /\ r.pods[c] # NoImage => IsImage(r.pods[c], c)
TypeOK ==
    /\ AuthTypeOK
    /\ pc \in [Procs -> AuthLabels \cup Labels]
    /\ machine \in Machines
    /\ \A c \in Containers : src[c] \in Versions[c]
    /\ \A d \in Daemons : IsStore(images[d])
    /\ IsStore(registry)
    /\ svjson # Nil => IsStore(svjson)
    /\ \A e \in Envs : release[e] # Nil => IsRelease(release[e])
    /\ \A p \in Procs :
          /\ IsRun(run[p])
          /\ pc[p] = "push" => PushTag(p, Current(p)) # Nil
          /\ pc[p] \in {"list", "write", "helm"} => p \in Starting

\* A start that builds what the pods of its environment are to run: on a
\* machine with minikube, not one that pushes (see PushedIsBuilt).
Delivering(p) ==
    /\ p \in Starting
    /\ Job[p].build
    /\ Job[p].env = "local" \/ (Job[p].push /\ machine # "minikube")

\* The pods of a container run another image than the annotation says.
Stale(e, c) == release[e] # Nil /\ release[e].pods[c] # release[e].sum[c]

\* "Start an application and build containers that have changes": when helm
\* is through, the pods run the very images that this start has built, although
\* tags are shared and the ids go through a file, unless the pods were stale
\* before: then an id that comes back does not replace them.
DeliversStep ==
    \A p \in Starting, c \in Deployed :
        /\ pc[p] = "helm" /\ pc'[p] = "over" /\ release' # release
        /\ Delivering(p) /\ run[p].built[c] # NoImage /\ ~Stale(Job[p].env, c)
        => release'[Job[p].env].pods[c] = run[p].built[c]
Delivers == [][DeliversStep]_vars

\* "A hash of the exact contents, to verify whether the container has changed"
\* (src/readme.md:195): pods run another image than their annotation says only
\* where some start is over that did not build for them.  Starts that build
\* never leave pods behind that a later one cannot replace, whatever failed, was
\* built separately or was changed back between them.
StaleHasCause ==
    \A e \in Envs, c \in Deployed : Stale(e, c) =>
        \E p \in Starting : /\ Job[p].env = e /\ pc[p] = "over"
                            /\ ~Delivering(p) \/ MayBeSkipped(p, c)

\* The three files that authLogin writes are of one user, and so are the
\* refresh token and the email that sv start passes to a release, as long as
\* no write has failed half way.
OneUser ==
    (\A p \in Procs : pc[p] \notin AuthFiles \cup {"torn"}) =>
        /\ \A f, g \in AuthFiles : auth[f] = auth[g]
        /\ \A e \in Envs : release[e] # Nil =>
              release[e].user[1] = release[e].user[2]

\* Whatever files a login or a new token that failed half way has left, an
\* authLogin that comes to its end leaves all three of them to its user.
LoginRepairsStep ==
    \A p \in Procs :
        /\ Job[p].cmd = "authLogin"
        /\ pc[p] \in AuthFiles \ {"refresh_token"} /\ pc'[p] = "over"
        => \A f \in AuthFiles : auth'[f] = who[p]
LoginRepairs == [][LoginRepairsStep]_vars

\* "Push the built containers up to your designated docker registry": after a
\* push that succeeded, the registry has what the invocation has built.
PushedIsBuiltStep ==
    \A p \in Starting : pc[p] = "push" /\ pc'[p] \notin {"push", "over"} =>
        registry'[PushTag(p, Current(p))] = run[p].built[Current(p)]
PushedIsBuilt == [][PushedIsBuiltStep]_vars
=============================================================================

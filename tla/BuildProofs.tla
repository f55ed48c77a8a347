---------------------------- MODULE BuildProofs ----------------------------
(***************************************************************************)
(* Theorems about SvBuild and the SvAuth it composes, for any containers,  *)
(* environments, versions, users and command lines.                        *)
(***************************************************************************)
EXTENDS SvBuild, Integers, TLAPS

\* The types, of the invocations and of what they work on.  There is a container
\* where one is pulled, built or pushed.
AtContainer == {"pull", "build", "push"}
ProcOK(p) ==
    /\ IsRun(run[p])
    /\ pc[p] = "push" => PushTag(p, Current(p)) # Nil
    /\ pc[p] \in {"list", "write", "helm"} => p \in Starting
    /\ pc[p] \in AtContainer => run[p].todo # <<>> /\ p \in Starting \cup Building
ProcsOK == /\ pc \in [Procs -> AuthLabels \cup Labels]
           /\ DOMAIN run = Procs /\ \A p \in Procs : ProcOK(p)
World ==
    /\ DOMAIN src = Containers /\ DOMAIN images = Daemons
    /\ DOMAIN release = Envs
    /\ machine \in Machines
    /\ \A c \in Containers : src[c] \in Versions[c]
    /\ \A d \in Daemons : IsStore(images[d])
    /\ IsStore(registry)
    /\ svjson # Nil => IsStore(svjson)
    /\ \A e \in Envs : release[e] # Nil => IsRelease(release[e])
TypeInv == AuthTypeOK /\ ProcsOK /\ World
-----------------------------------------------------------------------------
\* One command at a time.
Alone == \A p, q \in Procs : Running(p) /\ Running(q) => p = q

\* While authLogin writes its files, those that it has written are of its user;
\* authToken only writes what is there already.
AllEqual == \A f, g \in AuthFiles : auth[f] = auth[g]
Writing(p) ==
    CASE pc[p] = "fetch" ->
             Job[p].cmd # "authLogin" => who[p] = auth["refresh_token"]
      [] pc[p] = "refresh_token" -> Job[p].cmd = "authLogin" /\ AllEqual
      [] pc[p] = "auth_token" ->
             /\ who[p] = auth["refresh_token"]
             /\ Job[p].cmd # "authLogin" => AllEqual
      [] pc[p] = "user_info" -> /\ Job[p].cmd = "authLogin"
                                /\ auth["refresh_token"] = who[p]
                                /\ auth["auth_token"] = who[p]
      [] OTHER -> TRUE
UserInv ==
    (\A p \in Procs : pc[p] # "torn") =>
        /\ \A p \in Procs : Writing(p)
        /\ (\A p \in Procs : pc[p] \notin AuthFiles) => AllEqual
        /\ \A e \in Envs : release[e] # Nil =>
              release[e].user[1] = release[e].user[2]
-----------------------------------------------------------------------------
\* No order has a container twice.
Once(o) == \A i, j \in DOMAIN o : o[i] = o[j] => i = j
OrdersOnce == \A p \in Starting : Once(BuildOrder[Job[p].env])

\* What an invocation has built is what its tags say, in the daemon and, once
\* it is pushed, in the registry.
BuiltOK(p, c) ==
    LET image == run[p].built[c]
        todo == run[p].todo
    IN  /\ images[BuildDaemon][LocalTag(p, c)] = image
        /\ \A j \in DOMAIN todo : todo[j] = c => j = 1 /\ pc[p] = "push"
        /\ PushTag(p, c) # Nil =>
              /\ images[BuildDaemon][PushTag(p, c)] = image
              /\ \/ machine = "minikube"
                 \/ pc[p] = "push" /\ c = todo[1]
                 \/ registry[PushTag(p, c)] = image
RunOK(p) ==
    /\ pc[p] \notin Labels => run[p] = Fresh
    /\ p \in Starting /\ pc[p] \in Labels /\ Job[p].build =>
          /\ Once(run[p].todo)
          /\ pc[p] \in {"list", "write", "helm"} => run[p].todo = <<>>
          /\ pc[p] = "push" => run[p].built[run[p].todo[1]] # NoImage
          /\ \A c \in Containers : run[p].built[c] # NoImage => BuiltOK(p, c)
          /\ pc[p] = "write" => run[p].ids = images[BuildDaemon]
          /\ pc[p] = "helm" => svjson = images[BuildDaemon]
    /\ p \in Starting /\ ~Job[p].build =>
          run[p] = Fresh /\ pc[p] \notin Labels \ {"helm"}
BuildInv == \A p \in Procs : RunOK(p)
-----------------------------------------------------------------------------
\* Every container that is deployed is built, or on the list.
OrdersWhole == \A p \in Starting, c \in Deployed :
    \E i \in DOMAIN BuildOrder[Job[p].env] : BuildOrder[Job[p].env][i] = c
Covered(p, c) ==
    \/ run[p].built[c] # NoImage
    \/ \E i \in DOMAIN run[p].todo :
          run[p].todo[i] = c /\ (i = 1 => pc[p] # "push")
CoverInv ==
    \A p \in Starting, c \in Deployed :
        pc[p] \in Labels /\ Job[p].build /\ ~MayBeSkipped(p, c) => Covered(p, c)

\* Then pods that only such starts have made run what their annotation says.
NoCause(e, c) ==
    \A p \in Starting : Job[p].env = e /\ pc[p] = "over" =>
        Delivering(p) /\ ~MayBeSkipped(p, c)
PodsInv ==
    \A e \in Envs, c \in Deployed : NoCause(e, c) /\ release[e] # Nil =>
        /\ release[e].pods[c] # NoImage
        /\ release[e].pods[c] = release[e].sum[c]
-----------------------------------------------------------------------------
LEMMA Constants ==
    /\ External \subseteq Containers /\ Deployed \subseteq Containers
    /\ \A c \in Containers : 1 \in Versions[c] /\ c # Nil
    /\ \A c \in Containers : From[c] # Nil =>
          From[c] \in External /\ <<Nil, From[c], "local">> \in Tags
    /\ "local" \in Envs /\ Nil \notin Envs /\ Nil \notin Tags
    /\ \A p \in Starting : /\ p \in Procs /\ Job[p].env \in Envs
                            /\ BuildOrder[Job[p].env] \in Seq(Containers)
    /\ \A p \in Building : p \in Procs /\ Job[p].only \in Containers
BY BuildAssumption DEF Deployed, Starting, Building, Tags

LEMMA TagTypes ==
    ASSUME NEW p \in Starting \cup Building, NEW c \in Containers
    PROVE  /\ LocalTag(p, c) \in Tags /\ LocalTag(p, c)[2] = c
           /\ PushTag(p, c) # Nil => PushTag(p, c)[2] = c /\ c \notin External
           /\ p \in Starting => /\ Ref(p, c) \in Tagged(c)
                                /\ PushTag(p, c) \in Tags \cup {Nil}
<1>1. Prefix(p, c) \in {Nil, App} \cup {Job[q].alias : q \in Starting \cup Building}
  BY DEF Prefix
<1>2. LocalTag(p, c) \in Tags /\ LocalTag(p, c)[2] = c
  BY <1>1, Constants DEF LocalTag, Tags
<1>3. p \in Starting => /\ Ref(p, c) \in Tags /\ Ref(p, c)[2] = c
                        /\ PushTag(p, c) \in Tags \cup {Nil}
  BY <1>1, Constants DEF Ref, PushTag, Tags
<1>4. PushTag(p, c) # Nil => PushTag(p, c)[2] = c /\ c \notin External
  BY DEF PushTag
<1>5. QED
  BY <1>2, <1>3, <1>4 DEF Tagged

LEMMA StoreSet ==
    ASSUME NEW s, IsStore(s), NEW t, NEW i,
           t \in Tags /\ i # NoImage => IsImage(i, t[2])
    PROVE  IsStore([s EXCEPT ![t] = i])
BY DEF IsStore

LEMMA FreshIsRun == IsRun(Fresh) /\ Fresh.todo = <<>> /\ Fresh.ids = Nil
                    /\ \A c \in Containers : Fresh.built[c] = NoImage
BY DEF IsRun, Fresh

LEMMA BuildStores ==
    ASSUME TypeInv
    PROVE  /\ BuildDaemon \in Daemons /\ IsStore(images[BuildDaemon])
           /\ IsStore(images["host"]) /\ IsStore(registry)
BY DEF TypeInv, World, BuildDaemon, Daemons

LEMMA BuiltType ==
    ASSUME TypeInv, NEW p, NEW c \in Containers
    PROVE  IsImage(Built(p, c), c) /\ Built(p, c) # NoImage
<1> DEFINE i == Built(p, c)
<1>1. /\ i.c = c /\ i.src = src[c] /\ i.args = BuildArgs(p, c)
      /\ i.from = BaseImage(c)
  BY DEF Built
<1>2. src[c] \in Versions[c] /\ DOMAIN BuildArgs(p, c) = ArgNames
  BY DEF TypeInv, World, BuildArgs
<1>3. BaseImage(c) # NoImage => BaseImage(c).c = From[c]
  <2> DEFINE t == <<Nil, From[c], "local">>
  <2>1. CASE From[c] = Nil
    BY <2>1 DEF BaseImage
  <2>2. CASE From[c] # Nil
    <3>1. t \in Tags /\ t[2] = From[c] /\ BaseImage(c) = images[BuildDaemon][t]
      BY <2>2, Constants DEF BaseImage
    <3>2. QED
      BY <3>1, BuildStores DEF IsStore, IsImage
  <2>3. QED
    BY <2>1, <2>2
<1>4. NoImage.c = Nil /\ c # Nil
  BY Constants DEF NoImage
<1>5. QED
  BY <1>1, <1>2, <1>3, <1>4 DEF IsImage
-----------------------------------------------------------------------------
LEMMA ProcStep ==
    ASSUME ProcsOK, NEW p \in Procs, NEW label \in AuthLabels \cup Labels,
           Goto(p, label), NEW r, IsRun(r), run' = [run EXCEPT ![p] = r],
           label = "push" => PushTag(p, Head(r.todo)) # Nil,
           label \in {"list", "write", "helm"} => p \in Starting,
           label \in AtContainer => r.todo # <<>> /\ p \in Starting \cup Building
    PROVE  ProcsOK'
<1>1. /\ pc' \in [Procs -> AuthLabels \cup Labels] /\ pc'[p] = label
      /\ \A q \in Procs \ {p} : pc'[q] = pc[q]
  BY DEF ProcsOK, Goto
<1>2. DOMAIN run' = Procs /\ run'[p] = r /\ \A q \in Procs \ {p} : run'[q] = run[q]
  BY DEF ProcsOK
<1>3. ProcOK(p)'
  BY <1>1, <1>2 DEF ProcOK, Current, PushTag, Prefix
<1>4. \A q \in Procs \ {p} : ProcOK(q)'
  BY <1>1, <1>2 DEF ProcsOK, ProcOK, Current, PushTag, Prefix
<1>5. QED
  BY <1>1, <1>2, <1>3, <1>4 DEF ProcsOK

\* A step that leaves the variables of its invocation alone.
LEMMA ProcGoes ==
    ASSUME ProcsOK, NEW p \in Procs, NEW label \in AuthLabels \cup Labels,
           Goto(p, label), run' = run, label # "push",
           label \in {"list", "write", "helm"} => p \in Starting,
           label \in AtContainer => /\ run[p].todo # <<>>
                                    /\ p \in Starting \cup Building
    PROVE  ProcsOK'
<1>1. /\ pc' \in [Procs -> AuthLabels \cup Labels] /\ pc'[p] = label
      /\ \A q \in Procs \ {p} : pc'[q] = pc[q]
  BY DEF ProcsOK, Goto
<1>2. ProcOK(p)'
  BY <1>1 DEF ProcsOK, ProcOK
<1>3. \A q \in Procs \ {p} : ProcOK(q)'
  BY <1>1 DEF ProcsOK, ProcOK, Current, PushTag, Prefix
<1>4. QED
  BY <1>1, <1>2, <1>3 DEF ProcsOK

LEMMA LabelTypes ==
    /\ Labels = {"pull", "build", "push", "list", "write", "helm"}
    /\ {"idle", "fetch", "over", "torn"} \cup AuthFiles = AuthLabels
    /\ AtContainer \subseteq Labels
BY DEF Labels, AuthLabels, AtContainer

LEMMA ProcExits ==
    ASSUME ProcsOK, NEW p \in Procs, Exit(p)
    PROVE  ProcsOK'
<1>1. /\ "over" \in AuthLabels \cup Labels
      /\ "over" \notin {"push", "list", "write", "helm"} \cup AtContainer
  BY DEF AuthLabels, AtContainer
<1>2. Goto(p, "over") /\ run' = [run EXCEPT ![p] = Fresh] /\ IsRun(Fresh)
  BY FreshIsRun DEF Exit
<1>3. QED
  BY <1>1, <1>2, ProcStep

LEMMA ProcNext ==
    ASSUME ProcsOK, NEW p \in Starting \cup Building, NEW r, IsRun(r),
           r.todo # <<>>, NextContainer(p, r)
    PROVE  ProcsOK'
<1> DEFINE rest == Tail(r.todo)
           s == [r EXCEPT !.todo = rest]
<1>1. p \in Procs
  BY Constants
<1>2. CASE rest = <<>> /\ p \in Building
  BY <1>1, <1>2, ProcExits DEF NextContainer
<1>3. CASE ~(rest = <<>> /\ p \in Building)
  <2>1. Goto(p, Onwards(rest)) /\ run' = [run EXCEPT ![p] = s]
    BY <1>3 DEF NextContainer
  <2>2. rest \in Seq(Containers)
    BY DEF IsRun
  <2>3. IsRun(s) /\ s.todo = rest
    BY <2>2 DEF IsRun
  <2>4. CASE rest = <<>>
    <3>1. Onwards(rest) = "list" /\ p \in Starting
      BY <1>3, <2>4 DEF Onwards
    <3>2. "list" \in Labels /\ "list" \notin AtContainer
      BY DEF Labels, AtContainer
    <3>3. QED
      BY <1>1, <2>1, <2>3, <3>1, <3>2, ProcStep
  <2>5. CASE rest # <<>>
    <3>1. Onwards(rest) = "pull" /\ "pull" \in Labels
      BY <2>5 DEF Onwards, Labels
    <3>2. QED
      BY <1>1, <2>1, <2>3, <2>5, <3>1, ProcStep
  <2>6. QED
    BY <2>4, <2>5
<1>4. QED
  BY <1>2, <1>3

LEMMA AuthSteps ==
    ASSUME AuthTypeOK, ProcsOK, NEW p \in Procs, AuthStep(p)
    PROVE  /\ AuthTypeOK'
           /\ pc[p] \in {"idle", "fetch"} \cup AuthFiles
           /\ \E label \in AuthLabels \ {"idle"} : Goto(p, label)
<1>1. \A label, u : u \in Users \cup {Nil, Empty} /\ About(p, label, u) =>
          /\ Goto(p, label)
          /\ who' \in [Procs -> Users \cup {Nil, Empty}]
  BY DEF About, AuthTypeOK
<1>2. {"fetch", "over", "torn"} \cup AuthFiles \subseteq AuthLabels \ {"idle"}
  BY DEF AuthLabels, AuthFiles
<1>3. auth \in [AuthFiles -> Users \cup {Nil, Empty}]
      /\ who[p] \in Users \cup {Nil, Empty}
  BY DEF AuthTypeOK
<1>4. "refresh_token" \in AuthFiles /\ FirstFile(p) \in AuthFiles
  BY DEF AuthFiles, FirstFile
<1>5. CASE Paste(p)
  <2>1. auth' = auth /\ pc[p] = "idle"
    BY <1>5 DEF Paste, Starts
  <2>2. PICK u \in Users : About(p, "fetch", u)
    BY <1>5 DEF Paste
  <2>3. QED
    BY <1>1, <1>2, <1>3, <2>1, <2>2 DEF AuthTypeOK
<1>6. CASE ReadRefreshToken(p)
  <2>1. /\ auth' = auth /\ pc[p] = "idle"
        /\ \/ About(p, "over", auth["refresh_token"])
           \/ About(p, "fetch", auth["refresh_token"])
    BY <1>6 DEF ReadRefreshToken, Starts
  <2>2. auth["refresh_token"] \in Users \cup {Nil, Empty}
    BY <1>3, <1>4
  <2>3. QED
    BY <1>1, <1>2, <1>3, <2>1, <2>2 DEF AuthTypeOK
<1>7. CASE Fetch(p)
  <2>1. /\ auth' = auth /\ pc[p] = "fetch"
        /\ About(p, FirstFile(p), who[p]) \/ About(p, "over", Nil)
    BY <1>7 DEF Fetch
  <2>2. QED
    BY <1>1, <1>2, <1>3, <1>4, <2>1 DEF AuthTypeOK
<1>8. CASE WriteFile(p)
  <2>1. pc[p] \in AuthFiles
    BY <1>8 DEF WriteFile
  <2>2. NextFile(p) \in AuthLabels \ {"idle"}
    BY <1>2 DEF NextFile, AuthFiles
  <2>3. /\ auth' = auth \/ \E u \in {who[p], Empty} :
                                auth' = [auth EXCEPT ![pc[p]] = u]
        /\ \/ About(p, NextFile(p), who[p]) \/ About(p, "torn", Nil)
           \/ About(p, "over", Nil)
    BY <1>8 DEF WriteFile
  <2>4. auth' \in [AuthFiles -> Users \cup {Nil, Empty}]
    BY <1>3, <2>3
  <2>5. /\ who' \in [Procs -> Users \cup {Nil, Empty}]
        /\ \E label \in AuthLabels \ {"idle"} : Goto(p, label)
    BY <1>1, <1>2, <1>3, <2>2, <2>3
  <2>6. QED
    BY <2>1, <2>4, <2>5 DEF AuthTypeOK
<1>9. QED
  BY <1>5, <1>6, <1>7, <1>8 DEF AuthStep

LEMMA EmptyStore == IsStore(NoImages)
BY DEF IsStore, NoImages

LEMMA BeginType ==
    ASSUME ProcsOK, NEW p \in Procs, Begin(p) PROVE ProcsOK'
<1>1. {"pull", "list", "helm"} \subseteq Labels
  BY DEF Labels
<1>2. /\ "pull" \in AtContainer /\ "list" \notin AtContainer
      /\ "helm" \notin AtContainer
  BY DEF AtContainer
<1>3. IsRun(run[p]) /\ run[p].ids # Nil => IsStore(run[p].ids)
  BY DEF ProcsOK, ProcOK, IsRun
<1>4. ASSUME NEW o \in Seq(Containers), run' = [run EXCEPT ![p].todo = o],
             Goto(p, Onwards(o)), p \in Starting \/ (p \in Building /\ o # <<>>)
      PROVE  ProcsOK'
  <2> DEFINE r == [run[p] EXCEPT !.todo = o]
  <2>1. IsRun(r) /\ r.todo = o
    BY <1>3 DEF IsRun, ProcsOK, ProcOK
  <2>2. run' = [run EXCEPT ![p] = r]
    BY <1>4
  <2> HIDE DEF r
  <2>3. CASE o = <<>>
    <3>1. Goto(p, "list") /\ p \in Starting
      BY <1>4, <2>3 DEF Onwards
    <3>2. "list" \in AuthLabels \cup Labels /\ "list" \notin {"push"} \cup AtContainer
      BY <1>1, <1>2
    <3>3. QED
      BY <2>1, <2>2, <3>1, <3>2, ProcStep
  <2>4. CASE o # <<>>
    <3>1. Goto(p, "pull")
      BY <1>4, <2>4 DEF Onwards
    <3>2. QED
      BY <1>1, <1>2, <1>4, <2>1, <2>2, <2>4, <3>1, ProcStep
  <2>5. QED
    BY <2>3, <2>4
<1>5. CASE Starts(p, "start") /\ Job[p].build
  <2>1. p \in Starting
    BY <1>5 DEF Starts, Starting
  <2>2. BuildOrder[Job[p].env] \in Seq(Containers)
    BY <2>1, Constants
  <2>3. /\ Goto(p, Onwards(BuildOrder[Job[p].env]))
        /\ run' = [run EXCEPT ![p].todo = BuildOrder[Job[p].env]]
    BY <1>5 DEF Begin, Starts
  <2>4. QED
    BY <1>4, <2>1, <2>2, <2>3
<1>6. CASE Starts(p, "start") /\ ~Job[p].build
  <2>1. p \in Starting
    BY <1>6 DEF Starts, Starting
  <2>2. Goto(p, "helm") /\ run' = run
    BY <1>6 DEF Begin, Starts
  <2>3. QED
    BY <1>1, <1>2, <2>1, <2>2, ProcGoes
<1>7. CASE Starts(p, "build")
  <2>1. p \in Building
    BY <1>7 DEF Starts, Building
  <2>2. <<Job[p].only>> \in Seq(Containers) /\ <<Job[p].only>> # <<>>
    BY <2>1, Constants
  <2>3. /\ Goto(p, Onwards(<<Job[p].only>>))
        /\ run' = [run EXCEPT ![p].todo = <<Job[p].only>>]
    BY <1>7, <2>2 DEF Begin, Starts, Onwards
  <2>4. QED
    BY <1>4, <2>1, <2>2, <2>3
<1>8. QED
  BY <1>5, <1>6, <1>7 DEF Begin

LEMMA WorldSame ==
    ASSUME World, UNCHANGED <<machine, src, imageVars, svjson, release>>
    PROVE  World'
BY DEF World, imageVars

LEMMA AuthSame == ASSUME AuthTypeOK, UNCHANGED authVars PROVE AuthTypeOK'
BY DEF AuthTypeOK, authVars

LEMMA WorldImages ==
    ASSUME World, UNCHANGED <<machine, src, registry, svjson, release>>,
           NEW d \in Daemons, NEW s, IsStore(s), images' = [images EXCEPT ![d] = s]
    PROVE  World'
<1>1. DOMAIN images' = Daemons /\ \A e \in Daemons : IsStore(images'[e])
  BY DEF World
<1>2. QED
  BY <1>1 DEF World

LEMMA PullType ==
    ASSUME TypeInv, NEW p \in Procs, Pull(p) PROVE TypeInv'
<1> DEFINE tag == PushTag(p, Current(p))
<1>1. /\ pc[p] = "pull" /\ Goto(p, "build")
      /\ UNCHANGED <<authVars, machine, src, registry, svjson, release, run>>
      /\ \/ images' = images
         \/ /\ registry[tag] # NoImage
            /\ images' = [images EXCEPT !["host"] =
                             [images["host"] EXCEPT ![tag] = registry[tag]]]
  BY DEF Pull
<1>2. AuthTypeOK /\ ProcsOK /\ World
  BY DEF TypeInv
<1>3. ProcsOK'
  <2>1. "build" \in AuthLabels \cup Labels
    BY DEF Labels
  <2>2. run[p].todo # <<>> /\ p \in Starting \cup Building
    BY <1>1, <1>2 DEF ProcsOK, ProcOK, AtContainer
  <2>3. QED
    BY <1>1, <1>2, <2>1, <2>2, ProcGoes
<1>4. World'
  <2>1. CASE images' = images
    BY <1>1, <1>2, <2>1, WorldSame DEF imageVars
  <2>2. CASE images' # images
    <3> DEFINE s == [images["host"] EXCEPT ![tag] = registry[tag]]
    <3>1. tag \in Tags => IsImage(registry[tag], tag[2])
      BY <1>1, <2>2, BuildStores DEF IsStore
    <3>2. IsStore(s)
      BY <3>1, BuildStores, StoreSet
    <3>3. "host" \in Daemons /\ images' = [images EXCEPT !["host"] = s]
      BY <1>1, <2>2 DEF Daemons
    <3> HIDE DEF s
    <3>4. QED
      BY <1>1, <1>2, <3>2, <3>3, WorldImages
  <2>3. QED
    BY <2>1, <2>2
<1>5. QED
  BY <1>1, <1>2, <1>3, <1>4, AuthSame DEF TypeInv

\* What a build makes of the tags of its daemon.
Moved(p, c) == [t \in Tags |-> IF t \in {LocalTag(p, c), PushTag(p, c)}
                               THEN Built(p, c) ELSE images[BuildDaemon][t]]
Noted(p, c) == [run[p] EXCEPT !.built[c] = Built(p, c)]

LEMMA RetaggedIs ==
    ASSUME TypeInv, NEW p \in Starting \cup Building, NEW c \in Containers,
           Retagged(p, c, Built(p, c))
    PROVE  /\ images' = [images EXCEPT ![BuildDaemon] = Moved(p, c)]
           /\ images'[BuildDaemon] = Moved(p, c)
           /\ IsStore(Moved(p, c)) /\ BuildDaemon \in Daemons
<1>1. /\ BuildDaemon \in Daemons /\ DOMAIN images = Daemons
      /\ IsStore(images[BuildDaemon])
  BY BuildStores DEF TypeInv, World
<1>2. images' = [images EXCEPT ![BuildDaemon] = Moved(p, c)]
  BY DEF Retagged, Moved
<1>3. ASSUME NEW t \in Tags PROVE Moved(p, c)[t] # NoImage => IsImage(Moved(p, c)[t], t[2])
  <2>1. t \in {LocalTag(p, c), PushTag(p, c)} => t[2] = c
    BY TagTypes, Constants
  <2>2. QED
    BY <1>1, <2>1, BuiltType DEF Moved, IsStore
<1>4. IsStore(Moved(p, c))
  BY <1>3 DEF Moved, IsStore
<1>5. QED
  BY <1>1, <1>2, <1>4

LEMMA NotedIs ==
    ASSUME ProcsOK, NEW p \in Procs, NEW c \in Containers
    PROVE  /\ IsRun(Noted(p, c)) /\ Noted(p, c).todo = run[p].todo
           /\ Noted(p, c).ids = run[p].ids
           /\ Noted(p, c).built[c] = Built(p, c)
           /\ \A d \in Containers \ {c} : Noted(p, c).built[d] = run[p].built[d]
<1>1. IsRun(run[p])
  BY DEF ProcsOK, ProcOK
<1>2. QED
  BY <1>1 DEF IsRun, Noted

LEMMA CurrentType ==
    ASSUME ProcsOK, NEW p \in Procs, pc[p] \in AtContainer
    PROVE  /\ p \in Starting \cup Building /\ run[p].todo # <<>>
           /\ run[p].todo \in Seq(Containers) /\ IsRun(run[p])
           /\ Current(p) \in Containers /\ Current(p) = run[p].todo[1]
<1>1. /\ p \in Starting \cup Building /\ run[p].todo # <<>>
      /\ run[p].todo \in Seq(Containers) /\ IsRun(run[p])
  BY DEF ProcsOK, ProcOK, IsRun
<1>2. QED
  BY <1>1 DEF Current

LEMMA BuildIs ==
    ASSUME TypeInv, NEW p \in Procs, Build(p)
    PROVE  LET c == Current(p)
           IN  /\ pc[p] = "build" /\ c \in Containers
               /\ UNCHANGED <<authVars, machine, src, registry, svjson, release>>
               /\ \/ /\ MayBeSkipped(p, c) /\ NextContainer(p, run[p])
                     /\ images' = images
                  \/ /\ Retagged(p, c, Built(p, c))
                     /\ \/ /\ PushTag(p, c) = Nil
                           /\ NextContainer(p, Noted(p, c))
                        \/ /\ PushTag(p, c) # Nil /\ Goto(p, "push")
                           /\ run' = [run EXCEPT ![p] = Noted(p, c)]
BY CurrentType DEF TypeInv, Build, Noted, AtContainer

LEMMA BuildType ==
    ASSUME TypeInv, NEW p \in Procs, Build(p) PROVE TypeInv'
<1> DEFINE c == Current(p)
<1>1. /\ pc[p] = "build" /\ c \in Containers
      /\ UNCHANGED <<authVars, machine, src, registry, svjson, release>>
      /\ \/ NextContainer(p, run[p]) /\ images' = images
         \/ /\ Retagged(p, c, Built(p, c))
            /\ \/ NextContainer(p, Noted(p, c))
               \/ /\ PushTag(p, c) # Nil /\ Goto(p, "push")
                  /\ run' = [run EXCEPT ![p] = Noted(p, c)]
  BY BuildIs
<1>2. AuthTypeOK /\ ProcsOK /\ World
  BY DEF TypeInv
<1>3. /\ p \in Starting \cup Building /\ IsRun(run[p]) /\ run[p].todo # <<>>
      /\ c = Head(run[p].todo)
  BY <1>1, <1>2, CurrentType DEF AtContainer, Current
<1>4. IsRun(Noted(p, c)) /\ Noted(p, c).todo = run[p].todo
  BY <1>1, <1>2, NotedIs
<1>5. ProcsOK'
  <2>1. CASE NextContainer(p, run[p])
    BY <1>2, <1>3, <2>1, ProcNext
  <2>2. CASE NextContainer(p, Noted(p, c))
    BY <1>2, <1>3, <1>4, <2>2, ProcNext
  <2>3. CASE /\ PushTag(p, c) # Nil /\ Goto(p, "push")
             /\ run' = [run EXCEPT ![p] = Noted(p, c)]
    <3>1. "push" \in AuthLabels \cup Labels
      BY DEF Labels
    <3>2. PushTag(p, Head(Noted(p, c).todo)) # Nil
      BY <1>3, <1>4, <2>3
    <3>3. QED
      BY <1>2, <1>3, <1>4, <2>3, <3>1, <3>2, ProcStep
  <2>4. QED
    BY <1>1, <2>1, <2>2, <2>3
<1>6. World'
  <2>1. CASE images' = images
    BY <1>1, <1>2, <2>1, WorldSame DEF imageVars
  <2>2. CASE Retagged(p, c, Built(p, c))
    <3>1. /\ images' = [images EXCEPT ![BuildDaemon] = Moved(p, c)]
          /\ IsStore(Moved(p, c)) /\ BuildDaemon \in Daemons
      BY <1>1, <1>3, <2>2, RetaggedIs
    <3>2. QED
      BY <1>1, <1>2, <3>1, WorldImages
  <2>3. QED
    BY <1>1, <2>1, <2>2
<1>7. QED
  BY <1>1, <1>2, <1>5, <1>6, AuthSame DEF TypeInv

LEMMA PushType ==
    ASSUME TypeInv, NEW p \in Procs, Push(p) PROVE TypeInv'
<1> DEFINE tag == PushTag(p, Current(p))
           s == [registry EXCEPT ![tag] = images["host"][tag]]
<1>1. /\ pc[p] = "push" /\ images["host"][tag] # NoImage /\ registry' = s
      /\ NextContainer(p, run[p]) \/ Exit(p)
      /\ UNCHANGED <<authVars, machine, src, images, svjson, release>>
  BY DEF Push
<1>2. /\ p \in Starting \cup Building /\ IsRun(run[p]) /\ run[p].todo # <<>>
  BY <1>1, CurrentType DEF TypeInv, AtContainer
<1>3. ProcsOK'
  BY <1>1, <1>2, ProcNext, ProcExits DEF TypeInv
<1>4. tag \in Tags => IsImage(images["host"][tag], tag[2])
  BY <1>1, BuildStores DEF IsStore
<1>5. IsStore(s)
  BY <1>4, BuildStores, StoreSet
<1>6. World'
  BY <1>1, <1>5 DEF TypeInv, World
<1>7. QED
  BY <1>1, <1>3, <1>6, AuthSame DEF TypeInv

LEMMA ListType ==
    ASSUME TypeInv, NEW p \in Procs, List(p) PROVE TypeInv'
<1> DEFINE r == [run[p] EXCEPT !.ids = images[BuildDaemon]]
<1>1. /\ pc[p] = "list" /\ Goto(p, "write") /\ run' = [run EXCEPT ![p] = r]
      /\ UNCHANGED <<authVars, machine, src, imageVars, svjson, release>>
  BY DEF List
<1>2. IsRun(run[p]) /\ p \in Starting /\ ProcsOK
  BY <1>1 DEF TypeInv, ProcsOK, ProcOK
<1>3. IsRun(r)
  BY <1>2, BuildStores DEF IsRun
<1> HIDE DEF r
<1>4. "write" \in AuthLabels \cup Labels /\ "write" \notin {"push"} \cup AtContainer
  BY DEF Labels, AtContainer
<1>5. ProcsOK'
  BY <1>1, <1>2, <1>3, <1>4, ProcStep
<1>6. QED
  BY <1>1, <1>5, AuthSame, WorldSame DEF TypeInv

LEMMA WriteType ==
    ASSUME TypeInv, NEW p \in Procs, Write(p) PROVE TypeInv'
<1> DEFINE r == [run[p] EXCEPT !.ids = Nil]
<1>1. /\ pc[p] = "write"
      /\ UNCHANGED <<authVars, machine, src, imageVars, release>>
      /\ \/ svjson' = run[p].ids /\ Goto(p, "helm") /\ run' = [run EXCEPT ![p] = r]
         \/ svjson' = NoImages /\ Exit(p)
  BY DEF Write
<1>2. IsRun(run[p]) /\ p \in Starting /\ ProcsOK
  BY <1>1 DEF TypeInv, ProcsOK, ProcOK
<1>3. IsRun(r) /\ (run[p].ids # Nil => IsStore(run[p].ids))
  BY <1>2 DEF IsRun
<1> HIDE DEF r
<1>4. "helm" \in AuthLabels \cup Labels /\ "helm" \notin {"push"} \cup AtContainer
  BY DEF Labels, AtContainer
<1>5. ProcsOK'
  <2>1. CASE Goto(p, "helm") /\ run' = [run EXCEPT ![p] = r]
    BY <1>2, <1>3, <1>4, <2>1, ProcStep
  <2>2. CASE Exit(p)
    BY <1>2, <2>2, ProcExits
  <2>3. QED
    BY <1>1, <2>1, <2>2
<1>6. World'
  <2>1. svjson' # Nil => IsStore(svjson')
    BY <1>1, <1>3, EmptyStore
  <2>2. QED
    BY <1>1, <2>1 DEF TypeInv, World, imageVars
<1>7. QED
  BY <1>1, <1>5, <1>6, AuthSame DEF TypeInv

LEMMA FoundType ==
    ASSUME TypeInv, NEW e, NEW c \in Containers, NEW t \in Tagged(c),
           Found(e, t) # NoImage
    PROVE  IsImage(Found(e, t), c)
BY BuildStores DEF Found, IsStore, Tagged

LEMMA UpgradedType ==
    ASSUME TypeInv, NEW p \in Starting
    PROVE  IsRelease(Upgraded(p))
<1> DEFINE e == Job[p].env
           u == Upgraded(p)
<1>1. e \in Envs
  BY Constants
<1>2. /\ DOMAIN u = {"ref", "sum", "pods", "user"} /\ DOMAIN u.pods = Deployed
  BY DEF Upgraded
<1>3. ASSUME NEW c \in Deployed
      PROVE  /\ u.ref[c] \in Tagged(c)
             /\ u.pods[c] # NoImage => IsImage(u.pods[c], c)
  <2>1. c \in Containers /\ Ref(p, c) \in Tagged(c)
    BY Constants, TagTypes
  <2>2. u.ref[c] = Ref(p, c)
    BY DEF Upgraded
  <2>3. \/ release[e] # Nil /\ u.pods[c] = release[e].pods[c]
        \/ u.pods[c] = Found(e, Ref(p, c))
    BY DEF Upgraded
  <2>4. release[e] # Nil => IsRelease(release[e])
    BY <1>1 DEF TypeInv, World
  <2>5. QED
    BY <2>1, <2>2, <2>3, <2>4, FoundType DEF IsRelease
<1>4. QED
  BY <1>2, <1>3 DEF IsRelease

LEMMA HelmType ==
    ASSUME TypeInv, NEW p \in Procs, Helm(p) PROVE TypeInv'
<1>1. /\ pc[p] = "helm" /\ Exit(p)
      /\ release' = [release EXCEPT ![Job[p].env] = Upgraded(p)]
      /\ UNCHANGED <<authVars, machine, src, imageVars, svjson>>
  BY DEF Helm
<1>2. p \in Starting
  BY <1>1 DEF TypeInv, ProcsOK, ProcOK
<1>3. IsRelease(Upgraded(p)) /\ Job[p].env \in Envs
  BY <1>2, UpgradedType, Constants
<1>4. World'
  BY <1>1, <1>3 DEF TypeInv, World, imageVars
<1>5. QED
  BY <1>1, <1>4, AuthSame, ProcExits DEF TypeInv

LEMMA FailType ==
    ASSUME TypeInv, NEW p \in Procs, Fail(p) PROVE TypeInv'
BY AuthSame, WorldSame, ProcExits DEF TypeInv, Fail

LEMMA RetryIs ==
    ASSUME TypeInv, NEW e \in Envs, NEW c \in Deployed, Retry(e, c)
    PROVE  /\ UNCHANGED <<authVars, pc, machine, src, imageVars, svjson, run>>
           /\ release[e] # Nil /\ release[e].pods[c] = NoImage
           /\ \A d \in Envs \ {e} : release'[d] = release[d]
           /\ IsRelease(release[e]) /\ IsRelease(release'[e])
           /\ \A d \in Deployed \ {c} : release'[e].pods[d] = release[e].pods[d]
           /\ release'[e].sum = release[e].sum /\ release'[e].user = release[e].user
           /\ DOMAIN release' = Envs
<1> DEFINE old == release[e]
           image == Found(e, old.ref[c])
           new == [old EXCEPT !.pods[c] = image]
<1>1. /\ UNCHANGED <<authVars, pc, machine, src, imageVars, svjson, run>>
      /\ old # Nil /\ old.pods[c] = NoImage /\ image # NoImage
      /\ release' = [release EXCEPT ![e] = new]
  BY DEF Retry
<1>2. DOMAIN release = Envs /\ IsRelease(old)
  BY <1>1 DEF TypeInv, World
<1>3. c \in Containers /\ old.ref[c] \in Tagged(c)
  BY <1>2, Constants DEF IsRelease
<1>4. IsImage(image, c)
  BY <1>1, <1>3, FoundType
<1>5. /\ DOMAIN release' = Envs /\ release'[e] = new
      /\ \A d \in Envs \ {e} : release'[d] = release[d]
  BY <1>1, <1>2
<1> HIDE DEF image
<1>6. /\ DOMAIN new = DOMAIN old /\ new.ref = old.ref /\ new.sum = old.sum
      /\ new.user = old.user /\ new.pods = [old.pods EXCEPT ![c] = image]
  BY <1>2 DEF IsRelease
<1>7. /\ DOMAIN new.pods = Deployed /\ new.pods[c] = image
      /\ \A d \in Deployed \ {c} : new.pods[d] = old.pods[d]
  BY <1>2, <1>6 DEF IsRelease
<1>8. IsRelease(new)
  BY <1>2, <1>4, <1>6, <1>7 DEF IsRelease
<1>9. QED
  BY <1>1, <1>2, <1>5, <1>6, <1>7, <1>8

LEMMA RetryType ==
    ASSUME TypeInv, NEW e \in Envs, NEW c \in Deployed, Retry(e, c)
    PROVE  TypeInv'
<1>1. /\ UNCHANGED <<authVars, pc, machine, src, imageVars, svjson, run>>
      /\ \A d \in Envs \ {e} : release'[d] = release[d]
      /\ IsRelease(release'[e]) /\ DOMAIN release' = Envs
  BY RetryIs
<1>2. World'
  BY <1>1 DEF TypeInv, World, imageVars
<1>3. ProcsOK'
  BY <1>1 DEF TypeInv, ProcsOK, ProcOK, Current, PushTag, Prefix
<1>4. QED
  BY <1>1, <1>2, <1>3, AuthSame DEF TypeInv

LEMMA EditType ==
    ASSUME TypeInv, NEW c \in Containers, Edit(c) PROVE TypeInv'
<1>1. /\ \E v \in Versions[c] : src' = [src EXCEPT ![c] = v]
      /\ UNCHANGED <<authVars, pc, machine, imageVars, svjson, release, run>>
  BY DEF Edit
<1>2. World'
  BY <1>1 DEF TypeInv, World, imageVars
<1>3. ProcsOK'
  BY <1>1 DEF TypeInv, ProcsOK, ProcOK, Current, PushTag, Prefix
<1>4. QED
  BY <1>1, <1>2, <1>3, AuthSame DEF TypeInv

LEMMA AuthenticateType ==
    ASSUME TypeInv, NEW p \in Procs, Authenticate(p) PROVE TypeInv'
<1>1. /\ AuthStep(p)
      /\ UNCHANGED <<machine, src, imageVars, svjson, release, run>>
  BY DEF Authenticate
<1>2. AuthTypeOK' /\ \E label \in AuthLabels : Goto(p, label)
  BY <1>1, AuthSteps DEF TypeInv
<1>3. PICK label \in AuthLabels : Goto(p, label)
  BY <1>2
<1>4. label \notin {"push", "list", "write", "helm"} \cup AtContainer
  BY DEF AuthLabels, AuthFiles, AtContainer
<1>5. ProcsOK'
  BY <1>1, <1>3, <1>4, ProcGoes DEF TypeInv
<1>6. QED
  BY <1>1, <1>2, <1>5, WorldSame DEF TypeInv

LEMMA InitType == Init => TypeInv
<1> SUFFICES ASSUME Init PROVE TypeInv
  OBVIOUS
<1>1. AuthTypeOK /\ pc = [p \in Procs |-> "idle"]
  BY DEF Init, AuthInit, AuthTypeOK
<1>2. IsStore(registry)
  <2>1. ASSUME NEW t \in Pushed PROVE IsImage(Elsewhere(t[2]), t[2])
    <3>1. t[2] \in Containers
      BY DEF Pushed, Tags
    <3>2. 1 \in Versions[t[2]]
      BY <3>1, Constants
    <3>3. QED
      BY <3>2 DEF Elsewhere, IsImage
  <2>2. QED
    BY <2>1 DEF Init, IsStore
<1>3. World
  BY <1>2, EmptyStore, Constants DEF Init, World
<1>4. ProcsOK
  <2>1. "idle" \in AuthLabels /\ "idle" \notin AtContainer
    BY DEF AuthLabels, AtContainer
  <2>2. run = [p \in Procs |-> Fresh]
    BY DEF Init
  <2>3. QED
    BY <1>1, <2>1, <2>2, FreshIsRun DEF ProcsOK, ProcOK
<1>5. QED
  BY <1>1, <1>3, <1>4 DEF TypeInv

LEMMA BeginsType ==
    ASSUME TypeInv, NEW p \in Procs, Begin(p) PROVE TypeInv'
<1>1. UNCHANGED <<authVars, machine, src, imageVars, svjson, release>>
  BY DEF Begin
<1>2. QED
  BY <1>1, BeginType, AuthSame, WorldSame DEF TypeInv

LEMMA TypeNext == TypeInv /\ [Next]_vars => TypeInv'
<1> SUFFICES ASSUME TypeInv, [Next]_vars PROVE TypeInv'
  OBVIOUS
<1>1. CASE UNCHANGED vars
  <2>1. ProcsOK'
    BY <1>1 DEF vars, TypeInv, ProcsOK, ProcOK, Current, PushTag, Prefix
  <2>2. QED
    BY <1>1, <2>1, AuthSame, WorldSame DEF vars, TypeInv
<1>2. CASE \E p \in Procs : Begin(p) \/ Step(p) \/ Authenticate(p)
  BY <1>2, BeginsType, PullType, BuildType, PushType, ListType, WriteType,
     HelmType, FailType, AuthenticateType DEF Step
<1>3. CASE \E e \in Envs, c \in Deployed : Retry(e, c)
  BY <1>3, RetryType
<1>4. CASE \E c \in Containers : Edit(c)
  BY <1>4, EditType
<1>5. QED
  BY <1>1, <1>2, <1>3, <1>4 DEF Next

LEMMA TypeInvariant == Spec => []TypeInv
BY InitType, TypeNext, PTL DEF Spec

\* Type correctness of builds, starts and logins, even if they run at the same
\* time: docker push and the list of the ids only ever see what they expect.
THEOREM TypeCorrect == Spec => []TypeOK
<1>1. TypeInv => TypeOK
  BY DEF TypeInv, TypeOK, ProcsOK, ProcOK, World
<1>2. QED
  BY <1>1, TypeInvariant, PTL
-----------------------------------------------------------------------------
LEMMA Labelled == /\ Labels \cap (AuthLabels \cup {"idle"}) = {}
                  /\ "idle" \notin AuthFiles /\ "over" \notin AuthFiles
                  /\ "torn" \notin AuthFiles /\ "fetch" \notin AuthFiles
                  /\ \A p : pc[p] \in Labels \cup AuthFiles \cup {"fetch"} => Running(p)
BY DEF Labels, AuthLabels, AuthFiles, Running, Terminal

\* What moves an invocation of `sv build` or `sv start`.
LEMMA StepGoes ==
    ASSUME NEW p \in Procs, Begin(p) \/ Step(p)
    PROVE  /\ \E label \in Labels \cup {"over"} : Goto(p, label)
           /\ Begin(p) => pc[p] = "idle" /\ MayBegin
           /\ Step(p) => pc[p] \in Labels
           /\ UNCHANGED authVars
           /\ Helm(p) \/ UNCHANGED release
<1> USE DEF Labels
<1>1. \A r : NextContainer(p, r) => \E label \in Labels \cup {"over"} : Goto(p, label)
  BY DEF NextContainer, Exit, Onwards
<1>2. Exit(p) => \E label \in Labels \cup {"over"} : Goto(p, label)
  BY DEF Exit
<1>3. Begin(p) => /\ pc[p] = "idle" /\ MayBegin /\ UNCHANGED <<authVars, release>>
                  /\ \E label \in Labels \cup {"over"} : Goto(p, label)
  BY DEF Begin, Starts, Onwards
<1>4. Pull(p) \/ Build(p) =>
          /\ pc[p] \in Labels /\ UNCHANGED <<authVars, release>>
          /\ \E label \in Labels \cup {"over"} : Goto(p, label)
  BY <1>1 DEF Pull, Build
<1>5. Push(p) \/ List(p) \/ Write(p) =>
          /\ pc[p] \in Labels /\ UNCHANGED <<authVars, release>>
          /\ \E label \in Labels \cup {"over"} : Goto(p, label)
  BY <1>1, <1>2 DEF Push, List, Write
<1>6. Helm(p) \/ Fail(p) =>
          /\ pc[p] \in Labels /\ UNCHANGED authVars /\ (Helm(p) \/ UNCHANGED release)
          /\ \E label \in Labels \cup {"over"} : Goto(p, label)
  BY <1>2 DEF Helm, Fail
<1> HIDE DEF Labels
<1>7. Step(p) => \/ Pull(p) \/ Build(p) \/ Push(p) \/ List(p) \/ Write(p)
                 \/ Helm(p) \/ Fail(p)
  BY DEF Step
<1>8. QED
  BY <1>3, <1>4, <1>5, <1>6, <1>7

LEMMA Actor ==
    ASSUME Concurrent = FALSE, TypeInv, Alone, NEW p \in Procs,
           Begin(p) \/ Step(p) \/ Authenticate(p)
    PROVE  /\ \A q \in Procs \ {p} : ~Running(q) /\ pc'[q] = pc[q]
           /\ pc[p] \notin Terminal /\ pc'[p] # "idle"
           /\ pc[p] = "idle" => NobodyRunning
<1>1. \E label \in (AuthLabels \cup Labels) \ {"idle"} : Goto(p, label)
  <2>1. CASE Begin(p) \/ Step(p)
    BY <2>1, StepGoes, Labelled DEF AuthLabels
  <2>2. CASE Authenticate(p)
    BY <2>2, AuthSteps DEF TypeInv, Authenticate
  <2>3. QED
    BY <2>1, <2>2
<1>2. pc \in [Procs -> AuthLabels \cup Labels]
  BY DEF TypeInv, ProcsOK
<1>3. pc'[p] # "idle" /\ \A q \in Procs \ {p} : pc'[q] = pc[q]
  BY <1>1, <1>2 DEF Goto
<1>4. \/ pc[p] = "idle" /\ NobodyRunning
      \/ pc[p] \in Labels \cup AuthFiles \cup {"fetch"}
  <2>1. CASE Begin(p) \/ Step(p)
    BY <2>1, StepGoes DEF MayBegin
  <2>2. CASE Authenticate(p)
    <3>1. AuthStep(p)
      BY <2>2 DEF Authenticate
    <3>2. QED
      BY <3>1 DEF AuthStep, Paste, ReadRefreshToken, Fetch, WriteFile, Starts,
         MayBegin
  <2>3. QED
    BY <2>1, <2>2
<1>5. CASE pc[p] = "idle" /\ NobodyRunning
  BY <1>3, <1>5 DEF NobodyRunning, Terminal
<1>6. CASE pc[p] \in Labels \cup AuthFiles \cup {"fetch"}
  <2>1. Running(p)
    BY <1>6, Labelled
  <2>2. QED
    BY <1>3, <2>1 DEF Alone, Running
<1>7. QED
  BY <1>4, <1>5, <1>6

\* What an invocation knows, only its own steps change.
LEMMA OtherRuns ==
    ASSUME TypeInv, NEW p \in Procs, Begin(p) \/ Step(p) \/ Authenticate(p),
           NEW q \in Procs \ {p}
    PROVE  run'[q] = run[q]
<1>1. DOMAIN run = Procs
  BY DEF TypeInv, ProcsOK
<1>2. \A r : NextContainer(p, r) => run'[q] = run[q]
  BY <1>1 DEF NextContainer, Exit
<1>3. CASE Begin(p)
  BY <1>1, <1>3 DEF Begin
<1>4. CASE Step(p)
  BY <1>1, <1>2, <1>4 DEF Step, Pull, Build, Push, List, Write, Helm, Fail, Exit
<1>5. CASE Authenticate(p)
  BY <1>5 DEF Authenticate
<1>6. QED
  BY <1>3, <1>4, <1>5

LEMMA AloneNext ==
    ASSUME Concurrent = FALSE, TypeInv, Alone, [Next]_vars PROVE Alone'
<1>1. CASE \E p \in Procs : Begin(p) \/ Step(p) \/ Authenticate(p)
  BY <1>1, Actor DEF Alone, Running
<1>2. CASE pc' = pc
  BY <1>2 DEF Alone, Running
<1>3. QED
  BY <1>1, <1>2 DEF Next, vars, Retry, Edit
-----------------------------------------------------------------------------
\* A step of authLogin or authToken, if no write fails half way.
LEMMA UserAuth ==
    ASSUME Concurrent = FALSE, TypeInv, Alone, UserInv, NEW p \in Procs,
           Authenticate(p), \A q \in Procs : pc[q] # "torn", pc'[p] # "torn"
    PROVE  Writing(p)' /\ (pc'[p] \notin AuthFiles => AllEqual')
<1>1. /\ AuthStep(p) /\ Writing(p)
      /\ pc[p] \notin AuthFiles => AllEqual
  <2>1. pc[p] \notin AuthFiles => \A q \in Procs : pc[q] \notin AuthFiles
    BY Actor, Labelled
  <2>2. QED
    BY <2>1 DEF UserInv, Authenticate
<1>2. \A label, u : About(p, label, u) =>
          /\ pc'[p] = label
          /\ label \notin Terminal => who'[p] = u
  BY DEF About, Goto, TypeInv, AuthTypeOK, ProcsOK
<1> USE DEF AuthFiles
<1>3. CASE Paste(p)
  <2>1. /\ Job[p].cmd = "authLogin" /\ pc[p] = "idle" /\ pc'[p] = "fetch"
        /\ auth' = auth
    BY <1>2, <1>3 DEF Paste, Starts
  <2>2. QED
    BY <1>1, <2>1 DEF Writing, AllEqual
<1>4. CASE ReadRefreshToken(p)
  <2>1. /\ pc[p] = "idle" /\ auth' = auth
        /\ \/ pc'[p] = "over"
           \/ pc'[p] = "fetch" /\ who'[p] = auth["refresh_token"]
    BY <1>2, <1>4 DEF ReadRefreshToken, Starts, Terminal
  <2>2. QED
    BY <1>1, <2>1 DEF Writing, AllEqual
<1>5. CASE Fetch(p)
  <2>1. /\ pc[p] = "fetch" /\ auth' = auth
        /\ \/ pc'[p] = "over"
           \/ pc'[p] = FirstFile(p) /\ who'[p] = who[p]
    BY <1>2, <1>5 DEF Fetch, Terminal, FirstFile
  <2>2. QED
    BY <1>1, <2>1 DEF Writing, AllEqual, FirstFile
<1>6. CASE WriteFile(p)
  <2> DEFINE f == pc[p]
  <2>1. /\ f \in AuthFiles
        /\ \/ /\ auth' = [auth EXCEPT ![f] = who[p]] /\ pc'[p] = NextFile(p)
              /\ NextFile(p) # "over" => who'[p] = who[p]
           \/ /\ auth' = auth /\ f = FirstFile(p) /\ pc'[p] = "over"
    BY <1>2, <1>6 DEF WriteFile, Terminal, NextFile
  <2>2. DOMAIN auth = AuthFiles
    BY DEF TypeInv, AuthTypeOK
  <2>3. CASE auth' = auth /\ f = FirstFile(p) /\ pc'[p] = "over"
    BY <1>1, <2>3 DEF Writing, AllEqual, FirstFile
  <2>4. CASE /\ auth' = [auth EXCEPT ![f] = who[p]] /\ pc'[p] = NextFile(p)
             /\ NextFile(p) # "over" => who'[p] = who[p]
    <3>1. CASE f = "refresh_token"
      BY <1>1, <2>2, <2>4, <3>1 DEF Writing, NextFile
    <3>2. CASE f = "auth_token" /\ Job[p].cmd = "authLogin"
      BY <1>1, <2>2, <2>4, <3>2 DEF Writing, NextFile
    <3>3. CASE f = "auth_token" /\ Job[p].cmd # "authLogin"
      BY <1>1, <2>2, <2>4, <3>3 DEF Writing, NextFile, AllEqual
    <3>4. CASE f = "user_info"
      BY <1>1, <2>2, <2>4, <3>4 DEF Writing, NextFile, AllEqual
    <3>5. QED
      BY <2>1, <3>1, <3>2, <3>3, <3>4
  <2>5. QED
    BY <2>1, <2>3, <2>4
<1>7. QED
  BY <1>1, <1>3, <1>4, <1>5, <1>6 DEF AuthStep

LEMMA UserNext ==
    ASSUME Concurrent = FALSE, TypeInv, Alone, UserInv, [Next]_vars
    PROVE  UserInv'
<1> DEFINE OneOf(e) == release[e] # Nil =>
                          release[e].user[1] = release[e].user[2]
<1> SUFFICES ASSUME \A p \in Procs : pc'[p] # "torn"
             PROVE  /\ \A p \in Procs : Writing(p)'
                    /\ (\A p \in Procs : pc'[p] \notin AuthFiles) => AllEqual'
                    /\ \A e \in Envs : OneOf(e)'
  BY DEF UserInv
<1>1. ASSUME NEW p \in Procs, Begin(p) \/ Step(p) \/ Authenticate(p)
      PROVE  /\ \A q \in Procs : pc[q] # "torn"
             /\ \A q \in Procs \ {p} : Writing(q)'
  <2>1. \A q \in Procs : pc[q] # "torn"
    BY <1>1, Actor DEF Terminal
  <2>2. \A q \in Procs \ {p} : pc'[q] \notin AuthFiles \cup {"fetch"}
    BY <1>1, Actor, Labelled
  <2>3. QED
    BY <2>1, <2>2 DEF Writing, AuthFiles
<1>2. ASSUME NEW p \in Procs, Begin(p) \/ Step(p)
      PROVE  UserInv'
  <2>1. /\ auth' = auth
        /\ pc[p] \notin AuthFiles \cup {"fetch"}
        /\ pc'[p] \notin AuthFiles \cup {"fetch"}
    <3>1. PICK label \in Labels \cup {"over"} : Goto(p, label)
      BY <1>2, StepGoes
    <3>2. pc'[p] = label
      BY <3>1 DEF Goto, TypeInv, ProcsOK
    <3>3. QED
      BY <1>2, <3>2, StepGoes DEF authVars, Labels, AuthFiles
  <2>2. \A q \in Procs : pc[q] \notin AuthFiles
    BY <1>2, <2>1, Actor, Labelled
  <2>3. AllEqual /\ AllEqual'
    BY <1>1, <1>2, <2>1, <2>2 DEF UserInv, AllEqual
  <2>4. Writing(p)'
    BY <2>1 DEF Writing, AuthFiles
  <2>5. ASSUME NEW e \in Envs PROVE OneOf(e)'
    <3>1. OneOf(e)
      BY <1>1, <1>2 DEF UserInv
    <3>2. CASE UNCHANGED release
      BY <3>1, <3>2
    <3>3. CASE Helm(p)
      <4>1. Upgraded(p).user[1] = Upgraded(p).user[2]
        BY <2>3 DEF Upgraded, AllEqual, AuthFiles
      <4>2. release' = [release EXCEPT ![Job[p].env] = Upgraded(p)]
        BY <3>3 DEF Helm
      <4>3. QED
        BY <3>1, <4>1, <4>2 DEF TypeInv, World
    <3>4. QED
      BY <1>2, <3>2, <3>3, StepGoes
  <2>6. QED
    BY <1>1, <1>2, <2>3, <2>4, <2>5 DEF UserInv
<1>3. ASSUME NEW p \in Procs, Authenticate(p)
      PROVE  UserInv'
  <2>1. /\ \A q \in Procs : pc[q] # "torn"
        /\ \A q \in Procs \ {p} : Writing(q)'
    BY <1>1, <1>3
  <2>2. Writing(p)' /\ (pc'[p] \notin AuthFiles => AllEqual')
    BY <1>3, <2>1, UserAuth
  <2>3. \A e \in Envs : OneOf(e)'
    BY <1>3, <2>1 DEF Authenticate, UserInv
  <2>4. QED
    BY <2>1, <2>2, <2>3 DEF UserInv
<1>4. ASSUME UNCHANGED <<authVars, pc>>,
             \A e \in Envs : \/ release'[e] = release[e]
                             \/ /\ release[e] # Nil
                                /\ release'[e].user = release[e].user
      PROVE  UserInv'
  BY <1>4 DEF UserInv, Writing, AllEqual, authVars
<1>5. CASE \E e \in Envs, c \in Deployed : Retry(e, c)
  <2>1. PICK e \in Envs, c \in Deployed : Retry(e, c)
    BY <1>5
  <2>2. /\ UNCHANGED <<authVars, pc>>
        /\ \A d \in Envs \ {e} : release'[d] = release[d]
        /\ release[e] # Nil /\ release'[e].user = release[e].user
    BY <2>1, RetryIs
  <2>3. UserInv'
    BY <1>4, <2>2
  <2>4. QED
    BY <2>3 DEF UserInv
<1>6. CASE \E c \in Containers : Edit(c)
  <2>1. UserInv'
    BY <1>4, <1>6 DEF Edit
  <2>2. QED
    BY <2>1 DEF UserInv
<1>7. CASE UNCHANGED vars
  <2>1. UserInv'
    BY <1>4, <1>7 DEF vars
  <2>2. QED
    BY <2>1 DEF UserInv
<1>8. CASE \E p \in Procs : Begin(p) \/ Step(p) \/ Authenticate(p)
  <2>1. UserInv'
    BY <1>2, <1>3, <1>8
  <2>2. QED
    BY <2>1 DEF UserInv
<1>9. QED
  BY <1>5, <1>6, <1>7, <1>8 DEF Next

\* The files of a login, and the refresh token and the email of a release, are
\* of one user: authLogin leaves nothing that authToken, a start or a retry
\* mixes up, if no command starts while another one runs.
THEOREM FilesOfOneUser ==
    ASSUME Concurrent = FALSE PROVE Spec => []OneUser
<1> DEFINE Inv == TypeInv /\ Alone /\ UserInv
<1>1. Init => Inv
  <2> SUFFICES ASSUME Init PROVE Alone /\ UserInv
    BY InitType
  <2>1. \A p \in Procs : pc[p] = "idle"
    BY DEF Init, AuthInit
  <2>2. AllEqual /\ \A e \in Envs : release[e] = Nil
    BY DEF Init, AuthInit, AllEqual
  <2>3. \A p \in Procs : Writing(p)
    BY <2>1 DEF Writing
  <2>4. QED
    BY <2>1, <2>2, <2>3 DEF Alone, Running, UserInv
<1>2. Inv /\ [Next]_vars => Inv'
  BY TypeNext, AloneNext, UserNext
<1>3. Inv => OneUser
  <2> SUFFICES ASSUME Inv, \A p \in Procs : pc[p] \notin AuthFiles \cup {"torn"}
               PROVE  /\ AllEqual
                      /\ \A e \in Envs : release[e] # Nil =>
                            release[e].user[1] = release[e].user[2]
    BY DEF OneUser, AllEqual
  <2>1. QED
    BY DEF UserInv
<1>4. QED
  BY <1>1, <1>2, <1>3, PTL DEF Spec
\* What an authLogin has written of its files by now, whatever was there.
Repairing(p) ==
    Job[p].cmd = "authLogin" =>
        /\ pc[p] \in {"auth_token", "user_info"} => auth["refresh_token"] = who[p]
        /\ pc[p] = "user_info" => auth["auth_token"] = who[p]
RepairInv == \A p \in Procs : Repairing(p)

Repaired(p) ==
    /\ Job[p].cmd = "authLogin"
    /\ pc[p] \in AuthFiles \ {"refresh_token"} /\ pc'[p] = "over"
    => \A f \in AuthFiles : auth'[f] = who[p]

LEMMA RepairStep ==
    ASSUME TypeInv, NEW p \in Procs, AuthStep(p), Repairing(p)
    PROVE  Repairing(p)' /\ Repaired(p)
<1>1. \A label, u : About(p, label, u) =>
          /\ pc'[p] = label
          /\ label \notin Terminal => who'[p] = u
  BY DEF About, Goto, TypeInv, AuthTypeOK, ProcsOK
<1> USE DEF AuthFiles
<1>2. CASE Paste(p) \/ ReadRefreshToken(p)
  <2>1. pc[p] = "idle" /\ pc'[p] \in {"fetch", "over"}
    BY <1>1, <1>2 DEF Paste, ReadRefreshToken, Starts
  <2>2. QED
    BY <2>1 DEF Repairing, Repaired
<1>3. CASE Fetch(p)
  <2>1. pc[p] = "fetch" /\ pc'[p] \in {FirstFile(p), "over"}
    BY <1>1, <1>3 DEF Fetch
  <2>2. QED
    BY <2>1 DEF Repairing, Repaired, FirstFile
<1>4. CASE WriteFile(p)
  <2> DEFINE f == pc[p]
  <2>1. SUFFICES ASSUME Job[p].cmd = "authLogin", pc'[p] # "torn"
                 PROVE  Repairing(p)' /\ Repaired(p)
    BY DEF Repairing, Repaired
  <2>2. \/ f = "refresh_token" /\ auth' = auth /\ pc'[p] = "over"
        \/ /\ f \in AuthFiles /\ auth' = [auth EXCEPT ![f] = who[p]]
           /\ pc'[p] = NextFile(p)
           /\ NextFile(p) # "over" => who'[p] = who[p]
    BY <1>1, <1>4, <2>1 DEF WriteFile, Terminal, NextFile, FirstFile
  <2>3. DOMAIN auth = AuthFiles
    BY DEF TypeInv, AuthTypeOK
  <2>4. CASE f = "refresh_token"
    BY <2>2, <2>3, <2>4 DEF Repairing, Repaired, NextFile
  <2>5. CASE f = "auth_token"
    BY <2>1, <2>2, <2>3, <2>5 DEF Repairing, Repaired, NextFile
  <2>6. CASE f = "user_info"
    BY <2>1, <2>2, <2>3, <2>6 DEF Repairing, Repaired, NextFile
  <2>7. QED
    BY <2>2, <2>4, <2>5, <2>6
<1>5. QED
  BY <1>2, <1>3, <1>4 DEF AuthStep

LEMMA RepairNext ==
    ASSUME Concurrent = FALSE, TypeInv, Alone, RepairInv, [Next]_vars
    PROVE  RepairInv' /\ [LoginRepairsStep]_vars
<1>1. ASSUME NEW p \in Procs, Begin(p) \/ Step(p) \/ Authenticate(p)
      PROVE  RepairInv' /\ LoginRepairsStep
  <2>1. ASSUME NEW q \in Procs \ {p} PROVE Repairing(q)' /\ Repaired(q)
    <3>1. pc'[q] = pc[q] /\ ~Running(q)
      BY <1>1, Actor
    <3>2. pc'[q] = pc[q] /\ pc[q] \notin AuthFiles
      BY <3>1, Labelled
    <3>3. QED
      BY <3>2 DEF Repairing, Repaired, AuthFiles
  <2>2. Repairing(p)' /\ Repaired(p)
    <3>1. CASE Authenticate(p)
      BY <3>1, RepairStep DEF Authenticate, RepairInv
    <3>2. CASE Begin(p) \/ Step(p)
      <4>1. PICK label \in Labels \cup {"over"} : Goto(p, label)
        BY <3>2, StepGoes
      <4>2. pc'[p] \in Labels \cup {"over"} /\ pc[p] \in Labels \cup {"idle"}
        BY <3>2, <4>1, StepGoes DEF Goto, TypeInv, ProcsOK
      <4>3. pc'[p] \notin AuthFiles /\ pc[p] \notin AuthFiles
        BY <4>2, Labelled DEF AuthFiles, Labels
      <4>4. QED
        BY <4>3 DEF Repairing, Repaired, AuthFiles
    <3>3. QED
      BY <1>1, <3>1, <3>2
  <2>3. QED
    BY <2>1, <2>2 DEF RepairInv, LoginRepairsStep, Repaired
<1>2. ASSUME UNCHANGED <<authVars, pc>> PROVE RepairInv' /\ LoginRepairsStep
  BY <1>2 DEF RepairInv, Repairing, LoginRepairsStep, authVars, AuthFiles
<1>3. QED
  BY <1>1, <1>2 DEF Next, Retry, Edit, vars

LEMMA AloneInvariant ==
    ASSUME Concurrent = FALSE
    PROVE  Spec => [](TypeInv /\ Alone)
<1>1. Init => Alone
  BY DEF Init, AuthInit, Alone, Running
<1>2. TypeInv /\ Alone /\ [Next]_vars => Alone'
  BY AloneNext
<1>3. QED
  BY <1>1, <1>2, TypeInvariant, PTL DEF Spec

\* An authLogin that comes to its end leaves all three files to its user, also
\* after logins and new tokens that have failed between two writes or in the
\* middle of one, if commands run one by one.
THEOREM LoginsRepair ==
    ASSUME Concurrent = FALSE
    PROVE  Spec => LoginRepairs
<1>1. Init => RepairInv
  BY DEF Init, AuthInit, RepairInv, Repairing
<1>2. TypeInv /\ Alone /\ RepairInv /\ [Next]_vars =>
          RepairInv' /\ [LoginRepairsStep]_vars
  BY RepairNext
<1>3. QED
  BY <1>1, <1>2, AloneInvariant, PTL DEF Spec, LoginRepairs
-----------------------------------------------------------------------------
LEMMA OnceTail ==
    ASSUME NEW o \in Seq(Containers), o # <<>>, Once(o)
    PROVE  /\ Once(Tail(o))
           /\ \A j \in DOMAIN Tail(o) : j + 1 \in DOMAIN o /\ Tail(o)[j] = o[j + 1]
           /\ \A j \in DOMAIN Tail(o) : Tail(o)[j] # o[1]
           /\ \A j \in DOMAIN o : o[j] = o[1] => j = 1
<1>1. /\ Len(o) \in Nat /\ Len(o) >= 1 /\ DOMAIN o = 1 .. Len(o)
      /\ DOMAIN Tail(o) = 1 .. Len(o) - 1
  OBVIOUS
<1>2. \A j \in DOMAIN Tail(o) : /\ j \in Nat /\ j >= 1 /\ j + 1 \in DOMAIN o
                                /\ Tail(o)[j] = o[j + 1]
  BY <1>1
<1>3. \A j \in DOMAIN o : o[j] = o[1] => j = 1
  BY <1>1 DEF Once
<1>4. \A j \in DOMAIN Tail(o) : Tail(o)[j] # o[1]
  BY <1>2, <1>3
<1>5. Once(Tail(o))
  <2>1. ASSUME NEW i \in DOMAIN Tail(o), NEW j \in DOMAIN Tail(o)
        PROVE  Tail(o)[i] = Tail(o)[j] => i = j
    <3>1. i + 1 \in DOMAIN o /\ j + 1 \in DOMAIN o
          /\ Tail(o)[i] = o[i + 1] /\ Tail(o)[j] = o[j + 1]
      BY <1>2
    <3>2. i \in Nat /\ j \in Nat
      BY <1>2
    <3>3. i + 1 = j + 1 => i = j
      BY <3>2
    <3>4. QED
      BY <3>1, <3>2, <3>3 DEF Once
  <2>2. QED
    BY <2>1 DEF Once
<1>6. QED
  BY <1>2, <1>3, <1>4, <1>5

\* What an invocation has built stays what it is.
LEMMA BuiltKept ==
    ASSUME NEW p, NEW c, BuiltOK(p, c), machine' = machine,
           run'[p].built[c] = run[p].built[c],
           \A t \in {LocalTag(p, c), PushTag(p, c)} : t # Nil =>
               images'[BuildDaemon][t] = images[BuildDaemon][t],
           \A j \in DOMAIN run'[p].todo : run'[p].todo[j] # c,
           PushTag(p, c) # Nil =>
               machine = "minikube" \/ registry'[PushTag(p, c)] = run[p].built[c],
           LocalTag(p, c) # Nil
    PROVE  BuiltOK(p, c)'
<1>1. /\ PushTag(p, c)' = PushTag(p, c) /\ LocalTag(p, c)' = LocalTag(p, c)
      /\ BuildDaemon' = BuildDaemon
  BY DEF PushTag, LocalTag, Prefix, BuildDaemon
<1>2. QED
  BY <1>1 DEF BuiltOK

LEMMA StartNext ==
    ASSUME TypeInv, NEW p \in Starting, NEW r, IsRun(r), NextContainer(p, r)
    PROVE  /\ run'[p].todo = Tail(r.todo) /\ run'[p].built = r.built
           /\ pc'[p] = Onwards(Tail(r.todo))
<1>1. p \notin Building /\ p \in Procs
  BY DEF Starting, Building
<1>2. /\ run'[p] = [r EXCEPT !.todo = Tail(r.todo)]
      /\ pc'[p] = Onwards(Tail(r.todo))
  BY <1>1 DEF NextContainer, Goto, TypeInv, ProcsOK
<1>3. DOMAIN r = {"todo", "built", "ids"}
  BY DEF IsRun
<1>4. QED
  BY <1>2, <1>3

LEMMA RunNext ==
    ASSUME TypeInv, NEW p \in Starting, Job[p].build, NEW r, IsRun(r),
           r.todo # <<>>, Once(r.todo), NextContainer(p, r),
           \A c \in Containers : run'[p].built[c] # NoImage => BuiltOK(p, c)'
    PROVE  RunOK(p)'
<1>1. r.todo \in Seq(Containers)
  BY DEF IsRun
<1>2. run'[p].todo = Tail(r.todo) /\ pc'[p] = Onwards(Tail(r.todo))
  BY StartNext
<1>3. Once(run'[p].todo)
  BY <1>1, <1>2, OnceTail
<1>4. /\ pc'[p] \in Labels /\ pc'[p] \notin {"push", "write", "helm"}
      /\ pc'[p] = "list" => run'[p].todo = <<>>
  BY <1>2 DEF Onwards, Labels
<1>5. QED
  BY <1>3, <1>4 DEF RunOK, Once

\* The steps of a start that builds.
LEMMA PullKeeps ==
    ASSUME TypeInv, NEW p \in Starting, Job[p].build, RunOK(p), Pull(p)
    PROVE  RunOK(p)'
<1> DEFINE c == Current(p)
           tag == PushTag(p, c)
<1>1. /\ pc[p] = "pull" /\ pc'[p] = "build" /\ p \in Procs
      /\ UNCHANGED <<authVars, machine, src, registry, svjson, release, run>>
      /\ \/ images' = images
         \/ tag # Nil /\ images' = [images EXCEPT !["host"][tag] = registry[tag]]
  BY Constants DEF Pull, Goto, TypeInv, ProcsOK
<1>2. /\ c \in Containers /\ c = run[p].todo[1] /\ run[p].todo # <<>>
      /\ run[p].todo \in Seq(Containers)
  BY <1>1, CurrentType DEF TypeInv, AtContainer
<1>3. /\ Once(run[p].todo) /\ "pull" \in Labels /\ "build" \in Labels
      /\ \A d \in Containers : run[p].built[d] # NoImage => BuiltOK(p, d)
  BY <1>1 DEF RunOK, Labels
<1>4. ASSUME NEW d \in Containers, run[p].built[d] # NoImage
      PROVE  BuiltOK(p, d)'
  <2>1. BuiltOK(p, d)
    BY <1>3, <1>4
  <2>2. \A j \in DOMAIN run[p].todo : run[p].todo[j] # d
    BY <1>1, <2>1 DEF BuiltOK
  <2>3. d # c
    BY <1>2, <2>2
  <2>4. ASSUME NEW t \in {LocalTag(p, d), PushTag(p, d)}, t # Nil
        PROVE  images'[BuildDaemon][t] = images[BuildDaemon][t]
    <3>1. t[2] = d
      BY <2>4, TagTypes
    <3>2. tag # Nil => tag[2] = c
      BY <1>2, TagTypes
    <3>3. tag # Nil => t # tag
      BY <2>3, <3>1, <3>2
    <3>4. t \in Tags
      BY <2>4, TagTypes
    <3>5. /\ BuildDaemon \in Daemons /\ "host" \in Daemons
          /\ DOMAIN images = Daemons
          /\ DOMAIN images["host"] = Tags
      BY BuildStores DEF TypeInv, World, Daemons, IsStore
    <3>6. \/ images' = images
          \/ /\ tag # Nil
             /\ images' =
                  [images EXCEPT !["host"] = [@ EXCEPT ![tag] = registry[tag]]]
      BY <1>1
    <3>7. QED
      BY <3>3, <3>4, <3>5, <3>6
  <2>5. LocalTag(p, d) # Nil
    BY TagTypes, Constants
  <2>6. /\ PushTag(p, d) # Nil =>
              machine = "minikube" \/ registry'[PushTag(p, d)] = run[p].built[d]
    BY <1>1, <2>1 DEF BuiltOK
  <2>7. run' = run /\ machine' = machine
    BY <1>1
  <2>8. QED
    BY <2>1, <2>2, <2>4, <2>5, <2>6, <2>7, BuiltKept
<1>5. QED
  BY <1>1, <1>2, <1>3, <1>4 DEF RunOK, Labels

LEMMA BuildKeeps ==
    ASSUME TypeInv, NEW p \in Starting, Job[p].build, RunOK(p), Build(p)
    PROVE  RunOK(p)'
<1>a. PICK c \in Containers : c = Current(p)
  BY BuildIs, Constants
<1> DEFINE todo == run[p].todo
           note == Noted(p, c)
<1>1. /\ pc[p] = "build" /\ p \in Procs
      /\ UNCHANGED <<authVars, machine, src, registry, svjson, release>>
      /\ \/ NextContainer(p, run[p]) /\ images' = images
         \/ /\ Retagged(p, c, Built(p, c))
            /\ \/ PushTag(p, c) = Nil /\ NextContainer(p, note)
               \/ /\ PushTag(p, c) # Nil /\ Goto(p, "push")
                  /\ run' = [run EXCEPT ![p] = note]
  BY <1>a, BuildIs, Constants
<1>2. /\ c = todo[1] /\ todo # <<>> /\ todo \in Seq(Containers) /\ IsRun(run[p])
  BY <1>a, <1>1, CurrentType DEF TypeInv, AtContainer
<1>3. /\ Once(todo) /\ "push" \in Labels
      /\ \A d \in Containers : run[p].built[d] # NoImage => BuiltOK(p, d)
  BY <1>1 DEF RunOK, Labels
<1>4. /\ IsRun(note) /\ note.todo = todo /\ note.built[c] = Built(p, c)
      /\ \A d \in Containers \ {c} : note.built[d] = run[p].built[d]
  BY <1>1, NotedIs DEF TypeInv
<1> HIDE DEF note
<1>5. /\ Once(Tail(todo))
      /\ \A j \in DOMAIN Tail(todo) : j + 1 \in DOMAIN todo /\ Tail(todo)[j] = todo[j + 1]
      /\ \A j \in DOMAIN Tail(todo) : Tail(todo)[j] # c
      /\ \A j \in DOMAIN todo : todo[j] = c => j = 1
  BY <1>2, <1>3, OnceTail
\* A container that was built before.
<1>6. ASSUME NEW d \in Containers, run[p].built[d] # NoImage
      PROVE  /\ BuiltOK(p, d) /\ d # c
             /\ \A j \in DOMAIN todo : todo[j] # d
             /\ \A j \in DOMAIN Tail(todo) : Tail(todo)[j] # d
             /\ LocalTag(p, d) # Nil
             /\ PushTag(p, d) # Nil =>
                   machine = "minikube" \/ registry[PushTag(p, d)] = run[p].built[d]
  <2>1. BuiltOK(p, d)
    BY <1>3, <1>6
  <2>2. \A j \in DOMAIN todo : todo[j] # d
    BY <1>1, <2>1 DEF BuiltOK
  <2>3. 1 \in DOMAIN todo
    BY <1>2
  <2>4. LocalTag(p, d) # Nil
    BY TagTypes, Constants
  <2>5. PushTag(p, d) # Nil =>
            machine = "minikube" \/ registry[PushTag(p, d)] = run[p].built[d]
    BY <1>1, <2>1 DEF BuiltOK
  <2>6. QED
    BY <1>2, <1>5, <2>1, <2>2, <2>3, <2>4, <2>5
<1>7. CASE NextContainer(p, run[p]) /\ images' = images
  <2>1. /\ run'[p].built = run[p].built /\ run'[p].todo = Tail(todo)
    BY <1>2, <1>7, StartNext
  <2>2. ASSUME NEW d \in Containers, run'[p].built[d] # NoImage
        PROVE  BuiltOK(p, d)'
    <3>1. run[p].built[d] # NoImage
      BY <2>1, <2>2
    <3>2. machine' = machine /\ registry' = registry
      BY <1>1
    <3>3. /\ BuiltOK(p, d) /\ LocalTag(p, d) # Nil
          /\ \A j \in DOMAIN Tail(todo) : Tail(todo)[j] # d
          /\ PushTag(p, d) # Nil =>
                machine = "minikube" \/ registry[PushTag(p, d)] = run[p].built[d]
      BY <1>6, <3>1
    <3>4. \A j \in DOMAIN run'[p].todo : run'[p].todo[j] # d
      <4> HIDE DEF todo
      <4> QED
        BY <2>1, <3>3
    <3>5. QED
      BY <1>7, <2>1, <3>2, <3>3, <3>4, BuiltKept
  <2>3. QED
    BY <1>2, <1>3, <1>7, <2>2, RunNext
<1>8. CASE Retagged(p, c, Built(p, c))
  <2>1. /\ images'[BuildDaemon] = Moved(p, c) /\ p \in Starting \cup Building
        /\ machine' = machine /\ registry' = registry
    BY <1>1, <1>8, RetaggedIs
  <2>2. ASSUME NEW d \in Containers, d # c,
               NEW t \in {LocalTag(p, d), PushTag(p, d)}, t # Nil
        PROVE  images'[BuildDaemon][t] = images[BuildDaemon][t]
    <3>1. t \in Tags /\ t[2] = d
      BY <2>2, TagTypes
    <3>2. LocalTag(p, c)[2] = c /\ (PushTag(p, c) # Nil => PushTag(p, c)[2] = c)
      BY <1>1, TagTypes
    <3>3. t # LocalTag(p, c) /\ t # PushTag(p, c)
      BY <2>2, <3>1, <3>2
    <3>4. QED
      BY <2>1, <3>1, <3>3 DEF Moved
  <2>3. /\ images'[BuildDaemon][LocalTag(p, c)] = Built(p, c)
        /\ PushTag(p, c) # Nil =>
              images'[BuildDaemon][PushTag(p, c)] = Built(p, c)
    BY <1>1, <2>1, TagTypes DEF Moved
  <2>4. /\ PushTag(p, c)' = PushTag(p, c) /\ LocalTag(p, c)' = LocalTag(p, c)
        /\ BuildDaemon' = BuildDaemon
    BY <2>1 DEF PushTag, LocalTag, Prefix, BuildDaemon
  <2>5. ASSUME NEW d \in Containers \ {c}, run'[p].built = note.built,
               note.built[d] # NoImage,
               run'[p].todo \in {todo, Tail(todo)}
        PROVE  BuiltOK(p, d)'
    <3>1. run[p].built[d] # NoImage /\ run'[p].built[d] = run[p].built[d]
      BY <1>4, <2>5
    <3>2. \A j \in DOMAIN run'[p].todo : run'[p].todo[j] # d
      <4>1. /\ \A j \in DOMAIN todo : todo[j] # d
            /\ \A j \in DOMAIN Tail(todo) : Tail(todo)[j] # d
        BY <1>6, <3>1
      <4> HIDE DEF todo
      <4>2. QED
        BY <2>5, <4>1
    <3>3. QED
      BY <1>6, <2>1, <2>2, <3>1, <3>2, BuiltKept
  <2>6. CASE PushTag(p, c) = Nil /\ NextContainer(p, note)
    <3>1. run'[p].built = note.built /\ run'[p].todo = Tail(todo)
      BY <1>4, <2>6, StartNext
    <3>2. BuiltOK(p, c)'
      BY <1>4, <1>5, <2>3, <2>4, <2>6, <3>1 DEF BuiltOK
    <3>3. \A d \in Containers : run'[p].built[d] # NoImage => BuiltOK(p, d)'
      BY <2>5, <3>1, <3>2
    <3>4. QED
      BY <1>2, <1>3, <1>4, <2>6, <3>3, RunNext
  <2>7. CASE PushTag(p, c) # Nil /\ Goto(p, "push") /\ run' = [run EXCEPT ![p] = note]
    <3>1. run'[p].built = note.built /\ run'[p].todo = todo /\ pc'[p] = "push"
      BY <1>1, <1>4, <2>7 DEF TypeInv, ProcsOK, Goto
    <3>2. BuiltOK(p, c)'
      BY <1>2, <1>4, <1>5, <2>3, <2>4, <3>1 DEF BuiltOK
    <3>3. \A d \in Containers : run'[p].built[d] # NoImage => BuiltOK(p, d)'
      BY <2>5, <3>1, <3>2
    <3>4. note.built[c] # NoImage
      BY <1>4, BuiltType
    <3>5. QED
      BY <1>2, <1>3, <3>1, <3>3, <3>4 DEF RunOK
  <2>8. QED
    BY <1>1, <1>7, <1>8, <2>6, <2>7
<1>9. QED
  BY <1>1, <1>7, <1>8

LEMMA PushKeeps ==
    ASSUME TypeInv, NEW p \in Starting, Job[p].build, RunOK(p), Push(p)
    PROVE  RunOK(p)'
<1> DEFINE todo == run[p].todo
<1>1. pc[p] = "push" /\ p \in Procs
  BY Constants DEF Push
<1>2. PICK c \in Containers : c = Current(p)
  BY <1>1, CurrentType DEF TypeInv, AtContainer
<1> DEFINE tag == PushTag(p, c)
<1>3. /\ registry' = [registry EXCEPT ![tag] = images["host"][tag]]
      /\ NextContainer(p, run[p]) \/ Exit(p)
      /\ UNCHANGED <<authVars, machine, src, images, svjson, release>>
  BY <1>2 DEF Push
<1>4. /\ c = todo[1] /\ todo # <<>> /\ todo \in Seq(Containers) /\ IsRun(run[p])
  BY <1>1, <1>2, CurrentType DEF TypeInv, AtContainer
<1>5. /\ Once(todo)
      /\ \A d \in Containers : run[p].built[d] # NoImage => BuiltOK(p, d)
  BY <1>1 DEF RunOK, Labels
<1>6. /\ \A j \in DOMAIN Tail(todo) : j \in Nat /\ j >= 1 /\ j + 1 \in DOMAIN todo
                                      /\ Tail(todo)[j] = todo[j + 1]
  BY <1>4
<1>7. CASE Exit(p)
  <2>1. run'[p] = Fresh /\ pc'[p] \notin Labels
    BY <1>1, <1>7 DEF Exit, Goto, TypeInv, ProcsOK, Labels
  <2>2. QED
    BY <2>1 DEF RunOK
<1>8. CASE NextContainer(p, run[p])
  <2>1. run'[p].todo = Tail(todo) /\ run'[p].built = run[p].built
    BY <1>4, <1>8, StartNext
  <2>2. ASSUME NEW d \in Containers, run'[p].built[d] # NoImage
        PROVE  BuiltOK(p, d)'
    <3>1. BuiltOK(p, d)
      BY <1>5, <2>1, <2>2
    <3>2. \A j \in DOMAIN Tail(todo) : Tail(todo)[j] # d
      BY <1>6, <3>1 DEF BuiltOK
    <3>3. LocalTag(p, d) # Nil
      BY TagTypes, Constants
    <3>4. ASSUME PushTag(p, d) # Nil, machine # "minikube"
          PROVE  registry'[PushTag(p, d)] = run[p].built[d]
      <4>1. /\ PushTag(p, d) \in Tags /\ PushTag(p, d)[2] = d
            /\ DOMAIN registry = Tags
        BY <3>4, TagTypes DEF TypeInv, World, IsStore
      <4>2. CASE d = c
        <5>1. images["host"][PushTag(p, d)] = run[p].built[d]
          BY <3>1, <3>4 DEF BuiltOK, BuildDaemon
        <5>2. QED
          BY <1>3, <4>1, <4>2, <5>1
      <4>3. CASE d # c
        <5>1. registry[PushTag(p, d)] = run[p].built[d]
          BY <1>4, <3>1, <3>4, <4>3 DEF BuiltOK
        <5>2. PushTag(p, d) # tag
          <6>1. tag # Nil => tag[2] = c
            BY TagTypes
          <6>2. QED
            BY <3>4, <4>1, <4>3, <6>1
        <5>3. QED
          BY <1>3, <4>1, <5>1, <5>2
      <4>4. QED
        BY <4>2, <4>3
    <3>5. machine' = machine /\ images' = images
      BY <1>3
    <3>6. QED
      BY <2>1, <3>1, <3>2, <3>3, <3>4, <3>5, BuiltKept
  <2>3. QED
    BY <1>4, <1>5, <1>8, <2>2, RunNext
<1>9. QED
  BY <1>3, <1>7, <1>8

\* Nothing is left to build in what follows.
LEMMA BuiltStays ==
    ASSUME NEW p, NEW c, BuiltOK(p, c), UNCHANGED <<machine, images, registry>>,
           run'[p].todo = run[p].todo, run'[p].built = run[p].built,
           pc[p] # "push"
    PROVE  BuiltOK(p, c)'
<1>1. /\ PushTag(p, c)' = PushTag(p, c) /\ LocalTag(p, c)' = LocalTag(p, c)
      /\ BuildDaemon' = BuildDaemon
  BY DEF PushTag, LocalTag, Prefix, BuildDaemon
<1>2. QED
  BY <1>1 DEF BuiltOK

LEMMA RestKeeps ==
    ASSUME TypeInv, NEW p \in Starting, Job[p].build, RunOK(p),
           List(p) \/ Write(p) \/ Helm(p) \/ Fail(p)
    PROVE  RunOK(p)'
<1>1. p \in Procs /\ IsRun(run[p])
  BY Constants DEF TypeInv, ProcsOK, ProcOK
<1>2. CASE Exit(p)
  <2>1. run'[p] = Fresh /\ pc'[p] \notin Labels
    BY <1>1, <1>2 DEF Exit, Goto, TypeInv, ProcsOK, Labels
  <2>2. QED
    BY <2>1 DEF RunOK
<1>3. ASSUME NEW ids, run' = [run EXCEPT ![p].ids = ids],
             pc[p] \in {"list", "write"}, pc'[p] \in {"write", "helm"},
             UNCHANGED <<machine, images, registry>>,
             pc'[p] = "write" => ids = images[BuildDaemon],
             pc'[p] = "helm" => svjson' = images[BuildDaemon]
      PROVE  RunOK(p)'
  <2>1. /\ run'[p].ids = ids /\ run'[p].todo = run[p].todo
        /\ run'[p].built = run[p].built
    BY <1>1, <1>3 DEF IsRun, TypeInv, ProcsOK
  <2>2. /\ Once(run[p].todo) /\ run[p].todo = <<>>
        /\ \A c \in Containers : run[p].built[c] # NoImage => BuiltOK(p, c)
    BY <1>3 DEF RunOK, Labels
  <2>3. \A c \in Containers : run'[p].built[c] # NoImage => BuiltOK(p, c)'
    BY <1>3, <2>1, <2>2, BuiltStays
  <2>4. Once(run[p].todo)'
    BY <2>1, <2>2 DEF Once
  <2>5. images'[BuildDaemon'] = images[BuildDaemon]
    BY <1>3 DEF BuildDaemon
  <2>6. pc'[p] \in Labels
    BY <1>3 DEF Labels
  <2>7. QED
    BY <1>3, <2>1, <2>2, <2>3, <2>4, <2>5, <2>6 DEF RunOK
<1>4. CASE List(p)
  <2>1. /\ run' = [run EXCEPT ![p].ids = images[BuildDaemon]]
        /\ pc[p] = "list" /\ pc'[p] = "write"
        /\ UNCHANGED <<machine, images, registry>>
    BY <1>1, <1>4 DEF List, Goto, TypeInv, ProcsOK, imageVars
  <2>2. QED
    BY <1>3, <2>1
<1>5. CASE Write(p)
  <2>1. \/ Exit(p)
        \/ /\ run' = [run EXCEPT ![p].ids = Nil] /\ svjson' = run[p].ids
           /\ pc[p] = "write" /\ pc'[p] = "helm"
           /\ UNCHANGED <<machine, images, registry>>
    BY <1>1, <1>5 DEF Write, Goto, TypeInv, ProcsOK, imageVars
  <2>2. pc[p] = "write" => run[p].ids = images[BuildDaemon]
    BY DEF RunOK, Labels
  <2>3. CASE Exit(p)
    BY <1>2, <2>3
  <2>4. QED
    BY <1>3, <2>1, <2>2, <2>3
<1>6. CASE Helm(p) \/ Fail(p)
  BY <1>2, <1>6 DEF Helm, Fail
<1>7. QED
  BY <1>4, <1>5, <1>6

LEMMA BeginKeeps ==
    ASSUME OrdersOnce, TypeInv, NEW p \in Procs, RunOK(p), Begin(p)
    PROVE  RunOK(p)'
<1>1. IsRun(run[p]) /\ pc \in [Procs -> AuthLabels \cup Labels] /\ DOMAIN run = Procs
  BY DEF TypeInv, ProcsOK, ProcOK
<1>2. pc[p] = "idle" /\ run[p] = Fresh
  BY DEF Begin, Starts, RunOK, Labels
<1>3. CASE p \in Starting /\ Job[p].build
  <2> DEFINE o == BuildOrder[Job[p].env]
  <2>1. o \in Seq(Containers) /\ Once(o)
    BY <1>3, Constants DEF OrdersOnce
  <2>2. run' = [run EXCEPT ![p].todo = o] /\ pc'[p] = Onwards(o)
    BY <1>1, <1>3 DEF Begin, Starts, Goto, Starting
  <2>3. run'[p].todo = o /\ run'[p].built = Fresh.built
    BY <1>1, <1>2, <2>2 DEF IsRun
  <2>4. /\ pc'[p] \in Labels /\ pc'[p] \notin {"push", "write", "helm"}
        /\ pc'[p] = "list" => o = <<>>
    BY <2>2 DEF Onwards, Labels
  <2>5. QED
    BY <1>3, <2>1, <2>3, <2>4, FreshIsRun DEF RunOK, Once
<1>4. CASE ~(p \in Starting /\ Job[p].build)
  <2>1. /\ p \in Starting => run' = run /\ pc'[p] = "helm"
        /\ p \notin Starting => pc'[p] = "pull"
    BY <1>1, <1>4 DEF Begin, Starts, Goto, Starting
  <2>2. QED
    BY <1>2, <1>4, <2>1 DEF RunOK, Labels
<1>5. QED
  BY <1>3, <1>4

\* sv build, and a start that only runs helm.
LEMMA OthersKeep ==
    ASSUME TypeInv, NEW p \in Procs, ~(p \in Starting /\ Job[p].build),
           RunOK(p), Step(p)
    PROVE  RunOK(p)'
<1>1. /\ pc \in [Procs -> AuthLabels \cup Labels] /\ DOMAIN run = Procs
      /\ pc[p] \in Labels
  BY StepGoes DEF TypeInv, ProcsOK
<1>2. \A label : Goto(p, label) => pc'[p] = label
  BY <1>1 DEF Goto
<1>3. Exit(p) => run'[p] = Fresh /\ pc'[p] = "over"
  BY <1>1, <1>2 DEF Exit
<1>4. CASE p \in Starting
  <2>1. pc[p] = "helm"
    BY <1>1, <1>4 DEF RunOK
  <2>2. Exit(p)
    BY <2>1 DEF Step, Pull, Build, Push, List, Write, Helm, Fail
  <2>3. QED
    BY <1>3, <2>2 DEF RunOK, Labels
<1>5. CASE p \notin Starting
  <2>1. PICK label \in Labels \cup {"over"} : Goto(p, label)
    BY StepGoes
  <2>2. \A r : NextContainer(p, r) => Exit(p) \/ pc'[p] \in Labels
    BY <1>2 DEF NextContainer, Onwards, Labels
  <2>3. Exit(p) \/ pc'[p] \in Labels
    BY <1>2, <2>2 DEF Step, Pull, Build, Push, List, Write, Helm, Fail, Labels
  <2>4. QED
    BY <1>3, <1>5, <2>3 DEF RunOK
<1>6. QED
  BY <1>4, <1>5

LEMMA BuildNext ==
    ASSUME Concurrent = FALSE, OrdersOnce, TypeInv, Alone, BuildInv, [Next]_vars
    PROVE  BuildInv'
<1>1. ASSUME NEW p \in Procs, Begin(p) \/ Step(p) \/ Authenticate(p)
      PROVE  BuildInv'
  <2>1. RunOK(p) /\ IsRun(run[p]) /\ DOMAIN run = Procs
    BY DEF BuildInv, TypeInv, ProcsOK, ProcOK
  <2>2. RunOK(p)'
    <3>1. CASE Begin(p)
      BY <2>1, <3>1, BeginKeeps
    <3>2. CASE Step(p)
      <4>1. CASE p \in Starting /\ Job[p].build
        BY <2>1, <3>2, <4>1, PullKeeps, BuildKeeps, PushKeeps, RestKeeps DEF Step
      <4>2. CASE ~(p \in Starting /\ Job[p].build)
        BY <2>1, <3>2, <4>2, OthersKeep
      <4>3. QED
        BY <4>1, <4>2
    <3>3. CASE Authenticate(p)
      <4>1. PICK label \in AuthLabels : Goto(p, label)
        BY <3>3, AuthSteps DEF TypeInv, Authenticate
      <4>2. pc'[p] \notin Labels /\ pc[p] \notin Labels /\ run' = run
        BY <3>3, <4>1, AuthSteps, Labelled
           DEF TypeInv, ProcsOK, Authenticate, Goto, AuthFiles, Labels
      <4>3. QED
        BY <2>1, <4>2 DEF RunOK
    <3>4. QED
      BY <1>1, <3>1, <3>2, <3>3
  <2>3. ASSUME NEW q \in Procs \ {p}
        PROVE  RunOK(q)'
    <3>1. pc'[q] = pc[q] /\ pc[q] \notin Labels
      BY <1>1, Actor, Labelled
    <3>2. run[q] = Fresh
      BY <3>1 DEF BuildInv, RunOK
    <3>3. run'[q] = run[q]
      BY <1>1, OtherRuns
    <3>4. QED
      BY <3>1, <3>2, <3>3 DEF RunOK
  <2>4. QED
    BY <2>2, <2>3 DEF BuildInv
<1>2. ASSUME UNCHANGED <<pc, machine, imageVars, svjson, run>>
      PROVE  BuildInv'
  BY <1>2 DEF BuildInv, RunOK, BuiltOK, Once, BuildDaemon, PushTag, LocalTag,
     Prefix, imageVars
<1>3. CASE \E e \in Envs, c \in Deployed : Retry(e, c)
  BY <1>2, <1>3 DEF Retry
<1>4. CASE \E c \in Containers : Edit(c)
  BY <1>2, <1>4 DEF Edit
<1>5. QED
  BY <1>1, <1>2, <1>3, <1>4 DEF Next, vars

LEMMA BuildInvariant ==
    ASSUME Concurrent = FALSE, OrdersOnce
    PROVE  Spec => [](TypeInv /\ Alone /\ BuildInv)
<1> DEFINE Inv == TypeInv /\ Alone /\ BuildInv
<1>1. Init => Inv
  <2> SUFFICES ASSUME Init PROVE Alone /\ BuildInv
    BY InitType
  <2>1. \A p \in Procs : pc[p] = "idle" /\ run[p] = Fresh
    BY DEF Init, AuthInit
  <2>2. QED
    BY <2>1 DEF Alone, Running, BuildInv, RunOK, Labels
<1>2. Inv /\ [Next]_vars => Inv'
  BY TypeNext, AloneNext, BuildNext
<1>3. QED
  BY <1>1, <1>2, PTL DEF Spec

\* After a push that succeeded, the registry has what the invocation has built,
\* on a machine where docker finds the daemon that getDockerEnv chooses.
THEOREM PushesWhatItBuilt ==
    ASSUME Concurrent = FALSE, OrdersOnce, "minikube" \notin Machines
    PROVE  Spec => PushedIsBuilt
<1>1. TypeInv /\ Alone /\ BuildInv /\ [Next]_vars => [PushedIsBuiltStep]_vars
  <2> SUFFICES ASSUME TypeInv, Alone, BuildInv, [Next]_vars, NEW p \in Starting,
                      pc[p] = "push", pc'[p] \notin {"push", "over"}
               PROVE  registry'[PushTag(p, Current(p))] = run[p].built[Current(p)]
    BY DEF PushedIsBuiltStep
  <2> DEFINE c == Current(p)
  <2>1. p \in Procs /\ Running(p)
    BY Constants, Labelled DEF Labels
  <2>2. PICK q \in Procs : Begin(q) \/ Step(q) \/ Authenticate(q)
    BY DEF Next, Retry, Edit, vars
  <2>3. q = p
    BY <2>1, <2>2, Actor
  <2>4. Push(p)
    <3>1. Exit(p) => pc'[p] = "over"
      BY <2>1 DEF Exit, Goto, TypeInv, ProcsOK
    <3>2. Step(p)
      BY <2>2, <2>3, AuthSteps DEF Begin, Starts, Authenticate, TypeInv, AuthFiles
    <3>3. QED
      BY <3>1, <3>2 DEF Step, Pull, Build, List, Write, Helm, Fail
  <2>5. c \in Containers /\ c = run[p].todo[1]
    BY <2>1, CurrentType DEF TypeInv, AtContainer
  <2>6. RunOK(p) /\ PushTag(p, c) # Nil
    BY <2>1 DEF BuildInv, TypeInv, ProcsOK, ProcOK
  <2>7. Job[p].build /\ BuiltOK(p, c)
    BY <2>5, <2>6 DEF RunOK, Labels, PushTag
  <2>8. images["host"][PushTag(p, c)] = run[p].built[c]
    BY <2>6, <2>7 DEF BuiltOK, BuildDaemon, TypeInv, World
  <2>9. PushTag(p, c) \in Tags /\ DOMAIN registry = Tags
    BY <2>5, <2>6, TagTypes DEF TypeInv, World, IsStore
  <2>10. QED
    BY <2>4, <2>8, <2>9 DEF Push
<1>2. QED
  BY <1>1, BuildInvariant, PTL DEF Spec, PushedIsBuilt
-----------------------------------------------------------------------------
\* What helm makes of a start that builds what its pods are to run.
LEMMA HelmDelivers ==
    ASSUME TypeInv, BuildInv, NEW p \in Starting, NEW c \in Deployed, Helm(p),
           Delivering(p), run[p].built[c] # NoImage, ~Stale(Job[p].env, c)
    PROVE  LET new == release'[Job[p].env]
           IN  /\ new.pods[c] = run[p].built[c]
               /\ new.sum[c] = run[p].built[c]
<1> DEFINE e == Job[p].env
           image == run[p].built[c]
           old == release[e]
<1>1. /\ c \in Containers /\ c \notin External /\ e \in Envs /\ p \in Procs
  BY Constants DEF Deployed
<1>2. BuiltOK(p, c) /\ svjson = images[BuildDaemon] /\ pc[p] = "helm"
  BY <1>1 DEF Helm, Delivering, BuildInv, RunOK, Labels
<1>3. images[BuildDaemon][Ref(p, c)] = image /\ Found(e, Ref(p, c)) = image
  <2>1. CASE e = "local"
    BY <1>2, <2>1 DEF BuiltOK, LocalTag, Ref, Found
  <2>2. CASE e # "local"
    <3>1. Job[p].push /\ machine # "minikube" /\ PushTag(p, c) = Ref(p, c)
      BY <1>1, <2>2 DEF Delivering, PushTag, Ref
    <3>2. PushTag(p, c) # Nil
      BY <3>1, <1>1, TagTypes, Constants DEF Tagged
    <3>3. QED
      BY <1>2, <2>2, <3>1, <3>2 DEF BuiltOK, Found
  <2>3. QED
    BY <2>1, <2>2
<1>4. release'[e] = Upgraded(p)
  BY <1>1 DEF Helm, TypeInv, World
<1>5. Upgraded(p).sum[c] = image
  BY <1>2, <1>3 DEF Upgraded
<1>6. /\ Upgraded(p).pods[c] # image =>
            /\ old # Nil /\ Upgraded(p).pods[c] = old.pods[c]
            /\ old.sum[c] = image
  BY <1>2, <1>3 DEF Upgraded
<1>7. Upgraded(p).pods[c] = image
  BY <1>6 DEF Stale
<1>8. QED
  BY <1>4, <1>5, <1>7

\* When helm is through, the pods run the very images that the start has built,
\* unless they were stale before, if no other command ran meanwhile and the order
\* of builds has no container twice.
THEOREM StartDelivers ==
    ASSUME Concurrent = FALSE, OrdersOnce
    PROVE  Spec => Delivers
<1>1. TypeInv /\ Alone /\ BuildInv /\ [Next]_vars => [DeliversStep]_vars
  <2> SUFFICES ASSUME TypeInv, Alone, BuildInv, [Next]_vars,
                      NEW p \in Starting, NEW c \in Deployed,
                      pc[p] = "helm", pc'[p] = "over", release' # release,
                      Delivering(p), run[p].built[c] # NoImage,
                      ~Stale(Job[p].env, c)
               PROVE  release'[Job[p].env].pods[c] = run[p].built[c]
    BY DEF DeliversStep
  <2>1. p \in Procs /\ Running(p)
    BY Constants, Labelled DEF Labels
  <2>2. PICK q \in Procs : Begin(q) \/ Step(q) \/ Authenticate(q)
    BY DEF Next, Retry, Edit, vars
  <2>3. q = p
    BY <2>1, <2>2, Actor
  <2>4. Helm(p)
    <3>1. CASE Begin(q) \/ Step(q)
      BY <2>3, <3>1, StepGoes
    <3>2. CASE Authenticate(q)
      BY <3>2 DEF Authenticate
    <3>3. QED
      BY <2>2, <3>1, <3>2
  <2>5. QED
    BY <2>4, HelmDelivers
<1>2. QED
  BY <1>1, BuildInvariant, PTL DEF Spec, Delivers
-----------------------------------------------------------------------------
LEMMA InTail ==
    ASSUME NEW o \in Seq(Containers), o # <<>>, NEW i \in DOMAIN o, i # 1
    PROVE  \E j \in DOMAIN Tail(o) : Tail(o)[j] = o[i]
<1>1. /\ Len(o) \in Nat /\ i \in 1 .. Len(o)
      /\ DOMAIN Tail(o) = 1 .. Len(o) - 1
  OBVIOUS
<1>2. i - 1 \in DOMAIN Tail(o) /\ Tail(o)[i - 1] = o[i]
  BY <1>1
<1>3. QED
  BY <1>2

\* A step of a start leaves its containers built or on the list.
LEMMA CoverKeeps ==
    ASSUME OrdersWhole, TypeInv, CoverInv, NEW p \in Starting, NEW c \in Deployed,
           Job[p].build, ~MayBeSkipped(p, c), Begin(p) \/ Step(p), pc'[p] \in Labels
    PROVE  Covered(p, c)'
<1> DEFINE todo == run[p].todo
<1>1. /\ p \in Procs /\ c \in Containers /\ IsRun(run[p]) /\ DOMAIN run = Procs
      /\ \A label : Goto(p, label) => pc'[p] = label
  BY Constants DEF TypeInv, ProcsOK, ProcOK, Goto
<1>2. pc[p] \in Labels => Covered(p, c)
  BY DEF CoverInv
<1>3. ~Exit(p)
  BY <1>1 DEF Exit, Labels
<1>4. ASSUME NEW r, IsRun(r), r.todo = todo, todo # <<>>, NextContainer(p, r),
             \/ r.built[c] # NoImage
             \/ \E i \in DOMAIN todo : todo[i] = c /\ i # 1
      PROVE  Covered(p, c)'
  <2>1. /\ run'[p].todo = Tail(todo) /\ run'[p].built = r.built
        /\ pc'[p] # "push" /\ todo \in Seq(Containers)
    BY <1>4, StartNext DEF Onwards, IsRun
  <2>2. QED
    BY <1>4, <2>1, InTail DEF Covered
<1>5. CASE Begin(p)
  <2> DEFINE o == BuildOrder[Job[p].env]
  <2>1. run' = [run EXCEPT ![p].todo = o] /\ pc'[p] # "push"
    BY <1>1, <1>5 DEF Begin, Starts, Starting, Onwards
  <2>2. run'[p].todo = o
    BY <1>1, <2>1 DEF IsRun
  <2>3. QED
    BY <2>1, <2>2 DEF OrdersWhole, Covered
<1>6. CASE Pull(p)
  <2>1. pc[p] = "pull" /\ pc'[p] = "build" /\ run' = run
    BY <1>1, <1>6 DEF Pull
  <2>2. QED
    BY <1>2, <2>1 DEF Labels, Covered
<1>7. CASE Build(p)
  <2>1. PICK b \in Containers : b = Current(p)
    BY <1>1, <1>7, BuildIs
  <2> DEFINE note == Noted(p, b)
  <2>2. /\ pc[p] = "build"
        /\ \/ MayBeSkipped(p, b) /\ NextContainer(p, run[p])
           \/ NextContainer(p, note)
           \/ run' = [run EXCEPT ![p] = note]
    BY <1>1, <1>7, <2>1, BuildIs
  <2>3. /\ IsRun(note) /\ note.todo = todo /\ note.built[b] = Built(p, b)
        /\ \A d \in Containers \ {b} : note.built[d] = run[p].built[d]
        /\ Built(p, b) # NoImage
    BY <1>1, <2>1, NotedIs, BuiltType DEF TypeInv
  <2>4. todo # <<>> /\ b = todo[1]
    BY <1>1, <2>1, <2>2, CurrentType DEF TypeInv, AtContainer
  <2>5. \/ run[p].built[c] # NoImage
        \/ \E i \in DOMAIN todo : todo[i] = c
    <3>1. Covered(p, c)
      BY <1>2, <2>2 DEF Labels
    <3>2. QED
      BY <3>1 DEF Covered
  <2> HIDE DEF note
  <2>6. \/ note.built[c] # NoImage
        \/ \E i \in DOMAIN todo : todo[i] = c /\ i # 1
    BY <1>1, <2>3, <2>4, <2>5
  <2>7. CASE MayBeSkipped(p, b) /\ NextContainer(p, run[p])
    BY <1>1, <1>4, <2>4, <2>5, <2>7
  <2>8. CASE NextContainer(p, note)
    BY <1>4, <2>3, <2>4, <2>6, <2>8
  <2>9. CASE run' = [run EXCEPT ![p] = note]
    <3>1. run'[p] = note
      BY <1>1, <2>9
    <3>2. QED
      BY <2>3, <2>6, <3>1 DEF Covered
  <2>10. QED
    BY <2>2, <2>7, <2>8, <2>9
<1>8. CASE Push(p)
  <2>1. pc[p] = "push" /\ NextContainer(p, run[p])
    BY <1>3, <1>8 DEF Push
  <2>2. todo # <<>>
    BY <1>1, <2>1, CurrentType DEF TypeInv, AtContainer
  <2>3. Covered(p, c)
    BY <1>2, <2>1 DEF Labels
  <2>4. \/ run[p].built[c] # NoImage
        \/ \E i \in DOMAIN todo : todo[i] = c /\ i # 1
    BY <2>1, <2>3 DEF Covered
  <2>5. QED
    BY <1>1, <1>4, <2>1, <2>2, <2>4
<1>9. CASE List(p) \/ Write(p)
  <2>1. /\ \E ids : run' = [run EXCEPT ![p].ids = ids]
        /\ pc[p] \in {"list", "write"} /\ pc'[p] # "push"
    BY <1>1, <1>3, <1>9 DEF List, Write
  <2>2. run'[p].todo = todo /\ run'[p].built = run[p].built
    BY <1>1, <2>1 DEF IsRun
  <2>3. QED
    BY <1>2, <2>1, <2>2 DEF Labels, Covered
<1>10. CASE Helm(p) \/ Fail(p)
  BY <1>3, <1>10 DEF Helm, Fail
<1>11. QED
  BY <1>5, <1>6, <1>7, <1>8, <1>9, <1>10 DEF Step

LEMMA CoverNext ==
    ASSUME OrdersWhole, TypeInv, CoverInv, [Next]_vars
    PROVE  CoverInv'
<1>1. ASSUME NEW p \in Procs, Begin(p) \/ Step(p) \/ Authenticate(p)
      PROVE  CoverInv'
  <2> SUFFICES ASSUME NEW q \in Starting, NEW c \in Deployed, pc'[q] \in Labels,
                      Job[q].build, ~MayBeSkipped(q, c)
               PROVE  Covered(q, c)'
    BY DEF CoverInv, MayBeSkipped
  <2>1. CASE q # p
    <3>1. run'[q] = run[q] /\ pc'[q] = pc[q]
      <4>1. q \in Procs \ {p} /\ pc \in [Procs -> AuthLabels \cup Labels]
        BY <2>1, Constants DEF TypeInv, ProcsOK
      <4>2. PICK label : Goto(p, label)
        BY <1>1, StepGoes, AuthSteps DEF Authenticate, TypeInv
      <4>3. QED
        BY <1>1, <4>1, <4>2, OtherRuns DEF Goto
    <3>2. QED
      BY <3>1 DEF CoverInv, Covered
  <2>2. CASE q = p /\ (Begin(p) \/ Step(p))
    BY <2>2, CoverKeeps
  <2>3. CASE q = p /\ Authenticate(p)
    <3>1. PICK label \in AuthLabels : Goto(p, label)
      BY <2>3, AuthSteps DEF Authenticate, TypeInv
    <3>2. pc'[p] \in AuthLabels
      BY <3>1 DEF Goto, TypeInv, ProcsOK
    <3>3. QED
      BY <2>3, <3>2, Labelled
  <2>4. QED
    BY <1>1, <2>1, <2>2, <2>3
<1>2. CASE UNCHANGED <<pc, run>>
  BY <1>2 DEF CoverInv, Covered, MayBeSkipped
<1>3. QED
  BY <1>1, <1>2 DEF Next, vars, Retry, Edit

LEMMA PodsNext ==
    ASSUME Concurrent = FALSE, TypeInv, Alone, BuildInv, CoverInv, PodsInv,
           [Next]_vars
    PROVE  PodsInv'
<1> SUFFICES ASSUME NEW e \in Envs, NEW c \in Deployed, NoCause(e, c)',
                    release'[e] # Nil
             PROVE  /\ release'[e].pods[c] # NoImage
                    /\ release'[e].pods[c] = release'[e].sum[c]
  BY DEF PodsInv
<1>1. machine' = machine
  BY DEF Next, Begin, Step, Pull, Build, Push, List, Write, Helm, Fail,
     Authenticate, Retry, Edit, vars
<1>2. ASSUME NEW p \in Procs, pc[p] = "over" PROVE pc'[p] = "over"
  <2>1. CASE \E q \in Procs : Begin(q) \/ Step(q) \/ Authenticate(q)
    BY <1>2, <2>1, Actor DEF Terminal
  <2>2. CASE pc' = pc
    BY <1>2, <2>2
  <2>3. QED
    BY <2>1, <2>2 DEF Next, vars, Retry, Edit
<1>3. NoCause(e, c)
  BY <1>1, <1>2, Constants DEF NoCause, Delivering, MayBeSkipped
<1>4. release[e] # Nil => /\ release[e].pods[c] # NoImage
                          /\ release[e].pods[c] = release[e].sum[c]
  BY <1>3 DEF PodsInv
<1>5. CASE UNCHANGED release
  BY <1>4, <1>5
<1>6. ASSUME NEW d \in Envs, NEW b \in Deployed, Retry(d, b)
      PROVE  /\ release'[e].pods[c] # NoImage
             /\ release'[e].pods[c] = release'[e].sum[c]
  <2>1. /\ release[d] # Nil /\ release[d].pods[b] = NoImage
        /\ \A f \in Envs \ {d} : release'[f] = release[f]
        /\ \A f \in Deployed \ {b} : release'[d].pods[f] = release[d].pods[f]
        /\ release'[d].sum = release[d].sum
    BY <1>6, RetryIs
  <2>2. CASE e = d
    <3>1. c # b
      BY <1>4, <2>1, <2>2
    <3>2. QED
      BY <1>4, <2>1, <2>2, <3>1
  <2>3. CASE e # d
    BY <1>4, <2>1, <2>3
  <2>4. QED
    BY <2>2, <2>3
<1>7. ASSUME NEW p \in Procs, Helm(p)
      PROVE  /\ release'[e].pods[c] # NoImage
             /\ release'[e].pods[c] = release'[e].sum[c]
  <2>1. /\ pc[p] = "helm" /\ DOMAIN release = Envs
        /\ release' = [release EXCEPT ![Job[p].env] = Upgraded(p)]
    BY <1>7 DEF Helm, TypeInv, World
  <2>2. p \in Starting
    BY <2>1 DEF TypeInv, ProcsOK, ProcOK
  <2>3. CASE Job[p].env # e
    BY <1>4, <2>1, <2>3
  <2>4. CASE Job[p].env = e
    <3>1. Delivering(p) /\ ~MayBeSkipped(p, c)
      <4>1. p \in Procs /\ pc \in [Procs -> AuthLabels \cup Labels]
        BY <2>2, Constants DEF TypeInv, ProcsOK
      <4>2. pc'[p] = "over"
        BY <1>7, <4>1 DEF Helm, Exit, Goto
      <4>3. (Delivering(p) /\ ~MayBeSkipped(p, c))'
        BY <2>2, <2>4, <4>2 DEF NoCause
      <4>4. QED
        BY <1>1, <4>3 DEF Delivering, MayBeSkipped
    <3>2. run[p].todo = <<>> /\ Covered(p, c)
      BY <2>1, <2>2, <3>1 DEF BuildInv, RunOK, Labels, CoverInv, Delivering
    <3>3. run[p].built[c] # NoImage
      BY <3>2 DEF Covered
    <3>4. ~Stale(e, c)
      BY <1>4 DEF Stale
    <3>5. QED
      BY <1>7, <2>2, <2>4, <3>1, <3>3, <3>4, HelmDelivers
  <2>5. QED
    BY <2>3, <2>4
<1>8. CASE \E p \in Procs : Begin(p) \/ Step(p) \/ Authenticate(p)
  BY <1>5, <1>7, <1>8, StepGoes DEF Authenticate
<1>9. QED
  BY <1>5, <1>6, <1>8 DEF Next, Edit, vars

\* Pods run another image than their annotation says only where some start is
\* over that did not build for them, if commands run one by one and the order
\* of builds has every container, and none twice.
THEOREM StalePodsExplained ==
    ASSUME Concurrent = FALSE, OrdersOnce, OrdersWhole
    PROVE  Spec => []StaleHasCause
<1> DEFINE Inv == TypeInv /\ Alone /\ BuildInv /\ CoverInv /\ PodsInv
<1>1. Init => CoverInv /\ PodsInv
  <2> SUFFICES ASSUME Init PROVE CoverInv /\ PodsInv
    OBVIOUS
  <2>1. /\ \A p \in Procs : pc[p] = "idle"
        /\ \A e \in Envs : release[e] = Nil
    BY DEF Init, AuthInit
  <2>2. CoverInv
    BY <2>1, Constants DEF CoverInv, Labels
  <2>3. PodsInv
    BY <2>1 DEF PodsInv
  <2>4. QED
    BY <2>2, <2>3
<1>2. TypeInv /\ Alone /\ BuildInv /\ CoverInv /\ PodsInv /\ [Next]_vars =>
          CoverInv' /\ PodsInv'
  BY CoverNext, PodsNext
<1>3. PodsInv => StaleHasCause
  <2> SUFFICES ASSUME PodsInv, NEW e \in Envs, NEW c \in Deployed, Stale(e, c)
               PROVE  ~NoCause(e, c)
    BY DEF StaleHasCause, NoCause
  <2>1. QED
    BY DEF PodsInv, Stale
<1>4. QED
  BY <1>1, <1>2, <1>3, BuildInvariant, PTL DEF Spec
=============================================================================

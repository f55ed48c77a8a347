------------------------------ MODULE LogWatch ------------------------------
(***************************************************************************)
(* `sv logs --watch` (sv/sv.js): every 2 seconds watchPods lists the       *)
(* containers that run, spawns a `kubectl logs -f` for each one it has no  *)
(* entry for in _watched, and kills the children of those not listed.  The *)
(* "close" event of a child removes its entry.                             *)
(*                                                                         *)
(* The list comes from a synchronous kubectl call and is used in the same  *)
(* turn of the event loop: the cluster and the children may change between *)
(* the two, but no "close" event is delivered there.                       *)
(***************************************************************************)
EXTENDS Naturals, FiniteSets

CONSTANTS
    Keys,       \* "<pod>:<container>" of the pods the filter matches
    MaxKids     \* bound: children of one key that exist at the same time

ASSUME LogAssumption == MaxKids \in Nat \ {0}

Kids == 1..MaxKids

VARIABLES
    cluster,    \* per container: "off", "on", or "leaving" (pod being deleted)
    kid,        \* child processes: "none", "following" the log, "ended" (the
                \* stream is over or the child was killed), or "exited"
    watched,    \* _watched: the child of the entry, 0 if there is no entry
    names,      \* what kubectl listed in this turn of watchPods
    at          \* watchPods: "idle" between two turns, "listed", or "crashed"

vars == <<cluster, kid, watched, names, at>>

Init ==
    /\ cluster \in [Keys -> {"off", "on"}]
    /\ kid = [k \in Keys |-> [n \in Kids |-> "none"]]
    /\ watched = [k \in Keys |-> 0]
    /\ names = {}
    /\ at = "idle"

\* getCurrentPods: running containers of the pods not scheduled for deletion.
List ==
    /\ at = "idle"
    /\ names' = {k \in Keys : cluster[k] = "on"}
    /\ at' = "listed"
    /\ UNCHANGED <<cluster, kid, watched>>

\* A mutated form: the error is caught, the names of before are kept.
ListKept ==
    /\ at = "idle"
    /\ names' = {k \in Keys : watched[k] # 0}
    /\ UNCHANGED <<cluster, kid, watched, at>>

\* kubectl fails: the promise of watchPods is rejected, nothing handles it
\* and node exits.  The children are not killed.
ListFails ==
    /\ at = "idle"
    /\ at' = "crashed"
    /\ watched' = [k \in Keys |-> 0]
    /\ UNCHANGED <<cluster, kid, names>>

Free(k) == {n \in Kids : kid[k][n] = "none"}
\* A mutated form: the entry of _watched is not looked at.
SpawnsAlways(k) == k \in names

Spawns(k) == k \in names /\ watched[k] = 0
\* A mutated form: the condition is the other way round.
KillsListed(k, n) == k \in names /\ watched[k] = n

Kills(k, n) == k \notin names /\ watched[k] = n

\* A new child follows the log of a container that still runs.
Spawned(k) == IF cluster[k] = "off" THEN "ended" ELSE "following"
Killed(st) == IF st = "following" THEN "ended" ELSE st

\* A mutated form: a killed child loses its entry at once.
ApplyForgets ==
    /\ at = "listed"
    /\ \E new \in [Keys -> Kids] :
        /\ \A k \in Keys : Spawns(k) => new[k] \in Free(k)
        /\ watched' = [k \in Keys |-> IF Spawns(k) THEN new[k]
                                      ELSE IF k \in names THEN watched[k]
                                      ELSE 0]
        /\ kid' = [k \in Keys |-> [n \in Kids |->
                      IF Spawns(k) /\ n = new[k] THEN Spawned(k)
                      ELSE IF Kills(k, n) THEN Killed(kid[k][n])
                      ELSE kid[k][n]]]
    /\ names' = {}
    /\ at' = "idle"
    /\ UNCHANGED cluster

\* The rest of watchPods: spawn for the new names, kill for the others.
Apply ==
    /\ at = "listed"
    /\ \E new \in [Keys -> Kids] :
        /\ \A k \in Keys : Spawns(k) => new[k] \in Free(k)
        /\ watched' = [k \in Keys |->
                          IF Spawns(k) THEN new[k] ELSE watched[k]]
        /\ kid' = [k \in Keys |-> [n \in Kids |->
                      IF Spawns(k) /\ n = new[k] THEN Spawned(k)
                      ELSE IF Kills(k, n) THEN Killed(kid[k][n])
                      ELSE kid[k][n]]]
    /\ names' = {}
    /\ at' = "idle"
    /\ UNCHANGED cluster

\* A mutated form: the entry stays.
CloseKeeps(k, n) ==
    /\ at = "idle"
    /\ kid[k][n] = "exited"
    /\ kid' = [kid EXCEPT ![k][n] = "none"]
    /\ UNCHANGED <<cluster, watched, names, at>>

\* child.on("close"): `delete _watched[key]`, whichever child the entry names.
Close(k, n) ==
    /\ at = "idle"
    /\ kid[k][n] = "exited"
    /\ kid' = [kid EXCEPT ![k][n] = "none"]
    /\ watched' = [watched EXCEPT ![k] = 0]
    /\ UNCHANGED <<cluster, names, at>>

\* A child whose stream is over exits.  After a crash nobody waits for it.
Exit(k, n) ==
    /\ kid[k][n] = "ended"
    /\ kid' = [kid EXCEPT ![k][n] =
                  IF at = "crashed" THEN "none" ELSE "exited"]
    /\ UNCHANGED <<cluster, watched, names, at>>

\* The connection to the cluster may end any stream.
Disconnect(k, n) ==
    /\ kid[k][n] = "following"
    /\ kid' = [kid EXCEPT ![k][n] = "ended"]
    /\ UNCHANGED <<cluster, watched, names, at>>

\* The cluster: a container starts (again), its pod is deleted, it stops.
StartContainer(k) ==
    /\ cluster[k] = "off"
    /\ cluster' = [cluster EXCEPT ![k] = "on"]
    /\ UNCHANGED <<kid, watched, names, at>>

DeletePod(k) ==
    /\ cluster[k] = "on"
    /\ cluster' = [cluster EXCEPT ![k] = "leaving"]
    /\ UNCHANGED <<kid, watched, names, at>>

StopContainer(k) ==
    /\ cluster[k] # "off"
    /\ cluster' = [cluster EXCEPT ![k] = "off"]
    /\ kid' = [kid EXCEPT ![k] = [n \in Kids |-> Killed(kid[k][n])]]
    /\ UNCHANGED <<watched, names, at>>

Child(k, n) == Close(k, n) \/ Exit(k, n) \/ Disconnect(k, n)
Container(k) == StartContainer(k) \/ DeletePod(k) \/ StopContainer(k)

Next ==
    \/ List \/ ListFails \/ Apply
    \/ \E k \in Keys : Container(k) \/ \E n \in Kids : Child(k, n)

\* setInterval fires again and again, a turn of the loop runs to its end, a
\* child whose stream is over exits, and its event is delivered.  The list
\* succeeds whenever kubectl does, which ListFails may prevent once for all.
Fairness ==
    /\ WF_vars(List) /\ WF_vars(Apply)
    /\ \A k \in Keys, n \in Kids : WF_vars(Exit(k, n)) /\ SF_vars(Close(k, n))

Spec == Init /\ [][Next]_vars /\ Fairness
-----------------------------------------------------------------------------
KidStates == {"none", "following", "ended", "exited"}

\* The type of every variable.  The names live for one turn only.
TypeOK ==
    /\ cluster \in [Keys -> {"off", "on", "leaving"}]
    /\ kid \in [Keys -> [Kids -> KidStates]]
    /\ watched \in [Keys -> Kids \cup {0}]
    /\ names \in SUBSET Keys
    /\ names # {} => at = "listed"
    /\ at \in {"idle", "listed", "crashed"}

\* While the program runs _watched is exact: a container has an entry if and
\* only if it has a child that was not reaped, and the entry names that child.
\* In particular the program never has two children for one container, and no
\* child that it has forgotten and will not kill.
WatchedIsExact ==
    at # "crashed" =>
        \A k \in Keys, n \in Kids : (kid[k][n] # "none") <=> (watched[k] = n)

Children(k) == {n \in Kids : kid[k][n] # "none"}

\* LogFollow's promise, kept by this program.
Follow == INSTANCE LogFollow WITH
    streams <- [k \in Keys |-> Children(k)],
    up <- at # "crashed"
FollowSpec == Follow!Spec

Up == at # "crashed"
Followed(k) == \E n \in Kids : kid[k][n] = "following"

\* "--watch ... will listen to the current and future iterations": a container
\* that keeps running, whatever it did before, is followed again and again,
\* as long as no list fails.
IterationsFollowed ==
    \A k \in Keys : <>[](cluster[k] = "on" /\ Up) => []<>Followed(k)

\* The children of a container that is gone are reaped in the end, by the
\* kill of a later turn if not by the end of the log.
GoneContainersReaped ==
    \A k \in Keys : <>[](cluster[k] # "on" /\ Up) => <>[](Children(k) = {})
=============================================================================

---------------------------- MODULE PodCommands ----------------------------
(***************************************************************************)
(* The commands that list the pods of the cluster and then run kubectl for *)
(* some of them by name (sv/sv.js, sv/scripts.js): sv restartPod,          *)
(* deleteFailedPods, deleteEvicted, enterPod, execPod, describePod,        *)
(* copyFrom, copyTo and logFailed.  The list is stale by then: kubernetes  *)
(* and other shells replace pods in between.  The model's pods are those   *)
(* of the current namespace, which is what these commands list:            *)
(* docs/sv_deleteEvicted.md says "on the current cluster".                 *)
(***************************************************************************)
EXTENDS Naturals, FiniteSets

CONSTANTS
    Names,    \* names of pods in the current namespace
    Sticky,   \* those of StatefulSets, which one pod after another has
    Procs,    \* shells, which run one command after another
    Lines,    \* their command lines: cmd, and match, the names that the
              \* pattern and the container of the arguments leave
    MaxUid,   \* bound: pods that have a sticky name one after another
    Nil

Deleting == {"deleteFailedPods", "deleteEvicted"}
Using == {"enterPod", "execPod"}  \* execPod for describePod and copyFrom, -To
Commands == Deleting \cup Using \cup {"restartPod", "logFailed"}

Phases == {"Pending", "Running", "Failed"}
Pod == [uid : 1..MaxUid, phase : Phases, evicted : BOOLEAN, deleting : BOOLEAN]

ASSUME PodAssumption ==
    /\ Sticky \subseteq Names
    /\ Lines \subseteq [cmd : Commands, match : SUBSET Names]
    /\ MaxUid \in Nat \ {0}
    /\ Nil \notin Lines /\ Nil \notin Pod

VARIABLES
    pod,   \* the pod of each name, Nil if there is none
    uids,  \* how many pods have had the name
    pc,    \* where the command of each shell is
    line,  \* its command line, Nil if none runs
    seen,  \* the pods by name that it will delete, as they were listed
    todo,  \* the names it has still to run kubectl for
    gone   \* the pod whose end its kubectl delete waits for

cluster == <<pod, uids>>
shells == <<pc, line, seen, todo, gone>>
vars == <<pod, uids, pc, line, seen, todo, gone>>

Nothing == [n \in Names |-> Nil]

Goto(p, label, names) == /\ pc' = [pc EXCEPT ![p] = label]
                         /\ todo' = [todo EXCEPT ![p] = names]

\* The program ends, with or without an error: it keeps nothing.
Exit(p) == /\ Goto(p, "idle", {})
           /\ line' = [line EXCEPT ![p] = Nil]
           /\ seen' = [seen EXCEPT ![p] = Nothing]
           /\ gone' = [gone EXCEPT ![p] = Nil]
-----------------------------------------------------------------------------
Init ==
    /\ pod = Nothing
    /\ uids = [n \in Names |-> 0]
    /\ pc = [p \in Procs |-> "idle"]
    /\ line = [p \in Procs |-> Nil]
    /\ seen = [p \in Procs |-> Nothing]
    /\ todo = [p \in Procs |-> {}]
    /\ gone = [p \in Procs |-> Nil]

\* getCurrentPodsV2: the pods that the arguments leave and that are not being
\* deleted.
Listed(l) == {n \in l.match : pod[n] # Nil /\ ~pod[n].deleting}

\* A mutated form: every pod that is not running.
NotRunning(l) == {n \in Listed(l) : pod[n].phase # "Running"}

\* Which of the listed pods the command is about: an evicted pod is a failed
\* one that has no containers, and so none with an error.
Selected(l) == {n \in Listed(l) :
    /\ l.cmd = "deleteFailedPods" => pod[n].phase = "Failed"
    /\ l.cmd = "deleteEvicted" => pod[n].evicted
    /\ l.cmd = "logFailed" => ~pod[n].evicted}

\* A mutated form: every pod that matches is restarted.
RestartPods(found) == found

\* restartPod throws for more than one pod, and at pods[0].name for none.
RestartPod(found) == IF Cardinality(found) = 1 THEN found ELSE {}

\* enterPod, execPod, describePod, copyFrom and copyTo throw for none and take
\* the first pod.
FirstPod(found) == {{n} : n \in found}

\* logFailed: a pod that is up may or may not have a container with an error.
WithErrors(found) ==
    {found \ ready : ready \in SUBSET {n \in found : pod[n].phase # "Failed"}}

\* kubectl get pods, and what each command makes of it; a command that throws
\* at once changes nothing.
List(p, l) ==
    LET found == Selected(l)
        Is(cmds) == l.cmd \in cmds
    IN  /\ pc[p] = "idle"
        /\ line' = [line EXCEPT ![p] = l]
        /\ seen' = [seen EXCEPT ![p] = [n \in Names |->
                       IF Is(Deleting) /\ n \in found THEN pod[n] ELSE Nil]]
        /\ \/ /\ Is({"restartPod"}) /\ RestartPod(found) # {}
              /\ Goto(p, "force", RestartPod(found))
           \/ Is(Using) /\ \E names \in FirstPod(found) : Goto(p, "use", names)
           \/ /\ Is({"logFailed"})
              /\ \E names \in WithErrors(found) : Goto(p, "use", names)
           \/ Is(Deleting) /\ Goto(p, "delete", found)
        /\ UNCHANGED <<cluster, gone>>

\* kubectl delete pod --force --grace-period=0 does not wait for the pod to
\* end; it fails when there is none of that name any more.
ForceDelete(p) ==
    /\ pc[p] = "force"
    /\ \E n \in todo[p] :
        \/ pod[n] = Nil /\ Exit(p) /\ UNCHANGED cluster
        \/ /\ pod[n] # Nil
           /\ pod' = [pod EXCEPT ![n] = Nil]
           /\ Exit(p)
           /\ UNCHANGED uids

\* A mutated form: kubectl delete pod --wait=false.
DeleteAsync(p) ==
    /\ pc[p] = "delete"
    /\ \E n \in todo[p] :
        /\ pod[n] # Nil
        /\ pod' = [pod EXCEPT ![n].deleting = TRUE]
        /\ Goto(p, "delete", todo[p] \ {n})
        /\ UNCHANGED <<uids, line, seen, gone>>

\* A mutated form: a pod that is not there is tried again.
DeleteAgain(p) ==
    /\ pc[p] = "delete"
    /\ \E n \in todo[p] :
        /\ pod[n] # Nil
        /\ pod' = [pod EXCEPT ![n].deleting = TRUE]
        /\ gone' = [gone EXCEPT ![p] = [name |-> n, uid |-> pod[n].uid]]
        /\ Goto(p, "wait", todo[p] \ {n})
        /\ UNCHANGED <<uids, line, seen>>

\* The next turn of the loop of deleteFailedPods or deleteEvicted.  kubectl
\* delete takes the pod that has the name by now; when there is none it fails,
\* execSync throws and the rest of the pods is left.
Delete(p) ==
    /\ pc[p] = "delete"
    /\ \E n \in todo[p] :
        \/ pod[n] = Nil /\ Exit(p) /\ UNCHANGED cluster
        \/ /\ pod[n] # Nil
           /\ pod' = [pod EXCEPT ![n].deleting = TRUE]
           /\ gone' = [gone EXCEPT ![p] = [name |-> n, uid |-> pod[n].uid]]
           /\ Goto(p, "wait", todo[p] \ {n})
           /\ UNCHANGED <<uids, line, seen>>

\* kubectl delete returns when the pod it deleted is gone.
Wait(p) ==
    /\ pc[p] = "wait"
    /\ LET old == gone[p]
       IN  pod[old.name] # Nil => pod[old.name].uid # old.uid
    /\ gone' = [gone EXCEPT ![p] = Nil]
    /\ Goto(p, "delete", todo[p])
    /\ UNCHANGED <<cluster, line, seen>>

\* kubectl exec, describe, cp or logs for one pod.  It may fail, and does when
\* there is no pod of that name: enterPod swallows the error, the others throw.
Use(p) ==
    /\ pc[p] = "use"
    /\ \E n \in todo[p] :
        \/ /\ pod[n] # Nil \/ line[p].cmd = "enterPod"
           /\ Goto(p, "use", todo[p] \ {n})
           /\ UNCHANGED <<cluster, line, seen, gone>>
        \/ line[p].cmd # "enterPod" /\ Exit(p) /\ UNCHANGED cluster

\* The loop is at its end.
Return(p) ==
    /\ pc[p] \in {"use", "delete"}
    /\ todo[p] = {}
    /\ Exit(p)
    /\ UNCHANGED cluster
-----------------------------------------------------------------------------
\* Kubernetes and the other shells.  A deployment makes a name up for each of
\* its pods, a StatefulSet uses the name again when the pod is gone.
Appear(n) ==
    /\ pod[n] = Nil
    /\ uids[n] < IF n \in Sticky THEN MaxUid ELSE 1
    /\ uids' = [uids EXCEPT ![n] = @ + 1]
    /\ pod' = [pod EXCEPT ![n] = [uid |-> uids[n] + 1, phase |-> "Pending",
                                  evicted |-> FALSE, deleting |-> FALSE]]
    /\ UNCHANGED shells

\* A pod comes up, fails or is evicted, which is for good.
Becomes(n) ==
    /\ pod[n] # Nil /\ pod[n].phase # "Failed"
    /\ \/ pod[n].phase = "Pending" /\ pod' = [pod EXCEPT ![n].phase = "Running"]
       \/ \E e \in BOOLEAN :
            pod' = [pod EXCEPT ![n].phase = "Failed", ![n].evicted = e]
    /\ UNCHANGED <<uids, shells>>

DeletedByOthers(n) ==
    /\ pod[n] # Nil /\ ~pod[n].deleting
    /\ pod' = [pod EXCEPT ![n].deleting = TRUE]
    /\ UNCHANGED <<uids, shells>>

\* The grace period of a pod that is being deleted is over.
Removed(n) ==
    /\ pod[n] # Nil /\ pod[n].deleting
    /\ pod' = [pod EXCEPT ![n] = Nil]
    /\ UNCHANGED <<uids, shells>>

Step(p) == \/ ForceDelete(p) \/ Delete(p) \/ Wait(p) \/ Use(p) \/ Return(p)

Next == \/ \E p \in Procs : Step(p) \/ \E l \in Lines : List(p, l)
        \/ \E n \in Names : \/ Appear(n) \/ Becomes(n) \/ DeletedByOthers(n)
                            \/ Removed(n)

\* A program that is started runs on; kubernetes kills the containers of a pod
\* that is being deleted when its grace period is over.
Fairness == /\ \A p \in Procs : WF_vars(Step(p))
            /\ \A n \in Names : WF_vars(Removed(n))

Spec == Init /\ [][Next]_vars /\ Fairness
-----------------------------------------------------------------------------
\* The type of every variable.  restartPod has one pod to restart, and what is
\* deleted or waited for exists or existed.
TypeOK ==
    /\ pod \in [Names -> Pod \cup {Nil}]
    /\ uids \in [Names -> 0..MaxUid]
    /\ pc \in [Procs -> {"idle", "force", "delete", "wait", "use"}]
    /\ \A p \in Procs :
        /\ line[p] \in Lines \cup {Nil}
        /\ line[p] = Nil <=> pc[p] = "idle"
        /\ seen[p] \in [Names -> Pod \cup {Nil}]
        /\ todo[p] \subseteq Names
        /\ pc[p] \in {"delete", "wait"} =>
             \A n \in todo[p] : seen[p][n].uid <= uids[n]
        /\ pc[p] = "force" => Cardinality(todo[p]) = 1
        /\ IF pc[p] = "wait" THEN gone[p].uid <= uids[gone[p].name]
                             ELSE gone[p] = Nil

\* "Delete pods which are in a failed status" (sv/sv.js:792), and likewise for
\* evicted ones: the pod that kubectl deletes has failed when it is deleted, but
\* in one case.  kubectl takes the name from a list that may be minutes old, and
\* a StatefulSet may have given that name to a newer pod since.
DeletesFailedStep ==
    \A p \in Procs : pc[p] = "delete" /\ pc'[p] = "wait" =>
        LET n == gone'[p].name
        IN  \/ pod[n].phase = "Failed"
            \/ n \in Sticky /\ pod[n].uid > seen[p][n].uid
DeletesFailed == [][DeletesFailedStep]_vars

\* When deleteFailedPods or deleteEvicted ends without an error, none of the
\* failed pods it listed is left, whoever else deletes and replaces pods.
CleanedUp ==
    \A p \in Procs, n \in Names :
        pc[p] = "delete" /\ todo[p] = {} /\ seen[p][n] # Nil =>
            (pod[n] = Nil \/ pod[n].uid # seen[p][n].uid)

\* A command ends, whatever happens to the pods and whoever waits for the same
\* ones.
Finishes == \A p \in Procs : (pc[p] # "idle") ~> (pc[p] = "idle")
=============================================================================

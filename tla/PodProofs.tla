----------------------------- MODULE PodProofs -----------------------------
(***************************************************************************)
(* Theorems about PodCommands, for any pods, shells and command lines:     *)
(* what a list of failed pods is still good for when kubectl deletes by    *)
(* name.  Everything rests on two observations: the pods of a name only    *)
(* get newer, and one that has failed stays so.                            *)
(***************************************************************************)
EXTENDS PodCommands, TLAPS

Labels == {"idle", "force", "delete", "wait", "use"}
Pods == Pod \cup {Nil}
End == [name : Names, uid : 1..MaxUid]  \* a pod whose end is waited for

\* The pod of a name is the last that had it, and an evicted pod has failed; a
\* name that is made up is used once.
NameOK(n) ==
    /\ pod[n] # Nil => /\ pod[n].uid = uids[n]
                       /\ pod[n].evicted => pod[n].phase = "Failed"
    /\ n \notin Sticky => uids[n] <= 1

ClusterOK == /\ pod \in [Names -> Pods]
             /\ uids \in [Names -> 0..MaxUid]
             /\ \A n \in Names : NameOK(n)

\* The pod that was listed under the name is gone for good.
Over(p, n) == pod[n] # Nil => pod[n].uid # seen[p][n].uid

\* It has still the name, and still has failed; or another has the name.
StillFailed(p, n) ==
    pod[n] # Nil /\ pod[n].uid = seen[p][n].uid => pod[n].phase = "Failed"

\* Every listed pod had failed.  A name that is not left to do is waited for,
\* or its pod is over; what is waited for has the name of a listed pod and is
\* that pod or a later one.
ListOK(p) ==
    /\ \A n \in Names : seen[p][n] # Nil =>
          /\ seen[p][n].uid <= uids[n] /\ StillFailed(p, n)
          /\ pc[p] = "delete" => n \in todo[p] \/ Over(p, n)
          /\ pc[p] = "wait" =>
                n \in todo[p] \/ n = gone[p].name \/ Over(p, n)
    /\ pc[p] \in {"delete", "wait"} =>
          \A n \in todo[p] : seen[p][n] # Nil
    /\ pc[p] = "wait" =>
          /\ gone[p].uid <= uids[gone[p].name]
          /\ seen[p][gone[p].name] # Nil
          /\ seen[p][gone[p].name].uid <= gone[p].uid

ShellType(p) ==
    /\ line[p] = Nil <=> pc[p] = "idle"
    /\ pc[p] = "force" => Cardinality(todo[p]) = 1
    /\ IF pc[p] = "wait" THEN gone[p] \in End ELSE gone[p] = Nil

ShellsType ==
    /\ pc \in [Procs -> Labels]
    /\ line \in [Procs -> Lines \cup {Nil}]
    /\ seen \in [Procs -> [Names -> Pods]]
    /\ todo \in [Procs -> SUBSET Names]
    /\ gone \in [Procs -> End \cup {Nil}]

PodInv == /\ ClusterOK /\ ShellsType
          /\ \A p \in Procs : ShellType(p) /\ ListOK(p)
-----------------------------------------------------------------------------
LEMMA Constants ==
    /\ MaxUid \in Nat /\ 1 <= MaxUid /\ Nil \notin Pod /\ Nil \notin Lines
    /\ Nothing \in [Names -> Pods]
    /\ \A l \in Lines : l.match \subseteq Names /\ l.cmd \in Commands
BY PodAssumption DEF Nothing, Pods

\* How a step may change the pod of a name.
Ages(n) ==
    /\ uids'[n] >= uids[n]
    /\ pod'[n] # Nil =>
          \/ uids'[n] > uids[n]
          \/ /\ pod[n] # Nil /\ pod'[n].uid = pod[n].uid
             /\ pod[n].phase = "Failed" => pod'[n].phase = "Failed"

LEMMA ClusterStays ==
    ASSUME ClusterOK, UNCHANGED cluster
    PROVE  ClusterOK' /\ \A n \in Names : Ages(n)
BY DEF ClusterOK, NameOK, cluster, Ages

\* A pod goes, or changes in place.
LEMMA PodGoes ==
    ASSUME ClusterOK, NEW n \in Names, pod' = [pod EXCEPT ![n] = Nil],
           UNCHANGED uids
    PROVE  ClusterOK' /\ \A m \in Names : Ages(m)
BY DEF ClusterOK, NameOK, Ages, Pods

LEMMA PodChanges ==
    ASSUME ClusterOK, NEW n \in Names, pod[n] # Nil,
           NEW new \in Pod, new.uid = pod[n].uid,
           new.evicted => new.phase = "Failed",
           pod[n].phase = "Failed" => new.phase = "Failed",
           pod' = [pod EXCEPT ![n] = new], UNCHANGED uids
    PROVE  ClusterOK' /\ \A m \in Names : Ages(m)
<1>1. new # Nil
  BY Constants
<1>2. QED
  BY <1>1 DEF ClusterOK, NameOK, Ages, Pods

\* kubectl delete marks the pod.
LEMMA PodMarked ==
    ASSUME ClusterOK, NEW n \in Names, pod[n] # Nil,
           pod' = [pod EXCEPT ![n].deleting = TRUE], UNCHANGED uids
    PROVE  ClusterOK' /\ \A m \in Names : Ages(m)
<1> DEFINE new == [pod[n] EXCEPT !.deleting = TRUE]
<1>1. pod[n] \in Pod /\ NameOK(n)
  BY DEF ClusterOK, Pods
<1>2. /\ new \in Pod /\ new.uid = pod[n].uid
      /\ new.evicted => new.phase = "Failed"
      /\ pod[n].phase = "Failed" => new.phase = "Failed"
  BY <1>1 DEF Pod, NameOK
<1>3. pod' = [pod EXCEPT ![n] = new]
  OBVIOUS
<1>4. QED
  BY <1>2, <1>3, PodChanges

LEMMA PodAppears ==
    ASSUME ClusterOK, NEW n \in Names, Appear(n)
    PROVE  ClusterOK' /\ \A m \in Names : Ages(m)
<1> DEFINE new == [uid |-> uids[n] + 1, phase |-> "Pending",
                   evicted |-> FALSE, deleting |-> FALSE]
<1>1. /\ uids[n] \in 0..MaxUid /\ uids[n] < MaxUid
      /\ n \notin Sticky => uids[n] + 1 <= 1
  BY Constants DEF Appear, ClusterOK
<1>2. new \in Pod /\ new # Nil
  <2>1. uids[n] + 1 \in 1..MaxUid
    BY <1>1, Constants
  <2>2. new \in Pod
    BY <2>1 DEF Pod, Phases
  <2>3. QED
    BY <2>2, Constants
<1>3. pod' = [pod EXCEPT ![n] = new] /\ uids' = [uids EXCEPT ![n] = @ + 1]
  BY DEF Appear
<1>4. uids' \in [Names -> 0..MaxUid]
  BY <1>1, <1>3, Constants DEF ClusterOK
<1>5. \A m \in Names : m # n => pod'[m] = pod[m] /\ uids'[m] = uids[m]
  BY <1>3 DEF ClusterOK
<1>6. pod'[n] = new /\ uids'[n] = uids[n] + 1
  BY <1>3 DEF ClusterOK
<1>7. NameOK(n)' /\ Ages(n)
  BY <1>1, <1>6 DEF NameOK, Ages
<1>8. ASSUME NEW m \in Names, m # n PROVE NameOK(m)' /\ Ages(m)
  BY <1>5, <1>8 DEF ClusterOK, NameOK, Ages
<1>9. pod' \in [Names -> Pods]
  BY <1>2, <1>3 DEF ClusterOK, Pods
<1>10. QED
  BY <1>4, <1>7, <1>8, <1>9 DEF ClusterOK

LEMMA PodBecomes ==
    ASSUME ClusterOK, NEW n \in Names, Becomes(n)
    PROVE  ClusterOK' /\ \A m \in Names : Ages(m)
<1>1. pod[n] \in Pod /\ NameOK(n)
  BY DEF Becomes, ClusterOK, Pods
<1>2. CASE pod[n].phase = "Pending" /\ pod' = [pod EXCEPT ![n].phase = "Running"]
  <2> DEFINE new == [pod[n] EXCEPT !.phase = "Running"]
  <2>1. new \in Pod /\ new.uid = pod[n].uid /\ ~new.evicted
    BY <1>1, <1>2 DEF Pod, Phases, NameOK, Becomes
  <2>2. pod' = [pod EXCEPT ![n] = new]
    BY <1>2
  <2>3. QED
    BY <2>1, <2>2, PodChanges DEF Becomes
<1>3. ASSUME NEW e \in BOOLEAN,
             pod' = [pod EXCEPT ![n].phase = "Failed", ![n].evicted = e]
      PROVE  ClusterOK' /\ \A m \in Names : Ages(m)
  <2> DEFINE new == [pod[n] EXCEPT !.phase = "Failed", !.evicted = e]
  <2>1. new \in Pod /\ new.uid = pod[n].uid /\ new.phase = "Failed"
    BY <1>1 DEF Pod, Phases
  <2>2. pod' = [pod EXCEPT ![n] = new]
    BY <1>3 DEF ClusterOK
  <2>3. QED
    BY <2>1, <2>2, PodChanges DEF Becomes
<1>4. QED
  BY <1>2, <1>3 DEF Becomes

\* Whoever acts, pods only get older, or newer ones take their names.
LEMMA ClusterNext ==
    ASSUME PodInv, [Next]_vars
    PROVE  ClusterOK' /\ \A n \in Names : Ages(n)
<1> USE DEF PodInv, ShellsType
<1>1. ASSUME NEW p \in Procs, Step(p)
      PROVE  ClusterOK' /\ \A n \in Names : Ages(n)
  <2>1. CASE ForceDelete(p)
    BY <2>1, PodGoes, ClusterStays DEF ForceDelete
  <2>2. CASE Delete(p)
    BY <2>2, PodMarked, ClusterStays DEF Delete
  <2>3. CASE Wait(p) \/ Use(p) \/ Return(p)
    BY <2>3, ClusterStays DEF Wait, Use, Return
  <2>4. QED
    BY <1>1, <2>1, <2>2, <2>3 DEF Step
<1>2. ASSUME NEW p \in Procs, NEW l \in Lines, List(p, l)
      PROVE  ClusterOK' /\ \A n \in Names : Ages(n)
  BY <1>2, ClusterStays DEF List
<1>3. ASSUME NEW n \in Names, DeletedByOthers(n) \/ Removed(n)
      PROVE  ClusterOK' /\ \A m \in Names : Ages(m)
  BY <1>3, PodMarked, PodGoes DEF DeletedByOthers, Removed
<1>4. QED
  BY <1>1, <1>2, <1>3, PodAppears, PodBecomes, ClusterStays
     DEF Next, vars, cluster
-----------------------------------------------------------------------------
\* What a list says of its pods stays true as they age.
LEMMA SeenStays ==
    ASSUME PodInv, \A n \in Names : Ages(n), ClusterOK',
           NEW p \in Procs, NEW n \in Names,
           seen[p][n] # Nil, seen'[p][n] = seen[p][n]
    PROVE  StillFailed(p, n)' /\ (Over(p, n) => Over(p, n)')
<1>1. /\ seen[p][n].uid <= uids[n] /\ seen[p][n] \in Pod
      /\ StillFailed(p, n)
  BY DEF PodInv, ListOK, ShellsType, Pods
<1>2. uids[n] \in Nat /\ uids'[n] \in Nat /\ seen[p][n].uid \in Nat
  BY <1>1, Constants DEF PodInv, ClusterOK, Pod
<1>3. SUFFICES ASSUME pod'[n] # Nil
               PROVE  StillFailed(p, n)' /\ (Over(p, n) => Over(p, n)')
  BY DEF StillFailed, Over
<1>4. pod'[n].uid = uids'[n]
  BY <1>3 DEF ClusterOK, NameOK
<1>5. CASE uids'[n] > uids[n]
  <2>1. pod'[n].uid # seen[p][n].uid
    BY <1>1, <1>2, <1>4, <1>5
  <2>2. QED
    BY <2>1 DEF StillFailed, Over
<1>6. CASE /\ pod[n] # Nil /\ pod'[n].uid = pod[n].uid
           /\ pod[n].phase = "Failed" => pod'[n].phase = "Failed"
  BY <1>1, <1>6 DEF StillFailed, Over
<1>7. QED
  BY <1>3, <1>5, <1>6 DEF Ages

LEMMA ListStays ==
    ASSUME PodInv, \A n \in Names : Ages(n), ClusterOK', NEW p \in Procs,
           pc'[p] = pc[p], seen'[p] = seen[p], todo'[p] = todo[p],
           gone'[p] = gone[p]
    PROVE  ListOK(p)'
<1>1. ListOK(p) /\ ShellType(p)
  BY DEF PodInv
<1>2. \A n \in Names : uids[n] \in Nat /\ uids'[n] \in Nat /\ uids'[n] >= uids[n]
  BY Constants DEF PodInv, ClusterOK, Ages
<1>3. ASSUME NEW n \in Names, seen[p][n] # Nil
      PROVE  /\ seen[p][n].uid \in Nat
             /\ seen[p][n].uid <= uids'[n]
             /\ StillFailed(p, n)'
             /\ Over(p, n) => Over(p, n)'
  <2>1. seen[p][n] \in Pod /\ seen[p][n].uid <= uids[n]
    BY <1>1, <1>3 DEF ListOK, PodInv, ShellsType, Pods
  <2>2. QED
    BY <1>2, <1>3, <2>1, SeenStays, Constants DEF Pod
<1>4. ASSUME pc[p] = "wait"
      PROVE  gone[p].name \in Names /\ gone[p].uid <= uids'[gone[p].name]
  <2>1. gone[p] \in End /\ gone[p].uid <= uids[gone[p].name]
    BY <1>1, <1>4 DEF ShellType, ListOK
  <2>2. QED
    BY <1>2, <2>1, Constants DEF End
<1>5. QED
  BY <1>1, <1>3, <1>4 DEF ListOK

LEMMA Exits ==
    ASSUME PodInv, NEW p \in Procs, Exit(p)
    PROVE  ShellsType' /\ ShellType(p)' /\ ListOK(p)'
<1>1. ShellsType'
  BY Constants DEF PodInv, ShellsType, Exit, Goto, Labels
<1>2. /\ pc'[p] = "idle" /\ todo'[p] = {} /\ line'[p] = Nil
      /\ seen'[p] = Nothing /\ gone'[p] = Nil
  BY DEF PodInv, ShellsType, Exit, Goto
<1>3. QED
  BY <1>1, <1>2 DEF ShellType, ListOK, Nothing

\* The pods a command is about.
LEMMA SelectedFailed ==
    ASSUME PodInv, NEW l \in Lines
    PROVE  /\ Selected(l) \subseteq Names
           /\ \A n \in Selected(l) :
                 /\ pod[n] \in Pod /\ pod[n] # Nil /\ pod[n].uid = uids[n]
                 /\ l.cmd \in Deleting => pod[n].phase = "Failed"
<1>1. Selected(l) \subseteq Names
  BY Constants DEF Selected, Listed
<1>2. QED
  BY <1>1 DEF Selected, Listed, Deleting, PodInv, ClusterOK, NameOK, Pods

LEMMA ListStep ==
    ASSUME PodInv, NEW p \in Procs, NEW l \in Lines, List(p, l)
    PROVE  ShellsType' /\ ShellType(p)' /\ ListOK(p)'
<1> DEFINE found == Selected(l)
           kept == [n \in Names |-> IF l.cmd \in Deleting /\ n \in found
                                      THEN pod[n] ELSE Nil]
<1> USE DEF PodInv, ShellsType
<1>1. kept \in [Names -> Pods]
  BY DEF ClusterOK, Pods
<1>2. seen' = [seen EXCEPT ![p] = kept] /\ line' = [line EXCEPT ![p] = l]
      /\ UNCHANGED <<uids, pod, gone>> /\ pc[p] = "idle"
  BY DEF List, cluster
<1>3. PICK label \in {"force", "use", "delete"}, names \in SUBSET found :
        /\ Goto(p, label, names)
        /\ label = "force" => Cardinality(names) = 1
        /\ label = "delete" => l.cmd \in Deleting /\ names = found
  <2>1. CASE RestartPod(found) # {} /\ Goto(p, "force", RestartPod(found))
    BY <2>1 DEF RestartPod
  <2>2. ASSUME NEW names \in FirstPod(found), Goto(p, "use", names)
        PROVE  names \in SUBSET found
    BY DEF FirstPod
  <2>3. ASSUME NEW names \in WithErrors(found), Goto(p, "use", names)
        PROVE  names \in SUBSET found
    BY DEF WithErrors
  <2>4. CASE l.cmd \in Deleting /\ Goto(p, "delete", found)
    BY <2>4
  <2>5. QED
    BY <2>1, <2>2, <2>3, <2>4 DEF List
<1>4. ShellsType'
  BY <1>1, <1>2, <1>3, SelectedFailed DEF Goto, Labels
<1>5. /\ pc'[p] = label /\ todo'[p] = names /\ seen'[p] = kept
      /\ line'[p] = l /\ gone'[p] = Nil
  BY <1>2, <1>3 DEF Goto, ShellType
<1>6. ShellType(p)'
  BY <1>3, <1>5, Constants DEF ShellType
<1>7. ASSUME NEW n \in Names, kept[n] # Nil
      PROVE  /\ n \in found /\ l.cmd \in Deleting /\ kept[n] = pod[n]
             /\ kept[n].uid <= uids[n] /\ pod[n].phase = "Failed"
  BY <1>7, SelectedFailed, Constants DEF ClusterOK
<1>8. label = "delete" => \A n \in names : kept[n] # Nil
  BY <1>3, SelectedFailed
<1>9. ListOK(p)'
  BY <1>2, <1>3, <1>5, <1>7, <1>8 DEF ListOK, StillFailed
<1>10. QED
  BY <1>4, <1>6, <1>9

\* kubectl deletes the pod that has the name of a listed one by now: that pod
\* or a later one.
LEMMA DeleteStep ==
    ASSUME PodInv, NEW p \in Procs, Delete(p),
           ClusterOK', \A n \in Names : Ages(n)
    PROVE  ShellsType' /\ ShellType(p)' /\ ListOK(p)'
<1> USE DEF PodInv, ShellsType
<1>1. CASE Exit(p)
  BY <1>1, Exits
<1>2. ASSUME NEW n \in todo[p], pod[n] # Nil, UNCHANGED <<uids, line, seen>>,
             gone' = [gone EXCEPT ![p] = [name |-> n, uid |-> pod[n].uid]],
             Goto(p, "wait", todo[p] \ {n})
      PROVE  ShellsType' /\ ShellType(p)' /\ ListOK(p)'
  <2> DEFINE end == [name |-> n, uid |-> pod[n].uid]
  <2>1. n \in Names /\ pod[n] \in Pod /\ pod[n].uid = uids[n]
    BY <1>2 DEF ClusterOK, NameOK, Pods
  <2>2. end \in End
    BY <2>1 DEF End, Pod
  <2>3. pc[p] = "delete"
    BY DEF Delete
  <2>4. ShellsType'
    BY <1>2, <2>2 DEF Goto, Labels
  <2>5. pc'[p] = "wait" /\ todo'[p] = todo[p] \ {n} /\ gone'[p] = end
        /\ seen'[p] = seen[p] /\ line'[p] = line[p]
    BY <1>2 DEF Goto
  <2>6. ShellType(p)'
    BY <2>2, <2>3, <2>5 DEF ShellType
  <2>7. seen[p][n] # Nil /\ seen[p][n].uid <= uids[n] /\ uids[n] \in Nat
    BY <2>1, <2>3, Constants DEF ListOK, ClusterOK
  <2>8. ASSUME NEW m \in Names, seen[p][m] # Nil
        PROVE  /\ seen[p][m].uid <= uids'[m] /\ StillFailed(p, m)'
               /\ m \in todo'[p] \/ m = n \/ Over(p, m)'
    BY <1>2, <2>3, <2>5, <2>8, SeenStays DEF ListOK
  <2>9. \A m \in todo'[p] : seen'[p][m] # Nil
    BY <2>3, <2>5 DEF ListOK
  <2>10. end.name = n /\ end.uid = uids[n] /\ uids'[n] = uids[n]
    BY <1>2, <2>1
  <2> HIDE DEF end
  <2>11. /\ gone'[p].uid <= uids'[gone'[p].name]
         /\ seen'[p][gone'[p].name] # Nil
         /\ seen'[p][gone'[p].name].uid <= gone'[p].uid
    BY <2>5, <2>7, <2>10
  <2>12. ListOK(p)'
    BY <2>5, <2>8, <2>9, <2>10, <2>11 DEF ListOK
  <2>13. QED
    BY <2>4, <2>6, <2>12
<1>3. QED
  BY <1>1, <1>2 DEF Delete

\* The wait is over when the pod is: with it goes the listed one, if it was
\* an earlier one of the name.
LEMMA WaitStep ==
    ASSUME PodInv, NEW p \in Procs, Wait(p)
    PROVE  ShellsType' /\ ShellType(p)' /\ ListOK(p)'
<1> DEFINE n == gone[p].name
<1> USE DEF PodInv, ShellsType
<1>1. /\ pc[p] = "wait" /\ gone[p] \in End /\ n \in Names
      /\ UNCHANGED <<pod, uids, line, seen>>
  BY DEF Wait, ShellType, End, cluster
<1>2. ShellsType'
  BY DEF Wait, Goto, Labels
<1>3. /\ pc'[p] = "delete" /\ todo'[p] = todo[p] /\ gone'[p] = Nil
      /\ seen'[p] = seen[p] /\ line'[p] = line[p]
  BY DEF Wait, Goto
<1>4. ShellType(p)'
  BY <1>1, <1>3 DEF ShellType
<1>5. Over(p, n)
  <2>1. /\ seen[p][n] # Nil /\ seen[p][n].uid <= gone[p].uid
        /\ gone[p].uid <= uids[n]
    BY <1>1 DEF ListOK
  <2>2. pod[n] # Nil => pod[n].uid # gone[p].uid /\ pod[n].uid = uids[n]
    BY <1>1 DEF Wait, ClusterOK, NameOK
  <2>3. seen[p][n].uid \in Nat /\ gone[p].uid \in Nat /\ uids[n] \in Nat
    <3>1. seen[p][n] \in Pod
      BY <1>1, <2>1 DEF Pods
    <3>2. QED
      BY <1>1, <3>1, Constants DEF Pod, End, ClusterOK
  <2> SUFFICES ASSUME pod[n] # Nil PROVE pod[n].uid # seen[p][n].uid
    BY DEF Over
  <2>4. pod[n].uid # gone[p].uid /\ pod[n].uid = uids[n]
    BY <2>2
  <2>5. \A a, b, c \in Nat : a <= b /\ b <= c /\ c # b => c # a
    OBVIOUS
  <2>6. QED
    BY <2>1, <2>3, <2>4, <2>5
<1>6. ListOK(p)'
  BY <1>1, <1>3, <1>5 DEF ListOK, Over, StillFailed
<1>7. QED
  BY <1>2, <1>4, <1>6

LEMMA ShellStep ==
    ASSUME PodInv, NEW p \in Procs, Step(p),
           ClusterOK', \A n \in Names : Ages(n)
    PROVE  ShellsType' /\ ShellType(p)' /\ ListOK(p)'
<1> USE DEF PodInv, ShellsType
<1>1. CASE ForceDelete(p) \/ Return(p)
  BY <1>1, Exits DEF ForceDelete, Return
<1>2. CASE Use(p)
  <2>1. CASE Exit(p)
    BY <2>1, Exits
  <2>2. ASSUME NEW n \in todo[p], Goto(p, "use", todo[p] \ {n}),
               UNCHANGED <<cluster, line, seen, gone>>
        PROVE  ShellsType' /\ ShellType(p)' /\ ListOK(p)'
    <3>1. ShellsType' /\ pc[p] = "use" /\ pc'[p] = "use"
      BY <1>2, <2>2 DEF Use, Goto, Labels
    <3>2. QED
      BY <2>2, <3>1 DEF ShellType, ListOK, StillFailed, cluster
  <2>3. QED
    BY <1>2, <2>1, <2>2 DEF Use
<1>3. QED
  BY <1>1, <1>2, DeleteStep, WaitStep DEF Step

\* A step of a shell leaves the others alone.
LEMMA ShellsApart ==
    ASSUME PodInv, NEW p \in Procs, Step(p) \/ (\E l \in Lines : List(p, l)),
           NEW q \in Procs, q # p
    PROVE  /\ pc'[q] = pc[q] /\ line'[q] = line[q] /\ seen'[q] = seen[q]
           /\ todo'[q] = todo[q] /\ gone'[q] = gone[q]
<1> USE DEF PodInv, ShellsType, Exit, Goto
<1>1. CASE \E l \in Lines : List(p, l)
  BY <1>1 DEF List
<1>2. CASE ForceDelete(p) \/ Delete(p)
  BY <1>2 DEF ForceDelete, Delete
<1>3. CASE Wait(p) \/ Use(p) \/ Return(p)
  BY <1>3 DEF Wait, Use, Return
<1>4. QED
  BY <1>1, <1>2, <1>3 DEF Step

LEMMA PodInit == Init => PodInv
<1> SUFFICES ASSUME Init PROVE PodInv
  OBVIOUS
<1>1. ClusterOK
  BY Constants DEF Init, ClusterOK, NameOK, Pods, Nothing
<1>2. ShellsType
  BY Constants DEF Init, ShellsType, Labels
<1>3. ASSUME NEW p \in Procs PROVE ShellType(p) /\ ListOK(p)
  BY DEF Init, ShellType, ListOK, Nothing
<1>4. QED
  BY <1>1, <1>2, <1>3 DEF PodInv

LEMMA PodNext == PodInv /\ [Next]_vars => PodInv'
<1> SUFFICES ASSUME PodInv, [Next]_vars PROVE PodInv'
  OBVIOUS
<1>1. ClusterOK' /\ \A n \in Names : Ages(n)
  BY ClusterNext
<1>2. ASSUME NEW p \in Procs, Step(p) \/ (\E l \in Lines : List(p, l))
      PROVE  PodInv'
  <2>1. ShellsType' /\ ShellType(p)' /\ ListOK(p)'
    BY <1>1, <1>2, ShellStep, ListStep
  <2>2. ASSUME NEW q \in Procs, q # p PROVE ShellType(q)' /\ ListOK(q)'
    <3>1. ListOK(q)'
      BY <1>1, <1>2, <2>2, ShellsApart, ListStays
    <3>2. ShellType(q)'
      BY <1>2, <2>2, ShellsApart DEF ShellType, PodInv
    <3>3. QED
      BY <3>1, <3>2
  <2>3. QED
    BY <1>1, <2>1, <2>2 DEF PodInv
<1>3. CASE UNCHANGED shells
  <2>1. \A p \in Procs : ListOK(p)'
    BY <1>1, <1>3, ListStays DEF shells
  <2>2. QED
    BY <1>1, <1>3, <2>1 DEF PodInv, ShellsType, ShellType, shells
<1>4. QED
  BY <1>2, <1>3 DEF Next, Appear, Becomes, DeletedByOthers, Removed, vars,
                    shells

LEMMA PodInvariant == Spec => []PodInv
BY PodInit, PodNext, PTL DEF Spec
-----------------------------------------------------------------------------
\* Type correctness.
THEOREM TypeCorrect == Spec => []TypeOK
<1>1. PodInv => TypeOK
  <2> SUFFICES ASSUME PodInv PROVE TypeOK
    OBVIOUS
  <2>1. ASSUME NEW p \in Procs
        PROVE  /\ line[p] \in Lines \cup {Nil}
               /\ line[p] = Nil <=> pc[p] = "idle"
               /\ seen[p] \in [Names -> Pod \cup {Nil}]
               /\ todo[p] \subseteq Names
               /\ pc[p] \in {"delete", "wait"} =>
                     \A n \in todo[p] : seen[p][n].uid <= uids[n]
               /\ pc[p] = "force" => Cardinality(todo[p]) = 1
               /\ IF pc[p] = "wait" THEN gone[p].uid <= uids[gone[p].name]
                                    ELSE gone[p] = Nil
    BY DEF PodInv, ShellsType, ShellType, ListOK, Pods
  <2>2. QED
    BY <2>1 DEF PodInv, ClusterOK, ShellsType, Labels, Pods, TypeOK
<1>2. QED
  BY <1>1, PodInvariant, PTL

\* deleteFailedPods and deleteEvicted delete by name what they listed as failed:
\* they delete a pod that has not failed only where a StatefulSet gave its name
\* to another pod since the pods were listed.
THEOREM OnlyReusedNames == Spec => DeletesFailed
<1>1. PodInv /\ [Next]_vars => [DeletesFailedStep]_vars
  <2> SUFFICES ASSUME PodInv, [Next]_vars, NEW p \in Procs, pc[p] = "delete",
                      pc'[p] = "wait", pod[gone'[p].name].phase # "Failed"
               PROVE  LET n == gone'[p].name
                      IN  n \in Sticky /\ pod[n].uid > seen[p][n].uid
    BY DEF DeletesFailedStep
  <2> USE DEF PodInv, ShellsType
  <2>1. Delete(p)
    <3>1. ASSUME NEW q \in Procs, Step(q) \/ (\E l \in Lines : List(q, l))
          PROVE  q = p
      BY <3>1, ShellsApart
    <3>2. PICK q \in Procs : Step(q) \/ (\E l \in Lines : List(q, l))
      BY DEF Next, Appear, Becomes, DeletedByOthers, Removed, vars, shells
    <3>3. QED
      BY <3>1, <3>2 DEF Step, List, ForceDelete, Wait, Use, Return, Exit, Goto
  <2>2. PICK n \in todo[p] : /\ pod[n] # Nil
                              /\ gone'[p] = [name |-> n, uid |-> pod[n].uid]
    <3>1. ~Exit(p)
      BY DEF Exit, Goto
    <3>2. QED
      BY <2>1, <3>1 DEF Delete
  <2>3. /\ n \in Names /\ gone'[p].name = n /\ pod[n].uid = uids[n]
        /\ n \notin Sticky => uids[n] <= 1
        /\ seen[p][n] # Nil /\ seen[p][n] \in Pod
        /\ seen[p][n].uid <= uids[n] /\ StillFailed(p, n)
    BY <2>2 DEF ClusterOK, NameOK, ListOK, Pods
  <2>4. pod[n].uid # seen[p][n].uid
    BY <2>2, <2>3 DEF StillFailed
  <2>5. seen[p][n].uid \in Nat /\ 1 <= seen[p][n].uid /\ uids[n] \in Nat
    BY <2>3, Constants DEF Pod, ClusterOK
  <2>6. \A a, b \in Nat : 1 <= a /\ a <= b /\ b # a => a < b /\ 1 < b
    OBVIOUS
  <2>7. seen[p][n].uid < uids[n] /\ 1 < uids[n]
    BY <2>3, <2>4, <2>5, <2>6
  <2>8. n \in Sticky /\ pod[n].uid > seen[p][n].uid
    BY <2>3, <2>5, <2>7
  <2>9. QED
    BY <2>3, <2>8
<1>2. QED
  BY <1>1, PodInvariant, PTL DEF Spec, DeletesFailed

\* When they end without an error, the pods they listed are gone, whoever
\* deletes and replaces pods meanwhile.
THEOREM ListedPodsAreGone == Spec => []CleanedUp
<1>1. PodInv => CleanedUp
  BY DEF PodInv, ListOK, Over, CleanedUp
<1>2. QED
  BY <1>1, PodInvariant, PTL
=============================================================================

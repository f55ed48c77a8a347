--------------------------- MODULE LogWatchProofs ---------------------------
(***************************************************************************)
(* Theorems about LogWatch, for any containers and any bound on their      *)
(* children: _watched is exact, and LogWatch implements LogFollow.         *)
(***************************************************************************)
EXTENDS LogWatch, TLAPS

USE LogAssumption DEF Kids, KidStates

\* Exactness is inductive with the types; after a crash _watched is gone, but
\* no container has two children then either.
Alone == \A k \in Keys, m, n \in Kids :
    kid[k][m] # "none" /\ kid[k][n] # "none" => m = n
LogInv == TypeOK /\ WatchedIsExact /\ Alone

LEMMA LogInit == Init => LogInv
BY DEF Init, LogInv, TypeOK, WatchedIsExact, Alone

LEMMA LogNext == LogInv /\ [Next]_vars => LogInv'
<1> SUFFICES ASSUME LogInv, [Next]_vars PROVE LogInv'
  OBVIOUS
<1> USE DEF LogInv, TypeOK, WatchedIsExact, Alone
<1>1. CASE List
  BY <1>1 DEF List
<1>2. CASE ListFails
  BY <1>2 DEF ListFails
<1>3. CASE Apply
  <2>1. PICK new \in [Keys -> Kids] :
        /\ \A k \in Keys : Spawns(k) => new[k] \in Free(k)
        /\ watched' = [k \in Keys |->
                          IF Spawns(k) THEN new[k] ELSE watched[k]]
        /\ kid' = [k \in Keys |-> [n \in Kids |->
                      IF Spawns(k) /\ n = new[k] THEN Spawned(k)
                      ELSE IF Kills(k, n) THEN Killed(kid[k][n])
                      ELSE kid[k][n]]]
    BY <1>3 DEF Apply
  <2>2. TypeOK'
    BY <1>3, <2>1 DEF Apply, Spawned, Killed
  <2>3. ASSUME NEW k \in Keys, NEW n \in Kids
        PROVE  (kid'[k][n] # "none") <=> (watched'[k] = n)
    <3>1. CASE Spawns(k)
      BY <1>3, <2>1, <3>1 DEF Apply, Spawns, Kills, Spawned
    <3>2. CASE ~Spawns(k)
      BY <1>3, <2>1, <3>2 DEF Apply, Killed
    <3>3. QED
      BY <3>1, <3>2
  <2>4. QED
    BY <2>2, <2>3
<1>4. ASSUME NEW k \in Keys, NEW n \in Kids, Close(k, n) PROVE LogInv'
  BY <1>4 DEF Close
<1>5. ASSUME NEW k \in Keys, NEW n \in Kids, Exit(k, n) PROVE LogInv'
  BY <1>5 DEF Exit
<1>6. ASSUME NEW k \in Keys, NEW n \in Kids, Disconnect(k, n) PROVE LogInv'
  BY <1>6 DEF Disconnect
<1>7. ASSUME NEW k \in Keys, StartContainer(k) \/ DeletePod(k) PROVE LogInv'
  <2>1. CASE StartContainer(k)
    BY <2>1 DEF StartContainer
  <2>2. CASE DeletePod(k)
    BY <2>2 DEF DeletePod
  <2>3. QED
    BY <1>7, <2>1, <2>2
<1>8. ASSUME NEW k \in Keys, StopContainer(k) PROVE LogInv'
  <2>1. kid' = [kid EXCEPT ![k] = [n \in Kids |-> Killed(kid[k][n])]]
    BY <1>8 DEF StopContainer
  <2>2. \A j \in Keys, n \in Kids :
          /\ kid'[j][n] \in KidStates
          /\ kid'[j][n] # "none" <=> kid[j][n] # "none"
    BY <2>1 DEF Killed
  <2>3. kid' \in [Keys -> [Kids -> KidStates]]
    BY <2>1, <2>2 DEF Killed
  <2>4. QED
    BY <1>8, <2>2, <2>3 DEF StopContainer
<1>9. CASE UNCHANGED vars
  BY <1>9 DEF vars
<1>10. QED
  BY <1>1, <1>2, <1>3, <1>4, <1>5, <1>6, <1>7, <1>8, <1>9
     DEF Next, Child, Container

LEMMA LogInvariant == Spec => []LogInv
BY LogInit, LogNext, PTL DEF Spec

\* Type correctness.
THEOREM TypeCorrect == Spec => []TypeOK
<1>1. LogInv => TypeOK
  BY DEF LogInv
<1>2. QED
  BY <1>1, LogInvariant, PTL

\* The map of the children that the program keeps is exact.
THEOREM WatchedExact == Spec => []WatchedIsExact
<1>1. LogInv => WatchedIsExact
  BY DEF LogInv
<1>2. QED
  BY <1>1, LogInvariant, PTL

\* A step of LogWatch that reaps nothing, starts nothing and does not end the
\* program leaves the streams alone.
LEMMA SameStreams ==
    ASSUME LogInv, LogInv',
           \A k \in Keys, n \in Kids :
               kid'[k][n] # "none" <=> kid[k][n] # "none"
    PROVE  [k \in Keys |-> Children(k)]' = [k \in Keys |-> Children(k)]
BY DEF Children

LEMMA StepFollows ==
    ASSUME LogInv, LogInv', [Next]_vars
    PROVE  [Follow!Next]_<<[k \in Keys |-> Children(k)], at # "crashed">>
<1> DEFINE streams == [k \in Keys |-> Children(k)]
<1> USE DEF Follow!Next, Follow!Turn, Follow!End, Follow!Opens, Follow!Closes
<1>1. CASE List \/ UNCHANGED <<kid, at>>
  <2>1. kid' = kid /\ (at # "crashed")' = (at # "crashed")
    BY <1>1 DEF List
  <2>2. QED
    BY <2>1, SameStreams
<1>2. CASE ListFails
  <2>1. kid' = kid /\ (at # "crashed")' = FALSE
    BY <1>2 DEF ListFails
  <2>2. QED
    BY <2>1, SameStreams
<1>3. CASE Apply
  <2>1. Up /\ Up'
    BY <1>3 DEF Apply, Up
  <2>2. ASSUME NEW k \in Keys
        PROVE \/ streams'[k] = streams[k]
              \/ Follow!Opens(streams[k], streams'[k])
    <3>1. CASE watched'[k] = watched[k]
      BY <2>1, <3>1 DEF Children, LogInv, WatchedIsExact, Up
    <3>2. CASE watched'[k] # watched[k]
      <4>1. watched[k] = 0 /\ watched'[k] \in Kids
        BY <1>3, <3>2 DEF Apply, Spawns, LogInv, TypeOK
      <4>2. Children(k) = {} /\ Children(k)' = {watched'[k]}
        BY <2>1, <4>1 DEF Children, LogInv, WatchedIsExact, Up
      <4>3. QED
        BY <4>1, <4>2
    <3>3. QED
      BY <3>1, <3>2
  <2>3. QED
    BY <2>1, <2>2 DEF Up
<1>4. ASSUME NEW k \in Keys, NEW n \in Kids,
             Close(k, n) \/ Exit(k, n) \/ Disconnect(k, n)
      PROVE  [Follow!Next]_<<streams, at # "crashed">>
  <2>1. UNCHANGED at /\ kid[k][n] # "none"
    BY <1>4 DEF Close, Exit, Disconnect
  <2>2. \A j \in Keys \ {k} : kid'[j] = kid[j]
    BY <1>4 DEF Close, Exit, Disconnect, LogInv, TypeOK
  <2>3. \A m \in Kids \ {n} : kid'[k][m] = kid[k][m]
    BY <1>4 DEF Close, Exit, Disconnect, LogInv, TypeOK
  <2>4. \A j \in Keys \ {k} : streams'[j] = streams[j]
    BY <2>2 DEF Children
  <2>5. streams[k] = {n}
    BY <2>1 DEF Children, LogInv, Alone
  <2>6. streams'[k] = {n} \/ streams'[k] = {}
    BY <2>3, <2>5 DEF Children
  <2>7. QED
    BY <2>1, <2>4, <2>5, <2>6
<1>5. ASSUME NEW k \in Keys, Container(k)
      PROVE  [Follow!Next]_<<streams, at # "crashed">>
  <2>1. UNCHANGED at
    BY <1>5 DEF Container, StartContainer, DeletePod, StopContainer
  <2>2. \A j \in Keys, n \in Kids :
          kid'[j][n] # "none" <=> kid[j][n] # "none"
    BY <1>5 DEF Container, StartContainer, DeletePod, StopContainer, Killed,
                LogInv, TypeOK
  <2>3. QED
    BY <2>1, <2>2, SameStreams
<1>6. QED
  BY <1>1, <1>2, <1>3, <1>4, <1>5 DEF Next, Child, vars

\* LogWatch implements LogFollow.
THEOREM WatchFollows == Spec => FollowSpec
<1>1. Init => Follow!Init
  BY DEF Init, Follow!Init, Children
<1>2. QED
  BY <1>1, LogInvariant, StepFollows, PTL DEF Spec, FollowSpec, Follow!Spec
=============================================================================

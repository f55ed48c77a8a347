----------------------------- MODULE LogFollow -----------------------------
(***************************************************************************)
(* What `sv logs --watch` promises of its output, without saying how it    *)
(* keeps track of its children: the log of a container is printed by one   *)
(* child process at a time, the next one starts after the last one is      *)
(* gone, and none starts once the program has ended.                       *)
(***************************************************************************)
CONSTANTS
    Keys,       \* "<pod>:<container>"
    Kids        \* names of child processes

VARIABLES
    streams,    \* per container, the children that print its log
    up          \* the program runs

Init == streams = [k \in Keys |-> {}] /\ up = TRUE

\* The streams of several containers may change in one turn of the program.
Opens(old, new) == old = {} /\ \E n \in Kids : new = {n}
Closes(old, new) == (\E n \in Kids : old = {n}) /\ new = {}

Turn ==
    /\ DOMAIN streams' = Keys
    /\ \A k \in Keys : \/ streams'[k] = streams[k]
                       \/ up /\ Opens(streams[k], streams'[k])
                       \/ Closes(streams[k], streams'[k])
    /\ UNCHANGED up

End == up' = FALSE /\ UNCHANGED streams

Next == Turn \/ End

Spec == Init /\ [][Next]_<<streams, up>>
=============================================================================

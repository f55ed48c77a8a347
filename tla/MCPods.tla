------------------------------- MODULE MCPods -------------------------------
(***************************************************************************)
(* An instance of PodCommands for TLC: every command, for all pods, and    *)
(* sv restartPod for the pod of a StatefulSet alone.                       *)
(***************************************************************************)
EXTENDS PodCommands

CommandLines == [cmd : Commands, match : {Names}]
                \cup [cmd : {"restartPod"}, match : {Sticky}]
=============================================================================

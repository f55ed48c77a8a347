----------------------------- MODULE MCSvStart -----------------------------
(***************************************************************************)
(* Instances of SvStart for TLC: command lines run one after another, in   *)
(* every order, or at the same time.                                       *)
(***************************************************************************)
EXTENDS SvStart, TLC

Start(e, b) == [cmd |-> "start", env |-> e, alias |-> "app",
                build |-> b, bypass |-> FALSE]
Stop == [Start("dev", FALSE) EXCEPT !.cmd = "stop"]

\* The command lines: starts in two environments of one release, the same
\* start once more, a CI job without a prompt that deploys the chart under an
\* alias, and a stop.
Lines == "dev" :> Start("dev", FALSE)
         @@ "again" :> Start("dev", FALSE)
         @@ "test" :> Start("test", TRUE)
         @@ "job" :> [Start("dev", TRUE) EXCEPT !.alias = "pull",
                                                 !.bypass = TRUE]
         @@ "stop" :> Stop
JobOfProc == [p \in Procs |-> Lines[p]]
=============================================================================

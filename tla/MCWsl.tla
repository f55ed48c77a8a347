------------------------------- MODULE MCWsl -------------------------------
(***************************************************************************)
(* Instances of WslMigration for TLC: two files of one application and one *)
(* of a container.                                                         *)
(***************************************************************************)
EXTENDS WslMigration

Folder == [f \in Files |-> IF f = "Dockerfile" THEN "containers"
                           ELSE "applications"]
=============================================================================

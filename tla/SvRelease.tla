----------------------------- MODULE SvRelease -----------------------------
(***************************************************************************)
(* What sv start promises about secrets (docs/sv_editSecrets.md:3): a      *)
(* deployment takes the secrets that the secret files of the application   *)
(* and of its environment hold, all at once, and its pods run with them.   *)
(* When it fails, the Secrets of kubernetes may be all that has changed.   *)
(* Decrypted files, checksums and several invocations are not mentioned.   *)
(***************************************************************************)
EXTENDS Naturals

CONSTANTS
    Envs,    \* environments that may have secrets of their own
    Places,  \* where a release may be: context and name
    Nil

VARIABLES
    enc,     \* the version of each secret file, Nil if there is none
    release  \* Nil, or the Secrets, what is annotated, and what the pods have

Slots == {"all", "env"}
Files == {"all"} \cup Envs
None == [s \in Slots |-> Nil]

\* What the files hold for a deployment in environment e.
Held(e) == [s \in Slots |->
               LET f == IF s = "all" THEN "all" ELSE e
               IN  IF enc[f] = Nil THEN Nil ELSE [file |-> f, ver |-> enc[f]]]

Put(at, r) == release' = [release EXCEPT ![at] = r] /\ UNCHANGED enc

Init == /\ enc \in [Files -> Nat \cup {Nil}]
        /\ release = [at \in Places |-> Nil]

Deploy(at, e) == Put(at, [secrets |-> Held(e), sums |-> Held(e), env |-> e,
                          pods |-> Held(e)])

DeployFails(at, e) ==
    IF release[at] # Nil
      THEN Put(at, [release[at] EXCEPT !.secrets = Held(e)])
      ELSE Put(at, [secrets |-> Held(e), sums |-> None, env |-> e,
                    pods |-> Nil])

Remove(at) == Put(at, Nil)

Edit(f) == /\ enc'[f] \in Nat
           /\ enc' = [enc EXCEPT ![f] = enc'[f]]
           /\ UNCHANGED release

Next == \/ \E at \in Places, e \in Envs : Deploy(at, e) \/ DeployFails(at, e)
        \/ \E at \in Places : Remove(at)
        \/ \E f \in Files : Edit(f)

Spec == Init /\ [][Next]_<<enc, release>>
=============================================================================

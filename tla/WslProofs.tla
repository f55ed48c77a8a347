----------------------------- MODULE WslProofs -----------------------------
(***************************************************************************)
(* A migration and a rollback keep the work: theorems about WslMigration   *)
(* for every set of files and whatever is interrupted and run again, as    *)
(* long as the user answers y, rsync succeeds and nobody uses --force.     *)
(***************************************************************************)
EXTENDS WslMigration, TLAPS

\* Every version that exists is of a file that a developer wrote.
NoGhosts == \A f \in Files : newest[f] = 0 => win[f] = 0 /\ wsl[f] = 0

\* The flag separates the scripts: until a migration touches it the copy on
\* the C: drive is whole; from then on, until a rollback removes it, WSL's
\* copy has only last versions and is whole unless the other one is.
Phases ==
    /\ pc \in Forward => ~flag
    /\ pc \in Backward => flag
    /\ ~flag => win = newest
    /\ flag => /\ \A f \in Files : wsl[f] \in {0, newest[f]}
               /\ win = newest \/ (wsl = newest /\ link)

\* What a migration has done so far.
ForwardInv ==
    /\ pc \in Forward \ {"link"} => link
    /\ pc \in {"containers", "mount", "ask", "copy", "conf", "touch"} =>
           env["applications"] = "wsl"
    /\ pc \in {"mount", "ask", "copy", "conf", "touch"} =>
           env["containers"] = "wsl"
    /\ pc = "copy" => \A f \in Files \ todo : wsl[f] = win[f]
    /\ pc \in {"conf", "touch"} => wsl = win

\* What a rollback has done so far.
BackwardInv ==
    /\ pc = "copyBack" => /\ \A f \in Files \ todo : win[f] = newest[f]
                          /\ \A f \in todo : wsl[f] = newest[f]
    /\ pc \in {"env", "umount", "remove", "unlink", "unflag"} => win = newest
    /\ pc \in {"umount", "remove", "unlink", "unflag"} =>
           \A k \in Kinds : env[k] = "win"

\* What a script that ran to its end has left.
LastInv ==
    pc = "idle" =>
        /\ last \in {"none", "rolledback"} =>
               ~flag /\ \A k \in Kinds : env[k] = "win"
        /\ last = "migrated" =>
               flag /\ link /\ wsl = newest /\ \A k \in Kinds : env[k] = "wsl"

WholeInv == TypeOK /\ NoGhosts /\ Phases /\ ForwardInv /\ BackwardInv /\ LastInv
-----------------------------------------------------------------------------
\* A machine on which no script has run yet.
LEMMA InitWhole ==
    ASSUME WslAssumption, Init
    PROVE  WholeInv
  <1>1. TypeOK
    <2>1. win \in [Files -> Nat] /\ newest \in [Files -> Nat]
      BY DEF Init
    <2>2. wsl \in [Files -> Nat] /\ env \in [Keys -> {"win", "wsl"}]
      BY DEF Init
    <2> QED
      BY <2>1, <2>2 DEF Init, TypeOK
  <1>2. NoGhosts
    BY DEF Init, NoGhosts
  <1>3. Phases /\ ForwardInv /\ BackwardInv
    BY DEF Init, Phases, ForwardInv, BackwardInv, Forward, Backward
  <1>4. LastInv
    BY DEF Init, LastInv, Keys
  <1> QED
    BY <1>1, <1>2, <1>3, <1>4 DEF WholeInv

\* Each statement of the migration keeps the invariant.
LEMMA ForwardWhole ==
    ASSUME WslAssumption, Allow \subseteq {"crash"}, WholeInv,
           \/ Migrate \/ Link \/ Bind \/ SetEnv \/ Ask \/ WriteConf \/ Touch
           \/ \E f \in Files : Copy(f)
    PROVE  WholeInv'
  <1>1. CASE Migrate
    BY <1>1 DEF Migrate, WholeInv, TypeOK, NoGhosts, Phases, ForwardInv, BackwardInv,
           LastInv, Forward, Backward, Keys, Kinds, copies, system, At
  <1>2. CASE Link
    BY <1>2 DEF Link, WholeInv, TypeOK, NoGhosts, Phases, ForwardInv, BackwardInv,
           LastInv, Forward, Backward, Keys, Kinds, copies, system, At
  <1>3. CASE Bind
    BY <1>3 DEF Bind, WholeInv, TypeOK, NoGhosts, Phases, ForwardInv, BackwardInv,
           LastInv, Forward, Backward, Keys, Kinds, copies, system, At
  <1>4. CASE SetEnv
    BY <1>4 DEF SetEnv, WholeInv, TypeOK, NoGhosts, Phases, ForwardInv, BackwardInv,
           LastInv, Forward, Backward, Keys, Kinds, copies, system, After
  <1>5. CASE Ask
    BY <1>5 DEF Ask, WholeInv, TypeOK, NoGhosts, Phases, ForwardInv, BackwardInv,
           LastInv, Forward, Backward, Keys, Kinds, copies, system, At, Present
  <1>6. CASE WriteConf
    BY <1>6 DEF WriteConf, WholeInv, TypeOK, NoGhosts, Phases, ForwardInv, BackwardInv,
           LastInv, Forward, Backward, Keys, Kinds, copies, system, At
  <1>7. CASE Touch
    BY <1>7 DEF Touch, WholeInv, TypeOK, NoGhosts, Phases, ForwardInv, BackwardInv,
           LastInv, Forward, Backward, Keys, Kinds, copies, system, Ends, At
  <1>8. ASSUME NEW f \in Files, Copy(f) PROVE WholeInv'
    BY <1>8 DEF Copy, InTurn, WholeInv, TypeOK, NoGhosts, Phases, ForwardInv, BackwardInv,
           LastInv, Forward, Backward, Keys, Kinds, copies, system
  <1> QED
    BY <1>1, <1>2, <1>3, <1>4, <1>5, <1>6, <1>7, <1>8

\* Each statement of the rollback keeps the invariant.
LEMMA BackwardWhole ==
    ASSUME WslAssumption, Allow \subseteq {"crash"}, WholeInv,
           \/ Rollback \/ WriteOldConf \/ AskBack \/ ResetEnv \/ Umount
           \/ Remove \/ Unlink \/ Unflag
           \/ \E f \in Files : CopyBack(f)
    PROVE  WholeInv'
  <1>1. CASE Rollback
    BY <1>1 DEF Rollback, WholeInv, TypeOK, NoGhosts, Phases, ForwardInv, BackwardInv,
           LastInv, Forward, Backward, Keys, Kinds, copies, system, At
  <1>2. CASE WriteOldConf
    BY <1>2 DEF WriteOldConf, WholeInv, TypeOK, NoGhosts, Phases, ForwardInv, BackwardInv,
           LastInv, Forward, Backward, Keys, Kinds, copies, system, At
  <1>3. CASE AskBack
    BY <1>3 DEF AskBack, WholeInv, TypeOK, NoGhosts, Phases, ForwardInv, BackwardInv,
           LastInv, Forward, Backward, Keys, Kinds, copies, system, At, Linked, Present
  <1>4. CASE ResetEnv
    BY <1>4 DEF ResetEnv, WholeInv, TypeOK, NoGhosts, Phases, ForwardInv, BackwardInv,
           LastInv, Forward, Backward, Keys, Kinds, copies, system, At
  <1>5. CASE Umount
    BY <1>5 DEF Umount, WholeInv, TypeOK, NoGhosts, Phases, ForwardInv, BackwardInv,
           LastInv, Forward, Backward, Keys, Kinds, copies, system, At
  <1>6. CASE Remove
    BY <1>6 DEF Remove, WholeInv, TypeOK, NoGhosts, Phases, ForwardInv, BackwardInv,
           LastInv, Forward, Backward, Keys, Kinds, copies, system, At
  <1>7. CASE Unlink
    BY <1>7 DEF Unlink, WholeInv, TypeOK, NoGhosts, Phases, ForwardInv, BackwardInv,
           LastInv, Forward, Backward, Keys, Kinds, copies, system, At
  <1>8. CASE Unflag
    BY <1>8 DEF Unflag, WholeInv, TypeOK, NoGhosts, Phases, ForwardInv, BackwardInv,
           LastInv, Forward, Backward, Keys, Kinds, copies, system, Ends, At
  <1>9. ASSUME NEW f \in Files, CopyBack(f) PROVE WholeInv'
    BY <1>9 DEF CopyBack, InTurn, WholeInv, TypeOK, NoGhosts, Phases, ForwardInv, BackwardInv,
           LastInv, Forward, Backward, Keys, Kinds, copies, system
  <1> QED
    BY <1>1, <1>2, <1>3, <1>4, <1>5, <1>6, <1>7, <1>8, <1>9

\* An interruption, a restart and the developer's own work keep it too.
LEMMA OutsideWhole ==
    ASSUME WslAssumption, Allow \subseteq {"crash"}, WholeInv,
           \/ Interrupt \/ Restart \/ \E f \in Files : Work(f)
           \/ UNCHANGED vars
    PROVE  WholeInv'
  <1>1. CASE Interrupt
    BY <1>1 DEF Interrupt, WholeInv, TypeOK, NoGhosts, Phases, ForwardInv, BackwardInv,
           LastInv, Forward, Backward, Keys, Kinds, copies, system, Ends, At
  <1>2. CASE Restart
    BY <1>2 DEF Restart, WholeInv, TypeOK, NoGhosts, Phases, ForwardInv, BackwardInv,
           LastInv, Forward, Backward, Keys, Kinds, copies, system
  <1>3. ASSUME NEW f \in Files, Work(f) PROVE WholeInv'
    BY <1>3 DEF Work, WholeInv, TypeOK, NoGhosts, Phases, ForwardInv, BackwardInv,
           LastInv, Forward, Backward, Keys, Kinds, copies, system, WslAssumption
  <1>4. CASE UNCHANGED vars
    BY <1>4 DEF vars, WholeInv, TypeOK, NoGhosts, Phases, ForwardInv, BackwardInv,
           LastInv, Forward, Backward, Keys, Kinds, copies, system
  <1> QED
    BY <1>1, <1>2, <1>3, <1>4

\* As long as the user answers y, rsync succeeds and nobody uses --force, a
\* whole copy of the repositories exists at every moment of any sequence of
\* migrations and rollbacks, finished or interrupted (migrate_wsl.sh,
\* rollback_wsl.sh).
THEOREM WholeCopyStays ==
    ASSUME Allow \subseteq {"crash"}
    PROVE  Spec => []OneWholeCopy
  <1>1. Init => WholeInv
    BY WslAssumption, InitWhole
  <1>2. WholeInv /\ [Next]_vars => WholeInv'
    BY WslAssumption, ForwardWhole, BackwardWhole, OutsideWhole DEF Next
  <1>3. WholeInv => OneWholeCopy
    BY DEF WholeInv, Phases, OneWholeCopy
  <1> QED
    BY <1>1, <1>2, <1>3, PTL DEF Spec

\* And after each script that ran to its end `sv` finds the last version of
\* every file where the settings make it look.
THEOREM NewestIsSeen ==
    ASSUME Allow \subseteq {"crash"}
    PROVE  Spec => []SeesNewest
  <1>1. Init => WholeInv
    BY WslAssumption, InitWhole
  <1>2. WholeInv /\ [Next]_vars => WholeInv'
    BY WslAssumption, ForwardWhole, BackwardWhole, OutsideWhole DEF Next
  <1>3. WholeInv => SeesNewest
    BY WslAssumption DEF WslAssumption, WholeInv, TypeOK, Phases, LastInv,
                         SeesNewest, Kinds
  <1> QED
    BY <1>1, <1>2, <1>3, PTL DEF Spec
-----------------------------------------------------------------------------
\* What the scripts have put in place so far, whatever Allow permits.
PiecesInv ==
    /\ TypeOK /\ PiecesAgree
    /\ pc \in Forward \ {"link"} => link
    /\ pc \in Forward \ {"link", "bind"} => mounts > 0
    /\ pc \in {"containers", "mount", "ask", "copy", "conf", "touch"} =>
           env["applications"] = "wsl"
    /\ pc \in {"mount", "ask", "copy", "conf", "touch"} =>
           env["containers"] = "wsl"
    /\ pc \in {"ask", "copy", "conf", "touch"} => env["mount"] = "wsl"
    /\ pc = "touch" => conf = "new"
    /\ pc \in Backward \ {"oldConf"} => conf = "old"
    /\ pc \in {"umount", "remove", "unlink", "unflag"} =>
           env = [k \in Keys |-> "win"]
    /\ pc = "unflag" => ~link

\* Every step puts its piece in place and leaves the others there.
LEMMA PiecesStep ==
    ASSUME WslAssumption, PiecesInv, [Next]_vars
    PROVE  PiecesInv'
  <1>1. CASE Migrate
    BY <1>1 DEF Migrate, PiecesInv, TypeOK, PiecesAgree, Forward,
           Backward, Keys, Kinds, copies, system, At, Ends
  <1>2. CASE Link
    BY <1>2 DEF Link, PiecesInv, TypeOK, PiecesAgree, Forward,
           Backward, Keys, Kinds, copies, system, At, Ends
  <1>3. CASE Bind
    BY <1>3 DEF Bind, PiecesInv, TypeOK, PiecesAgree, Forward,
           Backward, Keys, Kinds, copies, system, At, Ends
  <1>4. CASE SetEnv
    BY <1>4 DEF SetEnv, PiecesInv, TypeOK, PiecesAgree, Forward,
           Backward, Keys, Kinds, copies, system, At, Ends, After
  <1>5. CASE Ask
    BY <1>5 DEF Ask, PiecesInv, TypeOK, PiecesAgree, Forward,
           Backward, Keys, Kinds, copies, system, At, Ends, Present
  <1>6. CASE WriteConf
    BY <1>6 DEF WriteConf, PiecesInv, TypeOK, PiecesAgree, Forward,
           Backward, Keys, Kinds, copies, system, At, Ends
  <1>7. CASE Touch
    BY <1>7 DEF Touch, PiecesInv, TypeOK, PiecesAgree, Forward,
           Backward, Keys, Kinds, copies, system, At, Ends
  <1>8. CASE Rollback
    BY <1>8 DEF Rollback, PiecesInv, TypeOK, PiecesAgree, Forward,
           Backward, Keys, Kinds, copies, system, At, Ends
  <1>9. CASE WriteOldConf
    BY <1>9 DEF WriteOldConf, PiecesInv, TypeOK, PiecesAgree, Forward,
           Backward, Keys, Kinds, copies, system, At, Ends
  <1>10. CASE AskBack
    BY <1>10 DEF AskBack, PiecesInv, TypeOK, PiecesAgree, Forward,
           Backward, Keys, Kinds, copies, system, At, Ends, Linked, Present
  <1>11. CASE ResetEnv
    BY <1>11 DEF ResetEnv, PiecesInv, TypeOK, PiecesAgree, Forward,
           Backward, Keys, Kinds, copies, system, At, Ends
  <1>12. CASE Umount
    BY <1>12 DEF Umount, PiecesInv, TypeOK, PiecesAgree, Forward,
           Backward, Keys, Kinds, copies, system, At, Ends
  <1>13. CASE Remove
    BY <1>13 DEF Remove, PiecesInv, TypeOK, PiecesAgree, Forward,
           Backward, Keys, Kinds, copies, system, At, Ends
  <1>14. CASE Unlink
    BY <1>14 DEF Unlink, PiecesInv, TypeOK, PiecesAgree, Forward,
           Backward, Keys, Kinds, copies, system, At, Ends
  <1>15. CASE Unflag
    BY <1>15 DEF Unflag, PiecesInv, TypeOK, PiecesAgree, Forward,
           Backward, Keys, Kinds, copies, system, At, Ends
  <1>16. CASE Interrupt
    BY <1>16 DEF Interrupt, PiecesInv, TypeOK, PiecesAgree, Forward,
           Backward, Keys, Kinds, copies, system, At, Ends
  <1>17. CASE Restart
    BY <1>17 DEF Restart, PiecesInv, TypeOK, PiecesAgree, Forward,
           Backward, Keys, Kinds, copies, system, At, Ends
  <1>18. ASSUME NEW f \in Files, Copy(f) PROVE PiecesInv'
    BY <1>18, WslAssumption DEF Copy, PiecesInv, TypeOK, PiecesAgree, Forward,
           Backward, Keys, Kinds, copies, system, At, Ends, InTurn
  <1>19. ASSUME NEW f \in Files, CopyBack(f) PROVE PiecesInv'
    BY <1>19, WslAssumption DEF CopyBack, PiecesInv, TypeOK, PiecesAgree, Forward,
           Backward, Keys, Kinds, copies, system, At, Ends, InTurn
  <1>20. ASSUME NEW f \in Files, Work(f) PROVE PiecesInv'
    BY <1>20, WslAssumption DEF Work, PiecesInv, TypeOK, PiecesAgree, Forward,
           Backward, Keys, Kinds, copies, system, At, Ends
  <1>21. CASE UNCHANGED vars
    BY <1>21 DEF vars, PiecesInv, TypeOK, PiecesAgree, Forward,
           Backward, Keys, Kinds, copies, system, At, Ends
  <1> QED
    BY <1>1, <1>2, <1>3, <1>4, <1>5, <1>6, <1>7, <1>8, <1>9, <1>10, <1>11,
       <1>12, <1>13, <1>14, <1>15, <1>16, <1>17, <1>18, <1>19, <1>20, <1>21 DEF Next

\* What a machine starts with, whatever the user is allowed to do later.
LEMMA PiecesInit == Init => PiecesInv
  <1>1. ASSUME Init PROVE TypeOK
    BY <1>1, WslAssumption, InitWhole DEF WholeInv
  <1> QED
    BY <1>1 DEF Init, PiecesInv, PiecesAgree, Forward, Backward

\* Type correctness.
THEOREM TypeCorrect == Spec => []TypeOK
  <1>1. PiecesInv /\ [Next]_vars => PiecesInv'
    BY WslAssumption, PiecesStep
  <1>2. PiecesInv => TypeOK
    BY DEF PiecesInv
  <1> QED
    BY <1>1, <1>2, PiecesInit, PTL DEF Spec

\* A script that ran to its end leaves the settings, the link, the flag, the
\* boot command and the mount in agreement, also when earlier runs were
\* interrupted, repositories were skipped or failed, or --force was used.
THEOREM PiecesStayInAgreement == Spec => []PiecesAgree
  <1>1. PiecesInv /\ [Next]_vars => PiecesInv'
    BY WslAssumption, PiecesStep
  <1>2. PiecesInv => PiecesAgree
    BY DEF PiecesInv
  <1> QED
    BY <1>1, <1>2, PiecesInit, PTL DEF Spec
=============================================================================

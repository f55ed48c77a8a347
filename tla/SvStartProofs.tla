--------------------------- MODULE SvStartProofs ---------------------------
(***************************************************************************)
(* Theorems about SvStart, for any number of invocations, environments,    *)
(* contexts and aliases, and whatever is allowed to disturb a running one. *)
(***************************************************************************)
EXTENDS SvStart, TLAPS

\* The part of the type invariant that is about what the invocations share.
SharedOK ==
    /\ context \in Contexts
    /\ enc \in [Files -> Nat \cup {Nil}]
    /\ dec \in [Files -> Content]
    /\ writers \in [Files -> SUBSET Procs]
    /\ release \in [Contexts \X Aliases -> Release \cup {Nil}]
    /\ \A f \in Files : writers[f] # {} => dec[f] # Nil

\* The part about one invocation: at "decrypt" kubesec has read an encrypted
\* file and has a secret to write, at "apply" helm has read its context.
At(l, r) ==
    /\ l \in Labels
    /\ r \in Run
    /\ l = "decrypt" => r.plain[r.cur] \in Secret
    /\ l = "apply" => r.target \in Contexts

LocalOK ==
    /\ pc \in [Procs -> Labels]
    /\ run \in [Procs -> Run]
    /\ \A p \in Procs : At(pc[p], run[p])

TypeInv == SharedOK /\ LocalOK

LEMMA FileOfType ==
    ASSUME NEW p \in Procs, NEW s \in Slots
    PROVE  FileOf(p, s) \in Files
BY ConstantsAssumption DEF FileOf, Files

LEMMA ContentType ==
    /\ Nil \in Content /\ Empty \in Content /\ Torn \in Content
    /\ Secret \subseteq Content
    /\ NoManifests \in Manifests
    /\ "all" \in Slots /\ "env" \in Slots
BY DEF Content, Manifests, NoManifests, Slots

LEMMA EncryptedType ==
    ASSUME TypeInv, NEW f \in Files
    PROVE  /\ Encrypted(f) \in Content
           /\ enc[f] # Nil => Encrypted(f) \in Secret
BY ContentType DEF Encrypted, Secret, TypeInv, SharedOK

LEMMA FreshType == Fresh \in Run
BY ContentType DEF Fresh, Run

LEMMA ManifestType ==
    ASSUME TypeInv, NEW all \in Manifest("all"), NEW env \in Manifest("env")
    PROVE  [s \in Slots |-> IF s = "all" THEN all ELSE env] \in Manifests
<1>1. \A f \in Files : Rendered(dec[f]) \in Content
  BY ContentType DEF TypeInv, SharedOK, Rendered
<1>2. all \in Content
  BY <1>1 DEF Manifest, Files
<1>3. env \in Content
  BY <1>1, ContentType DEF Manifest, Files
<1>4. QED
  BY <1>2, <1>3 DEF Manifests

LEMMA TypeInit == Init => TypeInv
<1> SUFFICES ASSUME Init PROVE TypeInv
  OBVIOUS
<1>1. SharedOK
  BY ContentType DEF Init, SharedOK
<1>2. LocalOK
  BY FreshType DEF Init, LocalOK, At, Labels
<1>3. QED
  BY <1>1, <1>2 DEF TypeInv

LEMMA RunType ==
    ASSUME NEW r \in Run
    PROVE  /\ r.cur \in Slots
           /\ r.plain \in Manifests
           /\ r.sums \in Manifests
           /\ r.loaded \in Manifests
BY DEF Run

LEMMA UpgradedType ==
    ASSUME TypeInv, NEW p \in Procs, run[p].target \in Contexts
    PROVE  /\ Upgraded(p) \in Release
           /\ HalfUpgraded(p) \in Release
<1> DEFINE old == release[<<run[p].target, Job[p].alias>>]
<1>1. /\ run[p].loaded \in Manifests
      /\ run[p].sums \in Manifests
      /\ Job[p].env \in Envs
      /\ old \in Release \cup {Nil}
  BY RunType, ConstantsAssumption DEF TypeInv, SharedOK, LocalOK
<1>2. Upgraded(p) \in Release
  BY <1>1 DEF Upgraded, Release
<1>3. HalfUpgraded(p) \in Release
  BY <1>1, ContentType DEF HalfUpgraded, Release
<1>4. QED
  BY <1>2, <1>3

\* An invocation that goes to a label with new variables.
LEMMA Moves ==
    ASSUME LocalOK, NEW p \in Procs, NEW l, NEW r, At(l, r),
           pc' = [pc EXCEPT ![p] = l], run' = [run EXCEPT ![p] = r]
    PROVE  LocalOK'
BY DEF LocalOK, At

LEMMA Exits ==
    ASSUME LocalOK, NEW p \in Procs, NEW l \in Terminal, Exit(p, l)
    PROVE  LocalOK'
<1>1. At(l, Fresh)
  BY FreshType DEF At, Labels, Terminal
<1>2. QED
  BY <1>1, Moves DEF Exit, Goto

\* One that goes to a label where nothing more is asked of its variables.
LEMMA Goes ==
    ASSUME LocalOK, NEW p \in Procs, NEW l \in Labels \ {"decrypt", "apply"},
           Goto(p, l), UNCHANGED run
    PROVE  LocalOK'
<1>1. At(l, run[p])
  BY DEF At, LocalOK
<1>2. run' = [run EXCEPT ![p] = run[p]]
  BY DEF LocalOK
<1>3. QED
  BY <1>1, <1>2, Moves DEF Goto

LEMMA NextSlots ==
    ASSUME LocalOK, NEW p \in Procs, NEW l \in Labels \ {"decrypt", "apply"},
           NEW r \in Run, NextSlot(p, l, r)
    PROVE  LocalOK'
<1> DEFINE next == [r EXCEPT !.cur = IF LastSlot(p) THEN "all" ELSE "env"]
<1>1. next \in Run
  BY ContentType DEF Run
<1>2. At(l, next)
  BY <1>1 DEF At
<1>3. QED
  BY <1>2, Moves DEF NextSlot, Goto

LEMMA Deletes ==
    ASSUME LocalOK, NEW p \in Procs,
           Deleted(p) \/ (\E success \in BOOLEAN : DeleteSecrets(p, success))
    PROVE  LocalOK'
<1>1. run[p] \in Run
  BY DEF LocalOK
<1>2. CASE Deleted(p)
  BY <1>1, <1>2, Exits, NextSlots DEF Deleted, Terminal, Labels
<1>3. ASSUME NEW success \in BOOLEAN, DeleteSecrets(p, success)
      PROVE  LocalOK'
  <2> DEFINE next == [run[p] EXCEPT !.cur = "all", !.ok = success]
  <2>1. next \in Run
    BY <1>1, ContentType DEF Run
  <2>2. At("check", next)
    BY <2>1 DEF At, Labels
  <2>3. run' = [run EXCEPT ![p] = next]
    BY <1>1, <1>3 DEF DeleteSecrets
  <2>4. QED
    BY <1>3, <2>2, <2>3, Moves DEF DeleteSecrets, Goto
<1>4. QED
  BY <1>2, <1>3

LEMMA TypeNext == TypeInv /\ [Next]_vars => TypeInv'
<1> SUFFICES ASSUME TypeInv, [Next]_vars PROVE TypeInv'
  OBVIOUS
<1> USE DEF TypeInv
<1>1. ASSUME NEW p \in Procs, LogContext(p) PROVE TypeInv'
  <2> DEFINE next == [run[p] EXCEPT !.seen = context]
  <2>1. next \in Run /\ run' = [run EXCEPT ![p] = next]
    BY <1>1 DEF LogContext, Run, LocalOK, SharedOK
  <2>2. At("validate", next) /\ At("prompt", next)
    BY <2>1 DEF At, Labels
  <2>3. LocalOK'
    BY <1>1, <2>1, <2>2, Moves DEF LogContext, Goto
  <2>4. QED
    BY <1>1, <2>3 DEF LogContext, files, SharedOK
<1>2. ASSUME NEW p \in Procs, Answer(p) PROVE TypeInv'
  <2> DEFINE next == [run[p] EXCEPT !.agreed = TRUE]
  <2>1. next \in Run /\ [run EXCEPT ![p].agreed = TRUE] = [run EXCEPT ![p] = next]
    BY DEF Run, LocalOK
  <2>2. At("validate", next)
    BY <2>1 DEF At, Labels
  <2>3. LocalOK'
    BY <1>2, <2>1, <2>2, Moves, Exits DEF Answer, Goto, Terminal
  <2>4. QED
    BY <1>2, <2>3 DEF Answer, files, SharedOK
<1>3. ASSUME NEW p \in Procs, Validate(p) PROVE TypeInv'
  <2>1. LocalOK'
    BY <1>3, Goes, Exits DEF Validate, Labels, Terminal
  <2>2. QED
    BY <1>3, <2>1 DEF Validate, files, SharedOK
<1>4. ASSUME NEW p \in Procs, Build(p) PROVE TypeInv'
  <2>1. LocalOK'
    BY <1>4, Goes, Exits DEF Build, Labels, Terminal
  <2>2. QED
    BY <1>4, <2>1 DEF Build, files, SharedOK
<1>5. ASSUME NEW p \in Procs, OpenDecrypted(p) PROVE TypeInv'
  <2> DEFINE s == run[p].cur
             f == CurFile(p)
             plain == [run[p].plain EXCEPT ![s] = Encrypted(f)]
             next == [run[p] EXCEPT !.plain = plain]
  <2>1. run[p] \in Run /\ s \in Slots /\ f \in Files
    BY FileOfType DEF LocalOK, Run, CurFile
  <2>2. CASE enc[f] = Nil
    <3>1. LocalOK'
      BY <1>5, <2>1, <2>2, NextSlots DEF OpenDecrypted, Labels
    <3>2. QED
      BY <1>5, <2>2, <3>1 DEF OpenDecrypted, SharedOK
  <2>3. CASE enc[f] # Nil
    <3>1. plain \in Manifests /\ plain[s] \in Secret
      BY <2>1, <2>3, RunType, EncryptedType DEF Manifests
    <3>2. next \in Run /\ next.plain[next.cur] \in Secret
      BY <2>1, <3>1 DEF Run
    <3>3. At("decrypt", next)
      BY <3>2 DEF At, Labels
    <3>4. LocalOK'
      BY <1>5, <2>1, <2>3, <3>3, Moves DEF OpenDecrypted, Goto
    <3>5. SharedOK'
      BY <1>5, <2>1, <2>3, ContentType, ConstantsAssumption
         DEF OpenDecrypted, SharedOK
    <3>6. QED
      BY <3>4, <3>5
  <2>4. QED
    BY <2>2, <2>3
<1>6. ASSUME NEW p \in Procs, Decrypt(p) PROVE TypeInv'
  <2> DEFINE f == CurFile(p)
             new == run[p].plain[run[p].cur]
  <2>1. f \in Files /\ new \in Secret
    BY <1>6, FileOfType DEF Decrypt, LocalOK, At, Run, CurFile
  <2>2. Overwritten(dec[f], new) \subseteq Content \ {Nil}
    BY <2>1, ContentType, ConstantsAssumption DEF Overwritten
  <2>3. LocalOK'
    BY <1>6, Goes DEF Decrypt, Labels
  <2>4. SharedOK'
    BY <1>6, <2>1, <2>2 DEF Decrypt, SharedOK
  <2>5. QED
    BY <2>3, <2>4
<1>7. ASSUME NEW p \in Procs, DecryptFails(p) PROVE TypeInv'
  <2>1. CurFile(p) \in Files
    BY FileOfType DEF LocalOK, Run, CurFile
  <2>2. LocalOK'
    BY <1>7, Deletes DEF DecryptFails
  <2>3. QED
    BY <1>7, <2>1, <2>2 DEF DecryptFails, SharedOK
<1>8. ASSUME NEW p \in Procs, Checksum(p) PROVE TypeInv'
  <2> DEFINE s == run[p].cur
             sums == [run[p].sums EXCEPT ![s] = Encrypted(CurFile(p))]
             next == [run[p] EXCEPT !.sums = sums]
  <2>1. run[p] \in Run /\ s \in Slots /\ CurFile(p) \in Files
    BY FileOfType DEF LocalOK, Run, CurFile
  <2>2. sums \in Manifests
    BY <2>1, RunType, EncryptedType DEF Manifests
  <2>3. next \in Run
    BY <2>1, <2>2 DEF Run
  <2>4. NextSlot(p, IF LastSlot(p) THEN "load" ELSE "open", next)
    BY <1>8, <2>1 DEF Checksum
  <2>5. LocalOK'
    BY <2>3, <2>4, NextSlots DEF Labels
  <2>6. QED
    BY <1>8, <2>5 DEF Checksum, files, SharedOK
<1>9. ASSUME NEW p \in Procs, HelmLoad(p) PROVE TypeInv'
  <2>1. PICK all \in Manifest("all"), env \in Manifest("env") :
          run' = [run EXCEPT ![p].loaded = [s \in Slots |->
                                  IF s = "all" THEN all ELSE env],
                             ![p].target = context]
    BY <1>9 DEF HelmLoad
  <2> DEFINE m == [s \in Slots |-> IF s = "all" THEN all ELSE env]
             next == [run[p] EXCEPT !.loaded = m, !.target = context]
  <2>2. m \in Manifests
    BY ManifestType
  <2>3. context \in Contexts /\ run[p] \in Run
    BY DEF SharedOK, LocalOK
  <2>4. next \in Run /\ next.target \in Contexts
    <3> HIDE DEF m
    <3> QED
      BY <2>2, <2>3 DEF Run
  <2>5. At("apply", next)
    <3> HIDE DEF next
    <3> QED
      BY <2>4 DEF At, Labels
  <2>6. run' = [run EXCEPT ![p] = next]
    BY <2>1, <2>3
  <2>7. LocalOK'
    <3> HIDE DEF next
    <3> QED
      BY <1>9, <2>5, <2>6, Moves DEF HelmLoad, Goto
  <2>8. QED
    BY <1>9, <2>7 DEF HelmLoad, files, SharedOK
<1>10. ASSUME NEW p \in Procs, HelmUpgrade(p) PROVE TypeInv'
  <2>1. run[p].target \in Contexts /\ Job[p].alias \in Aliases
    BY <1>10, ConstantsAssumption DEF HelmUpgrade, LocalOK, At
  <2>2. LocalOK'
    BY <1>10, Deletes DEF HelmUpgrade
  <2>3. QED
    BY <1>10, <2>1, <2>2, UpgradedType
       DEF HelmUpgrade, SetRelease, files, SharedOK
<1>11. ASSUME NEW p \in Procs, HelmUpgradeFails(p) PROVE TypeInv'
  <2>1. run[p].target \in Contexts /\ Job[p].alias \in Aliases
    BY <1>11, ConstantsAssumption DEF HelmUpgradeFails, LocalOK, At
  <2>2. LocalOK'
    BY <1>11, Deletes DEF HelmUpgradeFails
  <2>3. QED
    BY <1>11, <2>1, <2>2, UpgradedType
       DEF HelmUpgradeFails, SetRelease, files, SharedOK
<1>12. ASSUME NEW p \in Procs, CheckExists(p) PROVE TypeInv'
  <2>1. LocalOK'
    BY <1>12, Deletes, Goes DEF CheckExists, Labels
  <2>2. QED
    BY <1>12, <2>1 DEF CheckExists, files, SharedOK
<1>13. ASSUME NEW p \in Procs, Unlink(p) PROVE TypeInv'
  <2>1. CurFile(p) \in Files
    BY FileOfType DEF LocalOK, Run, CurFile
  <2>2. LocalOK'
    BY <1>13, Deletes, Exits DEF Unlink, Terminal
  <2>3. QED
    BY <1>13, <2>1, <2>2, ContentType DEF Unlink, SharedOK
<1>14. ASSUME NEW p \in Procs, HelmUninstall(p) PROVE TypeInv'
  <2>1. LocalOK'
    BY <1>14, Exits DEF HelmUninstall, Terminal
  <2>2. QED
    BY <1>14, <2>1 DEF HelmUninstall, Uninstalled, files, SharedOK
<1>15. ASSUME NEW p \in Procs, Kill(p) PROVE TypeInv'
  <2>1. LocalOK'
    BY <1>15, Exits DEF Kill, Terminal
  <2>2. pc[p] = "apply" =>
          run[p].target \in Contexts /\ Job[p].alias \in Aliases
    BY ConstantsAssumption DEF LocalOK, At
  <2>3. release' \in [Contexts \X Aliases -> Release \cup {Nil}]
    BY <1>15, <2>2, UpgradedType DEF Kill, SetRelease, Uninstalled, SharedOK
  <2>4. QED
    BY <1>15, <2>1, <2>3 DEF Kill, SharedOK
<1>16. ASSUME NEW f \in Files, EditSecrets(f) PROVE TypeInv'
  BY <1>16 DEF EditSecrets, SharedOK, LocalOK, At
<1>17. ASSUME NEW c \in Contexts, SwitchContext(c) PROVE TypeInv'
  BY <1>17 DEF SwitchContext, SharedOK, LocalOK, At, files
<1>18. CASE UNCHANGED vars
  BY <1>18 DEF vars, files, SharedOK, LocalOK, At
<1>19. QED
  BY <1>1, <1>2, <1>3, <1>4, <1>5, <1>6, <1>7, <1>8, <1>9, <1>10, <1>11,
     <1>12, <1>13, <1>14, <1>15, <1>16, <1>17, <1>18 DEF Next, Step

\* Type correctness.
THEOREM TypeCorrect == Spec => []TypeOK
<1>1. TypeInv => TypeOK
  BY DEF TypeInv, SharedOK, LocalOK, At, TypeOK
<1>2. QED
  BY <1>1, TypeInit, TypeNext, PTL DEF Spec
-----------------------------------------------------------------------------
\* Only `sv start` gets to the labels of its own part of the program.
StartLabels == {"build", "open", "decrypt", "checksum", "load", "apply",
                "check", "unlink"}
StartOnly == \A p \in Procs : pc[p] \in StartLabels => Job[p].cmd = "start"

Owner(p, f) == \E s \in Slots :
    Job[p].cmd = "start" /\ f = FileOf(p, s) /\ Owes(p, s)

OwnerInv == TypeInv /\ StartOnly /\ DecryptedFileHasOwner

Acts(p) == LogContext(p) \/ Answer(p) \/ Step(p) \/ Kill(p)

LEMMA ActsOnItself ==
    ASSUME TypeInv, NEW p \in Procs, Acts(p)
    PROVE  \A q \in Procs \ {p} : pc'[q] = pc[q] /\ run'[q] = run[q]
<1> USE DEF TypeInv, LocalOK
<1>1. CASE LogContext(p) \/ Answer(p) \/ Kill(p)
  BY <1>1 DEF LogContext, Answer, Kill, Goto, Exit
<1>2. CASE Validate(p) \/ Build(p) \/ OpenDecrypted(p) \/ Checksum(p)
  BY <1>2 DEF Validate, Build, OpenDecrypted, Checksum, NextSlot, Goto, Exit
<1>3. CASE Decrypt(p) \/ DecryptFails(p) \/ HelmLoad(p)
  BY <1>3 DEF Decrypt, DecryptFails, HelmLoad, DeleteSecrets, Goto
<1>4. CASE HelmUpgrade(p) \/ HelmUpgradeFails(p) \/ HelmUninstall(p)
  BY <1>4 DEF HelmUpgrade, HelmUpgradeFails, HelmUninstall, DeleteSecrets,
              Goto, Exit
<1>5. CASE CheckExists(p) \/ Unlink(p)
  BY <1>5 DEF CheckExists, Unlink, Deleted, NextSlot, Goto, Exit
<1>6. QED
  BY <1>1, <1>2, <1>3, <1>4, <1>5 DEF Acts, Step

LEMMA StartOnlyStep ==
    ASSUME TypeInv, StartOnly, NEW p \in Procs, Acts(p)
    PROVE  StartOnly'
<1> USE DEF TypeInv, LocalOK
<1>1. Job[p].cmd \in {"start", "stop"}
  BY ConstantsAssumption
<1> DEFINE OK == pc'[p] \in StartLabels =>
                     pc[p] \in StartLabels \/ Job[p].cmd = "start"
<1>2. CASE LogContext(p) \/ Answer(p) \/ Kill(p)
  <2>1. OK
    BY <1>2 DEF LogContext, Answer, Kill, Goto, Exit, StartLabels
  <2>2. QED
    BY <2>1, ActsOnItself DEF StartOnly
<1>3. CASE Validate(p)
  <2>1. OK
    BY <1>1, <1>3 DEF Validate, Goto, Exit, StartLabels
  <2>2. QED
    BY <2>1, ActsOnItself DEF StartOnly
<1>4. CASE HelmUninstall(p)
  <2>1. OK
    BY <1>4 DEF HelmUninstall, Goto, Exit, StartLabels
  <2>2. QED
    BY <2>1, ActsOnItself DEF StartOnly
<1>5. CASE pc[p] \in StartLabels
  BY <1>5, ActsOnItself DEF StartOnly
<1>6. QED
  BY <1>2, <1>3, <1>4, <1>5
     DEF Acts, Step, StartLabels, Build, OpenDecrypted, Decrypt, DecryptFails,
         Checksum, HelmLoad, HelmUpgrade, HelmUpgradeFails, CheckExists, Unlink

\* A file that appears was opened by an invocation that answers for it.
LEMMA NewFileHasOwner ==
    ASSUME TypeInv, StartOnly, NEW p \in Procs, Acts(p),
           NEW f \in Files, dec[f] = Nil, dec'[f] # Nil
    PROVE  Owner(p, f)'
<1> USE DEF TypeInv, LocalOK, SharedOK
<1>1. ~Decrypt(p)
  BY DEF Decrypt
<1>2. OpenDecrypted(p)
  BY <1>1 DEF Acts, Step, LogContext, Answer, Kill, Validate, Build,
     DecryptFails, Checksum, HelmLoad, HelmUpgrade, HelmUpgradeFails,
     CheckExists, Unlink, HelmUninstall, files
<1>3. run[p].cur \in Slots /\ run[p].plain \in Manifests
  BY RunType
<1>4. f = CurFile(p) /\ pc'[p] = "decrypt" /\ Job[p].cmd = "start"
  BY <1>2 DEF OpenDecrypted, Goto, StartOnly, StartLabels
<1>5. run'[p].cur = run[p].cur
  BY <1>2, <1>4 DEF OpenDecrypted, Run
<1>6. ASSUME NEW s \in Slots, s = run[p].cur PROVE Owes(p, s)'
  BY <1>4, <1>5, <1>6 DEF Owes, LastSlot, Slots
<1>7. QED
  BY <1>3, <1>4, <1>6 DEF Owner, CurFile, FileOf

\* An invocation answers for a file until the file is gone.
LEMMA OwnerStays ==
    ASSUME TypeInv, StartOnly, NEW p \in Procs, Acts(p),
           NEW f \in Files, dec'[f] # Nil, Owner(p, f)
    PROVE  Owner(p, f)'
<1> USE DEF TypeInv, LocalOK, SharedOK
<1>1. PICK s \in Slots :
        Job[p].cmd = "start" /\ f = FileOf(p, s) /\ Owes(p, s)
  BY DEF Owner
<1>2. SUFFICES Owes(p, s)'
  BY <1>1 DEF Owner, FileOf
<1>3. s \in {"all", "env"} /\ run[p] \in Run /\ run[p].cur \in {"all", "env"}
  BY RunType DEF Slots
<1>4. CASE Kill(p)
  BY <1>4 DEF Kill, Exit, Goto, Owes
<1>5. CASE OpenDecrypted(p)
  BY <1>1, <1>3, <1>5
     DEF OpenDecrypted, NextSlot, Goto, Owes, LastSlot, Run
<1>6. CASE Decrypt(p)
  BY <1>1, <1>6 DEF Decrypt, Goto, Owes, LastSlot
<1>7. CASE DecryptFails(p) \/ HelmUpgrade(p) \/ HelmUpgradeFails(p)
  <2>1. pc'[p] = "check" /\ run'[p].cur = "all"
    BY <1>3, <1>7 DEF DecryptFails, HelmUpgrade, HelmUpgradeFails,
                      DeleteSecrets, Goto, Run
  <2>2. QED
    BY <2>1 DEF Owes, LastSlot
<1>8. CASE Checksum(p)
  <2> DEFINE next == [run[p] EXCEPT !.sums[run[p].cur] = Encrypted(CurFile(p))]
  <2>1. next.cur = run[p].cur /\ "cur" \in DOMAIN next
    BY <1>3 DEF Run
  <2>2. NextSlot(p, IF LastSlot(p) THEN "load" ELSE "open", next)
    BY <1>8 DEF Checksum
  <2>3. run'[p].cur = IF LastSlot(p) THEN "all" ELSE "env"
    <3> HIDE DEF next
    <3> QED
      BY <2>1, <2>2 DEF NextSlot
  <2>4. QED
    BY <1>1, <1>3, <1>8, <2>2, <2>3
       DEF Checksum, NextSlot, Goto, Owes, LastSlot
<1>9. CASE HelmLoad(p)
  BY <1>1, <1>9 DEF HelmLoad, Goto, Owes
<1>10. CASE CheckExists(p)
  <2>1. CASE dec[CurFile(p)] = Nil
    <3>1. f # CurFile(p)
      BY <1>10, <2>1 DEF CheckExists, files
    <3>2. run[p].cur = "all" /\ s = "env"
      BY <1>1, <1>3, <1>10, <3>1 DEF CheckExists, Owes, LastSlot, CurFile
    <3>3. pc'[p] = "check"
      BY <1>10, <2>1, <3>2
         DEF CheckExists, Deleted, NextSlot, LastSlot, Goto
    <3>4. QED
      BY <3>2, <3>3 DEF Owes
  <2>2. CASE dec[CurFile(p)] # Nil
    BY <1>1, <1>10, <2>2 DEF CheckExists, Goto, Owes, LastSlot
  <2>3. QED
    BY <2>1, <2>2
<1>11. CASE Unlink(p)
  <2>1. CASE dec[CurFile(p)] = Nil
    BY <1>11, <2>1 DEF Unlink, Exit, Goto, Owes
  <2>2. CASE dec[CurFile(p)] # Nil
    <3>1. f # CurFile(p)
      BY <1>11, <2>2 DEF Unlink
    <3>2. run[p].cur = "all" /\ s = "env"
      BY <1>1, <1>3, <1>11, <3>1 DEF Unlink, Owes, LastSlot, CurFile
    <3>3. pc'[p] = "check"
      BY <1>11, <2>2, <3>2 DEF Unlink, Deleted, NextSlot, LastSlot, Goto
    <3>4. QED
      BY <3>2, <3>3 DEF Owes
  <2>3. QED
    BY <2>1, <2>2
<1>12. QED
  BY <1>1, <1>4, <1>5, <1>6, <1>7, <1>8, <1>9, <1>10, <1>11
     DEF Acts, Step, Owes, LogContext, Answer, Validate, Build, HelmUninstall

LEMMA OwnerNext == OwnerInv /\ [Next]_vars => OwnerInv'
<1> SUFFICES ASSUME OwnerInv, [Next]_vars PROVE OwnerInv'
  OBVIOUS
<1> USE DEF OwnerInv
<1>1. TypeInv'
  BY TypeNext
<1>2. ASSUME NEW p \in Procs, Acts(p) PROVE StartOnly' /\ DecryptedFileHasOwner'
  <2>1. StartOnly'
    BY <1>2, StartOnlyStep
  <2>2. ASSUME NEW f \in Files, dec'[f] # Nil
        PROVE  \E q \in Procs : Owner(q, f)'
    <3>1. CASE dec[f] = Nil
      BY <1>2, <2>2, <3>1, NewFileHasOwner
    <3>2. ASSUME NEW q \in Procs, Owner(q, f), q # p PROVE Owner(q, f)'
      BY <1>2, <3>2, ActsOnItself DEF Owner, Owes, LastSlot, FileOf
    <3>3. CASE dec[f] # Nil
      BY <1>2, <2>2, <3>2, <3>3, OwnerStays DEF DecryptedFileHasOwner, Owner
    <3>4. QED
      BY <3>1, <3>3
  <2>3. DecryptedFileHasOwner'
    BY <2>2 DEF DecryptedFileHasOwner, Owner
  <2>4. QED
    BY <2>1, <2>3
<1>3. ASSUME UNCHANGED <<dec, pc, run>>
      PROVE  StartOnly' /\ DecryptedFileHasOwner'
  BY <1>3 DEF StartOnly, DecryptedFileHasOwner, FileOf, Owes, LastSlot
<1>4. QED
  BY <1>1, <1>2, <1>3
     DEF Next, Acts, EditSecrets, SwitchContext, vars, files

\* Whatever disturbs them, invocations leave no decrypted file that nobody
\* answers for.
THEOREM DecryptedFilesHaveOwners == Spec => []DecryptedFileHasOwner
<1>1. Init => OwnerInv
  BY TypeInit DEF Init, OwnerInv, StartOnly, StartLabels,
                  DecryptedFileHasOwner
<1>2. OwnerInv => DecryptedFileHasOwner
  BY DEF OwnerInv
<1>3. QED
  BY <1>1, <1>2, OwnerNext, PTL DEF Spec
-----------------------------------------------------------------------------
\* Without overlap there is one running invocation at most, and nobody takes
\* away the file it is about to unlink.
AloneInv ==
    /\ OwnerInv
    /\ \A p, q \in Procs : Running(p) /\ Running(q) => p = q
    /\ \A p \in Procs :
        pc[p] # "aborted" /\ (pc[p] = "unlink" => dec[CurFile(p)] # Nil)

LEMMA AloneNext ==
    ASSUME "overlap" \notin Disturb
    PROVE  AloneInv /\ [Next]_vars => AloneInv'
<1> SUFFICES ASSUME AloneInv, [Next]_vars PROVE AloneInv'
  OBVIOUS
<1> USE DEF AloneInv, OwnerInv, TypeInv, LocalOK
<1>1. OwnerInv'
  BY OwnerNext DEF OwnerInv
<1>2. ASSUME NEW p \in Procs, Acts(p)
      PROVE  /\ \A q \in Procs \ {p} : ~Running(q)
             /\ pc'[p] # "aborted"
             /\ pc'[p] = "unlink" => dec'[CurFile(p)'] # Nil
  <2>1. \A q \in Procs \ {p} : ~Running(q)
    <3>1. CASE LogContext(p)
      BY <3>1 DEF LogContext, MayHappen, NobodyRunning
    <3>2. CASE ~LogContext(p)
      <4>1. Running(p)
        BY <1>2, <3>2
           DEF Acts, Step, Running, Terminal, Answer, Kill, Validate, Build,
               OpenDecrypted, Decrypt, DecryptFails, Checksum, HelmLoad,
               HelmUpgrade, HelmUpgradeFails, CheckExists, Unlink,
               HelmUninstall
      <4>2. QED
        BY <4>1
    <3>3. QED
      BY <3>1, <3>2
  <2>2. CASE CheckExists(p)
    BY <2>1, <2>2
       DEF CheckExists, Deleted, NextSlot, Goto, Exit, CurFile, FileOf, files
  <2>3. CASE Unlink(p)
    BY <2>1, <2>3 DEF Unlink, Deleted, NextSlot, Goto, Exit
  <2>4. CASE ~CheckExists(p) /\ ~Unlink(p)
    <3>1. pc'[p] \notin {"aborted", "unlink"}
      <4>1. CASE LogContext(p) \/ Answer(p) \/ Kill(p) \/ Validate(p)
                 \/ Build(p) \/ HelmUninstall(p)
        BY <4>1 DEF LogContext, Answer, Kill, Validate, Build, HelmUninstall,
                    Goto, Exit
      <4>2. CASE OpenDecrypted(p) \/ Checksum(p) \/ HelmLoad(p)
        BY <4>2 DEF OpenDecrypted, Checksum, HelmLoad, NextSlot, Goto
      <4>3. CASE Decrypt(p) \/ DecryptFails(p) \/ HelmUpgrade(p)
                 \/ HelmUpgradeFails(p)
        BY <4>3 DEF Decrypt, DecryptFails, HelmUpgrade, HelmUpgradeFails,
                    DeleteSecrets, Goto
      <4>4. QED
        BY <1>2, <2>4, <4>1, <4>2, <4>3 DEF Acts, Step
    <3>2. QED
      BY <2>1, <3>1
  <2>5. QED
    BY <2>1, <2>2, <2>3, <2>4
<1>3. ASSUME NEW p \in Procs, Acts(p) PROVE AloneInv'
  <2>1. \A q \in Procs \ {p} :
          pc'[q] = pc[q] /\ ~Running(q)' /\ pc'[q] # "unlink"
    BY <1>2, <1>3, ActsOnItself DEF Running, Terminal
  <2>2. QED
    BY <1>1, <1>2, <1>3, <2>1
<1>4. CASE UNCHANGED <<dec, pc, run>>
  BY <1>1, <1>4 DEF Running, CurFile, FileOf
<1>5. QED
  BY <1>3, <1>4 DEF Next, Acts, EditSecrets, SwitchContext, vars, files

\* One at a time, the comment in sv start is true: decrypted files are always
\* deleted, whichever step failed, as long as nobody kills the program.
THEOREM AlwaysDeletedAlone ==
    ASSUME "overlap" \notin Disturb
    PROVE  Spec => []AlwaysDeleted
<1>1. Init => AloneInv
  BY TypeInit DEF Init, AloneInv, OwnerInv, StartOnly, StartLabels,
                  DecryptedFileHasOwner, Running
<1>2. AloneInv => AlwaysDeleted
  <2> SUFFICES ASSUME AloneInv, NobodyRunning,
                      \A p \in Procs : pc[p] # "killed",
                      NEW f \in Files, dec[f] # Nil
               PROVE  FALSE
    BY DEF AlwaysDeleted
  <2>1. PICK p \in Procs, s \in Slots : Owes(p, s)
    BY DEF AloneInv, OwnerInv, DecryptedFileHasOwner
  <2>2. ~Running(p) /\ pc[p] # "killed" /\ pc[p] # "aborted"
    BY DEF AloneInv, NobodyRunning
  <2>3. QED
    BY <2>1, <2>2 DEF Owes, Running, Terminal
<1>3. QED
  BY <1>1, <1>2, AloneNext, PTL DEF Spec
-----------------------------------------------------------------------------
\* Without a switch of contexts the context a running invocation showed is
\* the current one, and past the prompt its use is agreed to.
ConsentInv ==
    /\ TypeInv
    /\ \A p \in Procs : Running(p) =>
        /\ run[p].seen = context
        /\ pc[p] = "apply" => run[p].target = context
        /\ pc[p] # "prompt" =>
            run[p].agreed \/ Job[p].bypass \/ context \in LocalContexts

\* The step of an invocation as ConsentInv sees it.
Keeps(p) ==
    /\ run'[p].seen = run[p].seen
    /\ run'[p].agreed = run[p].agreed
    /\ run'[p].target = run[p].target
    /\ Running(p) /\ pc[p] # "prompt"
    /\ pc'[p] # "apply"

LEMMA StepKeeps ==
    ASSUME TypeInv, NEW p \in Procs, Step(p), ~HelmLoad(p)
    PROVE  Keeps(p) \/ ~Running(p)'
<1> USE DEF TypeInv, LocalOK, Keeps, Running, Terminal
<1>1. run[p] \in Run
  OBVIOUS
<1>2. CASE Validate(p) \/ Build(p) \/ HelmUninstall(p)
  BY <1>2 DEF Validate, Build, HelmUninstall, Goto, Exit
<1>3. CASE OpenDecrypted(p)
  BY <1>1, <1>3 DEF OpenDecrypted, NextSlot, Goto, Run
<1>4. CASE Decrypt(p)
  BY <1>4 DEF Decrypt, Goto
<1>5. CASE Checksum(p)
  BY <1>1, <1>5 DEF Checksum, NextSlot, Goto, Run
<1>6. CASE DecryptFails(p) \/ HelmUpgrade(p) \/ HelmUpgradeFails(p)
  BY <1>1, <1>6 DEF DecryptFails, HelmUpgrade, HelmUpgradeFails,
                    DeleteSecrets, Goto, Run
<1>7. CASE CheckExists(p)
  BY <1>1, <1>7 DEF CheckExists, Deleted, NextSlot, Goto, Exit, Run
<1>8. CASE Unlink(p)
  BY <1>1, <1>8 DEF Unlink, Deleted, NextSlot, Goto, Exit, Run
<1>9. QED
  BY <1>2, <1>3, <1>4, <1>5, <1>6, <1>7, <1>8 DEF Step

LEMMA ConsentNext ==
    ASSUME "switch" \notin Disturb
    PROVE  ConsentInv /\ [Next]_vars => ConsentInv'
<1> SUFFICES ASSUME ConsentInv, [Next]_vars PROVE ConsentInv'
  OBVIOUS
<1> USE DEF ConsentInv, Running, Terminal
<1>1. TypeInv'
  BY TypeNext
<1> DEFINE Good(p) == Running(p) =>
             /\ run[p].seen = context
             /\ pc[p] = "apply" => run[p].target = context
             /\ pc[p] # "prompt" =>
                  run[p].agreed \/ Job[p].bypass \/ context \in LocalContexts
<1>2. ASSUME NEW p \in Procs, Acts(p) PROVE Good(p)' /\ context' = context
  <2>1. context' = context
    BY <1>2 DEF Acts, Step, LogContext, Answer, Kill, Validate, Build,
       OpenDecrypted, Decrypt, DecryptFails, Checksum, HelmLoad, HelmUpgrade,
       HelmUpgradeFails, CheckExists, Unlink, HelmUninstall
  <2>2. run[p] \in Run /\ pc \in [Procs -> Labels] /\ run \in [Procs -> Run]
    BY DEF TypeInv, LocalOK
  <2>3. CASE LogContext(p)
    BY <2>1, <2>2, <2>3 DEF LogContext, Goto, Run
  <2>4. CASE Answer(p)
    BY <2>1, <2>2, <2>4 DEF Answer, Goto, Exit, Run
  <2>5. CASE Kill(p)
    BY <2>1, <2>2, <2>5 DEF Kill, Goto, Exit
  <2>6. CASE HelmLoad(p)
    <3>1. run'[p].seen = run[p].seen /\ run'[p].agreed = run[p].agreed
          /\ run'[p].target = context /\ pc'[p] = "apply"
      BY <2>2, <2>6 DEF HelmLoad, Goto, Run
    <3>2. QED
      BY <2>1, <2>6, <3>1 DEF HelmLoad
  <2>7. CASE Step(p) /\ ~HelmLoad(p)
    BY <2>1, <2>7, StepKeeps DEF Keeps
  <2>8. QED
    BY <1>2, <2>3, <2>4, <2>5, <2>6, <2>7 DEF Acts
<1>3. ASSUME NEW p \in Procs, Acts(p) PROVE ConsentInv'
  <2>1. ASSUME NEW q \in Procs, q # p PROVE Good(q)'
    BY <1>2, <1>3, <2>1, ActsOnItself
  <2>2. QED
    BY <1>1, <1>2, <1>3, <2>1
<1>4. CASE UNCHANGED <<context, pc, run>>
  BY <1>1, <1>4
<1>5. ASSUME NEW c \in Contexts, SwitchContext(c) PROVE ConsentInv'
  BY <1>1, <1>5 DEF SwitchContext, MayHappen, NobodyRunning
<1>6. QED
  BY <1>3, <1>4, <1>5 DEF Next, Acts, EditSecrets, vars, files

\* As long as nobody switches contexts under a running command, the prompt
\* protects every non-local cluster.
THEOREM ConsentWithoutSwitch ==
    ASSUME "switch" \notin Disturb
    PROVE  Spec => NonLocalNeedsConsent
<1>1. Init => ConsentInv
  BY TypeInit DEF Init, ConsentInv, Running
<1>2. ConsentInv /\ [Next]_vars => [ConsentStep]_vars
  <2> SUFFICES ASSUME ConsentInv, Next,
                      NEW c \in Contexts \ LocalContexts, NEW a \in Aliases,
                      release'[<<c, a>>] # release[<<c, a>>]
               PROVE  \E p \in Procs :
                        /\ pc[p] \in {"apply", "uninstall"} /\ pc'[p] # pc[p]
                        /\ Job[p].alias = a
                        /\ run[p].seen = c
                        /\ run[p].agreed \/ Job[p].bypass
    BY DEF ConsentStep
  <2>1. PICK p \in Procs : Acts(p)
    BY DEF Next, Acts, EditSecrets, SwitchContext
  <2>2. /\ HelmUpgrade(p) \/ HelmUpgradeFails(p) \/ HelmUninstall(p)
           \/ (Kill(p) /\ pc[p] \in {"apply", "uninstall"})
    BY <2>1 DEF Acts, Step, LogContext, Answer, Kill, Validate, Build,
       OpenDecrypted, Decrypt, DecryptFails, Checksum, HelmLoad, CheckExists,
       Unlink
  <2>3. pc[p] \in {"apply", "uninstall"}
    BY <2>2 DEF HelmUpgrade, HelmUpgradeFails, HelmUninstall
  <2>4. /\ run[p].seen = context
        /\ pc[p] = "apply" => run[p].target = context
        /\ run[p].agreed \/ Job[p].bypass \/ context \in LocalContexts
    BY <2>3 DEF ConsentInv, Running, Terminal
  <2>5. pc'[p] # pc[p]
    BY <2>2, <2>3
       DEF ConsentInv, TypeInv, LocalOK, HelmUpgrade, HelmUpgradeFails,
           HelmUninstall, Kill, DeleteSecrets, Goto, Exit
  <2>6. c = context /\ Job[p].alias = a
    <3> DEFINE at == <<context, Job[p].alias>>
    <3>1. \E r : release' = [release EXCEPT ![at] = r]
      BY <2>2, <2>4
         DEF HelmUpgrade, HelmUpgradeFails, HelmUninstall, Kill, SetRelease,
             Uninstalled
    <3>2. at = <<c, a>>
      BY <3>1 DEF ConsentInv, TypeInv, SharedOK
    <3>3. QED
      BY <3>2
  <2>7. QED
    BY <2>3, <2>4, <2>5, <2>6
<1>3. QED
  BY <1>1, <1>2, ConsentNext, PTL DEF Spec, NonLocalNeedsConsent
=============================================================================

-------------------------- MODULE SvSecretsProofs --------------------------
(***************************************************************************)
(* Theorems about the secrets that sv start brings to the cluster: what    *)
(* helm renders, what the checksum tells and what the pods run with, and   *)
(* that SvStart implements SvRelease.  They follow an invocation through   *)
(* its loop over secretFilesArray, slot by slot.                           *)
(***************************************************************************)
EXTENDS SvStartProofs

Before == {"idle", "prompt", "validate", "build"}
Loop == {"open", "decrypt", "checksum"}

\* The turn of a slot in the loop: it is over, the file is open or decrypted,
\* or its checksum is still to be taken.  An invocation is at label l with the
\* variables r.
Passed(l, r, s) ==
    l \in {"load", "apply"} \/ (l \in Loop /\ r.cur = "env" /\ s = "all")
Now(l, r, s) == l \in {"decrypt", "checksum"} /\ s = r.cur
Ahead(l, r, s) ==
    l \in Before \/ (l \in Loop /\ (r.cur = "all" \/ s = "env"))
-----------------------------------------------------------------------------
\* What an invocation has read for a slot is of the slot's file, and no newer
\* than the file is by now.
Reads(p, l, r, s) ==
    /\ r.plain[s] # Nil =>
        /\ r.plain[s] \in Secret /\ r.plain[s].file = FileOf(p, s)
        /\ enc[FileOf(p, s)] # Nil /\ r.plain[s].ver <= enc[FileOf(p, s)]
    /\ r.sums[s] \in Secret \cup {Nil}
    /\ Ahead(l, r, s) => r.sums[s] = Nil
    /\ l \in Before => r.cur = "all"

ReadInv == TypeInv /\ \A p \in Procs, s \in Slots : Reads(p, pc[p], run[p], s)

\* Without overlap and kill: the decrypted files are those of the one running
\* invocation, with what it decrypted.
InChart(p, l, r, s) ==
    /\ Passed(l, r, s) \/ (l = "checksum" /\ s = r.cur) =>
           dec[FileOf(p, s)] = r.plain[s]
    /\ l = "decrypt" /\ s = r.cur =>
           dec[FileOf(p, s)] = Empty /\ p \in writers[FileOf(p, s)]
    /\ Ahead(l, r, s) /\ ~Now(l, r, s) => r.plain[s] = Nil

ChartInv ==
    /\ AloneInv /\ ReadInv
    /\ \A p \in Procs, s \in Slots : InChart(p, pc[p], run[p], s)
    /\ \A p \in Procs : /\ pc[p] # "killed"
                        /\ pc[p] = "apply" => run[p].loaded = run[p].plain

\* And without edits: what it has read is what the files hold, checksums are
\* exact, and the annotations of a release tell what its pods run with.
Exact(p, l, r, s) ==
    /\ Passed(l, r, s) \/ Now(l, r, s) => r.plain[s] = Encrypted(FileOf(p, s))
    /\ Passed(l, r, s) => r.sums[s] = Encrypted(FileOf(p, s))

DeliverInv ==
    /\ ChartInv
    /\ \A p \in Procs, s \in Slots : Exact(p, pc[p], run[p], s)
    /\ \A at \in Contexts \X Aliases :
          release[at] # Nil /\ release[at].pods # Nil =>
              release[at].pods = release[at].sums
    /\ SuccessDelivers
-----------------------------------------------------------------------------
\* An invocation keeps what it has read until it is over: only two steps of
\* the loop change it.
LEMMA KeepsRead ==
    ASSUME TypeInv, NEW p \in Procs, Acts(p),
           ~OpenDecrypted(p), ~Checksum(p), run'[p] # Fresh
    PROVE  run'[p].plain = run[p].plain /\ run'[p].sums = run[p].sums
<1> USE DEF TypeInv, LocalOK
<1>1. run[p] \in Run
  OBVIOUS
<1>2. CASE LogContext(p) \/ Answer(p) \/ Kill(p)
  BY <1>1, <1>2 DEF LogContext, Answer, Kill, Exit, Run
<1>3. CASE Validate(p) \/ Build(p) \/ HelmUninstall(p)
  BY <1>1, <1>3 DEF Validate, Build, HelmUninstall, Exit
<1>4. CASE Decrypt(p) \/ HelmLoad(p)
  BY <1>1, <1>4 DEF Decrypt, HelmLoad, Run
<1>5. CASE DecryptFails(p) \/ HelmUpgrade(p) \/ HelmUpgradeFails(p)
  BY <1>1, <1>5 DEF DecryptFails, HelmUpgrade, HelmUpgradeFails,
                    DeleteSecrets, Run
<1>6. CASE CheckExists(p) \/ Unlink(p)
  BY <1>1, <1>6 DEF CheckExists, Unlink, Deleted, NextSlot, Exit, Run
<1>7. QED
  BY <1>2, <1>3, <1>4, <1>5, <1>6 DEF Acts, Step

\* Where these steps lead: a slot that is ahead of an invocation was so
\* before, and only one that has not begun the loop goes to its first turn.
LEMMA KeepsAhead ==
    ASSUME TypeInv, NEW p \in Procs, Acts(p), NEW s \in Slots,
           ~OpenDecrypted(p), ~Checksum(p), run'[p] # Fresh,
           Ahead(pc'[p], run'[p], s)
    PROVE  /\ Ahead(pc[p], run[p], s)
           /\ pc'[p] \in Before \cup {"open"} =>
                  pc[p] \in Before /\ run'[p].cur = run[p].cur
<1> USE DEF TypeInv, LocalOK, Ahead, Before, Loop
<1>1. run[p] \in Run
  OBVIOUS
<1>2. CASE LogContext(p) \/ Answer(p) \/ Kill(p)
  BY <1>1, <1>2 DEF LogContext, Answer, Kill, Exit, Goto, Run
<1>3. CASE Validate(p) \/ Build(p) \/ HelmUninstall(p)
  BY <1>1, <1>3 DEF Validate, Build, HelmUninstall, Exit, Goto
<1>4. CASE Decrypt(p) \/ HelmLoad(p)
  BY <1>1, <1>4 DEF Decrypt, HelmLoad, Goto
<1>5. CASE DecryptFails(p) \/ HelmUpgrade(p) \/ HelmUpgradeFails(p)
  BY <1>1, <1>5 DEF DecryptFails, HelmUpgrade, HelmUpgradeFails,
                    DeleteSecrets, Goto
<1>6. CASE CheckExists(p) \/ Unlink(p)
  BY <1>1, <1>6 DEF CheckExists, Unlink, Deleted, NextSlot, Exit, Goto
<1>7. QED
  BY <1>2, <1>3, <1>4, <1>5, <1>6 DEF Acts, Step

\* What an invocation that has just started, or is over, has read.
LEMMA FreshReads ==
    ASSUME NEW p \in Procs, NEW l, NEW s \in Slots
    PROVE  /\ Reads(p, l, Fresh, s)
           /\ Fresh.plain[s] = Nil /\ Fresh.sums[s] = Nil /\ Fresh.cur = "all"
BY DEF Reads, Fresh, NoManifests

\* The two steps of the loop, as the slots see them.
LEMMA OpenStep ==
    ASSUME TypeInv, NEW p \in Procs, OpenDecrypted(p)
    PROVE  LET s == run[p].cur
               f == CurFile(p)
           IN  /\ s \in Slots /\ f \in Files /\ f = FileOf(p, s)
               /\ pc[p] = "open"
               /\ run'[p].sums = run[p].sums
               /\ UNCHANGED <<context, enc, release>>
               /\ \/ /\ enc[f] = Nil
                     /\ run'[p].plain = run[p].plain
                     /\ run'[p].cur = IF LastSlot(p) THEN "all" ELSE "env"
                     /\ pc'[p] = IF LastSlot(p) THEN "load" ELSE "open"
                     /\ UNCHANGED <<dec, writers>>
                  \/ /\ enc[f] # Nil
                     /\ run'[p].plain = [run[p].plain EXCEPT ![s] = Encrypted(f)]
                     /\ run'[p].cur = s
                     /\ pc'[p] = "decrypt"
                     /\ dec' = [dec EXCEPT ![f] = Empty]
                     /\ p \in writers'[f]
<1> USE DEF TypeInv, LocalOK, SharedOK
<1>1. run[p] \in Run /\ run[p].cur \in Slots /\ CurFile(p) \in Files
  BY FileOfType, RunType DEF CurFile
<1>2. CASE enc[CurFile(p)] = Nil
  BY <1>1, <1>2 DEF OpenDecrypted, NextSlot, Goto, CurFile, Run
<1>3. CASE enc[CurFile(p)] # Nil
  BY <1>1, <1>3 DEF OpenDecrypted, Goto, CurFile, Run
<1>4. QED
  BY <1>2, <1>3

LEMMA ChecksumStep ==
    ASSUME TypeInv, NEW p \in Procs, Checksum(p)
    PROVE  LET s == run[p].cur
           IN  /\ s \in Slots /\ pc[p] = "checksum"
               /\ run'[p].plain = run[p].plain
               /\ run'[p].sums =
                      [run[p].sums EXCEPT ![s] = Encrypted(FileOf(p, s))]
               /\ run'[p].cur = IF LastSlot(p) THEN "all" ELSE "env"
               /\ pc'[p] = IF LastSlot(p) THEN "load" ELSE "open"
               /\ UNCHANGED <<context, files, release>>
<1> USE DEF TypeInv, LocalOK
<1> DEFINE sums == [run[p].sums EXCEPT ![run[p].cur] = Encrypted(CurFile(p))]
           r == [run[p] EXCEPT !.sums = sums]
<1>1. run[p] \in Run /\ run[p].cur \in Slots
  BY RunType
<1>2. r.plain = run[p].plain /\ r.sums = sums /\ "cur" \in DOMAIN r
  BY <1>1 DEF Run
<1>3. NextSlot(p, IF LastSlot(p) THEN "load" ELSE "open", r)
  BY <1>1 DEF Checksum
<1>4. run'[p] = [r EXCEPT !.cur = IF LastSlot(p) THEN "all" ELSE "env"]
  <2> HIDE DEF r
  <2> QED
    BY <1>3 DEF NextSlot
<1>5. /\ run'[p].cur = (IF LastSlot(p) THEN "all" ELSE "env")
      /\ run'[p].plain = run[p].plain
      /\ run'[p].sums = sums
  BY <1>1, <1>4 DEF Run
<1>6. pc'[p] = IF LastSlot(p) THEN "load" ELSE "open"
  <2> HIDE DEF r
  <2> QED
    BY <1>3 DEF NextSlot, Goto
<1>7. QED
  BY <1>1, <1>5, <1>6 DEF Checksum, CurFile

\* A step of an invocation leaves the encrypted files alone.
LEMMA ActsKeepEncrypted ==
    ASSUME NEW p \in Procs, Acts(p)
    PROVE  UNCHANGED enc
BY DEF Acts, Step, LogContext, Answer, Kill, Validate, Build, OpenDecrypted,
       Decrypt, DecryptFails, Checksum, HelmLoad, HelmUpgrade,
       HelmUpgradeFails, CheckExists, Unlink, HelmUninstall, files

LEMMA ReadsStep ==
    ASSUME ReadInv, NEW p \in Procs, Acts(p), NEW s \in Slots
    PROVE  Reads(p, pc[p], run[p], s)'
<1> DEFINE f == FileOf(p, s)
<1> USE DEF ReadInv
<1>1. UNCHANGED enc /\ f' = f /\ f \in Files
  BY ActsKeepEncrypted, FileOfType DEF FileOf
<1>2. Reads(p, pc[p], run[p], s)
  OBVIOUS
<1>3. run[p] \in Run /\ run[p].plain \in Manifests /\ run[p].sums \in Manifests
  BY RunType DEF TypeInv, LocalOK
<1>4. CASE OpenDecrypted(p)
  <2>1. CASE run'[p].plain = run[p].plain
    BY <1>1, <1>2, <1>4, <2>1, OpenStep
       DEF Reads, Ahead, Before, Loop, Slots, LastSlot
  <2>2. CASE s # run[p].cur
    BY <1>1, <1>2, <1>3, <1>4, <2>2, OpenStep
       DEF Reads, Ahead, Before, Loop, Slots, LastSlot, Manifests
  <2>3. CASE s = run[p].cur /\ enc[f] # Nil
    <3>0. run'[p].plain = [run[p].plain EXCEPT ![s] = Encrypted(f)]
      BY <1>4, <2>3, OpenStep DEF CurFile
    <3>1. run'[p].plain[s] = [file |-> f, ver |-> enc[f]]
      BY <1>3, <2>3, <3>0 DEF Encrypted, Manifests
    <3>2. enc[f] \in Nat /\ pc'[p] \notin Before
      BY <1>1, <1>4, <2>3, OpenStep DEF TypeInv, SharedOK, Before, CurFile
    <3>3. run[p].sums[s] = Nil
      BY <1>2, <1>4, <2>3, OpenStep DEF Reads, Ahead, Loop, Slots
    <3>4. run'[p].sums = run[p].sums
      BY <1>4, OpenStep
    <3>5. QED
      BY <1>1, <2>3, <3>1, <3>2, <3>3, <3>4 DEF Reads, Secret
  <2>4. s = run[p].cur /\ enc[f] = Nil => run'[p].plain = run[p].plain
    BY <1>4, OpenStep DEF CurFile
  <2>5. QED
    BY <2>1, <2>2, <2>3, <2>4
<1>5. CASE Checksum(p)
  <2>1. CASE s # run[p].cur
    BY <1>1, <1>2, <1>3, <1>5, <2>1, ChecksumStep
       DEF Reads, Ahead, Before, Loop, Slots, LastSlot, Manifests
  <2>2. CASE s = run[p].cur
    <3>1. run'[p].plain = run[p].plain /\ run'[p].sums[s] = Encrypted(f)
      BY <1>3, <1>5, <2>2, ChecksumStep DEF Manifests
    <3>2. ~Ahead(pc'[p], run'[p], s) /\ pc'[p] \notin Before
      BY <1>5, <2>2, ChecksumStep DEF Ahead, Before, Loop, LastSlot, Slots
    <3>3. enc[f] \in Nat \cup {Nil}
      BY <1>1 DEF TypeInv, SharedOK
    <3>4. QED
      BY <1>1, <1>2, <3>1, <3>2, <3>3, ConstantsAssumption
         DEF Reads, Encrypted, Secret
  <2>3. QED
    BY <2>1, <2>2
<1>6. CASE run'[p] = Fresh
  BY <1>6, FreshReads DEF Reads
<1>7. CASE ~OpenDecrypted(p) /\ ~Checksum(p) /\ run'[p] # Fresh
  <2>1. run'[p].plain = run[p].plain /\ run'[p].sums = run[p].sums
    BY <1>7, KeepsRead
  <2>2. Ahead(pc'[p], run'[p], s) => Ahead(pc[p], run[p], s)
    BY <1>7, KeepsAhead
  <2>3. pc'[p] \in Before => pc[p] \in Before /\ run'[p].cur = run[p].cur
    <3>1. pc'[p] \in Before => Ahead(pc'[p], run'[p], s)
      BY DEF Ahead
    <3>2. QED
      BY <1>7, <3>1, KeepsAhead
  <2>4. QED
    BY <1>1, <1>2, <2>1, <2>2, <2>3 DEF Reads
<1>8. QED
  BY <1>4, <1>5, <1>6, <1>7

LEMMA ReadNext == ReadInv /\ [Next]_vars => ReadInv'
<1> SUFFICES ASSUME ReadInv, [Next]_vars PROVE ReadInv'
  OBVIOUS
<1> USE DEF ReadInv
<1>1. TypeInv'
  BY TypeNext
<1>2. ASSUME NEW p \in Procs, Acts(p),
             NEW q \in Procs, NEW s \in Slots
      PROVE  Reads(q, pc[q], run[q], s)'
  <2>1. CASE q = p
    BY <1>2, <2>1, ReadsStep
  <2>2. CASE q # p
    BY <1>2, <2>2, ActsOnItself, ActsKeepEncrypted DEF Reads, FileOf, Ahead
  <2>3. QED
    BY <2>1, <2>2
<1>3. ASSUME NEW f \in Files, EditSecrets(f), NEW q \in Procs, NEW s \in Slots
      PROVE  Reads(q, pc[q], run[q], s)'
  <2> DEFINE g == FileOf(q, s)
  <2>1. Reads(q, pc[q], run[q], s) /\ UNCHANGED <<pc, run>>
    BY <1>3 DEF EditSecrets
  <2>2. enc \in [Files -> Nat \cup {Nil}] /\ g \in Files
    BY FileOfType DEF TypeInv, SharedOK
  <2>3. enc[g] # Nil => enc'[g] # Nil /\ enc'[g] >= enc[g]
    BY <1>3, <2>2, ConstantsAssumption DEF EditSecrets
  <2>4. enc'[g] \in Nat \cup {Nil}
    BY <1>1, <2>2 DEF TypeInv, SharedOK
  <2>5. run[q].plain[s] # Nil => run[q].plain[s].ver \in Nat
    BY <2>1 DEF Reads, Secret
  <2>6. QED
    BY <2>1, <2>2, <2>3, <2>4, <2>5 DEF Reads, FileOf, Ahead
<1>4. CASE UNCHANGED <<enc, pc, run>>
  BY <1>1, <1>4 DEF Reads, FileOf, Ahead
<1>5. QED
  BY <1>1, <1>2, <1>3, <1>4 DEF Next, Acts, SwitchContext, vars, files

LEMMA ReadInit == Init => ReadInv
BY TypeInit, FreshReads DEF Init, ReadInv

-----------------------------------------------------------------------------
LEMMA SlotFiles ==
    ASSUME NEW p \in Procs
    PROVE  /\ FileOf(p, "all") = "all"
           /\ FileOf(p, "env") = Job[p].env
           /\ Job[p].env \in Envs /\ Job[p].env # "all"
BY ConstantsAssumption DEF FileOf

\* Without overlap a step is made by the only invocation that runs.
LEMMA OthersRest ==
    ASSUME AloneInv, "overlap" \notin Disturb, NEW p \in Procs, Acts(p),
           NEW q \in Procs \ {p}
    PROVE  ~Running(q)
<1>1. CASE LogContext(p)
  BY <1>1 DEF LogContext, MayHappen, NobodyRunning
<1>2. CASE ~LogContext(p)
  <2>1. Running(p)
    BY <1>2 DEF Acts, Step, Running, Terminal, Answer, Kill, Validate, Build,
       OpenDecrypted, Decrypt, DecryptFails, Checksum, HelmLoad, HelmUpgrade,
       HelmUpgradeFails, CheckExists, Unlink, HelmUninstall
  <2>2. QED
    BY <2>1 DEF AloneInv
<1>3. QED
  BY <1>1, <1>2

\* Every decrypted file in the chart is one that the running invocation owes.
LEMMA RunnerOwns ==
    ASSUME ChartInv, NEW p \in Procs, Running(p),
           NEW f \in Files, dec[f] # Nil
    PROVE  \E s \in Slots : f = FileOf(p, s) /\ Owes(p, s)
<1>1. PICK q \in Procs, s \in Slots : f = FileOf(q, s) /\ Owes(q, s)
  BY DEF ChartInv, AloneInv, OwnerInv, DecryptedFileHasOwner
<1>2. Running(q)
  BY <1>1 DEF Owes, Running, Terminal, ChartInv, AloneInv
<1>3. q = p
  BY <1>2 DEF ChartInv, AloneInv
<1>4. QED
  BY <1>1, <1>3

\* All other steps lead away from the loop, or to its beginning.
LEMMA OffLoop ==
    ASSUME TypeInv, NEW p \in Procs, Acts(p),
           ~OpenDecrypted(p), ~Decrypt(p), ~Checksum(p), ~HelmLoad(p)
    PROVE  /\ pc'[p] \notin {"decrypt", "checksum", "load", "apply"}
           /\ pc'[p] = "open" => pc[p] \in Before /\ run'[p].cur = run[p].cur
<1> USE DEF TypeInv, LocalOK, Before
<1>1. CASE LogContext(p) \/ Answer(p) \/ Kill(p)
  BY <1>1 DEF LogContext, Answer, Kill, Exit, Goto, Terminal
<1>2. CASE Validate(p) \/ Build(p) \/ HelmUninstall(p)
  BY <1>2 DEF Validate, Build, HelmUninstall, Exit, Goto
<1>3. CASE DecryptFails(p) \/ HelmUpgrade(p) \/ HelmUpgradeFails(p)
  BY <1>3 DEF DecryptFails, HelmUpgrade, HelmUpgradeFails, DeleteSecrets, Goto
<1>4. CASE CheckExists(p) \/ Unlink(p)
  BY <1>4 DEF CheckExists, Unlink, Deleted, NextSlot, Exit, Goto
<1>5. QED
  BY <1>1, <1>2, <1>3, <1>4 DEF Acts, Step

\* kubesec writes what it decrypted to the file that it has opened.
LEMMA DecryptStep ==
    ASSUME ChartInv, NEW p \in Procs, Decrypt(p)
    PROVE  /\ CurFile(p) \in Files
           /\ dec' = [dec EXCEPT ![CurFile(p)] = run[p].plain[run[p].cur]]
           /\ pc[p] = "decrypt" /\ pc'[p] = "checksum"
           /\ UNCHANGED <<context, enc, release, run>>
<1> DEFINE f == CurFile(p)
<1> USE DEF ChartInv, ReadInv, TypeInv, LocalOK
<1>1. run[p].cur \in Slots /\ f \in Files
  BY RunType, FileOfType DEF CurFile
<1>2. dec[f] = Empty /\ p \in writers[f]
  BY <1>1 DEF Decrypt, InChart, CurFile
<1>3. QED
  BY <1>1, <1>2 DEF Decrypt, Overwritten, Goto

LEMMA ChartStep ==
    ASSUME ChartInv, NEW p \in Procs, Acts(p), NEW s \in Slots
    PROVE  InChart(p, pc[p], run[p], s)'
<1> DEFINE f == FileOf(p, s)
<1> USE DEF ChartInv, ReadInv
<1>1. InChart(p, pc[p], run[p], s) /\ f' = f /\ f \in Files
  BY FileOfType DEF FileOf
<1>2. /\ run[p] \in Run /\ run[p].plain \in Manifests
      /\ s \in {"all", "env"} /\ run[p].cur \in {"all", "env"}
      /\ dec \in [Files -> Content]
  BY RunType DEF TypeInv, LocalOK, SharedOK, Slots
<1>3. CASE OpenDecrypted(p)
  <2>1. ASSUME s = run[p].cur PROVE dec[f] = Nil
    <3>1. pc[p] = "open" /\ Running(p)
      BY <1>3, OpenStep DEF Running, Terminal
    <3>2. ASSUME NEW t \in Slots, Owes(p, t) PROVE f # FileOf(p, t)
      BY <2>1, <3>1, <3>2, SlotFiles DEF Owes, LastSlot
    <3>3. QED
      BY <1>1, <3>1, <3>2, RunnerOwns
  <2>2. CurFile(p) = FileOf(p, run[p].cur) /\ pc[p] = "open"
    BY <1>3, OpenStep
  <2>3. s # run[p].cur => f # CurFile(p)
    BY <1>2, <2>2, SlotFiles
  <2>4. CASE enc[CurFile(p)] = Nil
    <3>1. /\ run'[p].plain = run[p].plain
          /\ run'[p].cur = IF LastSlot(p) THEN "all" ELSE "env"
          /\ pc'[p] = IF LastSlot(p) THEN "load" ELSE "open"
          /\ UNCHANGED <<dec, writers>>
      BY <1>3, <2>4, OpenStep
    <3>2. QED
      BY <1>1, <1>2, <2>1, <2>2, <3>1
         DEF InChart, Passed, Ahead, Now, Before, Loop, LastSlot
  <2>5. CASE enc[CurFile(p)] # Nil
    <3>1. /\ run'[p].plain =
                 [run[p].plain EXCEPT ![run[p].cur] = Encrypted(CurFile(p))]
          /\ run'[p].cur = run[p].cur
          /\ pc'[p] = "decrypt"
          /\ dec' = [dec EXCEPT ![CurFile(p)] = Empty]
          /\ p \in writers'[CurFile(p)]
      BY <1>3, <2>5, OpenStep
    <3>2. CASE s = run[p].cur
      BY <1>1, <1>2, <2>2, <3>1, <3>2
         DEF InChart, Passed, Ahead, Now, Before, Loop
    <3>3. CASE s # run[p].cur
      <4>1. run'[p].plain[s] = run[p].plain[s] /\ dec'[f] = dec[f]
        BY <1>1, <1>2, <2>3, <3>1, <3>3 DEF Manifests, Slots
      <4>2. QED
        BY <1>1, <1>2, <2>2, <3>1, <3>3, <4>1
           DEF InChart, Passed, Ahead, Now, Before, Loop
    <3>4. QED
      BY <3>2, <3>3
  <2>6. QED
    BY <2>4, <2>5
<1>4. CASE Decrypt(p)
  <2>1. CurFile(p) = FileOf(p, run[p].cur)
    BY DEF CurFile
  <2>2. s # run[p].cur => f # CurFile(p)
    BY <1>2, <2>1, SlotFiles
  <2>3. QED
    BY <1>1, <1>2, <1>4, <2>1, <2>2, DecryptStep
       DEF InChart, Passed, Ahead, Now, Before, Loop
<1>5. CASE Checksum(p)
  <2>1. /\ pc[p] = "checksum" /\ run'[p].plain = run[p].plain
        /\ run'[p].cur = IF LastSlot(p) THEN "all" ELSE "env"
        /\ pc'[p] = IF LastSlot(p) THEN "load" ELSE "open"
        /\ UNCHANGED dec
    BY <1>5, ChecksumStep DEF files
  <2>2. QED
    BY <1>1, <1>2, <2>1
       DEF InChart, Passed, Ahead, Now, Before, Loop, LastSlot
<1>6. CASE HelmLoad(p)
  <2>1. pc[p] = "load" /\ pc'[p] = "apply" /\ UNCHANGED dec
        /\ run'[p].plain = run[p].plain
    BY <1>2, <1>6 DEF HelmLoad, Goto, files, Run, TypeInv, LocalOK
  <2>2. QED
    BY <1>1, <2>1 DEF InChart, Passed, Ahead, Now, Before, Loop
<1>7. CASE ~OpenDecrypted(p) /\ ~Decrypt(p) /\ ~Checksum(p) /\ ~HelmLoad(p)
  <2>1. pc'[p] \notin {"decrypt", "checksum", "load", "apply"}
    BY <1>7, OffLoop
  <2>2. pc'[p] = "open" => pc[p] \in Before /\ run'[p].cur = "all"
    BY <1>7, OffLoop DEF Reads
  <2>3. ASSUME Ahead(pc'[p], run'[p], s) PROVE run'[p].plain[s] = Nil
    <3>1. CASE run'[p] = Fresh
      BY <3>1, FreshReads
    <3>2. CASE run'[p] # Fresh
      <4>1. run'[p].plain = run[p].plain /\ pc[p] \in Before
        BY <1>7, <2>1, <2>3, <3>2, KeepsRead, KeepsAhead
           DEF Ahead, Loop
      <4>2. QED
        BY <1>1, <4>1 DEF InChart, Ahead, Now, Before
    <3>3. QED
      BY <3>1, <3>2
  <2>4. QED
    BY <2>1, <2>2, <2>3 DEF InChart, Passed, Loop, Before
<1>8. QED
  BY <1>3, <1>4, <1>5, <1>6, <1>7

\* What helm renders is what the only running invocation has decrypted.
LEMMA LoadsPlain ==
    ASSUME ChartInv, NEW p \in Procs, HelmLoad(p)
    PROVE  run'[p].loaded = run[p].plain
<1> USE DEF ChartInv, ReadInv
<1> DEFINE m == run[p].plain
<1>1. /\ run[p] \in Run /\ m \in Manifests
      /\ dec \in [Files -> Content] /\ pc[p] = "load"
  BY RunType DEF TypeInv, LocalOK, SharedOK, HelmLoad
<1>2. \A s \in Slots : dec[FileOf(p, s)] = m[s]
  BY <1>1 DEF InChart, Passed
<1>3. \A s \in Slots : m[s] \in Secret \cup {Nil} /\ Rendered(m[s]) = m[s]
  BY ConstantsAssumption DEF Reads, Rendered
<1>4. \A e \in Envs \ {Job[p].env} : dec[e] = Nil
  <2>1. Running(p)
    BY <1>1 DEF Running, Terminal
  <2>2. \A e \in Envs : dec[e] # Nil =>
            \E s \in Slots : e = FileOf(p, s)
    BY <2>1, RunnerOwns DEF Files
  <2>3. QED
    BY <2>2, SlotFiles, ConstantsAssumption DEF Slots
<1>5. Manifest("all") = {m["all"]}
  BY <1>2, <1>3, SlotFiles, ContentType DEF Manifest
<1>6. Manifest("env") = {m["env"]}
  <2>1. dec[Job[p].env] = m["env"] /\ Rendered(m["env"]) = m["env"]
    BY <1>2, <1>3, SlotFiles, ContentType
  <2>2. {Rendered(dec[e]) : e \in Envs} \ {Nil} = {m["env"]} \ {Nil}
    BY <1>4, <2>1, SlotFiles, ConstantsAssumption DEF Rendered
  <2>3. QED
    BY <2>2 DEF Manifest
<1>7. run'[p].loaded = [s \in Slots |-> IF s = "all" THEN m["all"] ELSE m["env"]]
  BY <1>1, <1>5, <1>6 DEF HelmLoad, Run, TypeInv, LocalOK
<1>8. QED
  BY <1>1, <1>7 DEF Manifests, Slots

LEMMA ChartNext ==
    ASSUME "overlap" \notin Disturb, "kill" \notin Disturb
    PROVE  ChartInv /\ [Next]_vars => ChartInv'
<1> SUFFICES ASSUME ChartInv, [Next]_vars PROVE ChartInv'
  OBVIOUS
<1> USE DEF ChartInv
<1>1. AloneInv' /\ ReadInv'
  BY AloneNext, ReadNext
<1>2. ASSUME NEW p \in Procs, Acts(p), NEW q \in Procs \ {p}
      PROVE  /\ \A s \in Slots : InChart(q, pc[q], run[q], s)'
             /\ pc'[q] # "killed" /\ pc'[q] # "apply"
  <2>1. ~Running(q) /\ pc'[q] = pc[q] /\ run'[q] = run[q]
    BY <1>2, OthersRest, ActsOnItself DEF ReadInv
  <2>2. pc[q] \in Terminal \cup {"idle"}
    BY <2>1 DEF Running
  <2>3. QED
    BY <2>1, <2>2
       DEF InChart, Passed, Now, Ahead, Before, Loop, Terminal, FileOf
<1>3. ASSUME NEW p \in Procs, Acts(p)
      PROVE  /\ pc'[p] # "killed"
             /\ pc'[p] = "apply" => run'[p].loaded = run'[p].plain
  <2>1. pc'[p] # "killed"
    BY <1>3 DEF Acts, Step, LogContext, Answer, Kill, Validate, Build,
       OpenDecrypted, Decrypt, DecryptFails, Checksum, HelmLoad, HelmUpgrade,
       HelmUpgradeFails, CheckExists, Unlink, HelmUninstall, Deleted,
       DeleteSecrets, NextSlot, Goto, Exit, ReadInv, TypeInv, LocalOK
  <2>2. CASE HelmLoad(p)
    <3>1. run[p] \in Run
      BY DEF ReadInv, TypeInv, LocalOK
    <3>2. run'[p].plain = run[p].plain
      BY <2>2, <3>1 DEF HelmLoad, Run, ReadInv, TypeInv, LocalOK
    <3>3. QED
      BY <2>1, <2>2, <3>2, LoadsPlain
  <2>3. CASE ~HelmLoad(p)
    <3>1. pc'[p] # "apply"
      BY <1>3, <2>3, OffLoop, OpenStep, DecryptStep, ChecksumStep DEF ReadInv
    <3>2. QED
      BY <2>1, <3>1
  <2>4. QED
    BY <2>1, <2>2, <2>3
<1>4. ASSUME NEW p \in Procs, Acts(p) PROVE ChartInv'
  BY <1>1, <1>2, <1>3, <1>4, ChartStep
<1>5. CASE UNCHANGED <<dec, writers, pc, run>>
  BY <1>1, <1>5 DEF InChart, Passed, Now, Ahead, FileOf
<1>6. QED
  BY <1>4, <1>5 DEF Next, Acts, EditSecrets, SwitchContext, vars, files

LEMMA ChartInit == Init => ChartInv
<1> SUFFICES ASSUME Init PROVE ChartInv
  OBVIOUS
<1>1. ReadInv
  BY ReadInit
<1>2. AloneInv
  BY TypeInit DEF Init, AloneInv, OwnerInv, StartOnly, StartLabels,
                  DecryptedFileHasOwner, Running
<1>3. \A p \in Procs, s \in Slots : InChart(p, pc[p], run[p], s)
  BY FreshReads DEF Init, InChart, Passed, Now, Loop
<1>4. QED
  BY <1>1, <1>2, <1>3 DEF Init, ChartInv

\* One at a time and not killed, helm installs what the same invocation has
\* decrypted, all of it and nothing else, even if the encrypted files are
\* edited meanwhile.
THEOREM InstalledIsDecrypted ==
    ASSUME "overlap" \notin Disturb, "kill" \notin Disturb
    PROVE  Spec => []InstallsWhatItDecrypted
<1>1. ChartInv => InstallsWhatItDecrypted
  BY DEF ChartInv, InstallsWhatItDecrypted
<1>2. QED
  BY <1>1, ChartInit, ChartNext, PTL DEF Spec
-----------------------------------------------------------------------------
\* What the files hold for an invocation.
Here(p) == [s \in Slots |-> Encrypted(FileOf(p, s))]

LEMMA ExactStep ==
    ASSUME DeliverInv, NEW p \in Procs, Acts(p), NEW s \in Slots
    PROVE  Exact(p, pc[p], run[p], s)'
<1> DEFINE f == FileOf(p, s)
<1> USE DEF DeliverInv, ChartInv, ReadInv
<1>1. /\ Exact(p, pc[p], run[p], s) /\ Reads(p, pc[p], run[p], s)
      /\ InChart(p, pc[p], run[p], s)
  OBVIOUS
<1>2. /\ run[p] \in Run
      /\ run[p].plain \in [Slots -> Content] /\ run[p].sums \in [Slots -> Content]
      /\ s \in {"all", "env"} /\ run[p].cur \in {"all", "env"}
  BY RunType DEF TypeInv, LocalOK, Slots, Manifests
<1>3. Encrypted(f)' = Encrypted(f) /\ f' = f
  BY ActsKeepEncrypted DEF Encrypted, FileOf
<1>4. CASE OpenDecrypted(p)
  <2>1. CurFile(p) = FileOf(p, run[p].cur) /\ pc[p] = "open"
    BY <1>4, OpenStep
  <2>2. CASE enc[CurFile(p)] = Nil
    <3>1. /\ run'[p].plain = run[p].plain /\ run'[p].sums = run[p].sums
          /\ run'[p].cur = IF LastSlot(p) THEN "all" ELSE "env"
          /\ pc'[p] = IF LastSlot(p) THEN "load" ELSE "open"
      BY <1>4, <2>2, OpenStep
    <3>2. s = run[p].cur =>
            run[p].plain[s] = Encrypted(f) /\ run[p].sums[s] = Encrypted(f)
      BY <1>1, <1>2, <2>1, <2>2
         DEF InChart, Reads, Ahead, Now, Loop, Encrypted
    <3>3. QED
      BY <1>1, <1>2, <1>3, <2>1, <3>1, <3>2
         DEF Exact, Passed, Now, Loop, LastSlot
  <2>3. CASE enc[CurFile(p)] # Nil
    <3>1. /\ run'[p].plain =
                 [run[p].plain EXCEPT ![run[p].cur] = Encrypted(CurFile(p))]
          /\ run'[p].sums = run[p].sums
          /\ run'[p].cur = run[p].cur /\ pc'[p] = "decrypt"
      BY <1>4, <2>3, OpenStep
    <3>2. QED
      BY <1>1, <1>2, <1>3, <2>1, <3>1 DEF Exact, Passed, Now, Loop, Slots
  <2>4. QED
    BY <2>2, <2>3
<1>5. CASE Decrypt(p)
  BY <1>1, <1>3, <1>5, DecryptStep DEF Exact, Passed, Now, Loop
<1>6. CASE Checksum(p)
  <2>1. /\ pc[p] = "checksum" /\ run'[p].plain = run[p].plain
        /\ run'[p].sums =
               [run[p].sums EXCEPT ![run[p].cur] =
                    Encrypted(FileOf(p, run[p].cur))]
        /\ run'[p].cur = IF LastSlot(p) THEN "all" ELSE "env"
        /\ pc'[p] = IF LastSlot(p) THEN "load" ELSE "open"
    BY <1>6, ChecksumStep
  <2>2. QED
    BY <1>1, <1>2, <1>3, <2>1 DEF Exact, Passed, Now, Loop, LastSlot, Slots
<1>7. CASE HelmLoad(p)
  <2>1. run'[p].plain = run[p].plain /\ run'[p].sums = run[p].sums
    BY <1>2, <1>7 DEF HelmLoad, Run, TypeInv, LocalOK
  <2>2. QED
    BY <1>1, <1>3, <1>7, <2>1 DEF HelmLoad, Exact, Passed
<1>8. CASE ~OpenDecrypted(p) /\ ~Decrypt(p) /\ ~Checksum(p) /\ ~HelmLoad(p)
  <2>1. pc'[p] \notin {"decrypt", "checksum", "load", "apply"}
    BY <1>8, OffLoop
  <2>2. pc'[p] = "open" => run'[p].cur = "all"
    BY <1>1, <1>8, OffLoop DEF Reads
  <2>3. QED
    BY <2>1, <2>2 DEF Exact, Passed, Now, Loop
<1>9. QED
  BY <1>4, <1>5, <1>6, <1>7, <1>8

\* A release that helm has upgraded has the secrets of the files throughout:
\* its pods stay only if they have them already.
LEMMA UpgradedExact ==
    ASSUME DeliverInv, NEW p \in Procs, pc[p] = "apply"
    PROVE  /\ <<run[p].target, Job[p].alias>> \in Contexts \X Aliases
           /\ run[p].loaded = Here(p)
           /\ Upgraded(p) = [secrets |-> Here(p), sums |-> Here(p),
                             env |-> Job[p].env, pods |-> Here(p)]
<1> DEFINE at == <<run[p].target, Job[p].alias>>
<1> USE DEF DeliverInv, ChartInv, ReadInv
<1>1. at \in Contexts \X Aliases
  BY ConstantsAssumption DEF TypeInv, LocalOK, At
<1>2. run[p].plain \in Manifests /\ run[p].sums \in Manifests
  BY RunType DEF TypeInv, LocalOK
<1>3. \A s \in Slots : /\ run[p].plain[s] = Encrypted(FileOf(p, s))
                       /\ run[p].sums[s] = Encrypted(FileOf(p, s))
  BY DEF Exact, Passed
<1>4. run[p].plain = Here(p) /\ run[p].sums = Here(p)
  BY <1>2, <1>3 DEF Manifests, Here
<1>5. run[p].loaded = Here(p)
  BY <1>4
<1>6. release[at] # Nil /\ release[at].pods # Nil =>
          release[at].pods = release[at].sums
  BY <1>1
<1>7. QED
  BY <1>1, <1>4, <1>5, <1>6 DEF Upgraded

\* The steps that change a release, as the promise sees them.
LEMMA ReleaseStep ==
    ASSUME DeliverInv, NEW p \in Procs, Acts(p), ~Kill(p)
    PROVE  \/ UNCHANGED release
           \/ /\ pc[p] = "apply"
              /\ HelmUpgrade(p) \/ HelmUpgradeFails(p)
              /\ SetRelease(p, Upgraded(p)) \/ SetRelease(p, HalfUpgraded(p))
           \/ /\ HelmUninstall(p)
              /\ release' = [release EXCEPT ![<<context, Job[p].alias>>] = Nil]
BY DEF Acts, Step, LogContext, Answer, Validate, Build, OpenDecrypted,
       Decrypt, DecryptFails, Checksum, HelmLoad, HelmUpgrade,
       HelmUpgradeFails, CheckExists, Unlink, HelmUninstall, Uninstalled, files

\* What deleteSecrets is told, and what it keeps.
LEMMA DeletingStep ==
    ASSUME TypeInv, NEW p \in Procs, Acts(p),
           pc'[p] \in {"check", "unlink"}, run'[p].ok
    PROVE  /\ run'[p].target = run[p].target
           /\ \/ HelmUpgrade(p)
              \/ pc[p] \in {"check", "unlink"} /\ run[p].ok /\ UNCHANGED release
<1> USE DEF TypeInv, LocalOK
<1>1. run[p] \in Run
  OBVIOUS
<1>2. CASE LogContext(p) \/ Answer(p) \/ Kill(p)
  BY <1>2 DEF LogContext, Answer, Kill, Exit, Goto, Terminal
<1>3. CASE Validate(p) \/ Build(p) \/ HelmUninstall(p) \/ HelmLoad(p)
  BY <1>3 DEF Validate, Build, HelmUninstall, HelmLoad, Exit, Goto
<1>4. CASE OpenDecrypted(p) \/ Decrypt(p) \/ Checksum(p)
  BY <1>4 DEF OpenDecrypted, Decrypt, Checksum, NextSlot, Goto
<1>5. CASE DecryptFails(p) \/ HelmUpgradeFails(p)
  BY <1>1, <1>5 DEF DecryptFails, HelmUpgradeFails, DeleteSecrets, Goto, Run
<1>6. CASE HelmUpgrade(p)
  BY <1>1, <1>6 DEF HelmUpgrade, DeleteSecrets, Goto, Run
<1>7. CASE CheckExists(p) \/ Unlink(p)
  BY <1>1, <1>7 DEF CheckExists, Unlink, Deleted, NextSlot, Exit, Goto, Run
<1>8. QED
  BY <1>2, <1>3, <1>4, <1>5, <1>6, <1>7 DEF Acts, Step

LEMMA DeliverNext ==
    ASSUME Disturb \subseteq {"switch"}
    PROVE  DeliverInv /\ [Next]_vars => DeliverInv'
<1> SUFFICES ASSUME DeliverInv, [Next]_vars PROVE DeliverInv'
  OBVIOUS
<1> USE DEF DeliverInv
<1>1. ChartInv'
  BY ChartNext
<1>2. ASSUME NEW p \in Procs, Acts(p), NEW q \in Procs, NEW s \in Slots
      PROVE  Exact(q, pc[q], run[q], s)'
  <2>1. CASE q = p
    BY <1>2, <2>1, ExactStep
  <2>2. CASE q # p
    <3>1. ~Running(q) /\ pc'[q] = pc[q]
      BY <1>2, <2>2, OthersRest, ActsOnItself DEF ChartInv, ReadInv
    <3>2. QED
      BY <3>1 DEF Exact, Passed, Now, Loop, Running, Terminal
  <2>3. QED
    BY <2>1, <2>2
<1>3. ASSUME NEW p \in Procs, Acts(p) PROVE ~Kill(p)
  BY DEF Kill
<1>4. ASSUME NEW p \in Procs, Acts(p), NEW at \in Contexts \X Aliases,
             release'[at] # Nil, release'[at].pods # Nil
      PROVE  release'[at].pods = release'[at].sums
  <2>1. release \in [Contexts \X Aliases -> Release \cup {Nil}]
    BY DEF ChartInv, ReadInv, TypeInv, SharedOK
  <2>2. CASE UNCHANGED release
    BY <1>4, <2>2
  <2>3. CASE pc[p] = "apply" /\ SetRelease(p, Upgraded(p))
    BY <1>4, <2>1, <2>3, UpgradedExact DEF SetRelease
  <2>4. CASE pc[p] = "apply" /\ SetRelease(p, HalfUpgraded(p))
    <3> DEFINE it == <<run[p].target, Job[p].alias>>
    <3>1. it \in Contexts \X Aliases
      BY <2>4, UpgradedExact
    <3>2. CASE release[it] # Nil
      BY <1>4, <2>1, <2>4, <3>1, <3>2 DEF SetRelease, HalfUpgraded, Release
    <3>3. CASE release[it] = Nil
      BY <1>4, <2>1, <2>4, <3>1, <3>3 DEF SetRelease, HalfUpgraded
    <3>4. QED
      BY <3>2, <3>3
  <2>5. CASE release' = [release EXCEPT ![<<context, Job[p].alias>>] = Nil]
    BY <1>4, <2>1, <2>5
  <2>6. QED
    BY <1>3, <1>4, <2>2, <2>3, <2>4, <2>5, ReleaseStep
<1>5. ASSUME NEW p \in Procs, Acts(p) PROVE SuccessDelivers'
  <2> SUFFICES ASSUME NEW q \in Procs,
                      pc'[q] \in {"check", "unlink"}, run'[q].ok
               PROVE  release'[<<run'[q].target, Job[q].alias>>].pods =
                          Here(q)
    BY <1>5, ActsKeepEncrypted DEF SuccessDelivers, Here, FileOf, Encrypted
  <2>1. q = p
    BY <1>5, OthersRest, ActsOnItself
       DEF ChartInv, ReadInv, Running, Terminal
  <2>2. run'[p].target = run[p].target
    BY <1>5, <2>1, DeletingStep DEF ChartInv, ReadInv
  <2>3. CASE HelmUpgrade(p)
    <3>1. pc[p] = "apply" /\ SetRelease(p, Upgraded(p))
      BY <2>3 DEF HelmUpgrade
    <3>2. QED
      BY <2>1, <2>2, <3>1, UpgradedExact
         DEF SetRelease, ChartInv, ReadInv, TypeInv, SharedOK
  <2>4. CASE /\ pc[p] \in {"check", "unlink"} /\ run[p].ok
             /\ UNCHANGED release
    BY <2>1, <2>2, <2>4
       DEF SuccessDelivers, Here, ChartInv, AloneInv, OwnerInv, StartOnly,
           StartLabels
  <2>5. QED
    BY <1>5, <2>1, <2>3, <2>4, DeletingStep DEF ChartInv, ReadInv
<1>6. ASSUME NEW p \in Procs, Acts(p) PROVE DeliverInv'
  BY <1>1, <1>2, <1>4, <1>5, <1>6
<1>7. ASSUME NEW f \in Files, EditSecrets(f) PROVE DeliverInv'
  <2>1. NobodyRunning /\ UNCHANGED <<release, pc, run>>
    BY <1>7 DEF EditSecrets, MayHappen
  <2>2. \A p \in Procs : pc[p] \in Terminal \cup {"idle"}
    BY <2>1 DEF NobodyRunning, Running
  <2>3. \A p \in Procs, s \in Slots : Exact(p, pc[p], run[p], s)'
    BY <2>1, <2>2 DEF Exact, Passed, Now, Loop, Terminal
  <2>4. SuccessDelivers'
    BY <2>1, <2>2 DEF SuccessDelivers, Terminal
  <2>5. QED
    BY <1>1, <2>1, <2>3, <2>4
<1>8. CASE UNCHANGED <<enc, release, pc, run>>
  BY <1>1, <1>8 DEF Exact, Passed, Now, SuccessDelivers, FileOf, Encrypted
<1>9. QED
  BY <1>6, <1>7, <1>8 DEF Next, Acts, SwitchContext, vars, files

LEMMA DeliverInit == Init => DeliverInv
BY ChartInit DEF Init, DeliverInv, Exact, Passed, Now, Loop, SuccessDelivers

\* As long as nobody interferes but to switch contexts, a success of helm
\* brings the secrets of the files to the pods, whatever failed before.
THEOREM SuccessIsDelivered ==
    ASSUME Disturb \subseteq {"switch"}
    PROVE  Spec => []SuccessDelivers
<1>1. DeliverInv => SuccessDelivers
  BY DEF DeliverInv
<1>2. QED
  BY <1>1, DeliverInit, DeliverNext, PTL DEF Spec
-----------------------------------------------------------------------------
LEMMA HeldIsHere ==
    ASSUME NEW p \in Procs
    PROVE  Promised!Held(Job[p].env) = Here(p)
BY DEF Promised!Held, Promised!Slots, Slots, Here, FileOf, Encrypted

\* A half of an upgrade is all that a failed deployment leaves.
LEMMA HalfIsPromised ==
    ASSUME DeliverInv, NEW p \in Procs, pc[p] = "apply",
           SetRelease(p, HalfUpgraded(p)), UNCHANGED enc
    PROVE  Promised!DeployFails(<<run[p].target, Job[p].alias>>, Job[p].env)
<1>1. Promised!None = NoManifests
  BY DEF Promised!None, Promised!Slots, NoManifests, Slots
<1>2. QED
  BY <1>1, HeldIsHere, UpgradedExact
     DEF SetRelease, HalfUpgraded, Promised!DeployFails, Promised!Put

\* Every step is one of the promise, or unseen.
LEMMA StepIsPromised ==
    ASSUME Disturb \subseteq {"switch"}, DeliverInv, [Next]_vars
    PROVE  [Promised!Next]_<<enc, release>>
<1>1. ASSUME NEW p \in Procs, Acts(p)
      PROVE  [Promised!Next]_<<enc, release>>
  <2>1. UNCHANGED enc /\ ~Kill(p)
    BY <1>1, ActsKeepEncrypted DEF Kill
  <2>2. Job[p].env \in Envs /\ Job[p].alias \in Aliases
    BY ConstantsAssumption
  <2>3. CASE pc[p] = "apply" /\ SetRelease(p, Upgraded(p))
    <3> DEFINE at == <<run[p].target, Job[p].alias>>
    <3>1. Promised!Deploy(at, Job[p].env) /\ at \in Contexts \X Aliases
      BY <2>1, <2>3, HeldIsHere, UpgradedExact
         DEF SetRelease, Promised!Deploy, Promised!Put
    <3>2. QED
      BY <2>2, <3>1 DEF Promised!Next
  <2>4. CASE pc[p] = "apply" /\ SetRelease(p, HalfUpgraded(p))
    <3> DEFINE at == <<run[p].target, Job[p].alias>>
    <3>1. Promised!DeployFails(at, Job[p].env) /\ at \in Contexts \X Aliases
      BY <2>1, <2>4, HalfIsPromised, UpgradedExact
    <3>2. QED
      BY <2>2, <3>1 DEF Promised!Next
  <2>5. CASE release' = [release EXCEPT ![<<context, Job[p].alias>>] = Nil]
    <3> DEFINE at == <<context, Job[p].alias>>
    <3>1. Promised!Remove(at)
      BY <2>1, <2>5 DEF Promised!Remove, Promised!Put
    <3>2. at \in Contexts \X Aliases
      BY <2>2 DEF DeliverInv, ChartInv, ReadInv, TypeInv, SharedOK
    <3>3. QED
      BY <3>1, <3>2 DEF Promised!Next
  <2>6. QED
    BY <1>1, <2>1, <2>3, <2>4, <2>5, ReleaseStep
<1>2. ASSUME NEW f \in Files, EditSecrets(f)
      PROVE  [Promised!Next]_<<enc, release>>
  <2>1. Promised!Edit(f)
    <3>1. enc \in [Files -> Nat \cup {Nil}]
      BY DEF DeliverInv, ChartInv, ReadInv, TypeInv, SharedOK
    <3>2. PICK saved \in {0, 1} :
            enc' = [enc EXCEPT ![f] = (IF enc[f] = Nil THEN 0 ELSE enc[f]) + saved]
      BY <1>2 DEF EditSecrets
    <3>3. enc'[f] = (IF enc[f] = Nil THEN 0 ELSE enc[f]) + saved
      BY <3>1, <3>2
    <3>4. enc'[f] \in Nat
      BY <3>1, <3>3
    <3>5. QED
      BY <1>2, <3>2, <3>3, <3>4 DEF EditSecrets, Promised!Edit
  <2>2. QED
    BY <2>1 DEF Promised!Next, Promised!Files, Files
<1>3. QED
  BY <1>1, <1>2 DEF Next, Acts, SwitchContext, vars, files

\* SvStart implements SvRelease: seen from outside a deployment is one step,
\* and it brings what the secret files hold at that moment.
THEOREM StartImplementsRelease ==
    ASSUME Disturb \subseteq {"switch"}
    PROVE  Spec => ReleaseSpec
<1>1. Init => Promised!Init
  BY ConstantsAssumption DEF Init, Promised!Init, Promised!Files, Files
<1>2. QED
  BY <1>1, DeliverInit, DeliverNext, StepIsPromised, PTL
     DEF Spec, ReleaseSpec, Promised!Spec
=============================================================================

------------------------------ MODULE SvStart ------------------------------
(***************************************************************************)
(* `sv start` and `sv stop` of one application, as run from one or more    *)
(* shells of a machine (sv/sv.js, sv/utils.js).  The invocations share the *)
(* chart folder of the application, in which `sv start` leaves decrypted   *)
(* copies of the secret files for the time helm needs them, and the        *)
(* current kubectl context.  `sv editSecrets` and `sv switchContext` are   *)
(* the other commands that write either of them.                           *)
(*                                                                         *)
(* A member of Procs is one invocation of the program: it runs once.       *)
(***************************************************************************)
EXTENDS Integers

CONSTANTS
    Procs,          \* invocations of `sv start` and `sv stop`
    Envs,           \* the environments that may have a secrets_<env>.yaml
    Aliases,        \* helm release names the application is deployed under
    Contexts,       \* kubectl contexts
    LocalContexts,  \* those of minikube and docker-desktop
    Job,            \* the command line of each invocation
    Disturb,        \* what may happen while an invocation is running
    MaxVersion,     \* bound: version of a secret file editSecrets stops at
    Nil, Empty, Torn

Slots == {"all", "env"}     \* the two entries of secretFilesArray, in order
Files == {"all"} \cup Envs  \* secrets.yaml and the secrets_<env>.yaml
Secret == [file : Files, ver : Nat]  \* what a version of a file decrypts to
Content == Secret \cup {Nil, Empty, Torn}
Manifests == [Slots -> Content]

ASSUME ConstantsAssumption ==
    /\ "all" \notin Envs
    /\ LocalContexts \subseteq Contexts
    /\ Disturb \subseteq {"overlap", "kill", "edit", "switch"}
    /\ MaxVersion \in Nat
    /\ Job \in [Procs -> [cmd : {"start", "stop"}, env : Envs, alias : Aliases,
                         build : BOOLEAN, bypass : BOOLEAN]]
    /\ Nil \notin Nat
    /\ Nil \notin Secret /\ Empty \notin Secret /\ Torn \notin Secret
    /\ Nil # Empty /\ Nil # Torn /\ Empty # Torn

VARIABLES
    context,   \* the current context of the kubeconfig
    enc,       \* version of each encrypted file, Nil if there is none
    dec,       \* chart/templates/*.dec.yaml: content by file, Nil if none
    writers,   \* invocations whose `kubesec decrypt` has the file open
    release,   \* what runs in the cluster under each context and alias
    pc,        \* where each invocation is
    run        \* its variables, Fresh when it is not running

files == <<enc, dec, writers>>
vars == <<context, files, release, pc, run>>

NoManifests == [s \in Slots |-> Nil]

Fresh == [cur |-> "all",          \* the slot its secret loop is at
          seen |-> Nil,           \* the context that logContext showed
          agreed |-> FALSE,       \* the user pressed Enter at the prompt
          plain |-> NoManifests,  \* what kubesec decrypted, by slot
          sums |-> NoManifests,   \* the md5 on the helm command line, by slot
          loaded |-> NoManifests, \* the secret manifests helm rendered
          target |-> Nil,         \* the context helm talks to
          ok |-> TRUE]            \* no exception so far

Terminal == {"done", "failed", "aborted", "refused", "killed"}
Running(p) == pc[p] \notin Terminal \cup {"idle"}
NobodyRunning == \A p \in Procs : ~Running(p)
MayHappen(what) == what \in Disturb \/ NobodyRunning

\* The file a slot of the invocation's secretFilesArray names.
FileOf(p, s) == IF s = "all" THEN "all" ELSE Job[p].env
CurFile(p) == FileOf(p, run[p].cur)

\* The contents of an encrypted file, as its md5 or its decryption tells them.
Encrypted(f) == IF enc[f] = Nil THEN Nil ELSE [file |-> f, ver |-> enc[f]]

Goto(p, label) == pc' = [pc EXCEPT ![p] = label]
Exit(p, label) == Goto(p, label) /\ run' = [run EXCEPT ![p] = Fresh]
-----------------------------------------------------------------------------
Init ==
    /\ context \in Contexts
    /\ enc \in [Files -> {Nil, 1}]
    /\ dec = [f \in Files |-> Nil]
    /\ writers = [f \in Files |-> {}]
    /\ release = [at \in Contexts \X Aliases |-> Nil]
    /\ pc = [p \in Procs |-> "idle"]
    /\ run = [p \in Procs |-> Fresh]

\* A mutated form: the context is shown and nobody is asked.
ShowContext(p) ==
    /\ pc[p] = "idle"
    /\ MayHappen("overlap")
    /\ run' = [run EXCEPT ![p].seen = context]
    /\ Goto(p, "validate")
    /\ UNCHANGED <<context, files, release>>

\* logContext: show the context, and prompt unless it is local or bypassed.
LogContext(p) ==
    /\ pc[p] = "idle"
    /\ MayHappen("overlap")
    /\ run' = [run EXCEPT ![p].seen = context]
    /\ Goto(p, IF Job[p].bypass \/ context \in LocalContexts
                 THEN "validate" ELSE "prompt")
    /\ UNCHANGED <<context, files, release>>

\* The answer to the prompt: Enter, or other input and ctrl+c (exit 1).
Answer(p) ==
    /\ pc[p] = "prompt"
    /\ \/ /\ run' = [run EXCEPT ![p].agreed = TRUE]
          /\ Goto(p, "validate")
       \/ Exit(p, "refused")
    /\ UNCHANGED <<context, files, release>>

\* validateApp, validateEnv, the flags and the preview slug; a name for stop:
\* the command line may be in error.
Validate(p) ==
    /\ pc[p] = "validate"
    /\ \/ /\ Goto(p, IF Job[p].cmd = "stop" THEN "uninstall"
                     ELSE IF Job[p].build THEN "build" ELSE "open")
          /\ UNCHANGED run
       \/ Exit(p, "failed")
    /\ UNCHANGED <<context, files, release>>

\* The `sv build` of every container and `sv _buildSvInfo`: any may throw.
Build(p) ==
    /\ pc[p] = "build"
    /\ \/ Goto(p, "open") /\ UNCHANGED run
       \/ Exit(p, "failed")
    /\ UNCHANGED <<context, files, release>>

\* The loop over secretFilesArray has another turn or is at its end.
LastSlot(p) == run[p].cur = "env"
NextSlot(p, label, new) ==
    /\ Goto(p, label)
    /\ run' = [run EXCEPT ![p] = [new EXCEPT !.cur =
                  IF LastSlot(p) THEN "all" ELSE "env"]]

\* A mutated form: existsSync is forgotten.
OpenUnchecked(p) ==
    LET f == CurFile(p)
    IN  /\ pc[p] = "open"
        /\ dec' = [dec EXCEPT ![f] = Empty]
        /\ writers' = [writers EXCEPT ![f] = @ \cup {p}]
        /\ run' = [run EXCEPT ![p].plain[run[p].cur] = Encrypted(f)]
        /\ Goto(p, "decrypt")
        /\ UNCHANGED <<context, enc, release>>

\* existsSync(encrypted); then the shell truncates the decrypted file for
\* `kubesec decrypt encrypted > decrypted`, which reads the encrypted one.
OpenDecrypted(p) ==
    LET f == CurFile(p)
    IN  /\ pc[p] = "open"
        /\ \/ /\ enc[f] = Nil
              /\ NextSlot(p, IF LastSlot(p) THEN "load" ELSE "open", run[p])
              /\ UNCHANGED <<dec, writers>>
           \/ /\ enc[f] # Nil
              /\ dec' = [dec EXCEPT ![f] = Empty]
              /\ writers' = [writers EXCEPT ![f] = @ \cup {p}]
              /\ run' = [run EXCEPT ![p].plain[run[p].cur] = Encrypted(f)]
              /\ Goto(p, "decrypt")
        /\ UNCHANGED <<context, enc, release>>

\* What the file holds after a write from its start: two decryptions of
\* different contents written over each other may leave a mixture.
Overwritten(old, new) == IF old \in {Empty, new} THEN {new} ELSE {new, Torn}

\* kubesec writes what it decrypted.  If the file was unlinked since it was
\* opened, the text goes to an inode that no path leads to.
Decrypt(p) ==
    LET f == CurFile(p)
    IN  /\ pc[p] = "decrypt"
        /\ IF p \in writers[f]
             THEN \E c \in Overwritten(dec[f], run[p].plain[run[p].cur]) :
                      dec' = [dec EXCEPT ![f] = c]
             ELSE UNCHANGED dec
        /\ writers' = [writers EXCEPT ![f] = @ \ {p}]
        /\ Goto(p, "checksum")
        /\ UNCHANGED <<context, enc, release, run>>

\* deleteSecrets() begins, with or without an error to rethrow after it.
DeleteSecrets(p, success) ==
    /\ Goto(p, "check")
    /\ run' = [run EXCEPT ![p].cur = "all", ![p].ok = success]

\* A mutated form: without the catch block.
DecryptThrows(p) ==
    LET f == CurFile(p)
    IN  /\ pc[p] = "decrypt"
        /\ writers' = [writers EXCEPT ![f] = @ \ {p}]
        /\ Exit(p, "failed")
        /\ UNCHANGED <<context, enc, dec, release>>

\* kubesec fails (no access to the key).
DecryptFails(p) ==
    LET f == CurFile(p)
    IN  /\ pc[p] = "decrypt"
        /\ writers' = [writers EXCEPT ![f] = @ \ {p}]
        /\ DeleteSecrets(p, FALSE)
        /\ UNCHANGED <<context, enc, dec, release>>

\* The md5 of the encrypted file, read again after the decryption.
Checksum(p) ==
    /\ pc[p] = "checksum"
    /\ NextSlot(p, IF LastSlot(p) THEN "load" ELSE "open",
                [run[p] EXCEPT !.sums[run[p].cur] = Encrypted(CurFile(p))])
    /\ UNCHANGED <<context, files, release>>
-----------------------------------------------------------------------------
\* helm renders every file of chart/templates.  Each secrets_<env> file, the
\* ones that other environments left there included, defines the one Secret
\* "<release>-secrets-env" (internal/secretsTemplate.yaml): one of them wins.
Rendered(c) == IF c = Empty THEN Nil ELSE c
Manifest(s) == IF s = "all" THEN {Rendered(dec["all"])}
               ELSE LET found == {Rendered(dec[e]) : e \in Envs} \ {Nil}
                    IN  IF found = {} THEN {Nil} ELSE found

HelmLoad(p) ==
    /\ pc[p] = "load"
    /\ \E all \in Manifest("all"), env \in Manifest("env") :
          run' = [run EXCEPT ![p].loaded = [s \in Slots |->
                                  IF s = "all" THEN all ELSE env],
                             ![p].target = context]
    /\ Goto(p, "apply")
    /\ UNCHANGED <<context, files, release>>

\* A mutated form: the pod template has no checksum annotations.
UpgradedInPlace(p) ==
    LET r == run[p]
        old == release[<<r.target, Job[p].alias>>]
        same == old # Nil /\ old.pods # Nil /\ old.env = Job[p].env
    IN  [secrets |-> r.loaded, sums |-> r.sums, env |-> Job[p].env,
         pods |-> IF same THEN old.pods ELSE r.loaded]

\* A release: the Secret objects, the checksum annotations of the deployment
\* with the env it was rendered for, and the secrets its pods started with.
\* Kubernetes replaces the pods when the pod template changes.
Upgraded(p) ==
    LET r == run[p]
        old == release[<<r.target, Job[p].alias>>]
        same == /\ old # Nil
                /\ old.pods # Nil
                /\ old.sums = r.sums
                /\ old.env = Job[p].env
    IN  [secrets |-> r.loaded, sums |-> r.sums, env |-> Job[p].env,
         pods |-> IF same THEN old.pods ELSE r.loaded]

\* helm applies the Secrets before the deployments: what it leaves behind
\* when it fails or is killed half way through.
HalfUpgraded(p) ==
    LET r == run[p]
        old == release[<<r.target, Job[p].alias>>]
    IN  IF old # Nil THEN [old EXCEPT !.secrets = r.loaded]
        ELSE [secrets |-> r.loaded, sums |-> NoManifests,
              env |-> Job[p].env, pods |-> Nil]

SetRelease(p, r) ==
    release' = [release EXCEPT ![<<run[p].target, Job[p].alias>>] = r]

HelmUpgrade(p) ==
    /\ pc[p] = "apply"
    /\ SetRelease(p, Upgraded(p))
    /\ DeleteSecrets(p, TRUE)
    /\ UNCHANGED <<context, files>>

\* A mutated form: without the finally block.
HelmUpgradeThrows(p) ==
    /\ pc[p] = "apply"
    /\ UNCHANGED release \/ SetRelease(p, HalfUpgraded(p))
    /\ Exit(p, "failed")
    /\ UNCHANGED <<context, files>>

HelmUpgradeFails(p) ==
    /\ pc[p] = "apply"
    /\ \/ UNCHANGED release
       \/ SetRelease(p, HalfUpgraded(p))
       \/ SetRelease(p, Upgraded(p))
    /\ DeleteSecrets(p, FALSE)
    /\ UNCHANGED <<context, files>>

\* A mutated form: deleteSecrets ends after the first file.
DeletedFirst(p) == Exit(p, IF run[p].ok THEN "done" ELSE "failed")

\* The next turn of deleteSecrets; after the last one sv start is over.
Deleted(p) ==
    IF LastSlot(p) THEN Exit(p, IF run[p].ok THEN "done" ELSE "failed")
                   ELSE NextSlot(p, "check", run[p])

\* deleteSecrets: existsSync(decrypted) ...
CheckExists(p) ==
    /\ pc[p] = "check"
    /\ IF dec[CurFile(p)] = Nil
         THEN Deleted(p)
         ELSE Goto(p, "unlink") /\ UNCHANGED run
    /\ UNCHANGED <<context, files, release>>

\* ... then unlinkSync, which throws when the file is gone by now.
Unlink(p) ==
    LET f == CurFile(p)
    IN  /\ pc[p] = "unlink"
        /\ \/ /\ dec[f] = Nil
              /\ Exit(p, "aborted")
              /\ UNCHANGED <<dec, writers>>
           \/ /\ dec[f] # Nil
              /\ dec' = [dec EXCEPT ![f] = Nil]
              /\ writers' = [writers EXCEPT ![f] = {}]
              /\ Deleted(p)
        /\ UNCHANGED <<context, enc, release>>

Uninstalled(p) == release' = [release EXCEPT ![<<context, Job[p].alias>>] = Nil]

\* `sv stop`: helm uninstall, of a release that may not exist.
HelmUninstall(p) ==
    /\ pc[p] = "uninstall"
    /\ \/ /\ Uninstalled(p)
          /\ Exit(p, "done")
       \/ /\ UNCHANGED release
          /\ Exit(p, "failed")
    /\ UNCHANGED <<context, files>>

\* Ctrl+c in an execSync: node and the child die and no finally block runs.
\* helm may have done nothing, a part of its work or all of it by then.
Kill(p) ==
    /\ "kill" \in Disturb
    /\ Running(p)
    /\ \/ UNCHANGED release
       \/ pc[p] = "apply" /\ SetRelease(p, HalfUpgraded(p))
       \/ pc[p] = "apply" /\ SetRelease(p, Upgraded(p))
       \/ pc[p] = "uninstall" /\ Uninstalled(p)
    /\ writers' = [f \in Files |-> writers[f] \ {p}]
    /\ Exit(p, "killed")
    /\ UNCHANGED <<context, enc, dec>>
-----------------------------------------------------------------------------
\* `sv editSecrets`: a missing file starts as the unencrypted template, which
\* stays when secrets_key is missing or the editor saves nothing.
EditSecrets(f) ==
    /\ MayHappen("edit")
    /\ \E saved \in {0, 1} :
        LET v == (IF enc[f] = Nil THEN 0 ELSE enc[f]) + saved
        IN  v <= MaxVersion /\ enc' = [enc EXCEPT ![f] = v]
    /\ UNCHANGED <<context, dec, writers, release, pc, run>>

SwitchContext(c) ==
    /\ MayHappen("switch")
    /\ context' = c
    /\ UNCHANGED <<files, release, pc, run>>

\* What the program does by itself once the user let it start.
Step(p) ==
    \/ Validate(p) \/ Build(p)
    \/ OpenDecrypted(p) \/ Decrypt(p) \/ DecryptFails(p) \/ Checksum(p)
    \/ HelmLoad(p) \/ HelmUpgrade(p) \/ HelmUpgradeFails(p)
    \/ CheckExists(p) \/ Unlink(p) \/ HelmUninstall(p)

Next ==
    \/ \E p \in Procs : LogContext(p) \/ Answer(p) \/ Step(p) \/ Kill(p)
    \/ \E f \in Files : EditSecrets(f)
    \/ \E c \in Contexts : SwitchContext(c)

\* A started program runs on: kubesec, helm and the builds end by themselves
\* (helm has a --timeout).  Nothing makes a user answer, start or kill.
Fairness == \A p \in Procs : WF_vars(Step(p))

Spec == Init /\ [][Next]_vars /\ Fairness
-----------------------------------------------------------------------------
Release == [secrets : Manifests, sums : Manifests, env : Envs,
            pods : Manifests \cup {Nil}]
Run == [cur : Slots, seen : Contexts \cup {Nil}, agreed : BOOLEAN,
        plain : Manifests, sums : Manifests, loaded : Manifests,
        target : Contexts \cup {Nil}, ok : BOOLEAN]
Labels == Terminal \cup {"idle", "prompt", "validate", "build", "open",
          "decrypt", "checksum", "load", "apply", "check", "unlink",
          "uninstall"}

\* The type of every variable.  A file that kubesec has open exists, and helm
\* is given a context before it changes a release.
TypeOK ==
    /\ context \in Contexts
    /\ enc \in [Files -> Nat \cup {Nil}]
    /\ dec \in [Files -> Content]
    /\ writers \in [Files -> SUBSET Procs]
    /\ release \in [Contexts \X Aliases -> Release \cup {Nil}]
    /\ pc \in [Procs -> Labels]
    /\ run \in [Procs -> Run]
    /\ \A f \in Files : writers[f] # {} => dec[f] # Nil
    /\ \A p \in Procs : pc[p] = "apply" => run[p].target \in Contexts

\* The slots whose file the invocation may have created and has still to
\* delete: from its decryption to the file's turn in deleteSecrets.
Owes(p, s) ==
    \/ pc[p] \in {"decrypt", "checksum"} /\ (LastSlot(p) \/ s = "all")
    \/ pc[p] = "open" /\ LastSlot(p) /\ s = "all"
    \/ pc[p] \in {"load", "apply"}
    \/ pc[p] \in {"check", "unlink"} /\ (~LastSlot(p) \/ s = "env")
    \/ pc[p] \in {"killed", "aborted"}

\* Every decrypted file in the chart has somebody to answer for it: an
\* invocation that has still to delete it, one that was killed, or one whose
\* unlinkSync threw because another had deleted the file it was about to.
\* Failures of the build, kubesec and helm leave nothing behind.
DecryptedFileHasOwner ==
    \A f \in Files : dec[f] # Nil =>
        \E p \in Procs, s \in Slots :
            Job[p].cmd = "start" /\ f = FileOf(p, s) /\ Owes(p, s)

\* "Always delete decrypted files after upgrade": when no invocation is
\* running and none was killed there is no decrypted file in the chart.
AlwaysDeleted ==
    NobodyRunning /\ (\A p \in Procs : pc[p] # "killed")
        => \A f \in Files : dec[f] = Nil

\* "Encrypted secret files that will be decrypted and installed during
\* application deployment" (docs/sv_editSecrets.md:3): helm renders the secrets
\* that this very invocation decrypted, all of them and no other.
InstallsWhatItDecrypted ==
    \A p \in Procs : pc[p] = "apply" => run[p].loaded = run[p].plain

\* A part of it: the secrets of a file for one environment are not installed
\* in another one.
OwnEnvSecrets ==
    \A p \in Procs, s \in Slots :
        pc[p] = "apply" /\ run[p].loaded[s] \in Secret =>
            run[p].loaded[s].file = FileOf(p, s)

\* When helm has succeeded, the pods of the release run with the secrets that
\* the encrypted files hold, whatever ran, failed or was stopped before: the
\* checksum annotation makes kubernetes replace the pods when it has to.
SuccessDelivers ==
    \A p \in Procs :
        /\ Job[p].cmd = "start"
        /\ pc[p] \in {"check", "unlink"}
        /\ run[p].ok
        => release[<<run[p].target, Job[p].alias>>].pods =
               [s \in Slots |-> Encrypted(FileOf(p, s))]

\* Seen from outside, sv start and sv stop deploy a release all at once, with
\* the secrets its files hold at that moment, and remove it: SvStart implements
\* SvRelease as long as nobody interferes with a running invocation.
Promised == INSTANCE SvRelease WITH Places <- Contexts \X Aliases
ReleaseSpec == Promised!Spec

\* "Utilize the checksum described above, to allow sv start to restart only
\* the containers with changes" (src/readme.md:220): when helm has succeeded,
\* the pods run with the secrets it has just installed, whatever they ran with
\* before.
SuccessRestarts ==
    \A p \in Procs :
        /\ Job[p].cmd = "start"
        /\ pc[p] \in {"check", "unlink"}
        /\ run[p].ok
        => release[<<run[p].target, Job[p].alias>>].pods = run[p].loaded

\* "Prompt the user for confirmation if running an action on a non-local
\* environment" (sv/utils.js:14): a release of a non-local cluster changes only
\* under an invocation that showed this very context and whose user pressed
\* Enter or had bypassed the prompt (logContext).
ConsentStep ==
    \A c \in Contexts \ LocalContexts, a \in Aliases :
        release'[<<c, a>>] # release[<<c, a>>] =>
            \E p \in Procs :
                /\ pc[p] \in {"apply", "uninstall"} /\ pc'[p] # pc[p]
                /\ Job[p].alias = a
                /\ run[p].seen = c
                /\ run[p].agreed \/ Job[p].bypass
NonLocalNeedsConsent == [][ConsentStep]_vars

\* Plaintext does not stay on the disk: a decrypted file is deleted in the
\* end, as long as nobody kills an invocation or runs two at a time.
PlaintextGoes == \A f \in Files : (dec[f] # Nil) ~> (dec[f] = Nil)
=============================================================================

---------------------------- MODULE WslMigration ----------------------------
(***************************************************************************)
(* scripts/migrate_wsl.sh moves the repositories of a Windows machine from *)
(* /sv (the C: drive) to /root/sv-kubernetes (WSL's own disk) and points   *)
(* the program there; scripts/rollback_wsl.sh undoes it.  Both run for     *)
(* hours, can be interrupted at any statement and are then run again.      *)
(*                                                                         *)
(* The unit is a file of a repository: rsync replaces files one by one,    *)
(* whichever copy is the newer one, and deletes none.                      *)
(***************************************************************************)
EXTENDS Integers, FiniteSets

CONSTANTS
    Files,      \* files of the repositories
    KindOf,     \* the folder each is in: "applications" or "containers"
    Allow,      \* what may happen: an interruption, the answer n ("skip"), a
                \* repository that rsync fails on, the option --force
    MaxWork,    \* bound: versions of a file that a developer writes
    MaxMounts   \* bound: mounts over each other

Kinds == {"applications", "containers"}
Keys == Kinds \cup {"mount"}    \* APPS_FOLDER, CONTAINERS_FOLDER, MOUNT_PATH

ASSUME WslAssumption ==
    /\ KindOf \in [Files -> Kinds]
    /\ Allow \subseteq {"crash", "skip", "copyFails", "force"}
    /\ MaxWork \in Nat /\ MaxMounts \in Nat

VARIABLES
    win, wsl,   \* the two copies: version of each file, 0 if it is not there
    newest,     \* the last version a developer wrote
    env,        \* /sv/.env: where each setting points, "win" or "wsl"
    conf,       \* /etc/wsl.conf: "old", "new" (mounts at boot) or "empty"
    mounts,     \* bind mounts on /mnt/wsl/sv-kubernetes
    link,       \* /sv-wsl exists
    flag,       \* /sv/.wsl_migrated exists
    pc,         \* the next statement of the script that runs, or "idle"
    todo,       \* files that copy_repos has still to copy
    last        \* how the last script ended: "none", "migrated",
                \* "rolledback" or "interrupted"

copies == <<win, wsl, newest>>
system == <<conf, mounts, link, flag>>
vars == <<copies, env, system, pc, todo, last>>

Init ==
    /\ win \in [Files -> {0, 1}]
    /\ newest = win
    /\ wsl = [f \in Files |-> 0]
    /\ env = [k \in Keys |-> "win"]
    /\ conf = "old" /\ mounts = 0 /\ link = FALSE /\ flag = FALSE
    /\ pc = "idle" /\ todo = {} /\ last = "none"

Present(copy) == {f \in Files : copy[f] # 0}

\* copy_repos does the applications before the containers.
InTurn(f) == f \in todo /\ (KindOf[f] = "containers" =>
                              \A g \in todo : KindOf[g] = "containers")

At(label, next) == pc = label /\ pc' = next
Ends(label, how) == At(label, "idle") /\ last' = how
-----------------------------------------------------------------------------
\* migrate_wsl.sh.  It refuses to run twice without --force.
Migrate ==
    /\ ~flag \/ "force" \in Allow
    /\ At("idle", "link")
    /\ UNCHANGED <<copies, env, system, todo, last>>

Link ==
    /\ At("link", "bind")
    /\ link' = TRUE
    /\ UNCHANGED <<copies, env, conf, mounts, flag, todo, last>>

\* mount --bind, also over a mount that is there already.
Bind ==
    /\ At("bind", "applications")
    /\ mounts < MaxMounts
    /\ mounts' = mounts + 1
    /\ UNCHANGED <<copies, env, conf, link, flag, todo, last>>

\* The loop over ENV_VARS: one line of .env replaced or appended at a time.
After == [applications |-> "containers", containers |-> "mount",
          mount |-> "ask"]

\* A mutated form: a key that .env has already is left alone.
AppendEnv ==
    /\ pc \in Keys
    /\ env' = IF pc = "mount" THEN env ELSE [env EXCEPT ![pc] = "wsl"]
    /\ pc' = After[pc]
    /\ UNCHANGED <<copies, system, todo, last>>

SetEnv ==
    /\ pc \in Keys
    /\ env' = [env EXCEPT ![pc] = "wsl"]
    /\ pc' = After[pc]
    /\ UNCHANGED <<copies, system, todo, last>>

\* "Would you like to copy automatically?", if there is any repository.
Ask ==
    /\ \/ Present(win) # {} /\ At("ask", "copy") /\ todo' = Present(win)
       \/ /\ Present(win) = {} \/ "skip" \in Allow
          /\ At("ask", "conf") /\ UNCHANGED todo
    /\ UNCHANGED <<copies, env, system, last>>

Copy(f) ==
    /\ pc = "copy" /\ InTurn(f)
    /\ \/ wsl' = [wsl EXCEPT ![f] = win[f]]
       \/ "copyFails" \in Allow /\ UNCHANGED wsl
    /\ todo' = todo \ {f}
    /\ pc' = IF todo' = {} THEN "conf" ELSE "copy"
    /\ UNCHANGED <<win, newest, env, system, last>>

WriteConf ==
    /\ At("conf", "touch")
    /\ conf' = "new"
    /\ UNCHANGED <<copies, env, mounts, link, flag, todo, last>>

Touch ==
    /\ Ends("touch", "migrated")
    /\ flag' = TRUE
    /\ UNCHANGED <<copies, env, conf, mounts, link, todo>>
-----------------------------------------------------------------------------
\* rollback_wsl.sh
Rollback ==
    /\ flag \/ "force" \in Allow
    /\ At("idle", "oldConf")
    /\ UNCHANGED <<copies, env, system, todo, last>>

WriteOldConf ==
    /\ At("oldConf", "askBack")
    /\ conf' = "old"
    /\ UNCHANGED <<copies, env, mounts, link, flag, todo, last>>

\* The repositories are looked for under /sv-wsl, a link that may be gone.
Linked == IF link THEN Present(wsl) ELSE {}

\* A mutated form: the containers are forgotten.
AskBackApplications ==
    LET apps == {f \in Linked : KindOf[f] = "applications"}
    IN  /\ \/ apps # {} /\ At("askBack", "copyBack") /\ todo' = apps
           \/ apps = {} /\ At("askBack", "env") /\ UNCHANGED todo
        /\ UNCHANGED <<copies, env, system, last>>

\* A mutated form: without the test that there is anything to copy.
AskBackBlindly ==
    /\ At("askBack", "copyBack") /\ todo' = Linked
    /\ UNCHANGED <<copies, env, system, last>>

AskBack ==
    /\ \/ Linked # {} /\ At("askBack", "copyBack") /\ todo' = Linked
       \/ /\ Linked = {} \/ "skip" \in Allow
          /\ At("askBack", "env") /\ UNCHANGED todo
    /\ UNCHANGED <<copies, env, system, last>>

\* A mutated form: rsync --ignore-existing.
CopyBackMissing(f) ==
    /\ pc = "copyBack" /\ InTurn(f)
    /\ win' = IF win[f] = 0 THEN [win EXCEPT ![f] = wsl[f]] ELSE win
    /\ todo' = todo \ {f}
    /\ pc' = IF todo' = {} THEN "env" ELSE "copyBack"
    /\ UNCHANGED <<wsl, newest, env, system, last>>

CopyBack(f) ==
    /\ pc = "copyBack" /\ InTurn(f)
    /\ \/ win' = [win EXCEPT ![f] = wsl[f]]
       \/ "copyFails" \in Allow /\ UNCHANGED win
    /\ todo' = todo \ {f}
    /\ pc' = IF todo' = {} THEN "env" ELSE "copyBack"
    /\ UNCHANGED <<wsl, newest, env, system, last>>

\* cp -f /sv/internal/.env_wsl /sv/.env
ResetEnv ==
    /\ At("env", "umount")
    /\ env' = [k \in Keys |-> "win"]
    /\ UNCHANGED <<copies, system, todo, last>>

Umount ==
    /\ At("umount", "remove")
    /\ mounts' = IF mounts = 0 THEN 0 ELSE mounts - 1
    /\ UNCHANGED <<copies, env, conf, link, flag, todo, last>>

\* rm -rf of /root/sv-kubernetes and of what is left mounted from it.
Remove ==
    /\ At("remove", "unlink")
    /\ wsl' = [f \in Files |-> 0]
    /\ UNCHANGED <<win, newest, env, system, todo, last>>

Unlink ==
    /\ At("unlink", "unflag")
    /\ link' = FALSE
    /\ UNCHANGED <<copies, env, conf, mounts, flag, todo, last>>

Unflag ==
    /\ Ends("unflag", "rolledback")
    /\ flag' = FALSE
    /\ UNCHANGED <<copies, env, conf, mounts, link, todo>>
-----------------------------------------------------------------------------
\* Ctrl+c, or the shell is closed: write_wsl_conf may have truncated its file
\* and rm -rf may have removed some of the files.
Interrupt ==
    /\ "crash" \in Allow
    /\ Ends(pc, "interrupted") /\ pc # "idle"
    /\ todo' = {}
    /\ \/ UNCHANGED <<wsl, conf>>
       \/ /\ pc \in {"conf", "oldConf"}
          /\ conf' = "empty" /\ UNCHANGED wsl
       \/ /\ pc = "remove"
          /\ \E gone \in SUBSET Files :
                wsl' = [f \in Files |-> IF f \in gone THEN 0 ELSE wsl[f]]
          /\ UNCHANGED conf
    /\ UNCHANGED <<win, newest, env, mounts, link, flag>>

\* wsl --shutdown: at the next boot the command of the new wsl.conf mounts.
Restart ==
    /\ pc = "idle"
    /\ mounts' = IF conf = "new" THEN 1 ELSE 0
    /\ UNCHANGED <<copies, env, conf, link, flag, pc, todo, last>>

\* A developer changes a file, or installs it, where `sv` looks for it
\* (constants.js), but not with a migration or rollback half done.
Work(f) ==
    LET v == newest[f] + 1
    IN  /\ pc = "idle" /\ last # "interrupted"
        /\ v <= MaxWork
        /\ newest' = [newest EXCEPT ![f] = v]
        /\ IF env[KindOf[f]] = "win"
             THEN win' = [win EXCEPT ![f] = v] /\ UNCHANGED wsl
             ELSE wsl' = [wsl EXCEPT ![f] = v] /\ UNCHANGED win
        /\ UNCHANGED <<env, system, pc, todo, last>>

Next ==
    \/ Migrate \/ Link \/ Bind \/ SetEnv \/ Ask \/ WriteConf \/ Touch
    \/ Rollback \/ WriteOldConf \/ AskBack \/ ResetEnv \/ Umount \/ Remove
    \/ Unlink \/ Unflag \/ Interrupt \/ Restart
    \/ \E f \in Files : Copy(f) \/ CopyBack(f) \/ Work(f)

Spec == Init /\ [][Next]_vars
-----------------------------------------------------------------------------
Forward == {"link", "bind", "applications", "containers", "mount", "ask",
            "copy", "conf", "touch"}
Backward == {"oldConf", "askBack", "copyBack", "env", "umount", "remove",
             "unlink", "unflag"}

\* The type of every variable.  There is something to copy exactly while a
\* copy is going on.
TypeOK ==
    /\ win \in [Files -> Nat] /\ wsl \in [Files -> Nat]
    /\ newest \in [Files -> Nat]
    /\ env \in [Keys -> {"win", "wsl"}]
    /\ conf \in {"old", "new", "empty"}
    /\ mounts \in Nat /\ link \in BOOLEAN /\ flag \in BOOLEAN
    /\ pc \in {"idle"} \cup Forward \cup Backward
    /\ todo \in SUBSET Files
    /\ (todo # {}) <=> (pc \in {"copy", "copyBack"})
    /\ last \in {"none", "migrated", "rolledback", "interrupted"}

\* At every moment one of the two copies is whole: it holds the last version
\* of every file, wherever a migration or a rollback was interrupted and
\* however often it was run again.
OneWholeCopy == win = newest \/ wsl = newest

\* A part of it: the last version of every file is somewhere.
NothingLost == \A f \in Files : newest[f] \in {win[f], wsl[f], 0}

\* Once a script has run to its end, `sv` finds the last version of every
\* file where the settings make it look.
SeesNewest ==
    pc = "idle" /\ last # "interrupted" =>
        \A f \in Files :
            newest[f] = IF env[KindOf[f]] = "win" THEN win[f] ELSE wsl[f]

\* A script that has run to its end leaves all the pieces of the system in
\* agreement, after restarts too: the settings, the link, the flag and the
\* boot command, and the mount that the pods of a migrated system need.
PiecesAgree ==
    pc = "idle" =>
        /\ last = "migrated" =>
            /\ env = [k \in Keys |-> "wsl"] /\ conf = "new"
            /\ link /\ flag /\ mounts > 0
        /\ last = "rolledback" =>
            /\ env = [k \in Keys |-> "win"] /\ conf = "old"
            /\ ~link /\ ~flag
=============================================================================

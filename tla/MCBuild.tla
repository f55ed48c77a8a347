------------------------------ MODULE MCBuild ------------------------------
(***************************************************************************)
(* An instance of SvBuild for TLC: a base image, a web container built on  *)
(* it and a container whose build the settings of one environment skip.    *)
(***************************************************************************)
EXTENDS SvBuild, TLC

NoArgs == [a \in ArgNames |-> Nil]
Start(e) == [cmd |-> "start", env |-> e, build |-> TRUE, push |-> FALSE,
             alias |-> Nil, arg |-> NoArgs, only |-> Nil]
Login == [cmd |-> "authLogin"]

\* The command lines: two starts that build for local and one without a build,
\* two that build and push for dev, the first with an argument of its own, the
\* same with an --alias-image, the build of one container, two logins and a new
\* token.
Dev == [Start("dev") EXCEPT !.push = TRUE]
Lines == "local" :> Start("local")
         @@ "again" :> Start("local")
         @@ "plain" :> [Start("local") EXCEPT !.build = FALSE]
         @@ "dev" :> [Dev EXCEPT !.arg = [NoArgs EXCEPT !["SV_ENV"] = "live"]]
         @@ "devagain" :> Dev
         @@ "preview" :> [Dev EXCEPT !.alias = "pull"]
         @@ "web" :> [Start("local") EXCEPT !.cmd = "build", !.only = "web"]
         @@ "login" :> Login
         @@ "relogin" :> Login
         @@ "token" :> [Login EXCEPT !.cmd = "authToken"]
JobOfProc == [p \in Procs |-> Lines[p]]

Anybody == Permutations(Users)
VersionsOf == "base" :> {1} @@ "web" :> {1, 2}
FromOf == "base" :> Nil @@ "web" :> "base"
SettingOf == [at \in Containers \X (Envs \cup {Nil}) |->
                 [NoArgs EXCEPT !["API"] = at[2]]]
OrderOf == [e \in Envs |-> <<"base", "web">>]
SkipsOf == {<<"base", "dev">>}
=============================================================================

------------------------------- MODULE SvAuth -------------------------------
(***************************************************************************)
(* `sv authLogin` and `sv authToken` (sv/scripts.js): the files under      *)
(* /sv/internal that say who the developer is.  Both commands wait for the *)
(* authentication service, and then write one file after the other.        *)
(* SvBuild composes them with the command that reads the files.            *)
(*                                                                         *)
(* A member of Procs is one invocation of the program: it runs once.       *)
(***************************************************************************)
EXTENDS Naturals, FiniteSets

CONSTANTS
    Procs,       \* invocations of sv commands
    Job,         \* the command line of each; Job[p].cmd is the command
    Users,       \* whose refresh tokens there are
    Concurrent,  \* whether an invocation may begin while another one runs
    MaxCommands, \* how many of the invocations are made
    Nil, Empty

AuthFiles == {"refresh_token", "auth_token", "user_info"}
AuthLabels == {"idle", "fetch", "over", "torn"} \cup AuthFiles

ASSUME AuthAssumption ==
    /\ Concurrent \in BOOLEAN /\ MaxCommands \in Nat
    /\ Nil \notin Users /\ Empty \notin Users /\ Nil # Empty

VARIABLES
    auth,   \* each file: the user it is of, Nil if missing, Empty if torn
    who,    \* the user an invocation is about
    pc      \* where each invocation is

authVars == <<auth, who>>

\* An invocation is over, with or without an error, or has left files behind
\* that do not belong together.
Terminal == {"over", "torn"}
Running(p) == pc[p] \notin Terminal \cup {"idle"}
NobodyRunning == \A p \in Procs : ~Running(p)
MayBegin == Concurrent \/ NobodyRunning
Goto(p, label) == pc' = [pc EXCEPT ![p] = label]
Begun == {p \in Procs : pc[p] # "idle"}
Starts(p, cmd) ==
    /\ pc[p] = "idle" /\ Job[p].cmd = cmd
    /\ MayBegin /\ Cardinality(Begun) < MaxCommands

\* The invocation is about a user as long as it runs.
About(p, label, u) ==
    /\ Goto(p, label)
    /\ who' = [who EXCEPT ![p] = IF label \in Terminal THEN Nil ELSE u]

AuthInit ==
    /\ \E u \in Users \cup {Nil} : auth = [f \in AuthFiles |-> u]
    /\ who = [p \in Procs |-> Nil]
    /\ pc = [p \in Procs |-> "idle"]

\* authLogin: the user pastes a refresh token at the prompt.
Paste(p) ==
    /\ Starts(p, "authLogin")
    /\ \E u \in Users : About(p, "fetch", u)
    /\ UNCHANGED auth

\* authToken reads the refresh token, if there is one.
ReadRefreshToken(p) ==
    /\ Starts(p, "authToken")
    /\ LET u == auth["refresh_token"]
       IN  About(p, IF u = Nil THEN "over" ELSE "fetch", u)
    /\ UNCHANGED auth

FirstFile(p) == IF Job[p].cmd = "authLogin" THEN "refresh_token"
                ELSE "auth_token"

\* A mutated form: the refresh token is stored before it is checked.
FetchStored(p) ==
    /\ pc[p] = "fetch"
    /\ auth' = [auth EXCEPT !["refresh_token"] = who[p]]
    /\ \/ who[p] # Empty /\ About(p, "auth_token", who[p])
       \/ About(p, "over", Nil)

\* getAuthTokenFromRefreshToken, and for authLogin the query of the user: the
\* service may refuse the token, not answer, or know the user as not SV.
Fetch(p) ==
    /\ pc[p] = "fetch"
    /\ \/ who[p] # Empty /\ About(p, FirstFile(p), who[p])
       \/ About(p, "over", Nil)
    /\ UNCHANGED auth

\* A mutated form: authLogin leaves the access token to authToken.
NextFileShort(p) ==
    IF pc[p] = "refresh_token" THEN "user_info" ELSE "over"

NextFile(p) ==
    CASE pc[p] = "refresh_token" -> "auth_token"
      [] pc[p] = "auth_token" /\ Job[p].cmd = "authLogin" -> "user_info"
      [] OTHER -> "over"

\* writeFileSync of the three files in their order, or of auth_token only.  A
\* write that fails or is interrupted leaves the file as it was, or truncated.
WriteFile(p) ==
    LET f == pc[p]
        Written(u) == auth' = [auth EXCEPT ![f] = u]
    IN  /\ f \in AuthFiles
        /\ \/ Written(who[p]) /\ About(p, NextFile(p), who[p])
           \/ Written(Empty) /\ About(p, "torn", Nil)
           \/ /\ UNCHANGED auth
              /\ About(p, IF f = FirstFile(p) THEN "over" ELSE "torn", Nil)

AuthStep(p) ==
    Paste(p) \/ ReadRefreshToken(p) \/ Fetch(p) \/ WriteFile(p)

AuthTypeOK ==
    /\ auth \in [AuthFiles -> Users \cup {Nil, Empty}]
    /\ who \in [Procs -> Users \cup {Nil, Empty}]
=============================================================================

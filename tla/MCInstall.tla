----------------------------- MODULE MCInstall -----------------------------
(***************************************************************************)
(* An instance of SvInstall for TLC: an application that needs a container *)
(* of its own name and another application, which needs the container too. *)
(***************************************************************************)
EXTENDS SvInstall, TLC
Web == <<"app", "web">>
Lib == <<"container", "web">>
Proxy == <<"app", "proxy">>
Master == <<"origin", <<"master">> >>
OfFork == <<"fork", <<"x">> >>
Repositories == {Web, Lib, Proxy}
TopicOf == <<"fork", "x">>
Names == {<<"master">>, <<"x">>}
Suffixes == {<<"origin", "origin">>, <<"fork", "fork">>}
PublishedOf == Web :> {Master, OfFork} @@ Lib :> {Master}
               @@ Proxy :> {Master}
MaxTipOf == [at \in Repos \X Upstreams |->
                IF at = <<Web, Master>> THEN 2 ELSE 1]
WorkedOn == {Web, Lib}
On(r) == [repo |-> r, branch |-> <<"master">>]
DepsOf == [at \in Repos \X Upstreams |->
              IF at[1] = Web THEN <<On(Lib), On(Proxy)>>
              ELSE IF at[1] = Proxy THEN <<On(Lib)>> ELSE <<>>]
Install(up, deps) == [repo |-> Web, up |-> up, deps |-> deps]
RequestsOf == {Install(Master, TRUE), Install(OfFork, FALSE)}

\* The same with a branch of origin that gets the local name of the fork's x.
Namesake == <<"origin", <<"fork", "x">> >>
NamesCollide == Names \cup {<<"fork", "x">>}
PublishedCollide == Web :> {Master, OfFork, Namesake} @@ Lib :> {Master}
                    @@ Proxy :> {Master}
RequestsCollide == {Install(OfFork, FALSE), Install(Namesake, FALSE)}
TopicApart == <<"topic">>
=============================================================================

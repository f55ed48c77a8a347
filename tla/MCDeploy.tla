------------------------------ MODULE MCDeploy ------------------------------
(***************************************************************************)
(* Instances of DeployPipeline for TLC: jobs of pull requests, previews    *)
(* and branches at the same time.                                          *)
(***************************************************************************)
EXTENDS DeployPipeline, TLC

Branch(b) == [base |-> b, slug |-> Nil]
Preview(e, s) == [base |-> e, slug |-> s]
On(branch, pr, commit) == [branch |-> branch, pr |-> pr, commit |-> commit]

Inputs ==
    "pr4" :> On(Branch("feature"), <<"4">>, "c1")
    @@ "pr4again" :> On(Branch("feature"), <<"4">>, "c2")
    @@ "pr42" :> On(Branch("other"), <<"4", "2">>, "c2")
    @@ "pr7" :> On(Branch("third"), <<"7">>, "c2")
    @@ "pr7again" :> On(Branch("third"), <<"7">>, "c1")
    @@ "develop" :> On(Branch("develop"), Nil, "c1")
    @@ "feature" :> On(Branch("feature"), Nil, "c1")
    @@ "devX" :> On(Preview("dev", <<"x">>), Nil, "c1")
    @@ "intX" :> On(Preview("int", <<"x">>), Nil, "c2")
    @@ "qaX" :> On(Preview("qa", <<"x">>), Nil, "c2")
    @@ "devLong" :> On(Preview("dev", <<"x", "y", "z">>), Nil, "c2")
\* Pull request 4 of a repository whose name ends with that of this one.
Neighbours == {<<"my", "repo", "pull", "4">>}
InputOfJob == [j \in Jobs |-> Inputs[j]]
=============================================================================

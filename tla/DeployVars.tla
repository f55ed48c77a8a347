----------------------------- MODULE DeployVars -----------------------------
(***************************************************************************)
(* getVars (sv/deploy/getVars.js): where a CI job deploys, computed from   *)
(* the branch and the pull request number it runs for.                     *)
(*                                                                         *)
(* A name is the sequence of its parts, in one alphabet of strings, so     *)
(* that names can be compared and one can be a prefix of another; a pull   *)
(* request number is the sequence of its digits.  MaxName stands for helm's *)
(* limit of 53 characters.  A branch is [base |-> b, slug |-> Nil], or      *)
(* [base |-> e, slug |-> s] for "preview/<e>/<s>" with a valid <e> and <s>. *)
(***************************************************************************)
EXTENDS Naturals, Sequences

CONSTANTS
    Legacy,     \* LEGACY_ENV
    MaxName,    \* the longest release name helm accepts
    Nil         \* undefined

IsPull(i) == i.pr # Nil
IsPreview(i) == ~IsPull(i) /\ i.branch.slug # Nil

\* previewBranches
Previewable == {"dev", "int", "qa", "qc", "staging", "stage"}
PreviewBranch(e) == IF e = "dev" THEN "develop" ELSE e

BranchName(i) == IF IsPull(i) THEN "test"
                 ELSE IF IsPreview(i) THEN PreviewBranch(i.branch.base)
                 ELSE i.branch.base

\* envs, as pairs of a branch and its environment.
EnvMap == IF Legacy
            THEN {<<"master", "live">>, <<"staging", "staging">>,
                  <<"develop", "dev">>, <<"qa", "qa">>, <<"test", "test">>}
            ELSE {<<"master", "prod">>, <<"prod", "prod">>,
                  <<"staging", "stage">>, <<"stage", "stage">>,
                  <<"develop", "int">>, <<"int", "int">>,
                  <<"qa", "qc">>, <<"qc", "qc">>, <<"test", "test">>}

\* The environment and cluster of a job, Nil for a branch that has none.
Env(i) == IF \E m \in EnvMap : m[1] = BranchName(i)
            THEN (CHOOSE m \in EnvMap : m[1] = BranchName(i))[2]
            ELSE Nil

PreviewName(i) == <<"p", Env(i)>> \o i.branch.slug
PullName(i) == <<"pull">> \o i.pr

\* A mutated form: the slug alone, for the cluster is another one anyway.
PreviewTagWithoutEnv(i) == IF IsPull(i) THEN PullName(i)
                           ELSE IF IsPreview(i) THEN i.branch.slug
                           ELSE <<Env(i)>>

\* tagFlag; without it sv start uses the environment.
Tag(i) == IF IsPull(i) THEN PullName(i)
          ELSE IF IsPreview(i) THEN PreviewName(i)
          ELSE <<Env(i)>>

\* aliasName
AliasName(i) == <<"repo">> \o (IF IsPull(i) THEN PullName(i)
                               ELSE IF IsPreview(i) THEN PreviewName(i)
                               ELSE <<>>)

\* The errors getVars throws before the job does anything.
Throws(i) == IsPreview(i) /\ (Env(i) = Nil \/ Len(AliasName(i)) > MaxName)
=============================================================================

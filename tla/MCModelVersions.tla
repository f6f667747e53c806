--------------------------- MODULE MCModelVersions ---------------------------
(***************************************************************************)
(* ModelVersions for TLC: the configurations of the runs.                  *)
(***************************************************************************)
EXTENDS ModelVersions

Config(p, o, l) == [policy |-> p, options |-> o, loader |-> l]
Latest(n) == [kind |-> "latest", num |-> n]
All == [kind |-> "all"]
Specific(vs) == [kind |-> "specific", versions |-> vs]

\* A configuration of each kind of policy, one whose options allow requests to
\* reload, one with a custom loader and one whose custom loader does not exist.
MCConfigs == {Config(Latest(1), 1, "none"), Config(All, 2, "none"),
              Config(Specific({1}), 1, "found"), Config(All, 1, "missing")}

\* The listing of the directories "1" and "2".
NumericOrder == <<1, 2>>
=============================================================================

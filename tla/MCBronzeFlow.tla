---------------------------- MODULE MCBronzeFlow ----------------------------
(* Instances of BronzeFlow for TLC: a file with a record the builds judge  *)
(* differently, files they accept or reject whole, two ingestion runs.     *)
EXTENDS BronzeFlow, TLC

CONSTANTS f1, f2, a, b, c, v1, v2

TwoFiles == (f1 :> {a, b}) @@ (f2 :> {c})
\* One build, which rejects record b only.
OneBuild == v1 :> Row \ {b}

\* The second build loosens the rule that rejected b and tightens the ones
\* that a and c passed.
TwoBuilds == (v1 :> {a, c}) @@ (v2 :> {b})

=============================================================================

----------------------------- MODULE MCPricing -----------------------------
(* Small instances of Pricing: a call, two forms that save tiers, two rates. *)
EXTENDS Pricing, TLC

CONSTANTS none, absent, t1, t2, f1, f2

\* Rows and forms are alike.
RowSymmetry == Permutations(TierIds) \cup Permutations(Forms)
=============================================================================

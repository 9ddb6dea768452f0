------------------------------ MODULE MCSignIn ------------------------------
(* Small instances of SignIn: one browser, in which two requests overlap. *)
EXTENDS SignIn, TLC

CONSTANTS ann, bob, home, r1, r2

\* A failure blocks, but one code may be mailed.
OneOrTwo == [action \in Actions |-> IF action = "EMAIL_OTP_SEND" THEN 2 ELSE 1]

\* ann enrols; bob has a password only.
AnnEnrols == [u \in {ann, bob} |-> IF u = ann THEN 1 ELSE 0]

\* Requests are alike, and no property here is a liveness property.
RequestSymmetry == Permutations(Requests)

=============================================================================

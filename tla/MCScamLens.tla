----------------------------- MODULE MCScamLens -----------------------------
(***************************************************************************)
(* ScamLens on a small name tree: sub is a subdomain of par.               *)
(***************************************************************************)
EXTENDS ScamLens, TLC

CONSTANTS sub, par

MCChain == (sub :> <<sub, par>>) @@ (par :> <<par>>)
OneName == (par :> <<par>>)

\* Requests are interchangeable, and so are scans.
Symmetry == Permutations(Query) \cup Permutations(Job)
=============================================================================

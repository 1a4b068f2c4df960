----------------------------- MODULE MCModelPool -----------------------------
(***************************************************************************)
(* Two threads share a pool of two models, so that the last of them may be  *)
(* rotated while the first is out of the pool; each fallback provider has   *)
(* one model.                                                               *)
(***************************************************************************)
EXTENDS ModelPool, TLC

CONSTANTS t1, t2, m1, m2, f1, s1

MCPrimary   == <<m1, m2>>
MCFallback  == <<f1>>
MCSecondary == <<s1>>
MCSymmetry  == Permutations({t1, t2})
=============================================================================

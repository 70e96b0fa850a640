---------------------------- MODULE MCActivation ----------------------------
(* Instances of Activation for TLC: two bundles that carry the same run id.   *)
EXTENDS Activation, TLC

CONSTANTS t1, t2, x

MCRunOf == (t1 :> x) @@ (t2 :> x)
=============================================================================

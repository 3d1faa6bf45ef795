---------------------------- MODULE MCConntrack -----------------------------
EXTENDS Conntrack, TLC

(* f1 is a TCP flow, the others are UDP. *)
MixedTimeout == ("f1" :> 1) @@ ("f2" :> 0) @@ ("f3" :> 0)

(* With 4 buckets, two flows share one. *)
PairHash == ("f1" :> 0) @@ ("f2" :> 4) @@ ("f3" :> 3)
=============================================================================

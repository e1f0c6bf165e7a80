--------------------------- MODULE MCBindingChain ---------------------------
(* Instances of BindingChain for TLC. *)
EXTENDS BindingChain, TLC

CONSTANTS b1, e1, t1, t2, c1, c2, a1, a2, pol1, pol2, i1

OneRef      == {{e1}}
TwoAccounts == e1 :> {<<t1, a1>>, <<t1, a2>>}
TwoTrusts   == e1 :> {<<t1, a1>>, <<t2, a2>>}
OneTarget   == t1 :> c1
TwoTargets  == (t1 :> c1) @@ (t2 :> c2)
=============================================================================

------------------------ MODULE MCControlPlaneEntity ------------------------
(* Instances of ControlPlaneEntity for TLC. *)
EXTENDS ControlPlaneEntity, TLC

CONSTANTS e1, t1, t2, c1, c2, s1

AnyTrust   == e1 :> {t1, t2}
OneAccount == e1 :> {s1}
Retargeted == (t1 :> {c1, c2}) @@ (t2 :> {c2})   \* t1 may be moved
=============================================================================

------------------------ MODULE MCControlPlaneTrust ------------------------
(* Instances of ControlPlaneTrust for TLC. *)
EXTENDS ControlPlaneTrust, TLC

CONSTANTS t1, c1, c2, i1, i2, p1, p2, iss1, iss2

OneTarget  == t1 :> {c1}
FreeTarget == t1 :> {c1, c2}     \* spec.controlPlaneRef may be edited

IssuerOfC1 == c1 :> {iss1}
IssuersOfBoth == (c1 :> {iss1}) @@ (c2 :> {iss2})

PlainPaths == [k \in Prefixes \X ControlPlanes |-> k]

AnyProject == [t \in Trusts |-> Instances \cup {None}]
OneProject == t1 :> {i1}
AnyState == {Missing, Unreachable, Reachable}
UpOrDown == {Unreachable, Reachable}
=============================================================================

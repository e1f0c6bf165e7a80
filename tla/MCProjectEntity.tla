-------------------------- MODULE MCProjectEntity --------------------------
(* Instances of ProjectEntity for TLC. *)
EXTENDS ProjectEntity, TLC

CONSTANTS pe1, i1, i2, a1, a2, x

\* i1 may be mistyped: nothing answers at x.
TwoInstances == (i1 :> {a1, x}) @@ (i2 :> {a2})

\* The server at a2 is always there.
Servers == (a1 :> {"up", "down"}) @@ (a2 :> {"up"}) @@ (x :> {"down"})
=============================================================================

-------------------------- MODULE MCPolicyBinding --------------------------
(* Instances of PolicyBinding for TLC. *)
EXTENDS PolicyBinding, TLC

CONSTANTS b1, e1, e2, t1, t2, i1, pol1, pol2, s1, s2, s3

OneRef  == {{e1}}
MayDrop == {{e1}, {e1, e2}}

View(t, s) == [trust |-> t, subject |-> s]

OneView   == e1 :> {View(t1, s1)}
SameTrust == (e1 :> {View(t1, s1)}) @@ (e2 :> {View(t1, s2)})

\* The trust and the account of e1 are edited together.
Edited    == (e1 :> {View(t1, s1), View(t2, s3)})
             @@ (e2 :> {View(t2, s2)})

AnyState == {Missing, Assigned, Configured}
AlwaysUp == {Configured}   \* a call may fail all the same

OneHome  == t1 :> {i1}
BothHome == (t1 :> {i1}) @@ (t2 :> {i1})
=============================================================================

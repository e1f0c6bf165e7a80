----------------------------- MODULE MCTeardown -----------------------------
(* Instances of Teardown for TLC. *)
EXTENDS TeardownNames, TLC

CONSTANTS pe, ct, ce, b1, b2, nowhere

\* The references of the entity and of a binding may be taken away and put back.
Refs == (pe :> {{}}) @@ (ct :> {{pe}}) @@ (ce :> {{ct}, {nowhere}})
          @@ (b1 :> {{ce}, {nowhere}}) @@ (b2 :> {{ce}})

\* The names of the bindings differ after the point of truncation only, which
\* falls behind a dash; the prefix of the mount needs sanitising.
SmallLetters  == {"a", "b", "o"}
AllChars      == SmallLetters \cup {"B", "-", "."}
SmallOf       == "B" :> "b"
TheOpenbao    == <<"o", "b">>
ThePrefix     == <<".", "B">>
TheNamespace  == <<"a">>
ControlPlanes == ct :> <<"a", "b">>
ObjectNames   == (ce :> <<"o">>) @@ (b1 :> <<"b", "-", "a">>) @@ (b2 :> <<"b", "-", "b">>)

\* The hypotheses of the theorems about these names hold here.
ASSUME InstanceApart == NamesAdmitted /\ BindingsApart

RoleNameFor(b) == RoleName(Namespace, Joined(NameOf[b], NameOf[ce]))

MountName  == ct :> AuthMountPath(Prefix, Namespace, ControlPlaneOf[ct])
RoleNameAt == (<<b1, ce>> :> RoleNameFor(b1)) @@ (<<b2, ce>> :> RoleNameFor(b2))

\* Under these names the configuration uses them, and TLC computes them once.
Mounts    == MountName
RoleNames == RoleNameAt
=============================================================================

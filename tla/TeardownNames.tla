--------------------------- MODULE TeardownNames ---------------------------
(***************************************************************************)
(* Teardown under the names that the controllers give to mounts and roles. *)
(* The objects are those of one namespace; their names, and the prefix the *)
(* operator configures, are any strings.                                   *)
(***************************************************************************)
EXTENDS Teardown, Naming

CONSTANTS
  Prefix,          \* the prefix of auth mounts, from ServiceConfig and instance
  Namespace,       \* namespace of all objects
  NameOf,          \* binding or entity -> its name
  ControlPlaneOf   \* trust -> name of its ControlPlane

ASSUME NamesAssumption ==
  /\ Prefix \in Seq(Chars) /\ Namespace \in Seq(Chars)
  /\ \A o \in Bindings \cup Entities : NameOf[o] \in Seq(Chars)
  /\ \A t \in Trusts : ControlPlaneOf[t] \in Seq(Chars)
  /\ MountOf = [t \in Trusts |-> AuthMountPath(Prefix, Namespace, ControlPlaneOf[t])]
  /\ RoleNameOf = [p \in Bindings \X Entities |->
                     RoleName(Namespace, Joined(NameOf[p[1]], NameOf[p[2]]))]

\* The API server admits all names.
NamesAdmitted ==
  /\ ObjectName(Namespace)
  /\ \A o \in Bindings \cup Entities : ObjectName(NameOf[o])
  /\ \A t \in Trusts : ObjectName(ControlPlaneOf[t])

\* Names of bindings differ in more than dots against dashes, and no binding has
\* the name of another, a dash and something more.
BindingsApart ==
  \A b, c \in Bindings :
    b # c => /\ Dashed(NameOf[b]) # Dashed(NameOf[c])
             /\ ~Continues(Dashed(NameOf[b]), Dashed(NameOf[c]))

\* Whatever goes into the URL of a later call is legal there.
NamesMountable ==
  /\ \A p \in mounts : Mountable(p)
  /\ \A r \in roles : Mountable(r[2])
=============================================================================

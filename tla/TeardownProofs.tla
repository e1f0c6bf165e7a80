--------------------------- MODULE TeardownProofs ---------------------------
(***************************************************************************)
(* Proofs about Teardown, for any numbers of projects, trusts, entities    *)
(* and bindings, whatever they refer to, and any names.  Only the          *)
(* last section uses how names are computed.                               *)
(***************************************************************************)
EXTENDS TeardownNames, NamingProofs

\* The names of roles are distinct.  The last section says when.
RoleNamesDistinct ==
  \A b, c \in Bindings, d, e \in Entities :
    RoleNameOf[<<b, d>>] = RoleNameOf[<<c, e>>] => b = c

-----------------------------------------------------------------------------
(***************************************************************************)
(* Types.                                                                  *)
(***************************************************************************)

LEMMA TypeInit == Init => TypeOK
  BY DEF Init, TypeOK, Exists

\* Of the types, what concerns references and what concerns the stages.
RefsTyped ==
  /\ DOMAIN refs = Objects
  /\ \A o \in Objects : IF Exists(o) THEN refs[o] \in RefsOf[o] ELSE refs[o] = {}
StageTyped ==
  /\ stage \in [Objects -> {"absent", "live", "held", "deleting"}]
  /\ \A o \in Objects \ Owners : stage[o] \in {"absent", "live"}
RecordedTyped ==
  /\ DOMAIN recorded = Bindings
  /\ \A b \in Bindings : recorded[b] \subseteq RolesOf(b)

\* Dropping an object from the API server.
LEMMA TypeForget ==
  ASSUME TypeOK, NEW o, Forget(o)
  PROVE  /\ StageTyped' /\ RefsTyped' /\ RecordedTyped'
         /\ admitted' \subseteq Validated /\ configured' \subseteq Trusts
         /\ resolved' \subseteq Entities /\ ready' \subseteq Objects
  <1>1. RecordedTyped'
    <2>1. recorded' = [b \in Bindings |-> IF b = o THEN {} ELSE recorded[b]]
      BY DEF Forget
    <2>2. \A b \in Bindings : recorded[b] \subseteq RolesOf(b)
      BY DEF TypeOK
    <2>3. \A b \in Bindings : recorded'[b] \subseteq RolesOf(b)
      BY <2>1, <2>2
    <2> QED
      BY <2>1, <2>3 DEF RecordedTyped
  <1>2. /\ stage' = [stage EXCEPT ![o] = "absent"]
        /\ refs' = [refs EXCEPT ![o] = {}]
    BY DEF Forget
  <1>3. /\ stage \in [Objects -> {"absent", "live", "held", "deleting"}]
        /\ \A p \in Objects \ Owners : stage[p] \in {"absent", "live"}
        /\ DOMAIN refs = Objects
        /\ \A p \in Objects : IF Exists(p) THEN refs[p] \in RefsOf[p] ELSE refs[p] = {}
    BY DEF TypeOK
  <1>4. stage' \in [Objects -> {"absent", "live", "held", "deleting"}]
    BY <1>2, <1>3
  <1>5. \A p \in Objects \ Owners : stage'[p] \in {"absent", "live"}
    BY <1>2, <1>3
  <1>6. RefsTyped'
    BY <1>2, <1>3 DEF RefsTyped, Exists
  <1> QED
    BY <1>1, <1>4, <1>5, <1>6 DEF TypeOK, Forget, StageTyped

\* A reconcile of a live trust or binding.
LEMMA TypeHold ==
  ASSUME TypeOK, NEW o \in Owners, Hold(o), refs' = refs
  PROVE  StageTyped' /\ RefsTyped'
  <1>1. o \in Objects
    BY DEF Owners, Objects
  <1>2. /\ stage \in [Objects -> {"absent", "live", "held", "deleting"}]
        /\ \A p \in Objects \ Owners : stage[p] \in {"absent", "live"}
        /\ stage' = [stage EXCEPT ![o] = "held"] /\ stage[o] # "absent"
    BY DEF TypeOK, Hold
  <1>3. StageTyped'
    BY <1>1, <1>2 DEF StageTyped
  <1>4. RefsTyped'
    BY <1>1, <1>2 DEF TypeOK, RefsTyped, Exists
  <1> QED
    BY <1>3, <1>4

LEMMA TypeNext == TypeOK /\ [Next]_vars => TypeOK'
  <1> SUFFICES ASSUME TypeOK, [Next]_vars PROVE TypeOK'
    OBVIOUS
  <1> USE DEF StageTyped, RefsTyped, RecordedTyped
  <1>0. Nowhere \notin Objects
    BY ReferencesAssumption
  <1>u. CASE UNCHANGED vars
    BY <1>u DEF vars, status, openbao, TypeOK, Exists
  <1>1. ASSUME NEW o \in Objects, Create(o) PROVE TypeOK'
    <2>1. PICK R \in RefsOf[o] : refs' = [refs EXCEPT ![o] = R]
      BY <1>1 DEF Create
    <2>2. stage' = [stage EXCEPT ![o] = "live"]
      BY <1>1 DEF Create
    <2>3. StageTyped'
      BY <2>2 DEF TypeOK
    <2>4. RefsTyped'
      BY <1>0, <2>1, <2>2 DEF TypeOK, Exists
    <2> QED
      BY <1>1, <2>3, <2>4 DEF Create, status, openbao, TypeOK
  <1>2. ASSUME NEW o \in Objects, Edit(o) PROVE TypeOK'
    <2>1. PICK R \in RefsOf[o] : refs' = [refs EXCEPT ![o] = R]
      BY <1>2 DEF Edit
    <2>2. RefsTyped'
      BY <1>2, <2>1 DEF Edit, TypeOK, Exists
    <2> QED
      BY <1>2, <2>2 DEF Edit, status, openbao, TypeOK
  <1>3. ASSUME NEW o \in Objects, Delete(o) PROVE TypeOK'
    <2>1. CASE Forget(o)
      BY <1>3, <2>1, TypeForget DEF Delete, openbao, TypeOK
    <2>2. CASE stage[o] = "held" /\ stage' = [stage EXCEPT ![o] = "deleting"]
                /\ admitted' = admitted \ {o} /\ UNCHANGED <<refs, status>>
      <3>1. StageTyped'
        BY <2>2 DEF TypeOK
      <3>2. RefsTyped'
        BY <2>2 DEF TypeOK, Exists
      <3> QED
        BY <1>3, <2>2, <3>1, <3>2 DEF Delete, status, openbao, TypeOK
    <2> QED
      BY <1>3, <2>1, <2>2 DEF Delete
  <1>4. ASSUME NEW o \in Validated, Admit(o) \/ Drop(o) PROVE TypeOK'
    BY <1>4 DEF Admit, Drop, status, openbao, TypeOK, Exists
  <1>5. ASSUME NEW p \in Projects, ReconcileProject(p) PROVE TypeOK'
    BY <1>5 DEF ReconcileProject, SetReady, openbao, Objects, TypeOK, Exists
  <1>6. ASSUME NEW t \in Trusts, NEW stored \in BOOLEAN, ReconcileTrust(t, stored)
        PROVE  TypeOK'
    <2>1. t \in Owners /\ t \in Objects
      BY DEF Owners, Objects
    <2>2. StageTyped' /\ RefsTyped'
      BY <1>6, <2>1, TypeHold DEF ReconcileTrust
    <2>3. /\ configured' \subseteq Trusts /\ ready' \subseteq Objects
          /\ mounts' \subseteq {MountOf[u] : u \in Trusts}
      BY <1>6, <2>1 DEF ReconcileTrust, SetReady, TypeOK
    <2> QED
      BY <1>6, <2>2, <2>3 DEF ReconcileTrust, TypeOK
  <1>7. ASSUME NEW t \in Trusts, FinalizeTrust(t) PROVE TypeOK'
    BY <1>7, TypeForget DEF FinalizeTrust, openbao, TypeOK
  <1>8. ASSUME NEW e \in Entities, ReconcileEntity(e) PROVE TypeOK'
    BY <1>8 DEF ReconcileEntity, SetReady, openbao, Objects, TypeOK, Exists
  <1>9. ASSUME NEW b \in Bindings, NEW stored \in BOOLEAN, ReconcileBinding(b, stored)
        PROVE  TypeOK'
    <2>1. b \in Owners /\ b \in Objects
      BY DEF Owners, Objects
    <2>2. {RoleAt(b, u[1], u[2]) : u \in Usable(b)} \subseteq RolesOf(b)
          /\ Written(b) \subseteq Usable(b)
      BY DEF Usable, Written, RolesOf
    <2>3. roles' \subseteq UNION {RolesOf(c) : c \in Bindings}
      BY <1>9, <2>2 DEF ReconcileBinding, TypeOK
    <2>4. RecordedTyped' /\ ready' \subseteq Objects
      BY <1>9, <2>1, <2>2 DEF ReconcileBinding, SetReady, TypeOK
    <2>5. StageTyped' /\ RefsTyped'
      BY <1>9, <2>1, TypeHold DEF ReconcileBinding
    <2> QED
      BY <1>9, <2>3, <2>4, <2>5 DEF ReconcileBinding, TypeOK
  <1>10. ASSUME NEW b \in Bindings, FinalizeBinding(b) PROVE TypeOK'
    BY <1>10, TypeForget DEF FinalizeBinding, TypeOK
  <1> QED
    BY <1>u, <1>1, <1>2, <1>3, <1>4, <1>5, <1>6, <1>7, <1>8, <1>9, <1>10 DEF Next, Reconcile

\* Every variable has its type, and only trusts and bindings are ever held.
THEOREM TypeCorrect == Spec => []TypeOK
  BY TypeInit, TypeNext, PTL DEF Spec

-----------------------------------------------------------------------------
(***************************************************************************)
(* Roles are reachable.                                                    *)
(***************************************************************************)

\* A trust that publishes a mount has the finalizer: its object cannot go
\* without reconcileDelete.
ConfiguredHeld == \A t \in configured : stage[t] \in {"held", "deleting"}

ReachInv == ConfiguredHeld /\ RolesReachable

LEMMA ReachNext == TypeOK /\ ReachInv /\ [Next]_vars => ReachInv'
  <1> SUFFICES ASSUME TypeOK, ReachInv, [Next]_vars PROVE ReachInv'
    OBVIOUS
  <1> USE DEF ReachInv, ConfiguredHeld, RolesReachable, Exists
  <1>0. configured \subseteq Objects /\ DOMAIN stage = Objects /\ Nowhere \notin Objects
    BY ReferencesAssumption DEF TypeOK, Objects
  <1>u. CASE UNCHANGED vars
    BY <1>u DEF vars, status, openbao
  <1>1. ASSUME NEW o \in Objects, Create(o) \/ Edit(o) PROVE ReachInv'
    BY <1>0, <1>1 DEF Create, Edit, status, openbao, TypeOK
  <1>2. ASSUME NEW o \in Objects, Delete(o) PROVE ReachInv'
    <2>1. CASE stage[o] = "live" /\ Forget(o)
      BY <1>0, <1>2, <2>1 DEF Delete, Forget, openbao, TypeOK
    <2>2. CASE stage[o] = "held" /\ stage' = [stage EXCEPT ![o] = "deleting"]
                /\ UNCHANGED status
      BY <1>0, <1>2, <2>2 DEF Delete, status, openbao, TypeOK
    <2> QED
      BY <1>2, <2>1, <2>2 DEF Delete
  <1>3. ASSUME NEW o \in Validated, Admit(o) \/ Drop(o) PROVE ReachInv'
    BY <1>3 DEF Admit, Drop, status, openbao
  <1>4. ASSUME NEW p \in Projects, ReconcileProject(p) PROVE ReachInv'
    BY <1>4 DEF ReconcileProject, openbao
  <1>5. ASSUME NEW t \in Trusts, NEW stored \in BOOLEAN, ReconcileTrust(t, stored)
        PROVE  ReachInv'
    <2>1. stage' = [stage EXCEPT ![t] = "held"] /\ t \in Objects
      BY <1>5 DEF ReconcileTrust, Hold, Objects
    <2>2. configured \subseteq configured' /\ configured' \subseteq configured \cup {t}
          /\ mounts \subseteq mounts' /\ roles' = roles
      BY <1>5 DEF ReconcileTrust
    <2> QED
      BY <1>0, <2>1, <2>2
  <1>6. ASSUME NEW t \in Trusts, FinalizeTrust(t) PROVE ReachInv'
    <2>1. /\ stage' = [stage EXCEPT ![t] = "absent"]
          /\ configured' = configured \ {t}
      BY <1>6 DEF FinalizeTrust, Forget
    <2>2. ASSUME NEW r \in roles'
          PROVE  /\ r \in roles /\ r[1] \in mounts'
                 /\ t \in configured => r[1] # MountOf[t]
      BY <1>6, <2>2 DEF FinalizeTrust, openbao
    <2> QED
      BY <1>0, <2>1, <2>2
  <1>7. ASSUME NEW e \in Entities, ReconcileEntity(e) PROVE ReachInv'
    BY <1>7 DEF ReconcileEntity, openbao
  <1>8. ASSUME NEW b \in Bindings, NEW stored \in BOOLEAN, ReconcileBinding(b, stored)
        PROVE  ReachInv'
    <2>1. stage' = [stage EXCEPT ![b] = "held"] /\ b \in Objects
          /\ UNCHANGED <<configured, mounts>>
      BY <1>8 DEF ReconcileBinding, Hold, Objects
    <2>2. stage[b] \in {"live", "held"}
      BY <1>8 DEF ReconcileBinding, Hold
    <2>3. ASSUME NEW r \in roles', r \notin roles
          PROVE  r[1] \in mounts /\ \E t \in configured : MountOf[t] = r[1]
      <3>1. PICK u \in Written(b) : r = RoleAt(b, u[1], u[2])
        BY <1>8, <2>3 DEF ReconcileBinding
      <3> QED
        BY <3>1 DEF Usable, Written, RoleAt
    <2> QED
      BY <1>0, <2>1, <2>2, <2>3
  <1>9. ASSUME NEW b \in Bindings, FinalizeBinding(b) PROVE ReachInv'
    <2>1. stage' = [stage EXCEPT ![b] = "absent"] /\ configured' = configured \ {b}
          /\ mounts' = mounts /\ roles' \subseteq roles /\ b \notin configured
      BY <1>9, KindsAssumption DEF FinalizeBinding, Forget, TypeOK
    <2> QED
      BY <1>0, <2>1
  <1> QED
    BY <1>u, <1>1, <1>2, <1>3, <1>4, <1>5, <1>6, <1>7, <1>8, <1>9 DEF Next, Reconcile

LEMMA ReachInvariant == Spec => [](TypeOK /\ ReachInv)
  <1>1. Init => ReachInv
    BY DEF Init, ReachInv, ConfiguredHeld, RolesReachable
  <1> QED
    BY <1>1, ReachNext, TypeCorrect, PTL DEF Spec

\* Whatever is created, deleted, refused and reconciled in whatever order, a
\* role lies on a mount that exists and that an existing trust publishes.
THEOREM NoRoleStranded == Spec => []RolesReachable
  <1>1. ReachInv => RolesReachable
    BY DEF ReachInv
  <1> QED
    BY <1>1, ReachInvariant, PTL

-----------------------------------------------------------------------------
(***************************************************************************)
(* What finalizers remove.                                                 *)
(***************************************************************************)

\* A released binding leaves none of its recorded roles behind, although its
\* reconcileDelete skips those whose path no trust publishes.
THEOREM BindingsReleasedClean == Spec => ReleasedClean
  <1> DEFINE A == \A b \in Bindings :
                    stage[b] = "deleting" /\ stage'[b] = "absent" =>
                      recorded[b] \cap roles' = {}
  <1>1. TypeOK /\ ReachInv /\ [Next]_vars => A
    <2> SUFFICES ASSUME TypeOK, ReachInv, [Next]_vars, NEW b \in Bindings,
                        stage[b] = "deleting", stage'[b] = "absent",
                        NEW r \in recorded[b]
                 PROVE  r \notin roles'
      OBVIOUS
    <2>1. b \in Objects /\ stage \in [Objects -> {"absent", "live", "held", "deleting"}]
      BY DEF TypeOK, Objects
    <2>2. FinalizeBinding(b)
      <3>1. ASSUME NEW o \in Objects, Create(o) \/ Delete(o) PROVE FALSE
        BY <2>1, <3>1 DEF Create, Delete, Forget, Exists
      <3>2. ASSUME NEW o \in Owners, Hold(o) PROVE FALSE
        BY <2>1, <3>2 DEF Hold
      <3>3. ASSUME NEW o \in Trusts \cup Bindings, Forget(o), o # b PROVE FALSE
        BY <2>1, <3>3 DEF Forget
      <3>4. stage' # stage
        OBVIOUS
      <3>5. b \notin Trusts
        BY KindsAssumption
      <3>6. \/ \E t \in Trusts : FinalizeTrust(t)
            \/ \E c \in Bindings : FinalizeBinding(c)
        BY <3>1, <3>2, <3>4 DEF Next, Reconcile, Edit, Admit, Drop, ReconcileProject,
           ReconcileTrust, ReconcileEntity, ReconcileBinding, vars, Owners
      <3> QED
        BY <3>3, <3>5, <3>6 DEF FinalizeTrust, FinalizeBinding
    <2>3. CASE r \in Removable(b)
      BY <2>2, <2>3 DEF FinalizeBinding
    <2>4. CASE r \notin Removable(b)
      BY <2>2, <2>4 DEF FinalizeBinding, Removable, ReachInv, RolesReachable
    <2> QED
      BY <2>3, <2>4
  <1> QED
    BY <1>1, ReachInvariant, PTL DEF Spec, ReleasedClean

\* As long as a binding is not deleted its roles go only with their mount: no
\* other binding removes them, if their role names differ.
THEOREM RolesKept ==
  ASSUME RoleNamesDistinct
  PROVE  Spec => RoleKept
  <1> DEFINE A == \A b \in Bindings, e \in Entities, t \in Trusts :
                    /\ stage[b] = "held" /\ stage'[b] = "held"
                    /\ RoleAt(b, e, t) \in roles \ roles'
                    => MountOf[t] \notin mounts'
  <1>1. TypeOK /\ [Next]_vars => A
    <2> SUFFICES ASSUME TypeOK, [Next]_vars,
                        NEW b \in Bindings, NEW e \in Entities, NEW u \in Trusts,
                        stage[b] = "held", stage'[b] = "held",
                        RoleAt(b, e, u) \in roles, RoleAt(b, e, u) \notin roles'
                 PROVE  MountOf[u] \notin mounts'
      OBVIOUS
    <2>1. ASSUME NEW c \in Bindings, FinalizeBinding(c) PROVE FALSE
      <3>1. RoleAt(b, e, u) \in RolesOf(c)
        BY <2>1 DEF FinalizeBinding, Removable, TypeOK
      <3>2. PICK d \in Entities, t \in Trusts : RoleAt(b, e, u) = RoleAt(c, d, t)
        BY <3>1 DEF RolesOf
      <3>3. b = c
        BY <3>2 DEF RoleAt, RoleNamesDistinct
      <3> QED
        BY <2>1, <3>3 DEF FinalizeBinding
    <2>2. PICK t \in Trusts : FinalizeTrust(t)
      BY <2>1 DEF Next, Reconcile, Create, Edit, Delete, Admit, Drop, ReconcileProject,
         ReconcileTrust, ReconcileEntity, ReconcileBinding, openbao, vars
    <2>3. mounts' = mounts \ {MountOf[t]} /\ roles' = {r \in roles : r[1] # MountOf[t]}
      BY <2>2 DEF FinalizeTrust, openbao
    <2> QED
      BY <2>3 DEF RoleAt
  <1> QED
    BY <1>1, TypeCorrect, PTL DEF Spec, RoleKept

-----------------------------------------------------------------------------
(***************************************************************************)
(* What the webhooks achieve.                                              *)
(***************************************************************************)

\* The deletion of o was let pass, or is under way.
Going(o) == o \in admitted \/ stage[o] = "deleting"

\* Nothing comes to refer to such an object, be it created so or edited.
NoLateReference ==
  \A o \in Validated : Going(o) => Dependents(o)' \subseteq Dependents(o)

\* An object that goes leaves nothing behind that refers to it.
GoesUnreferenced ==
  \A o \in Validated : Exists(o) /\ ~Exists(o)' => Dependents(o) = {}

WebhookInv ==
  webhooks => \A o \in Validated : Going(o) => Dependents(o) = {}

\* Objects come from Create alone, and start to go by Admit alone.
LEMMA GoingStep ==
  ASSUME TypeOK, [Next]_vars, NEW o \in Validated, ~Going(o), Going(o)'
  PROVE  Admit(o)
  <1>1. stage \in [Objects -> {"absent", "live", "held", "deleting"}] /\ o \in Objects
    BY DEF TypeOK, Validated
  <1>2. PICK p \in Objects : \/ Create(p) \/ Edit(p) \/ Delete(p)
                             \/ \E stored \in BOOLEAN : Reconcile(p, stored)
                             \/ p \in Validated /\ (Admit(p) \/ Drop(p))
    BY DEF Next, vars, Going
  <1>3. ASSUME Create(p) PROVE FALSE
    BY <1>1, <1>2, <1>3 DEF Create, Going
  <1>4. ASSUME Delete(p) PROVE FALSE
    <2>1. o \notin Bindings
      BY DEF Validated
    <2> QED
      BY <1>1, <1>2, <1>4, <2>1 DEF Delete, Forget, Going
  <1>5. ASSUME NEW stored \in BOOLEAN, Reconcile(p, stored) PROVE FALSE
    <2>1. ASSUME Hold(p), UNCHANGED admitted PROVE FALSE
      BY <1>1, <1>2, <2>1 DEF Hold, Going
    <2>2. ASSUME Forget(p) PROVE FALSE
      BY <1>1, <1>2, <2>2 DEF Forget, Going
    <2>3. ASSUME UNCHANGED <<stage, admitted>> PROVE FALSE
      BY <2>3 DEF Going
    <2> QED
      BY <1>5, <2>1, <2>2, <2>3 DEF Reconcile, ReconcileProject, ReconcileTrust,
         ReconcileEntity, ReconcileBinding, FinalizeTrust, FinalizeBinding
  <1>6. ASSUME Drop(p) \/ Edit(p) PROVE FALSE
    BY <1>6 DEF Drop, Edit, Going
  <1>7. ASSUME Admit(p) PROVE p = o
    BY <1>7 DEF Admit, Going
  <1> QED
    BY <1>2, <1>3, <1>4, <1>5, <1>6, <1>7

\* What goes away was going, unless it is a binding.
LEMMA GoneStep ==
  ASSUME TypeOK, [Next]_vars, NEW o \in Validated, Exists(o), ~Exists(o)'
  PROVE  Going(o)
  <1>1. stage \in [Objects -> {"absent", "live", "held", "deleting"}] /\ o \in Objects
    BY DEF TypeOK, Validated
  <1>2. PICK p \in Objects : \/ Create(p) \/ Edit(p) \/ Delete(p)
                             \/ \E stored \in BOOLEAN : Reconcile(p, stored)
                             \/ p \in Validated /\ (Admit(p) \/ Drop(p))
    BY DEF Next, vars, Exists
  <1>3. ASSUME Create(p) PROVE FALSE
    BY <1>1, <1>2, <1>3 DEF Create, Exists
  <1>4. ASSUME Delete(p) PROVE Going(o)
    <2>1. o \notin Bindings
      BY DEF Validated
    <2> QED
      BY <1>1, <1>2, <1>4, <2>1 DEF Delete, Forget, Exists, Going
  <1>5. ASSUME NEW stored \in BOOLEAN, Reconcile(p, stored) PROVE Going(o)
    <2>1. ASSUME Hold(p) PROVE FALSE
      BY <1>1, <1>2, <2>1 DEF Hold, Exists
    <2>2. ASSUME Forget(p), stage[p] = "deleting" PROVE Going(o)
      BY <1>1, <1>2, <2>2 DEF Forget, Exists, Going
    <2>3. ASSUME UNCHANGED stage PROVE FALSE
      BY <2>3 DEF Exists
    <2> QED
      BY <1>5, <2>1, <2>2, <2>3 DEF Reconcile, ReconcileProject, ReconcileTrust,
         ReconcileEntity, ReconcileBinding, FinalizeTrust, FinalizeBinding
  <1>6. ASSUME Admit(p) \/ Drop(p) \/ Edit(p) PROVE FALSE
    BY <1>6 DEF Admit, Drop, Edit, Exists
  <1> QED
    BY <1>2, <1>3, <1>4, <1>5, <1>6

LEMMA WebhooksStay == [Next]_vars => webhooks' = webhooks
  BY DEF Next, Create, Edit, Admit, Delete, Drop, Reconcile, ReconcileProject,
     ReconcileTrust, ReconcileEntity, ReconcileBinding, FinalizeTrust, FinalizeBinding, vars

LEMMA WebhookNext ==
  TypeOK /\ WebhookInv /\ [Next]_vars /\ [NoLateReference]_vars => WebhookInv'
  <1> SUFFICES ASSUME TypeOK, WebhookInv, [Next]_vars, [NoLateReference]_vars, webhooks',
                      NEW o \in Validated, Going(o)'
               PROVE  Dependents(o)' = {}
    BY DEF WebhookInv
  <1>1. webhooks
    BY WebhooksStay
  <1>2. CASE Going(o)
    <2>1. Dependents(o) = {}
      BY <1>1, <1>2 DEF WebhookInv
    <2>2. CASE NoLateReference
      BY <1>2, <2>1, <2>2 DEF NoLateReference
    <2>3. CASE UNCHANGED vars
      BY <2>1, <2>3 DEF vars, Dependents
    <2> QED
      BY <2>2, <2>3
  <1>3. CASE ~Going(o)
    <2>1. Admit(o)
      BY <1>3, GoingStep
    <2>2. Dependents(o) = {}
      BY <1>1, <2>1 DEF Admit, ValidateDelete
    <2> QED
      BY <2>1, <2>2 DEF Admit, Dependents
  <1> QED
    BY <1>2, <1>3

\* With the webhooks in place an object never goes while another refers to it,
\* unless something is created or edited to refer to it between the answer of the
\* webhook and the end of the deletion: those two races are the only ways.  (Without
\* webhooks there is no such promise.)
THEOREM DanglesByRaceOnly ==
  Spec /\ webhooks /\ [][NoLateReference]_vars => [][GoesUnreferenced]_vars
  <1>1. Init /\ webhooks => WebhookInv
    BY DEF Init, WebhookInv, Going, Validated
  <1>2. TypeOK /\ WebhookInv /\ webhooks /\ [Next]_vars => [GoesUnreferenced]_vars
    BY GoneStep DEF WebhookInv, GoesUnreferenced
  <1>3. webhooks /\ [Next]_vars => webhooks'
    BY WebhooksStay
  <1> QED
    BY <1>1, <1>2, <1>3, WebhookNext, TypeCorrect, PTL DEF Spec

-----------------------------------------------------------------------------
(***************************************************************************)
(* The names that the service computes.                                    *)
(***************************************************************************)

LEMMA PathsLegal ==
  /\ \A t \in Trusts : Mountable(MountOf[t])
  /\ \A b \in Bindings, e \in Entities : Mountable(RoleNameOf[<<b, e>>])
  <1>1. ASSUME NEW t \in Trusts PROVE Mountable(MountOf[t])
    <2>1. MountOf[t] = AuthMountPath(Prefix, Namespace, ControlPlaneOf[t])
      BY NamesAssumption
    <2> QED
      BY <2>1, NamesAssumption, NamesLegal
  <1>2. ASSUME NEW b \in Bindings, NEW e \in Entities
        PROVE  Mountable(RoleNameOf[<<b, e>>])
    <2>1. RoleNameOf[<<b, e>>] = RoleName(Namespace, Joined(NameOf[b], NameOf[e]))
      BY NamesAssumption
    <2>2. Joined(NameOf[b], NameOf[e]) \in Seq(Chars)
      BY NamesAssumption, NamingAssumption, JoinedTyped
    <2> QED
      BY <2>1, <2>2, NamesAssumption, NamesLegal
  <1> QED
    BY <1>1, <1>2

\* Whatever OpenBao holds for this service has a legal name of bounded length,
\* whatever users call their objects.
THEOREM NamesStayMountable == Spec => []NamesMountable
  <1>1. TypeOK => NamesMountable
    <2> SUFFICES ASSUME TypeOK PROVE NamesMountable
      OBVIOUS
    <2>1. ASSUME NEW p \in mounts PROVE Mountable(p)
      BY PathsLegal DEF TypeOK
    <2>2. ASSUME NEW r \in roles PROVE Mountable(r[2])
      <3>1. PICK b \in Bindings, e \in Entities, t \in Trusts : r = RoleAt(b, e, t)
        BY DEF TypeOK, RolesOf
      <3>2. r[2] = RoleNameOf[<<b, e>>]
        BY <3>1 DEF RoleAt
      <3> QED
        BY <3>2, PathsLegal
    <2> QED
      BY <2>1, <2>2 DEF NamesMountable
  <1> QED
    BY <1>1, TypeCorrect, PTL

LEMMA ApartRoles ==
  ASSUME NamesAdmitted, BindingsApart
  PROVE  RoleNamesDistinct
  <1> SUFFICES ASSUME NEW b \in Bindings, NEW c \in Bindings,
                      NEW d \in Entities, NEW e \in Entities,
                      RoleNameOf[<<b, d>>] = RoleNameOf[<<c, e>>], b # c
               PROVE  FALSE
    BY DEF RoleNamesDistinct
  <1>1. RoleName(Namespace, Joined(NameOf[b], NameOf[d]))
          = RoleName(Namespace, Joined(NameOf[c], NameOf[e]))
    BY NamesAssumption
  <1>2. ~Continues(Dashed(NameOf[b]), Dashed(NameOf[c]))
    BY DEF BindingsApart
  <1>3. ~Continues(Dashed(NameOf[c]), Dashed(NameOf[b]))
    BY DEF BindingsApart
  <1>4. Dashed(NameOf[b]) = Dashed(NameOf[c])
    BY <1>1, <1>2, <1>3, RolesDistinct DEF NamesAdmitted
  <1> QED
    BY <1>4 DEF BindingsApart

\* Nobody else removes the roles of a binding if no binding has the name of another,
\* but for dots, or continues it behind a dash.
THEOREM RolesKeptByNames ==
  ASSUME NamesAdmitted, BindingsApart
  PROVE  Spec => RoleKept
  BY ApartRoles, RolesKept
=============================================================================

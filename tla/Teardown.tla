------------------------------ MODULE Teardown ------------------------------
(***************************************************************************)
(* The life of whole projects: ProjectEntity <- ControlPlaneTrust <-       *)
(* ControlPlaneEntity <- PolicyBinding, each referring to the one before.  *)
(* The delete-validation webhooks refuse to delete what is referred to,    *)
(* finalizers hold trusts and bindings until their mounts and roles are    *)
(* removed, and users create, re-point and delete in any order.            *)
(*                                                                         *)
(* Modules of their own follow the controllers call by call.  Here a       *)
(* reconcile is one step, which may end before it stores a status, and     *)
(* OpenBao answers.  A webhook looks at one moment and the API server      *)
(* deletes at a later one; that its reads come from a cache only makes the *)
(* moment an earlier one.                                                  *)
(***************************************************************************)

CONSTANTS
  Projects, Trusts, Entities, Bindings,
  Nowhere,    \* a name that no object has
  RefsOf,     \* object -> the sets of names its spec may refer to
  MountOf,    \* trust -> path of its auth mount
  RoleNameOf  \* <<binding, entity>> -> name of the role

Objects   == Projects \cup Trusts \cup Entities \cup Bindings
Validated == Objects \ Bindings     \* the kinds that have a webhook
Owners    == Trusts \cup Bindings   \* the kinds that have a finalizer

\* A trust names one project and an entity one trust.
ASSUME ReferencesAssumption ==
  /\ DOMAIN RefsOf = Objects
  /\ \A p \in Projects : RefsOf[p] = {{}}
  /\ \A t \in Trusts   : RefsOf[t] \subseteq {{p} : p \in Projects \cup {Nowhere}}
  /\ \A e \in Entities : RefsOf[e] \subseteq {{t} : t \in Trusts \cup {Nowhere}}
  /\ \A b \in Bindings : RefsOf[b] \subseteq (SUBSET (Entities \cup {Nowhere})) \ {{}}
  /\ Nowhere \notin Objects
  /\ DOMAIN MountOf = Trusts
  /\ DOMAIN RoleNameOf = Bindings \X Entities

\* An object is of one kind.
ASSUME KindsAssumption ==
  /\ Bindings \cap (Projects \cup Trusts \cup Entities) = {}
  /\ Entities \cap (Projects \cup Trusts) = {}
  /\ Trusts \cap Projects = {}

VARIABLES
  stage,      \* object -> "absent" / "live" / "held" (has finalizer) / "deleting"
  refs,       \* object -> the names its spec refers to
  webhooks,   \* whether the webhooks are registered (webhook-cert-path is set)
  admitted,   \* objects whose deletion a webhook has let pass
  configured, \* trusts whose status has a mount path and TrustConfigured
  resolved,   \* entities with IdentityResolved
  recorded,   \* binding -> the roles that its status records with a path
  ready,      \* objects with Ready
  mounts,     \* OpenBao: paths of auth mounts
  roles       \* OpenBao: <<path, name>> of roles

status == <<configured, resolved, recorded, ready>>
openbao == <<mounts, roles>>
vars   == <<stage, refs, webhooks, admitted, status, openbao>>

Exists(o) == o # Nowhere /\ stage[o] # "absent"

\* The objects that refer to o; what does not exist refers to nothing.
Dependents(o) == {d \in Objects : o \in refs[d]}

RoleAt(b, e, t) == <<MountOf[t], RoleNameOf[<<b, e>>]>>
RolesOf(b) == {RoleAt(b, e, t) : e \in Entities, t \in Trusts}

Init ==
  /\ stage = [o \in Objects |-> "absent"]
  /\ refs = [o \in Objects |-> {}]
  /\ webhooks \in BOOLEAN
  /\ admitted = {} /\ configured = {} /\ resolved = {} /\ ready = {}
  /\ recorded = [b \in Bindings |-> {}]
  /\ mounts = {} /\ roles = {}

-----------------------------------------------------------------------------
(***************************************************************************)
(* Users, webhooks and the API server.                                     *)
(***************************************************************************)

\* ValidateCreate and ValidateUpdate let everything pass, whatever it refers to.
Create(o) ==
  /\ ~Exists(o)
  /\ stage' = [stage EXCEPT ![o] = "live"]
  /\ \E R \in RefsOf[o] : refs' = [refs EXCEPT ![o] = R]
  /\ UNCHANGED <<webhooks, admitted, status, openbao>>

\* A user makes o refer to something else, even while it is being deleted.
Edit(o) ==
  /\ Exists(o)
  /\ \E R \in RefsOf[o] \ {refs[o]} : refs' = [refs EXCEPT ![o] = R]
  /\ UNCHANGED <<stage, webhooks, admitted, status, openbao>>

\* Mutant: what an object refers to keeps it as well.
ValidateDeleteBothWays(o) ==
  webhooks => Dependents(o) = {} /\ \A p \in refs[o] : ~Exists(p)

\* ValidateDelete: List the dependents and refuse if there is one, be it itself
\* being deleted.
ValidateDelete(o) == webhooks => Dependents(o) = {}

\* A user asks for the deletion of o, and its webhook lets it pass.
Admit(o) ==
  /\ Exists(o)
  /\ o \notin admitted
  /\ ValidateDelete(o)
  /\ admitted' = admitted \cup {o}
  /\ UNCHANGED <<stage, refs, webhooks, status, openbao>>

\* o leaves the API server, and its status with it.
Forget(o) ==
  /\ stage' = [stage EXCEPT ![o] = "absent"]
  /\ refs' = [refs EXCEPT ![o] = {}]
  /\ admitted' = admitted \ {o}
  /\ configured' = configured \ {o}
  /\ resolved' = resolved \ {o}
  /\ recorded' = [b \in Bindings |-> IF b = o THEN {} ELSE recorded[b]]
  /\ ready' = ready \ {o}

\* The API server deletes, or marks for deletion what has a finalizer.  Bindings
\* have no webhook.
Delete(o) ==
  /\ o \in admitted \/ o \in Bindings
  /\ \/ /\ stage[o] = "live"
        /\ Forget(o)
     \/ /\ stage[o] = "held"
        /\ stage' = [stage EXCEPT ![o] = "deleting"]
        /\ admitted' = admitted \ {o}
        /\ UNCHANGED <<refs, status>>
  /\ UNCHANGED <<webhooks, openbao>>

\* The request is lost after the webhook has answered.
Drop(o) ==
  /\ o \in admitted
  /\ admitted' = admitted \ {o}
  /\ UNCHANGED <<stage, refs, webhooks, status, openbao>>

-----------------------------------------------------------------------------
(***************************************************************************)
(* The controllers.                                                        *)
(***************************************************************************)

\* AddFinalizer comes first for trusts and bindings.
Hold(o) == /\ stage[o] \in {"live", "held"}
           /\ stage' = [stage EXCEPT ![o] = "held"]

SetReady(o, yes) == ready' = IF yes THEN ready \cup {o} ELSE ready \ {o}

ReconcileProject(p) ==
  /\ stage[p] = "live"
  /\ SetReady(p, TRUE)
  /\ UNCHANGED <<stage, refs, webhooks, admitted, configured, resolved, recorded, openbao>>

\* stored: the status reaches the API server.
ReconcileTrust(t, stored) ==
  /\ Hold(t)
  /\ LET up == \A p \in refs[t] : Exists(p)
     IN  /\ mounts' = IF up THEN mounts \cup {MountOf[t]} ELSE mounts
         /\ IF stored
            THEN /\ SetReady(t, up)   \* dependencyNotReady leaves TrustConfigured
                 /\ configured' = IF up THEN configured \cup {t} ELSE configured
            ELSE UNCHANGED <<configured, ready>>
  /\ UNCHANGED <<refs, webhooks, admitted, resolved, recorded, roles>>

\* Mutant: an entity gets a finalizer too, which nobody removes.
ReconcileEntityHolding(e) ==
  /\ Hold(e)
  /\ LET up == refs[e] \subseteq configured
     IN  /\ SetReady(e, up)
         /\ resolved' = IF up THEN resolved \cup {e} ELSE resolved
  /\ UNCHANGED <<refs, webhooks, admitted, configured, recorded, openbao>>

\* IdentityResolved stays True once the identity was resolved.
ReconcileEntity(e) ==
  /\ stage[e] = "live"
  /\ LET up == refs[e] \subseteq configured
     IN  /\ SetReady(e, up)
         /\ resolved' = IF up THEN resolved \cup {e} ELSE resolved
  /\ UNCHANGED <<stage, refs, webhooks, admitted, configured, recorded, openbao>>

\* The entities of b that have an identity and a trust with a mount path, each
\* beside that trust.
Usable(b) == {u \in Entities \X Trusts : /\ u[1] \in refs[b] \cap resolved
                                        /\ u[2] \in refs[u[1]] \cap configured}
Written(b) == {u \in Usable(b) : MountOf[u[2]] \in mounts}

\* Mutant: references that cannot be resolved are left out of the verdict.
ReconcileBindingLeniently(b, stored) ==
  /\ Hold(b)
  /\ roles' = roles \cup {RoleAt(b, u[1], u[2]) : u \in Written(b)}
  /\ recorded' = [recorded EXCEPT ![b] = {RoleAt(b, u[1], u[2]) : u \in Usable(b)}]
  /\ SetReady(b, Written(b) = Usable(b))
  /\ UNCHANGED <<refs, webhooks, admitted, configured, resolved, mounts>>

\* One role for each of them; writing a role fails where there is no mount.
ReconcileBinding(b, stored) ==
  /\ Hold(b)
  /\ roles' = roles \cup {RoleAt(b, u[1], u[2]) : u \in Written(b)}
  /\ IF stored
     THEN /\ recorded' = [recorded EXCEPT
                            ![b] = {RoleAt(b, u[1], u[2]) : u \in Usable(b)}]
          /\ SetReady(b, refs[b] = {u[1] : u \in Written(b)})
     ELSE UNCHANGED <<recorded, ready>>
  /\ UNCHANGED <<refs, webhooks, admitted, configured, resolved, mounts>>

\* Mutant: the finalizer goes before the mount, which is never removed.
FinalizeTrustEarly(t) ==
  /\ stage[t] = "deleting"
  /\ UNCHANGED <<webhooks, openbao>>
  /\ Forget(t)

\* The recorded mount is removed, and every role on it; a trust without a
\* record is released as it is.
FinalizeTrust(t) ==
  /\ stage[t] = "deleting"
  /\ IF t \in configured
     THEN /\ mounts' = mounts \ {MountOf[t]}
          /\ roles' = {r \in roles : r[1] # MountOf[t]}
     ELSE UNCHANGED openbao
  /\ Forget(t)
  /\ UNCHANGED webhooks

\* Mutant: a trust that is itself being deleted is not asked.
RemovableOnLiveTrust(b) ==
  {r \in recorded[b] : \E t \in configured : MountOf[t] = r[1] /\ stage[t] = "held"}

\* findTrustForAuthMount: the roles whose path an existing trust publishes.
Removable(b) == {r \in recorded[b] : \E t \in configured : MountOf[t] = r[1]}

FinalizeBinding(b) ==
  /\ stage[b] = "deleting"
  /\ roles' = roles \ Removable(b)
  /\ Forget(b)
  /\ UNCHANGED <<webhooks, mounts>>

Reconcile(o, stored) ==
  \/ o \in Projects /\ ReconcileProject(o)
  \/ o \in Trusts   /\ (ReconcileTrust(o, stored) \/ FinalizeTrust(o))
  \/ o \in Entities /\ ReconcileEntity(o)
  \/ o \in Bindings /\ (ReconcileBinding(o, stored) \/ FinalizeBinding(o))

Next == \E o \in Objects :
          \/ Create(o) \/ Edit(o) \/ Delete(o)
          \/ \E stored \in BOOLEAN : Reconcile(o, stored)
          \/ o \in Validated /\ (Admit(o) \/ Drop(o))

Spec == Init /\ [][Next]_vars

-----------------------------------------------------------------------------
(***************************************************************************)
(* Properties.                                                             *)
(***************************************************************************)

\* Every variable has its type, and only trusts and bindings are ever held by a
\* finalizer.
TypeOK ==
  /\ stage \in [Objects -> {"absent", "live", "held", "deleting"}]
  /\ \A o \in Objects \ Owners : stage[o] \in {"absent", "live"}
  /\ DOMAIN refs = Objects
  /\ \A o \in Objects : IF Exists(o) THEN refs[o] \in RefsOf[o] ELSE refs[o] = {}
  /\ webhooks \in BOOLEAN
  /\ admitted \subseteq Validated
  /\ configured \subseteq Trusts
  /\ resolved \subseteq Entities
  /\ DOMAIN recorded = Bindings
  /\ \A b \in Bindings : recorded[b] \subseteq RolesOf(b)
  /\ ready \subseteq Objects
  /\ mounts \subseteq {MountOf[t] : t \in Trusts}
  /\ roles \subseteq UNION {RolesOf(b) : b \in Bindings}

\* Whatever order things are created, re-pointed and deleted in, a role is never left where
\* nobody can find it: the mount it lies on is there, and a trust that still
\* exists publishes the path of that mount.
RolesReachable ==
  \A r \in roles : /\ r[1] \in mounts
                   /\ \E t \in configured : Exists(t) /\ MountOf[t] = r[1]

\* When a binding is released, none of the roles its status records is left in
\* OpenBao: what reconcileDelete skips because no trust publishes the path has
\* gone with the mount.
ReleasedClean ==
  [][\A b \in Bindings :
       stage[b] = "deleting" /\ stage'[b] = "absent" =>
         recorded[b] \cap roles' = {}]_vars

\* "deletes [...] only the OpenBao JWT role owned by that binding": as long as a
\* binding is not deleted, its roles are removed only with their mount.
RoleKept ==
  [][\A b \in Bindings, e \in Entities, t \in Trusts :
       /\ stage[b] = "held" /\ stage'[b] = "held"
       /\ RoleAt(b, e, t) \in roles \ roles'
       => MountOf[t] \notin mounts']_vars

-----------------------------------------------------------------------------
\* The queues bring up every object that is there, and a status that is sent
\* again and again is stored eventually.
FairSpec == Spec /\ \A o \in Objects : WF_vars(Reconcile(o, TRUE))

\* Users ask for the deletion of everything, and the requests get through.
TearDown ==
  /\ <>[][\A o \in Objects : ~Create(o) /\ ~Edit(o) /\ ~Drop(o)]_vars
  /\ \A o \in Validated : WF_vars(Admit(o))
  /\ \A o \in Objects : WF_vars(Delete(o))

\* Users who create and edit nothing any more and keep asking get rid of everything:
\* webhooks and finalizers never wait for each other for ever.
TeardownCompletes == TearDown => <>[](\A o \in Objects : ~Exists(o))

\* What an object refers to may be gone all the same: the reference was made after
\* the webhook had looked, or there are no webhooks.  Then the object does not stay
\* Ready.
DanglingShows ==
  \A d \in Objects : \A o \in Objects \cap UNION RefsOf[d] :
    <>[](o \in refs[d] /\ ~Exists(o)) => <>[](d \notin ready)
=============================================================================

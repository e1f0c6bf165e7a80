------------------------- MODULE BindingChainProofs -------------------------
(***************************************************************************)
(* The composition of the entity and the binding controller implements     *)
(* PolicyBinding: what that module leaves to its environment is what the   *)
(* entity controller does, for any sets of bindings, entities and trusts.  *)
(***************************************************************************)
EXTENDS BindingChain, TLAPS

\* The identities e may ever ask for.
Possible(e) == {TargetOf[t] : t \in TrustsOf[e]} \X AccountsOf[e]

\* A resolved identity is one that the spec of e asked for at some time, which
\* need not be the one it asks for now.
Asked(s, e) == s.resolved => s.identity \in Possible(e)

Referring(s, e) == s.trust \in TrustsOf[e] /\ s.account \in AccountsOf[e]

EntityInv ==
  /\ entity \in [Entities -> E!Entity]
  /\ \A e \in Entities : /\ E!Exists(e) => Referring(entity[e], e)
                         /\ entity[e].resolved => E!Exists(e)
                         /\ Asked(entity[e], e)
  /\ worker \in E!Worker
  /\ worker.call # "idle" =>
       /\ worker.key \in Entities
       /\ Referring(worker.copy, worker.key)
       /\ Asked(worker.copy, worker.key)
       /\ worker.call \in {"controlplane", "access", "account"} =>
            worker.cp = TargetOf[worker.copy.trust]

-----------------------------------------------------------------------------
LEMMA SpecsTyped ==
  /\ TrustsOf \in [Entities -> SUBSET Trusts]
  /\ AccountsOf \in [Entities -> SUBSET Accounts]
  /\ TargetOf \in [Trusts -> ControlPlanes]
  BY ReferencesAssumption DEF TrustsOf, AccountsOf

LEMMA NoEntityType ==
  /\ E!NoEntity \in E!Entity /\ E!NoEntity.trust = None /\ ~E!NoEntity.resolved
  /\ E!Idle \in E!Worker /\ E!Idle.call = "idle"
  BY DEF E!NoEntity, E!Entity, E!Idle, E!Worker

LEMMA InitInv == Init => EntityInv
  BY NoEntityType DEF Init, EntityInv, E!Exists, Asked

\* The worker goes on with a copy whose spec is the same.
LEMMA CopyKept ==
  ASSUME EntityInv, worker.call # "idle", entity' = entity,
         NEW call \in {"controlplane", "access", "account", "status"},
         NEW s \in E!Entity, NEW c \in ControlPlanes \cup {None},
         worker' = [worker EXCEPT !.call = call, !.copy = s, !.cp = c],
         s.trust = worker.copy.trust, s.account = worker.copy.account,
         Asked(s, worker.key),
         call # "status" => c = TargetOf[s.trust]
  PROVE  EntityInv'
  <1>1. /\ worker' \in E!Worker /\ worker'.call = call /\ worker'.copy = s
        /\ worker'.key = worker.key /\ worker'.cp = c
    BY DEF EntityInv, E!Worker
  <1> QED
    BY <1>1 DEF EntityInv, E!Exists, Referring, Asked

\* What ResolveIdentity writes, as one new copy.
LEMMA CopyResolved ==
  ASSUME NEW w \in E!Worker, NEW id
  PROVE  [w EXCEPT !.call = "status", !.copy.identity = id,
                   !.copy.resolved = TRUE, !.copy.ready = TRUE]
           = [w EXCEPT !.call = "status",
                       !.copy = [w.copy EXCEPT !.identity = id, !.resolved = TRUE,
                                               !.ready = TRUE],
                       !.cp = w.cp]
  BY DEF E!Worker

LEMMA InvWorking == EntityInv /\ E!Working => EntityInv'
  <1> SUFFICES ASSUME EntityInv, E!Working PROVE EntityInv'
    OBVIOUS
  <1> USE ReferencesAssumption, SpecsTyped
  <1>0. worker \in E!Worker /\ worker.copy \in E!Entity
        /\ worker.cp \in ControlPlanes \cup {None}
    BY DEF EntityInv, E!Worker
  <1>a. worker.call # "idle" =>
          /\ worker.key \in Entities
          /\ Referring(worker.copy, worker.key) /\ Asked(worker.copy, worker.key)
          /\ worker.copy.trust \in Trusts
    BY DEF EntityInv, Referring
  <1>1. ASSUME NEW e \in Entities, E!Fetch(e) PROVE EntityInv'
    <2>1. entity[e] \in E!Entity /\ Referring(entity[e], e) /\ Asked(entity[e], e)
      BY <1>1 DEF E!Fetch, EntityInv
    <2>2. /\ worker' \in E!Worker /\ worker'.call = "trust" /\ worker'.key = e
          /\ worker'.copy = entity[e] /\ entity' = entity
      BY <1>1, <2>1, NoEntityType DEF E!Fetch, E!Worker
    <2> QED
      BY <2>1, <2>2 DEF EntityInv, E!Exists, Referring, Asked
  <1>2. ASSUME worker.call # "idle", entity' = entity,
               E!DependencyNotReady \/ E!Unresolved
        PROVE  EntityInv'
    <2>1. CASE E!DependencyNotReady
      <3> DEFINE s == [worker.copy EXCEPT !.ready = FALSE]
      <3>1. /\ s \in E!Entity /\ s.trust = worker.copy.trust
            /\ s.account = worker.copy.account /\ Asked(s, worker.key)
        BY <1>0, <1>2, <1>a DEF E!Entity, Asked
      <3>2. worker' = [worker EXCEPT !.call = "status", !.copy = s, !.cp = worker.cp]
        BY <1>0, <2>1 DEF E!DependencyNotReady, E!Worker
      <3> HIDE DEF s
      <3> QED
        BY <1>0, <1>2, <3>1, <3>2, CopyKept
    <2>2. CASE E!Unresolved
      <3> DEFINE s == [worker.copy EXCEPT !.resolved = FALSE, !.ready = FALSE]
      <3>1. /\ s \in E!Entity /\ s.trust = worker.copy.trust
            /\ s.account = worker.copy.account /\ Asked(s, worker.key)
        BY <1>0 DEF E!Entity, Asked
      <3>2. worker' = [worker EXCEPT !.call = "status", !.copy = s, !.cp = worker.cp]
        BY <1>0, <2>2 DEF E!Unresolved, E!Worker
      <3> HIDE DEF s
      <3> QED
        BY <1>0, <1>2, <3>1, <3>2, CopyKept
    <2> QED BY <1>2, <2>1, <2>2
  <1>3. CASE E!ResolveTrust
    <2>1. CASE E!DependencyNotReady
      BY <1>2, <1>3, <2>1 DEF E!ResolveTrust
    <2>2. CASE ~E!DependencyNotReady
      <3> DEFINE c == TargetOf[worker.copy.trust]
      <3>1. worker.call = "trust" /\ entity' = entity /\ c \in ControlPlanes
        BY <1>3, <1>a DEF E!ResolveTrust
      <3>2. worker' = [worker EXCEPT !.call = "controlplane", !.cp = c]
        BY <1>3, <1>a, <2>2, <3>1 DEF E!ResolveTrust
      <3>3. worker' = [worker EXCEPT !.call = "controlplane", !.copy = worker.copy, !.cp = c]
        BY <1>0, <3>2 DEF E!Worker
      <3> QED
        BY <1>0, <1>a, <3>1, <3>3, CopyKept
    <2> QED BY <2>1, <2>2
  <1>4. CASE E!ResolveControlPlane \/ E!ControlPlaneAccess
    <2>0. /\ worker.call \in {"controlplane", "access"} /\ entity' = entity
          /\ worker.cp = TargetOf[worker.copy.trust]
      BY <1>4 DEF E!ResolveControlPlane, E!ControlPlaneAccess, EntityInv
    <2>1. CASE E!DependencyNotReady \/ E!Unresolved
      BY <1>2, <2>0, <2>1
    <2>2. CASE ~(E!DependencyNotReady \/ E!Unresolved)
      <3>1. PICK c \in {"access", "account"} : worker' = [worker EXCEPT !.call = c]
        BY <1>4, <2>2 DEF E!ResolveControlPlane, E!ControlPlaneAccess
      <3>2. worker' = [worker EXCEPT !.call = c, !.copy = worker.copy, !.cp = worker.cp]
        BY <1>0, <3>1 DEF E!Worker
      <3> QED
        BY <1>0, <1>a, <2>0, <3>2, CopyKept
    <2> QED BY <2>1, <2>2
  <1>5. CASE E!ResolveIdentity
    <2>0. /\ worker.call = "account" /\ entity' = entity
          /\ worker.cp = TargetOf[worker.copy.trust]
      BY <1>5 DEF E!ResolveIdentity, EntityInv
    <2>1. CASE E!Unresolved
      BY <1>2, <2>0, <2>1
    <2>2. CASE ~E!Unresolved
      <3> DEFINE id == <<worker.cp, worker.copy.account>>
                 s == [worker.copy EXCEPT !.identity = id, !.resolved = TRUE, !.ready = TRUE]
      <3>1. id \in Possible(worker.key) /\ id \in E!Identities
        BY <1>a, <2>0 DEF Possible, Referring, E!Identities
      <3>2. /\ s \in E!Entity /\ s.trust = worker.copy.trust
            /\ s.account = worker.copy.account /\ Asked(s, worker.key)
        BY <1>0, <3>1 DEF E!Entity, Asked
      <3>3. worker' = [worker EXCEPT !.call = "status", !.copy = s, !.cp = worker.cp]
        <4>1. worker' = [worker EXCEPT !.call = "status", !.copy.identity = id,
                                       !.copy.resolved = TRUE, !.copy.ready = TRUE]
          BY <1>5, <2>2 DEF E!ResolveIdentity
        <4> QED
          BY <1>0, <4>1, CopyResolved
      <3> HIDE DEF s
      <3> QED
        BY <1>0, <2>0, <3>2, <3>3, CopyKept
    <2> QED BY <2>1, <2>2
  <1>6. CASE E!UpdateStatus
    <2>1. /\ worker.call = "status" /\ worker' = E!Idle
          /\ entity' = [entity EXCEPT ![worker.key] = worker.copy]
      BY <1>6 DEF E!UpdateStatus
    <2>2. worker.copy.trust # None
      BY <1>a, <2>1
    <2> QED
      BY <1>0, <1>a, <2>1, <2>2, NoEntityType DEF EntityInv, E!Exists, Referring, Asked
  <1>7. CASE E!Abandon
    BY <1>7, NoEntityType DEF E!Abandon, EntityInv, E!Exists, Referring, Asked
  <1> QED
    BY <1>1, <1>3, <1>4, <1>5, <1>6, <1>7 DEF E!Working

\* An edit changes one entity; it keeps the status of one that stays.
LEMMA InvEdit ==
  ASSUME EntityInv, NEW e \in Entities, E!EditEntity(e)
  PROVE  EntityInv' /\ \A d \in Entities \ {e} : entity'[d] = entity[d]
  <1> USE ReferencesAssumption, SpecsTyped
  <1>0. entity \in [Entities -> E!Entity] /\ worker \in E!Worker
    BY DEF EntityInv
  <1>1. PICK o \in E!Entity :
          /\ entity' = [entity EXCEPT ![e] = o] /\ Asked(o, e)
          /\ o.trust # None => Referring(o, e)
          /\ o.resolved => o.trust # None
    <2>1. ASSUME NEW t \in TrustsOf[e], NEW a \in AccountsOf[e],
                 entity' = [entity EXCEPT ![e].trust = t, ![e].account = a]
          PROVE  \E o \in E!Entity :
                   /\ entity' = [entity EXCEPT ![e] = o] /\ Asked(o, e)
                   /\ o.trust # None => Referring(o, e)
                   /\ o.resolved => o.trust # None
      <3> DEFINE o == [entity[e] EXCEPT !.trust = t, !.account = a]
      <3>1. entity' = [entity EXCEPT ![e] = o]
        BY <1>0, <2>1 DEF E!Entity
      <3>2. t \in Trusts /\ a \in Accounts /\ entity[e] \in E!Entity /\ Asked(entity[e], e)
        BY <2>1 DEF EntityInv
      <3>3. o \in E!Entity /\ Asked(o, e) /\ o.trust = t /\ o.account = a
        BY <3>2 DEF E!Entity, Asked
      <3>4. Referring(o, e) /\ o.trust # None
        BY <3>2, <3>3 DEF Referring
      <3> HIDE DEF o
      <3> QED BY <3>1, <3>3, <3>4
    <2> QED
      BY <2>1, NoEntityType DEF E!EditEntity, Asked
  <1>2. worker' = [worker EXCEPT !.fresh = @ /\ worker.key # e]
    BY DEF E!EditEntity
  <1>3. /\ worker' \in E!Worker /\ worker'.call = worker.call /\ worker'.key = worker.key
        /\ worker'.copy = worker.copy /\ worker'.cp = worker.cp
    BY <1>0, <1>2 DEF E!Worker
  <1> QED
    BY <1>0, <1>1, <1>3 DEF EntityInv, E!Exists, Referring, Asked

LEMMA InvKept == EntityInv /\ UNCHANGED <<entity, worker>> => EntityInv'
  BY DEF EntityInv, E!Exists, Referring, Asked

LEMMA InvNext == EntityInv /\ [Next]_vars => EntityInv'
  <1> SUFFICES ASSUME EntityInv, [Next]_vars PROVE EntityInv'
    OBVIOUS
  <1>1. CASE EntityWorker
    BY <1>1, InvWorking DEF EntityWorker
  <1>2. CASE BindingWorker
    BY <1>2, InvKept DEF BindingWorker, entityVars
  <1>3. CASE User
    BY <1>3, InvEdit, InvKept DEF User, EditEntity, E!SetAccount, entityVars
  <1>4. CASE UNCHANGED vars
    BY <1>4, InvKept DEF vars, entityVars
  <1> QED
    BY <1>1, <1>2, <1>3, <1>4 DEF Next

LEMMA Invariant == Spec => []EntityInv
  BY InitInv, InvNext, PTL DEF Spec

-----------------------------------------------------------------------------
(***************************************************************************)
(* The refinement.                                                         *)
(***************************************************************************)

Views == [e \in Entities |-> View(e)]

\* A read of an entity finds nothing resolved, or a trust the spec may name
\* beside an account it may name.
LEMMA ViewPossible ==
  ASSUME EntityInv, NEW e \in Entities
  PROVE  View(e) \in {B!Unresolved} \cup [trust : TrustsOf[e], subject : AccountsOf[e]]
  BY DEF EntityInv, View, B!Unresolved, Referring, Asked, Possible

\* A change of one entity is what the environment of the bindings may do.
LEMMA OneEntity ==
  ASSUME EntityInv', UNCHANGED bindingVars, NEW e \in Entities,
         \A d \in Entities \ {e} : entity'[d] = entity[d]
  PROVE  B!SetEntity(e)
  <1>1. View(e)' \in {B!Unresolved} \cup [trust : TrustsOf[e], subject : AccountsOf[e]]
    BY DEF EntityInv, View, B!Unresolved, Referring, Asked, Possible
  <1>2. \A d \in Entities \ {e} : View(d)' = View(d)
    BY DEF View
  <1>3. Views' = [Views EXCEPT ![e] = View(e)']
    BY <1>2 DEF Views
  <1> QED
    BY <1>1, <1>3 DEF B!SetEntity, B!workerVars, bindingVars, Views

\* The entity worker writes the entity it reconciles and no other.
LEMMA WorkingEffect ==
  ASSUME EntityInv, E!Working
  PROVE  \/ entity' = entity
         \/ \E e \in Entities : \A d \in Entities \ {e} : entity'[d] = entity[d]
  BY DEF E!Working, E!Fetch, E!ResolveTrust, E!ResolveControlPlane,
     E!ControlPlaneAccess, E!ResolveIdentity, E!UpdateStatus, E!Abandon, EntityInv

\* No change of an entity is no change for the bindings.
LEMMA NoEntityChanged ==
  ASSUME UNCHANGED <<entity, bindingVars>>
  PROVE  UNCHANGED B!vars
  BY DEF B!vars, B!envVars, B!workerVars, bindingVars, View

LEMMA StepRefines == EntityInv /\ EntityInv' /\ [Next]_vars => [B!Next]_(B!vars)
  <1> SUFFICES ASSUME EntityInv, EntityInv', [Next]_vars
               PROVE  B!Next \/ UNCHANGED B!vars
    OBVIOUS
  <1>a. ASSUME NEW e \in Entities, B!SetEntity(e) PROVE B!Next
    BY <1>a DEF B!Next, B!Environment
  <1>1. CASE EntityWorker
    BY <1>1, <1>a, WorkingEffect, OneEntity, NoEntityChanged DEF EntityWorker
  <1>2. CASE BindingWorker
    BY <1>2 DEF BindingWorker, B!Next
  <1>3. CASE User
    <2>1. ASSUME NEW e \in Entities, EditEntity(e), UNCHANGED bindingVars
          PROVE  B!Next
      BY <1>a, <2>1, InvEdit, OneEntity DEF EditEntity
    <2>2. ASSUME NEW id, E!SetAccount(id), UNCHANGED bindingVars
          PROVE  UNCHANGED B!vars
      BY <2>2, NoEntityChanged DEF E!SetAccount
    <2>3. ASSUME NEW b \in Bindings, B!CreateBinding(b) \/ B!EditBinding(b)
          PROVE  B!Next
      BY <2>3 DEF B!Next, B!User
    <2> QED
      BY <1>3, <2>1, <2>2, <2>3 DEF User
  <1>4. CASE UNCHANGED vars
    BY <1>4, NoEntityChanged DEF vars, entityVars
  <1> QED
    BY <1>1, <1>2, <1>3, <1>4 DEF Next

\* The binding controller is right about its environment: whatever the entity
\* controller is doing when a binding reads an entity, the chain takes steps of
\* PolicyBinding only, so all that is proved of that module holds of the chain.
THEOREM ChainImplements == Spec => EntitiesAsAssumed
  <1>1. Init => B!Init
    BY DEF Init
  <1> QED
    BY <1>1, StepRefines, Invariant, PTL DEF Spec, EntitiesAsAssumed, B!Spec

-----------------------------------------------------------------------------
(***************************************************************************)
(* What is proved of PolicyBinding holds of the chain.  P is B with the    *)
(* theorems of that module beside it.                                      *)
(***************************************************************************)

P == INSTANCE PolicyBindingProofs WITH
  Instances   <- {Instance},
  InstancesOf <- [t \in Trusts |-> {Instance}],
  TrustStates <- {"configured"},
  Outages     <- {},
  PoliciesVanish <- FALSE,
  ViewsOf <- [e \in Entities |-> [trust : TrustsOf[e], subject : AccountsOf[e]]],
  entity    <- [e \in Entities |-> View(e)],
  trust     <- [t \in Trusts |-> "configured"],
  trustInst <- [t \in Trusts |-> Instance],
  reachable <- {Instance},
  policyIn  <- [i \in {Instance} |-> Policies]

LEMMA ChainAssumptions == P!ReferencesAssumption /\ P!NamesAssumption
  <1>1. \A v \in P!Views : /\ v = [trust |-> v.trust, subject |-> v.subject]
                           /\ v.trust \in Trusts
                           /\ v.subject \in Accounts
    <2> SUFFICES ASSUME NEW e \in Entities,
                        NEW v \in [trust : TrustsOf[e], subject : AccountsOf[e]]
                 PROVE  /\ v = [trust |-> v.trust, subject |-> v.subject]
                        /\ v.trust \in Trusts
                        /\ v.subject \in Accounts
      BY DEF P!Views
    <2> QED
      BY SpecsTyped
  <1>2. P!Subjects \subseteq Accounts
    BY <1>1 DEF P!Subjects
  <1>3. P!NamesAssumption
    <2>1. None \notin [subject : P!Subjects, policy : Policies]
      BY <1>2, ReferencesAssumption
    <2>2. None \notin Bindings \cup Entities \cup Trusts \cup {Instance} \cup Policies
                        \cup P!Subjects
      BY <1>2, ReferencesAssumption
    <2> QED
      BY <2>1, <2>2
  <1>4. P!ReferencesAssumption
    BY <1>1, ReferencesAssumption DEF P!Missing, P!Assigned, P!Configured
  <1> QED
    BY <1>3, <1>4

LEMMA SameInit == B!Init <=> P!Init
  BY DEF B!NoObject, P!NoObject, B!NoStatus, P!NoStatus, B!NoRoles, P!NoRoles,
     B!Unresolved, P!Unresolved, B!Reachable, P!Reachable, B!RoleNames,
     P!RoleNames, B!NoCurrent, P!NoCurrent, B!NothingGathered,
     P!NothingGathered, B!Init, P!Init

LEMMA SameNext == B!Next <=> P!Next
  BY DEF B!Views, P!Views, B!Subjects, P!Subjects, B!Missing, P!Missing,
     B!Assigned, P!Assigned, B!Configured, P!Configured, B!Unresolved,
     P!Unresolved, B!envVars, P!envVars, B!workerVars, P!workerVars,
     B!vars, P!vars, B!RoleNames, P!RoleNames, B!Role, P!Role, B!RoleName,
     P!RoleName, B!RoleStatus, P!RoleStatus, B!NoRoles, P!NoRoles,
     B!Status, P!Status, B!NoStatus, P!NoStatus, B!Object, P!Object,
     B!NoObject, P!NoObject, B!Calls, P!Calls, B!Current, P!Current,
     B!NoCurrent, P!NoCurrent, B!Gathered, P!Gathered, B!NothingGathered,
     P!NothingGathered, B!Idle, P!Idle, B!Reachable, P!Reachable, B!Init,
     P!Init, B!Recorded, P!Recorded, B!Fetch, P!Fetch, B!AddFinalizer,
     P!AddFinalizer, B!Gather, P!Gather, B!ResolveEntity, P!ResolveEntity,
     B!ResolveTrust, P!ResolveTrust, B!CheckPolicy, P!CheckPolicy,
     B!WriteRole, P!WriteRole, B!EnsureRole, P!EnsureRole,
     B!PolicyExistence, P!PolicyExistence, B!Summary, P!Summary,
     B!UpdateStatus, P!UpdateStatus, B!FindRole, P!FindRole, B!RemoveRole,
     P!RemoveRole, B!Release, P!Release, B!Abandon, P!Abandon, B!Worker,
     P!Worker, B!Touch, P!Touch, B!CreateBinding, P!CreateBinding,
     B!EditBinding, P!EditBinding, B!DeleteBinding, P!DeleteBinding,
     B!SetEntity, P!SetEntity, B!SetTrust, P!SetTrust, B!RemoveMount,
     P!RemoveMount, B!SetReachable, P!SetReachable, B!SetPolicy,
     P!SetPolicy, B!User, P!User, B!Environment, P!Environment, B!Next,
     P!Next

LEMMA ChainTakes == Spec => P!Spec
  <1>1. [B!Next]_(B!vars) => [P!Next]_(P!vars)
    BY SameNext DEF B!vars, P!vars, B!envVars, P!envVars, B!workerVars, P!workerVars
  <1> QED
    BY <1>1, ChainImplements, SameInit, PTL DEF EntitiesAsAssumed, B!Spec, P!Spec

\* In the chain, too, a role on the mount of a trust binds an identity that its
\* entity may have had beside that trust, whatever the entity controller does
\* while a binding is reconciled ...
THEOREM ChainIsolatesRoles == Spec => []B!RoleIsolation
  <1>1. P!Spec => []P!RoleIsolation
    BY ChainAssumptions, P!RolesIsolated, PTL
  <1>2. P!RoleIsolation => B!RoleIsolation
    BY DEF P!RoleIsolation, B!RoleIsolation, P!RoleName, B!RoleName
  <1> QED
    BY <1>1, <1>2, ChainTakes, PTL

\* ... and a binding turns Ready for its current spec only.
THEOREM ChainEarnsReady == Spec => B!ReadyIsEarned
  <1>1. P!Spec => P!ReadyIsEarned
    BY ChainAssumptions, P!ReadyEarned, PTL
  <1>2. P!ReadyIsEarned => B!ReadyIsEarned
    BY DEF P!ReadyIsEarned, B!ReadyIsEarned, P!RoleName, B!RoleName,
       B!vars, P!vars, B!envVars, P!envVars, B!workerVars, P!workerVars
  <1> QED
    BY <1>1, <1>2, ChainTakes, PTL

\* Every role binds an account that its entity may ask for on the ControlPlane of
\* the role's trust, if the trusts an entity may name are all for one ControlPlane:
\* that an entity moves to another ControlPlane is the only way to an account of
\* the old one on the mount of the new one.
THEOREM IdentityFromItsTrust ==
  ASSUME \A e \in Entities : \A t, u \in TrustsOf[e] : TargetOf[t] = TargetOf[u]
  PROVE  Spec => []RoleIdentityFromItsTrust
  <1>1. B!RoleIsolation => RoleIdentityFromItsTrust
    <2> SUFFICES ASSUME B!RoleIsolation,
                        NEW t \in Trusts, NEW b \in Bindings, NEW e \in Entities,
                        role[Instance][t][B!RoleName(b, e)] # None
                 PROVE  <<TargetOf[t], role[Instance][t][B!RoleName(b, e)].subject>>
                          \in Askable(e)
      BY DEF RoleIdentityFromItsTrust
    <2> DEFINE a == role[Instance][t][B!RoleName(b, e)].subject
    <2>1. [trust |-> t, subject |-> a] \in [trust : TrustsOf[e], subject : AccountsOf[e]]
      BY DEF B!RoleIsolation
    <2> HIDE DEF a
    <2>2. t \in TrustsOf[e] /\ a \in AccountsOf[e]
      BY <2>1
    <2>3. PICK s \in SpecsOf[e] : a = s[2]
      BY <2>2 DEF AccountsOf
    <2>4. s[1] \in TrustsOf[e]
      BY DEF TrustsOf
    <2>5. TargetOf[t] = TargetOf[s[1]]
      BY <2>2, <2>4
    <2> QED
      BY <2>3, <2>5 DEF Askable, a
  <1> QED
    BY <1>1, ChainIsolatesRoles, PTL
=============================================================================

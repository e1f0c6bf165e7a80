---------------------- MODULE ControlPlaneEntityProofs ----------------------
(***************************************************************************)
(* Proofs about ControlPlaneEntity, for any sets of entities, trusts,      *)
(* ControlPlanes and ServiceAccounts.                                      *)
(***************************************************************************)
EXTENDS ControlPlaneEntity, TLAPS

(***************************************************************************)
(* The inductive invariant.                                                *)
(***************************************************************************)

\* Specs are what their users may write, also those of configured trusts.
SpecsTyped ==
  /\ \A e \in Entities : Exists(e) => /\ entity[e].trust \in TrustsOf[e]
                                      /\ entity[e].account \in AccountsOf[e]
  /\ \A t \in Trusts : trust[t].configured => trust[t].target \in TargetsOf[t]

Sound(s) == /\ s.ready => s.resolved
            /\ s.resolved => s.identity # None

\* An identity of the account and through the trust that the copy names.
Earned(s) == s.identity \in TargetsOf[s.trust] \X {s.account}

\* What the worker knows between two calls.  The copy may be stale; if it is
\* not, its spec is the stored one.
CopyInv ==
  LET s == worker.copy
  IN  /\ worker.key \in Entities
      /\ s.trust \in TrustsOf[worker.key] /\ s.account \in AccountsOf[worker.key]
      /\ Sound(s)
      /\ worker.call \in {"controlplane", "access", "account"} =>
           worker.cp \in TargetsOf[s.trust]
      /\ worker.call = "status" /\ s.ready => Earned(s)
      /\ worker.fresh => /\ s.trust = entity[worker.key].trust
                         /\ s.account = entity[worker.key].account

Inv == /\ TypeOK /\ SpecsTyped /\ ReadyHasIdentity
       /\ worker.call # "idle" => CopyInv

-----------------------------------------------------------------------------
LEMMA NoEntityType ==
  /\ NoEntity \in Entity /\ Sound(NoEntity) /\ NoEntity.trust = None
  /\ ~NoEntity.ready
  BY DEF NoEntity, Entity, Sound

LEMMA IdleType == Idle \in Worker /\ Idle.call = "idle"
  BY NoEntityType DEF Idle, Worker

LEMMA CopyType == Inv => worker \in Worker /\ worker.copy \in Entity
  BY DEF Inv, TypeOK, Worker

LEMMA InitInv == Init => Inv
  BY NoEntityType, IdleType
  DEF Init, Inv, TypeOK, SpecsTyped, Exists, ReadyHasIdentity, Sound, Trust, NoTrust

\* A step of the worker that changes nothing but the worker.
LEMMA WorkerOnly ==
  ASSUME Inv, UNCHANGED <<entity, envVars>>, worker' \in Worker,
         worker'.call # "idle" => CopyInv'
  PROVE  Inv'
  BY DEF Inv, TypeOK, SpecsTyped, Exists, ReadyHasIdentity, envVars

\* A reconcile that gives up on a dependency stores that it is not ready.
LEMMA GivesUp ==
  ASSUME Inv, worker.call # "idle", UNCHANGED <<entity, envVars>>,
         DependencyNotReady \/ Unresolved
  PROVE  Inv'
  <1>1. worker \in Worker /\ worker.copy \in Entity /\ CopyInv
    BY CopyType DEF Inv
  <1>2. PICK s \in Entity :
          /\ worker' = [worker EXCEPT !.call = "status", !.copy = s]
          /\ s.trust = worker.copy.trust /\ s.account = worker.copy.account
          /\ ~s.ready /\ Sound(s)
    <2>1. CASE DependencyNotReady
      <3> DEFINE s == [worker.copy EXCEPT !.ready = FALSE]
      <3>1. s \in Entity /\ ~s.ready /\ Sound(s)
            /\ s.trust = worker.copy.trust /\ s.account = worker.copy.account
        BY <1>1 DEF Entity, Sound, CopyInv
      <3>2. worker' = [worker EXCEPT !.call = "status", !.copy = s]
        BY <1>1, <2>1 DEF DependencyNotReady, Worker
      <3> QED
        BY <3>1, <3>2
    <2>2. CASE Unresolved
      <3> DEFINE s == [worker.copy EXCEPT !.resolved = FALSE, !.ready = FALSE]
      <3>1. s \in Entity /\ ~s.ready /\ Sound(s)
            /\ s.trust = worker.copy.trust /\ s.account = worker.copy.account
        BY <1>1 DEF Entity, Sound
      <3>2. worker' = [worker EXCEPT !.call = "status", !.copy = s]
        BY <1>1, <2>2 DEF Unresolved, Worker
      <3> QED
        BY <3>1, <3>2
    <2> QED BY <2>1, <2>2
  <1>3. /\ worker' \in Worker /\ worker'.call = "status" /\ worker'.copy = s
        /\ worker'.key = worker.key /\ worker'.fresh = worker.fresh
    BY <1>1, <1>2 DEF Worker
  <1>4. CopyInv'
    BY <1>1, <1>2, <1>3 DEF CopyInv, Sound
  <1> QED
    BY <1>3, <1>4, WorkerOnly

LEMMA InvWorking == Inv /\ Working => Inv'
  <1> SUFFICES ASSUME Inv, Working PROVE Inv'
    OBVIOUS
  <1> USE ReferencesAssumption
  <1>0. worker \in Worker /\ worker.copy \in Entity
    BY CopyType
  <1>1. ASSUME NEW e \in Entities, Fetch(e) PROVE Inv'
    <2>1. entity[e] \in Entity /\ Sound(entity[e])
          /\ entity[e].trust \in TrustsOf[e] /\ entity[e].account \in AccountsOf[e]
      BY <1>1 DEF Fetch, Inv, TypeOK, SpecsTyped, ReadyHasIdentity, Sound
    <2>2. /\ worker' \in Worker /\ worker'.call = "trust" /\ worker'.key = e
          /\ worker'.copy = entity[e] /\ worker'.fresh
      BY <1>1, <2>1, IdleType DEF Fetch, Worker
    <2>3. CopyInv'
      BY <1>1, <2>1, <2>2 DEF Fetch, CopyInv, Sound
    <2> QED
      BY <1>1, <2>2, <2>3, WorkerOnly DEF Fetch
  <1>2. CASE ResolveTrust
    <2>1. CASE DependencyNotReady
      BY <1>2, <2>1, GivesUp DEF ResolveTrust
    <2>2. CASE ~DependencyNotReady
      <3> DEFINE t == worker.copy.trust
      <3>0. CopyInv /\ t \in Trusts
        BY <1>2 DEF ResolveTrust, Inv, CopyInv
      <3>1. trust[t].target \in TargetsOf[t] /\ trust[t].target \in ControlPlanes
        BY <1>2, <2>2, <3>0 DEF ResolveTrust, Inv, SpecsTyped
      <3>2. worker' = [worker EXCEPT !.call = "controlplane", !.cp = trust[t].target]
        BY <1>2, <2>2 DEF ResolveTrust
      <3>3. /\ worker' \in Worker /\ worker'.call = "controlplane"
            /\ worker'.key = worker.key /\ worker'.copy = worker.copy
            /\ worker'.fresh = worker.fresh /\ worker'.cp = trust[t].target
        BY <1>0, <3>1, <3>2 DEF Worker
      <3>4. CopyInv'
        BY <1>2, <3>0, <3>1, <3>3 DEF ResolveTrust, CopyInv, Sound
      <3> QED
        BY <1>2, <3>3, <3>4, WorkerOnly DEF ResolveTrust
    <2> QED BY <2>1, <2>2
  <1>3. CASE ResolveControlPlane \/ ControlPlaneAccess
    <2>0. worker.call \in {"controlplane", "access"} /\ UNCHANGED <<entity, envVars>>
      BY <1>3 DEF ResolveControlPlane, ControlPlaneAccess
    <2>1. CASE DependencyNotReady \/ Unresolved
      BY <2>0, <2>1, GivesUp
    <2>2. CASE ~(DependencyNotReady \/ Unresolved)
      <3>1. PICK c \in {"access", "account"} : worker' = [worker EXCEPT !.call = c]
        BY <1>3, <2>2 DEF ResolveControlPlane, ControlPlaneAccess
      <3>2. /\ worker' \in Worker /\ worker'.call = c
            /\ worker'.key = worker.key /\ worker'.copy = worker.copy
            /\ worker'.fresh = worker.fresh /\ worker'.cp = worker.cp
        BY <1>0, <3>1 DEF Worker
      <3>3. CopyInv'
        BY <2>0, <3>1, <3>2 DEF Inv, CopyInv, Sound
      <3> QED
        BY <2>0, <3>2, <3>3, WorkerOnly
    <2> QED BY <2>1, <2>2
  <1>4. CASE ResolveIdentity
    <2>1. CASE Unresolved
      BY <1>4, <2>1, GivesUp DEF ResolveIdentity
    <2>2. CASE ~Unresolved
      <3> DEFINE id == <<worker.cp, worker.copy.account>>
                 s == [worker.copy EXCEPT !.identity = id, !.resolved = TRUE, !.ready = TRUE]
      <3>0. CopyInv /\ worker.cp \in TargetsOf[worker.copy.trust]
        BY <1>4 DEF ResolveIdentity, Inv, CopyInv
      <3>1. id \in Identities /\ id # None
            /\ id \in TargetsOf[worker.copy.trust] \X {worker.copy.account}
        BY <3>0 DEF CopyInv, Identities
      <3>2. s \in Entity /\ Sound(s) /\ s.identity = id
            /\ s.trust = worker.copy.trust /\ s.account = worker.copy.account
        BY <1>0, <3>1 DEF Entity, Sound
      <3>3. worker' = [worker EXCEPT !.call = "status", !.copy = s]
        BY <1>0, <1>4, <2>2 DEF ResolveIdentity, Worker
      <3> HIDE DEF s, id
      <3>4. /\ worker' \in Worker /\ worker'.call = "status" /\ worker'.copy = s
            /\ worker'.key = worker.key /\ worker'.fresh = worker.fresh
        BY <1>0, <3>2, <3>3 DEF Worker
      <3>5. CopyInv'
        BY <1>4, <3>0, <3>1, <3>2, <3>4 DEF ResolveIdentity, CopyInv, Earned, Sound
      <3> QED
        BY <1>4, <3>4, <3>5, WorkerOnly DEF ResolveIdentity
    <2> QED BY <2>1, <2>2
  <1>5. CASE UpdateStatus
    <2>1. CopyInv /\ worker.fresh /\ entity' = [entity EXCEPT ![worker.key] = worker.copy]
      BY <1>5 DEF UpdateStatus, Inv
    <2>2. entity' \in [Entities -> Entity] /\ SpecsTyped' /\ ReadyHasIdentity'
      BY <1>0, <1>5, <2>1
      DEF UpdateStatus, Inv, TypeOK, SpecsTyped, Exists, ReadyHasIdentity, CopyInv,
          Sound, envVars
    <2> QED
      BY <1>5, <2>2, IdleType DEF UpdateStatus, Inv, TypeOK, envVars
  <1>6. CASE Abandon
    BY <1>6, IdleType, WorkerOnly DEF Abandon
  <1> QED
    BY <1>1, <1>2, <1>3, <1>4, <1>5, <1>6 DEF Working

LEMMA InvEnvironment == Inv /\ Environment => Inv'
  <1> SUFFICES ASSUME Inv, Environment PROVE Inv'
    OBVIOUS
  <1> USE ReferencesAssumption
  <1>0. worker \in Worker /\ entity \in [Entities -> Entity]
    BY CopyType DEF Inv, TypeOK
  <1>1. ASSUME NEW e \in Entities, EditEntity(e) PROVE Inv'
    <2>1. PICK o \in Entity :
            /\ entity' = [entity EXCEPT ![e] = o]
            /\ Sound(o)
            /\ o.trust # None => o.trust \in TrustsOf[e] /\ o.account \in AccountsOf[e]
      <3>1. ASSUME NEW t \in TrustsOf[e], NEW a \in AccountsOf[e],
                   entity' = [entity EXCEPT ![e].trust = t, ![e].account = a]
            PROVE  \E o \in Entity :
                     /\ entity' = [entity EXCEPT ![e] = o]
                     /\ Sound(o)
                     /\ o.trust # None => /\ o.trust \in TrustsOf[e]
                                          /\ o.account \in AccountsOf[e]
        <4> DEFINE o == [entity[e] EXCEPT !.trust = t, !.account = a]
        <4>1. entity' = [entity EXCEPT ![e] = o]
          BY <1>0, <3>1 DEF Entity
        <4>2. entity[e] \in Entity /\ Sound(entity[e]) /\ t \in Trusts /\ a \in Accounts
          BY <1>0, <3>1 DEF Inv, ReadyHasIdentity, Sound
        <4>3. o \in Entity /\ Sound(o) /\ o.trust = t /\ o.account = a
          BY <4>2 DEF Entity, Sound
        <4> HIDE DEF o
        <4> QED BY <4>1, <4>3
      <3> QED
        BY <1>1, <3>1, NoEntityType DEF EditEntity
    <2>2. worker' = [worker EXCEPT !.fresh = @ /\ worker.key # e]
      BY <1>1 DEF EditEntity
    <2>3. /\ worker' \in Worker /\ worker'.call = worker.call /\ worker'.key = worker.key
          /\ worker'.copy = worker.copy /\ worker'.cp = worker.cp
      BY <1>0, <2>2 DEF Worker
    <2>4. worker'.fresh => worker.fresh /\ worker.key # e
      <3>1. worker'.fresh = (worker.fresh /\ worker.key # e)
        BY <1>0, <2>2 DEF Worker
      <3> QED BY <3>1, Zenon
    <2>5. worker.call # "idle" => CopyInv'
      BY <1>0, <2>1, <2>3, <2>4 DEF Inv, CopyInv, Sound, Earned
    <2>6. entity' \in [Entities -> Entity] /\ SpecsTyped' /\ ReadyHasIdentity'
      BY <1>0, <1>1, <2>1
      DEF EditEntity, Inv, SpecsTyped, Exists, ReadyHasIdentity, Sound, envVars
    <2> QED
      BY <1>1, <2>3, <2>5, <2>6 DEF EditEntity, Inv, TypeOK, envVars
  <1>2. ASSUME NEW t \in Trusts, SetTrust(t) PROVE Inv'
    <2>1. PICK x \in Trust : /\ trust' = [trust EXCEPT ![t] = x]
                             /\ x.configured => x.target \in TargetsOf[t]
      <3>1. ASSUME NEW c \in TargetsOf[t], NEW b \in BOOLEAN
            PROVE  /\ [target |-> c, configured |-> b] \in Trust
                   /\ [target |-> c, configured |-> b].target \in TargetsOf[t]
        BY DEF Trust
      <3>2. NoTrust \in Trust /\ ~NoTrust.configured
        BY DEF Trust, NoTrust
      <3> QED
        BY <1>2, <3>1, <3>2 DEF SetTrust
    <2>2. UNCHANGED <<entity, controlPlane, account, worker>>
      BY <1>2 DEF SetTrust
    <2>3. trust' \in [Trusts -> Trust]
      BY <2>1 DEF Inv, TypeOK
    <2>4. SpecsTyped'
      BY <2>1, <2>2 DEF Inv, TypeOK, SpecsTyped, Exists
    <2> QED
      BY <2>2, <2>3, <2>4 DEF Inv, TypeOK, ReadyHasIdentity, CopyInv, Sound, Earned
  <1>3. ASSUME NEW c \in ControlPlanes, SetControlPlane(c) PROVE Inv'
    BY <1>3
    DEF SetControlPlane, Inv, TypeOK, SpecsTyped, Exists, ReadyHasIdentity, CopyInv,
        Sound, Earned
  <1>4. ASSUME NEW id \in Identities, SetAccount(id) PROVE Inv'
    BY <1>4
    DEF SetAccount, Inv, TypeOK, SpecsTyped, Exists, ReadyHasIdentity, CopyInv,
        Sound, Earned
  <1> QED
    BY <1>1, <1>2, <1>3, <1>4 DEF Environment

LEMMA InvNext == Inv /\ [Next]_vars => Inv'
  <1>1. ASSUME Inv, UNCHANGED vars PROVE Inv'
    BY <1>1 DEF vars, envVars, Inv, TypeOK, SpecsTyped, Exists, ReadyHasIdentity,
       CopyInv, Sound, Earned
  <1> QED
    BY <1>1, InvWorking, InvEnvironment DEF Next

LEMMA Invariant == Spec => []Inv
  BY InitInv, InvNext, PTL DEF Spec

-----------------------------------------------------------------------------
\* Type correctness of every variable, in every reachable state.
THEOREM TypeCorrect == Spec => []TypeOK
  BY Invariant, PTL DEF Inv

\* However its trust, its ControlPlane and its account come and go, an entity
\* that says Ready or IdentityResolved has an identity.
THEOREM IdentityPublished == Spec => []ReadyHasIdentity
  BY Invariant, PTL DEF Inv

\* An entity turns ready only with an identity of the account its spec names at
\* that moment, on a ControlPlane the trust in that spec may target: an edit
\* during the reconcile makes the write fail.
THEOREM ReadyEarned == Spec => ReadyIsEarned
  <1>1. ASSUME Inv, Next, NEW e \in Entities, ~entity[e].ready, entity'[e].ready
        PROVE  entity'[e].identity \in TargetsOf[entity'[e].trust] \X {entity'[e].account}
    <2>0. entity \in [Entities -> Entity]
      BY <1>1 DEF Inv, TypeOK
    <2>1. CASE UpdateStatus
      <3>1. worker.call = "status" /\ CopyInv
            /\ entity' = [entity EXCEPT ![worker.key] = worker.copy]
        BY <1>1, <2>1 DEF UpdateStatus, Inv
      <3>2. entity'[e] = worker.copy
        BY <1>1, <2>0, <3>1
      <3> QED
        BY <1>1, <3>1, <3>2 DEF CopyInv, Earned
    <2>2. ASSUME NEW d \in Entities, EditEntity(d) PROVE FALSE
      <3>1. CASE entity' = [entity EXCEPT ![d] = NoEntity]
        BY <1>1, <2>0, <3>1, NoEntityType
      <3>2. CASE \E t \in TrustsOf[d], a \in AccountsOf[d] :
                   entity' = [entity EXCEPT ![d].trust = t, ![d].account = a]
        <4>1. entity'[e].ready = entity[e].ready
          BY <2>0, <3>2 DEF Entity
        <4> QED BY <1>1, <4>1
      <3> QED BY <2>2, <3>1, <3>2 DEF EditEntity
    <2>3. CASE ~UpdateStatus /\ \A d \in Entities : ~EditEntity(d)
      BY <1>1, <2>3 DEF Next, Working, Environment, Fetch, ResolveTrust,
         ResolveControlPlane, ControlPlaneAccess, ResolveIdentity, Abandon, SetTrust,
         SetControlPlane, SetAccount
    <2> QED BY <2>1, <2>2, <2>3
  <1>2. Inv /\ [Next]_vars =>
          [\A e \in Entities :
             ~entity[e].ready /\ entity'[e].ready =>
               entity'[e].identity \in TargetsOf[entity'[e].trust] \X {entity'[e].account}]_vars
    BY <1>1
  <1> QED
    BY <1>2, Invariant, PTL DEF Spec, ReadyIsEarned
=============================================================================

------------------------- MODULE ControlPlaneEntity -------------------------
(***************************************************************************)
(* The ControlPlaneEntity controller: it goes through the trust that an    *)
(* entity names to a ControlPlane, obtains access to that cluster, and     *)
(* publishes the identity of the ServiceAccount it finds there, which the  *)
(* PolicyBindings then bind their roles to.  It owns nothing outside its   *)
(* status, so there is no finalizer.                                       *)
(*                                                                         *)
(* Trusts, ControlPlanes and ServiceAccounts change between any two of its *)
(* calls, and only the entity itself is protected by a resourceVersion.    *)
(***************************************************************************)

CONSTANTS
  Entities,      \* namespaced names of ControlPlaneEntity objects
  Trusts,        \* ControlPlaneTrusts
  ControlPlanes,
  Accounts,      \* ServiceAccounts, by namespace and name
  TrustsOf,      \* entity -> trusts its spec.controlPlaneTrustRef may name
  AccountsOf,    \* entity -> accounts its spec.serviceAccountRef may name
  TargetsOf,     \* trust -> ControlPlanes its spec may name
  None

ASSUME ReferencesAssumption ==
  /\ TrustsOf \in [Entities -> SUBSET Trusts]
  /\ AccountsOf \in [Entities -> SUBSET Accounts]
  /\ TargetsOf \in [Trusts -> SUBSET ControlPlanes]
  /\ None \notin Entities \cup Trusts \cup ControlPlanes \cup Accounts
                  \cup (ControlPlanes \X Accounts)

\* What the token of an account tells: subject, issuer and, with the names of
\* the ControlPlane, the alias; identityID is a hash of them.
Identities == ControlPlanes \X Accounts

VARIABLES
  entity,       \* the ControlPlaneEntity objects in the onboarding API server
  trust,        \* trust -> its ControlPlane and condition TrustConfigured
  controlPlane, \* ControlPlane -> "missing" / "no-issuer" / "exposed"
  account,      \* the <<ControlPlane, account>> that exist
  worker        \* the controller's worker

envVars == <<trust, controlPlane, account>>
vars    == <<entity, envVars, worker>>

Entity == [trust    : Trusts \cup {None},   \* spec; None: no such object
           account  : Accounts \cup {None},
           identity : Identities \cup {None},
           resolved : BOOLEAN,              \* condition IdentityResolved
           ready    : BOOLEAN]              \* condition Ready
NoEntity == [trust |-> None, account |-> None, identity |-> None,
             resolved |-> FALSE, ready |-> FALSE]

Trust   == [target : ControlPlanes \cup {None}, configured : BOOLEAN]
NoTrust == [target |-> None, configured |-> FALSE]

Worker == [call : {"idle", "trust", "controlplane", "access", "account", "status"},
           key : Entities \cup {None}, copy : Entity, fresh : BOOLEAN,
           cp : ControlPlanes \cup {None}]  \* the ControlPlane of the trust read
Idle == [call |-> "idle", key |-> None, copy |-> NoEntity, fresh |-> FALSE,
         cp |-> None]

Exists(e) == entity[e].trust # None

Init ==
  /\ entity = [e \in Entities |-> NoEntity]
  /\ trust = [t \in Trusts |-> NoTrust]
  /\ controlPlane = [c \in ControlPlanes |-> "missing"]
  /\ account = {}
  /\ worker = Idle

-----------------------------------------------------------------------------
(***************************************************************************)
(* The worker.  Each operator is one call of Reconcile.                    *)
(***************************************************************************)

\* Mutant: an entity that has an identity is not looked at again.
FetchOnlyUnresolved(e) ==
  /\ worker.call = "idle"
  /\ Exists(e)
  /\ entity[e].identity = None
  /\ worker' = [Idle EXCEPT !.call = "trust", !.key = e, !.copy = entity[e],
                            !.fresh = TRUE]
  /\ UNCHANGED <<entity, envVars>>

Fetch(e) ==
  /\ worker.call = "idle"
  /\ Exists(e)
  /\ worker' = [Idle EXCEPT !.call = "trust", !.key = e, !.copy = entity[e],
                            !.fresh = TRUE]
  /\ UNCHANGED <<entity, envVars>>

\* dependencyNotReady: Ready turns False, IdentityResolved and the identity
\* stay as they were.
DependencyNotReady ==
  worker' = [worker EXCEPT !.call = "status", !.copy.ready = FALSE]

\* IdentityResolved and Ready both turn False; the identity stays.
Unresolved ==
  worker' = [worker EXCEPT !.call = "status", !.copy.resolved = FALSE,
                           !.copy.ready = FALSE]

\* Get the trust the spec names; it has to be configured.
ResolveTrust ==
  /\ worker.call = "trust"
  /\ LET t == trust[worker.copy.trust]
     IN  \/ ~t.configured /\ DependencyNotReady   \* so has a missing trust
         \/ /\ t.configured
            /\ worker' = [worker EXCEPT !.call = "controlplane", !.cp = t.target]
  /\ UNCHANGED <<entity, envVars>>

\* Get the ControlPlane of the trust; it has to expose its issuer.
ResolveControlPlane ==
  /\ worker.call = "controlplane"
  /\ \/ controlPlane[worker.cp] = "missing" /\ DependencyNotReady
     \/ controlPlane[worker.cp] = "no-issuer" /\ Unresolved
     \/ controlPlane[worker.cp] = "exposed" /\ worker' = [worker EXCEPT !.call = "access"]
  /\ UNCHANGED <<entity, envVars>>

\* Mutant: a lost access is an interruption and changes no condition.
AccessKeepingReady ==
  /\ worker.call = "access"
  /\ \/ worker' = [worker EXCEPT !.call = "status", !.copy.resolved = FALSE]
     \/ worker' = [worker EXCEPT !.call = "account"]
  /\ UNCHANGED <<entity, envVars>>

\* controlPlaneClusterAccess waits until the AccessRequest is granted; after
\* two minutes, or on an error, it gives up.
ControlPlaneAccess ==
  /\ worker.call = "access"
  /\ \/ Unresolved
     \/ worker' = [worker EXCEPT !.call = "account"]
  /\ UNCHANGED <<entity, envVars>>

\* Mutant: the identity is that of the access to the cluster, which is not one of
\* the accounts.
ResolveIdentityOfAccess ==
  /\ worker.call = "account"
  /\ <<worker.cp, worker.copy.account>> \in account
  /\ worker' = [worker EXCEPT !.call = "status", !.copy.identity = <<worker.cp, None>>,
                              !.copy.resolved = TRUE, !.copy.ready = TRUE]
  /\ UNCHANGED <<entity, envVars>>

\* Mutant: an account that cannot be found does not end the readiness.
ResolveIdentityKeepingReady ==
  /\ worker.call = "account"
  /\ LET id == <<worker.cp, worker.copy.account>>
     IN  \/ worker' = [worker EXCEPT !.call = "status"]
         \/ /\ id \in account
            /\ worker' = [worker EXCEPT !.call = "status", !.copy.identity = id,
                                        !.copy.resolved = TRUE, !.copy.ready = TRUE]
  /\ UNCHANGED <<entity, envVars>>

\* Get the ServiceAccount, request a token, read its claims; any error is one.
ResolveIdentity ==
  /\ worker.call = "account"
  /\ LET id == <<worker.cp, worker.copy.account>>
     IN  \/ Unresolved
         \/ /\ id \in account
            /\ worker' = [worker EXCEPT !.call = "status", !.copy.identity = id,
                                        !.copy.resolved = TRUE, !.copy.ready = TRUE]
  /\ UNCHANGED <<entity, envVars>>

\* Mutant: the status is forced in without the resourceVersion check.
UpdateStatusForced ==
  /\ worker.call = "status"
  /\ Exists(worker.key)
  /\ entity' = [entity EXCEPT ![worker.key] =
       [worker.copy EXCEPT !.trust = entity[worker.key].trust,
                           !.account = entity[worker.key].account]]
  /\ worker' = Idle
  /\ UNCHANGED envVars

UpdateStatus ==
  /\ worker.call = "status"
  /\ worker.fresh
  /\ entity' = [entity EXCEPT ![worker.key] = worker.copy]
  /\ worker' = Idle
  /\ UNCHANGED envVars

\* An error is returned, the write conflicts, or the process dies.
Abandon ==
  /\ worker.call # "idle"
  /\ worker' = Idle
  /\ UNCHANGED <<entity, envVars>>

Working == \/ \E e \in Entities : Fetch(e)
           \/ ResolveTrust \/ ResolveControlPlane \/ ControlPlaneAccess
           \/ ResolveIdentity \/ UpdateStatus \/ Abandon

-----------------------------------------------------------------------------
(***************************************************************************)
(* Users, the trust controller and the clusters.                           *)
(***************************************************************************)

\* Users create an entity, change what it refers to, or delete it.
EditEntity(e) ==
  /\ \/ \E t \in TrustsOf[e], a \in AccountsOf[e] :
          entity' = [entity EXCEPT ![e].trust = t, ![e].account = a]
     \/ Exists(e) /\ entity' = [entity EXCEPT ![e] = NoEntity]
  /\ worker' = [worker EXCEPT !.fresh = @ /\ worker.key # e]
  /\ UNCHANGED envVars

\* A trust is created, pointed at another ControlPlane (TrustConfigured stays
\* until its controller has run), configured or not, or deleted.
SetTrust(t) ==
  /\ \/ \E c \in TargetsOf[t], b \in BOOLEAN :
          trust' = [trust EXCEPT ![t] = [target |-> c, configured |-> b]]
     \/ trust' = [trust EXCEPT ![t] = NoTrust]
  /\ UNCHANGED <<entity, controlPlane, account, worker>>

SetControlPlane(c) ==
  /\ \E s \in {"missing", "no-issuer", "exposed"} :
       controlPlane' = [controlPlane EXCEPT ![c] = s]
  /\ UNCHANGED <<entity, trust, account, worker>>

SetAccount(id) ==
  /\ account' \in {account \cup {id}, account \ {id}}
  /\ UNCHANGED <<entity, trust, controlPlane, worker>>

Environment == \/ \E e \in Entities : EditEntity(e)
               \/ \E t \in Trusts : SetTrust(t)
               \/ \E c \in ControlPlanes : SetControlPlane(c)
               \/ \E id \in Identities : SetAccount(id)

Next == Working \/ Environment

Spec == Init /\ [][Next]_vars

-----------------------------------------------------------------------------
(***************************************************************************)
(* Properties.                                                             *)
(***************************************************************************)

\* Every variable has its type.
TypeOK ==
  /\ entity \in [Entities -> Entity]
  /\ trust \in [Trusts -> Trust]
  /\ controlPlane \in [ControlPlanes -> {"missing", "no-issuer", "exposed"}]
  /\ account \subseteq Identities
  /\ worker \in Worker

\* Whoever relies on Ready or on IdentityResolved finds an identity, and Ready
\* never outlives IdentityResolved.
ReadyHasIdentity ==
  \A e \in Entities :
    /\ entity[e].ready => entity[e].resolved
    /\ entity[e].resolved => entity[e].identity # None

\* Ready turns True only with an identity of the account the spec names now,
\* on a ControlPlane that the trust it names now may target: a role for this
\* entity never gets an identity that came through another trust.
ReadyIsEarned ==
  [][\A e \in Entities :
       ~entity[e].ready /\ entity'[e].ready =>
         LET s == entity'[e]
         IN  s.identity \in TargetsOf[s.trust] \X {s.account}]_vars

-----------------------------------------------------------------------------
\* The queue retries what failed and requeues what ended; no call waits for
\* ever, not even the one for the access of a cluster that never comes.
FairSpec == /\ Spec
            /\ WF_vars(Working)
            /\ \A e \in Entities : SF_vars(Fetch(e))

\* The identity that e asks for through its trust, at this moment.
Wanted(e) == <<trust[entity[e].trust].target, entity[e].account>>

\* A call of a reconcile of e fails although what it looks for is there.
CallFails(e) ==
  /\ worker.key = e
  /\ \/ Abandon /\ ~UpdateStatus   \* which may rewrite what is there
     \/ ControlPlaneAccess /\ worker'.call = "status"
     \/ ResolveIdentity /\ ~worker'.copy.ready
          /\ <<worker.cp, worker.copy.account>> \in account

\* A user or the trust controller moves e or the trust it names.
Moved(e) == LET t == entity[e].trust
            IN  \/ entity'[e].trust # t \/ entity'[e].account # entity[e].account
                \/ t # None /\ trust'[t] # trust[t]

\* Once nothing moves, everything the entity needs is there and the calls
\* succeed, the entity gets to publish the identity it asks for, whatever it
\* published before.
EntityConverges ==
  \A e \in Entities :
    /\ <>[](/\ Exists(e)
            /\ trust[entity[e].trust].configured
            /\ controlPlane[trust[entity[e].trust].target] = "exposed"
            /\ Wanted(e) \in account)
    /\ <>[][~Moved(e) /\ ~CallFails(e)]_vars
    => <>[](entity[e].ready /\ entity[e].identity = Wanted(e))

\* "ServiceAccount is missing": once the account stays away, or any other
\* dependency does, the entity stops being Ready.
LossShows ==
  \A e \in Entities :
    /\ <>[](/\ Exists(e)
            /\ trust[entity[e].trust].configured => Wanted(e) \notin account)
    /\ <>[][~Moved(e) /\ ~(worker.key = e /\ Abandon /\ ~UpdateStatus)]_vars
    => <>[](~entity[e].ready)
=============================================================================

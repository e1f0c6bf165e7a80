---------------------------- MODULE BindingChain ----------------------------
(***************************************************************************)
(* Two controllers that interact: what ControlPlaneEntity publishes is     *)
(* what PolicyBinding turns into roles.  Each has a worker of its own, and *)
(* a binding reads an entity while the entity is edited or reconciled.     *)
(*                                                                         *)
(* The layers below stay up here: every trust is configured, every         *)
(* ControlPlane exposes its issuer, the OpenBao instance is reachable and  *)
(* has the policies; bindings are not deleted.  What happens otherwise is  *)
(* in the modules of the two controllers.                                  *)
(***************************************************************************)
CONSTANTS Bindings, Entities, Trusts, ControlPlanes, Accounts, Policies,
          Instance,    \* the OpenBaoInstance of all trusts
          RefChoices,  \* the sets of entities a binding may refer to
          SpecsOf,     \* entity -> the <<trust, account>> its spec may name
          TargetOf,    \* trust -> its ControlPlane
          None

ASSUME ReferencesAssumption ==
  /\ SpecsOf \in [Entities -> SUBSET (Trusts \X Accounts)]
  /\ TargetOf \in [Trusts -> ControlPlanes]
  /\ RefChoices \subseteq (SUBSET Entities) \ {{}}
  /\ None \notin Bindings \cup Entities \cup Trusts \cup ControlPlanes \cup Accounts
                  \cup Policies \cup {Instance} \cup (ControlPlanes \X Accounts)
                  \cup [subject : Accounts, policy : Policies]

VARIABLES
  entity,   \* the ControlPlaneEntity objects
  account,  \* the ServiceAccounts that exist
  worker,   \* the worker of the ControlPlaneEntity controller
  binding, role, pc, key, obj, fresh, todo, cur, acc, lost  \* see PolicyBinding

entityVars  == <<entity, account, worker>>
bindingVars == <<binding, role, pc, key, obj, fresh, todo, cur, acc, lost>>
vars        == <<entityVars, bindingVars>>

\* The identities e may ask for: an account on the ControlPlane of its trust.
\* Other accounts do not matter.
Askable(e) == {<<TargetOf[s[1]], s[2]>> : s \in SpecsOf[e]}

TrustsOf   == [e \in Entities |-> {s[1] : s \in SpecsOf[e]}]
AccountsOf == [e \in Entities |-> {s[2] : s \in SpecsOf[e]}]

E == INSTANCE ControlPlaneEntity WITH
  TargetsOf    <- [t \in Trusts |-> {TargetOf[t]}],
  trust        <- [t \in Trusts |-> [target |-> TargetOf[t], configured |-> TRUE]],
  controlPlane <- [c \in ControlPlanes |-> "exposed"]

\* What a binding finds of an entity: isConditionTrue(IdentityResolved) and an
\* identity, of which it uses the subject, the namespace and name of the account,
\* whatever ControlPlane it was resolved on; the trust is the one the spec names
\* at that moment.
View(e) == [trust   |-> IF entity[e].resolved THEN entity[e].trust ELSE None,
            subject |-> IF entity[e].resolved THEN entity[e].identity[2] ELSE None]

B == INSTANCE PolicyBinding WITH
  Instances   <- {Instance},
  InstancesOf <- [t \in Trusts |-> {Instance}],
  TrustStates <- {"configured"},
  Outages     <- {},
  PoliciesVanish <- FALSE,
  ViewsOf <- [e \in Entities |-> [trust : TrustsOf[e], subject : AccountsOf[e]]],
  entity    <- [e \in Entities |-> View(e)],
  trust     <- [t \in Trusts |-> "configured"],
  trustInst <- [t \in Trusts |-> Instance],
  reachable <- {Instance},
  policyIn  <- [i \in {Instance} |-> Policies]

Init ==
  /\ entity = [e \in Entities |-> E!NoEntity]
  /\ account = {}
  /\ worker = E!Idle
  /\ B!Init

EntityWorker  == E!Working /\ UNCHANGED bindingVars
BindingWorker == UNCHANGED entityVars /\ B!Worker

\* Users change trust and account of an entity in one edit.
EditEntity(e) ==
  /\ E!EditEntity(e)
  /\ E!Exists(e)' => <<entity'[e].trust, entity'[e].account>> \in SpecsOf[e]

User ==
  \/ /\ \E e \in Entities : EditEntity(e) \/ \E id \in Askable(e) : E!SetAccount(id)
     /\ UNCHANGED bindingVars
  \/ /\ UNCHANGED entityVars
     /\ \E b \in Bindings : B!CreateBinding(b) \/ B!EditBinding(b)

Next == EntityWorker \/ BindingWorker \/ User

Spec == Init /\ [][Next]_vars

-----------------------------------------------------------------------------
\* The binding controller is right to expect of its entities what PolicyBinding
\* assumes: one of the identities the spec may ask for, beside a trust it may
\* name, whatever the entity controller is doing at the moment of the read.
EntitiesAsAssumed == B!Spec

\* "The identity binding is taken from ControlPlaneEntity.status.identity,
\* which is resolved [...] through an OpenMCP AccessRequest to the target
\* ControlPlane": the account that a role on the mount of a trust binds was
\* resolved on the ControlPlane of that trust, so it is one that the entity the
\* role is named for may ask for there.
RoleIdentityFromItsTrust ==
  \A t \in Trusts, b \in Bindings, e \in Entities :
    LET r == role[Instance][t][B!RoleName(b, e)]
    IN  r # None => <<TargetOf[t], r.subject>> \in Askable(e)

-----------------------------------------------------------------------------
\* Each controller has its own queue and its own worker.
FairSpec ==
  /\ Spec
  /\ WF_vars(EntityWorker)
  /\ \A e \in Entities : SF_vars(E!Fetch(e) /\ UNCHANGED bindingVars)
  /\ WF_vars(BindingWorker)
  /\ \A b \in Bindings : SF_vars(UNCHANGED entityVars /\ B!Fetch(b))

\* A user edits b or an entity, or a call of one of the two controllers fails.
Disturbed(b) ==
  \/ binding'[b].phase # binding[b].phase
  \/ binding'[b].refs # binding[b].refs \/ binding'[b].policy # binding[b].policy
  \/ \E e \in Entities : entity'[e].trust # entity[e].trust
                         \/ entity'[e].account # entity[e].account
  \/ account' # account
  \/ \E e \in Entities : E!CallFails(e)
  \/ key = b /\ UNCHANGED entityVars /\ B!Disturbed(b)

Uses(b, e) == binding[b].phase = "live" /\ e \in binding[b].refs

\* Once an entity has lost its account for good, the bindings that use it stop
\* being Ready: the loss goes through both controllers.
LossReachesBinding ==
  \A b \in Bindings, e \in Entities :
    /\ <>[](Uses(b, e) /\ E!Exists(e) /\ E!Wanted(e) \notin account)
    /\ <>[][~Disturbed(b)]_vars
    => <>[](~binding[b].status.ready)

Agrees(b, e) ==
  /\ E!Exists(e)
  /\ LET r == role[Instance][entity[e].trust][B!RoleName(b, e)]
     IN  r = [subject |-> entity[e].account, policy |-> binding[b].policy]

\* Once the accounts are there and the calls succeed, a binding becomes Ready
\* for good, and its roles request the named policy for the identity and on the
\* mount that each entity names, whatever identity they had before.
ChainConverges ==
  \A b \in Bindings :
    /\ <>[](/\ binding[b].phase = "live"
            /\ \A e \in binding[b].refs : E!Exists(e) /\ E!Wanted(e) \in account)
    /\ <>[][~Disturbed(b)]_vars
    => <>[](binding[b].status.ready /\ \A e \in binding[b].refs : Agrees(b, e))

=============================================================================

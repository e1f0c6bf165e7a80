--------------------------- MODULE PolicyBinding ---------------------------
(***************************************************************************)
(* The PolicyBinding controller: for every ControlPlaneEntity that a       *)
(* PolicyBinding refers to it writes one JWT role on the auth mount of the *)
(* entity's ControlPlaneTrust.  The role binds the entity's identity to a  *)
(* policy that the users manage themselves.                                *)
(*                                                                         *)
(* One worker handles one binding at a time and goes through its           *)
(* references one by one; entities, trusts, instances and policies change  *)
(* between any two calls.  "fresh" is the resourceVersion check of the API *)
(* server, as in ControlPlaneTrust.                                        *)
(***************************************************************************)

CONSTANTS
  Bindings,   \* namespaced names of PolicyBinding objects
  Entities,   \* namespaced names of ControlPlaneEntity objects
  Trusts,     \* ControlPlaneTrusts, which also name their auth mounts
  Instances,  \* OpenBaoInstances
  Policies,   \* names of OpenBao policies
  RefChoices, \* the sets of entities a binding may refer to
  ViewsOf,    \* entity -> what a read of it may find: the trust its spec names
              \* beside the subject of the identity its status publishes
  InstancesOf,\* trust -> instances its ProjectEntity may name
  TrustStates,\* what a trust may be
  Outages,    \* the instances that may be missing or unreachable
  PoliciesVanish, \* whether users also delete policies
  None

Views    == UNION {ViewsOf[e] : e \in Entities}
Subjects == {v.subject : v \in Views}

Missing    == "missing"    \* no such ControlPlaneTrust, or no mount assigned
Assigned   == "assigned"   \* a mount in its status, TrustConfigured is not True
Configured == "configured"
Unresolved ==              \* no such ControlPlaneEntity, or no identity
  [trust |-> None, subject |-> None]

ASSUME ReferencesAssumption ==
  /\ RefChoices \subseteq (SUBSET Entities) \ {{}}
  /\ DOMAIN ViewsOf = Entities
  /\ \A v \in Views : v = [trust |-> v.trust, subject |-> v.subject]
  /\ {v.trust : v \in Views} \subseteq Trusts
  /\ InstancesOf \in [Trusts -> SUBSET Instances]
  /\ Outages \subseteq Instances
  /\ TrustStates \subseteq {Missing, Assigned, Configured}
  /\ PoliciesVanish \in BOOLEAN

ASSUME NamesAssumption ==
  None \notin Bindings \cup Entities \cup Trusts \cup Instances \cup Policies
                \cup Subjects \cup [subject : Subjects, policy : Policies]

VARIABLES
  binding,   \* the PolicyBinding objects in the onboarding API server
  entity,    \* entity -> Unresolved / its view
  trust,     \* trust -> Missing / Assigned / Configured
  trustInst, \* trust -> status.resolvedOpenBaoInstance
  reachable, \* the instances that exist and are published as reachable
  policyIn,  \* instance -> policies that exist there
  role,      \* OpenBao: instance -> mount -> <<binding, entity>> -> role
  pc,        \* the worker's next call, "idle" between reconciles
  key,       \* the binding being reconciled
  obj,       \* the worker's copy of it
  fresh,     \* obj still carries the current resourceVersion
  todo,      \* references (or recorded roles) still to be handled
  cur,       \* what is known of the one being handled
  acc,       \* what this reconcile has gathered for the status
  lost       \* history, read by properties only: where this reconcile has
             \* reported a role ready that went with its mount since

envVars    == <<entity, trust, trustInst, reachable, policyIn>>
workerVars == <<pc, key, obj, fresh, todo, cur, acc>>
vars       == <<binding, envVars, role, workerVars, lost>>

RoleNames == Bindings \X Entities
Role      == [subject : Subjects, policy : Policies]

\* openbao.RoleName(namespace, binding + "-" + entity), taken as injective.
RoleName(b, e) == <<b, e>>

\* status.roles[], by entity: whether it has an entry, the mount the role was
\* written on ("" if never), and ready.
RoleStatus == [listed : BOOLEAN, path : Trusts \cup {None}, ready : BOOLEAN]
NoRoles    == [e \in Entities |-> [listed |-> FALSE, path |-> None, ready |-> FALSE]]

Status == [roles  : [Entities -> RoleStatus],
           name   : Policies \cup {None},                    \* policyName
           policy : {"True", "False", "Unknown", "unset"},   \* policyExists
           ready  : BOOLEAN]
NoStatus == [roles |-> NoRoles, name |-> None, policy |-> "unset", ready |-> FALSE]

Object == [phase     : {"absent", "live", "deleting"},
           finalizer : BOOLEAN,
           refs      : SUBSET Entities,
           policy    : Policies \cup {None},
           status    : Status]
NoObject == [phase |-> "absent", finalizer |-> FALSE, refs |-> {},
             policy |-> None, status |-> NoStatus]

Calls == {"idle", "finalize", "refs", "trust", "policy", "role",
          "delete", "unrole"}

\* cur: the entity, its subject, its trust (which is its mount), the instance,
\* and whether the role carries no message so far.
Current == [e : Entities \cup {None}, subject : Subjects \cup {None},
            t : Trusts \cup {None}, i : Instances \cup {None}, ok : BOOLEAN]
NoCurrent == [e |-> None, subject |-> None, t |-> None, i |-> None, ok |-> TRUE]

Gathered == [roles : [Entities -> RoleStatus],
             allReady : BOOLEAN, checked : BOOLEAN, known : BOOLEAN, exists : BOOLEAN]
NothingGathered == [roles |-> NoRoles, allReady |-> TRUE, checked |-> FALSE,
                    known |-> TRUE, exists |-> TRUE]

Idle == /\ pc' = "idle" /\ key' = None /\ obj' = NoObject /\ fresh' = FALSE
        /\ todo' = {} /\ cur' = NoCurrent /\ acc' = NothingGathered
        /\ lost' = {}

Reachable == {S \in SUBSET Instances : Instances \ Outages \subseteq S}

Init ==
  /\ binding = [b \in Bindings |-> NoObject]
  /\ entity = [e \in Entities |-> Unresolved]
  /\ trust \in [Trusts -> TrustStates]
  /\ trustInst \in {f \in [Trusts -> Instances] :
                      \A t \in Trusts : f[t] \in InstancesOf[t]}
  /\ reachable \in Reachable
  /\ policyIn \in [Instances -> SUBSET Policies]
  /\ role = [i \in Instances |-> [t \in Trusts |-> [r \in RoleNames |-> None]]]
  /\ pc = "idle" /\ key = None /\ obj = NoObject /\ fresh = FALSE
  /\ todo = {} /\ cur = NoCurrent /\ acc = NothingGathered
  /\ lost = {}

-----------------------------------------------------------------------------
(***************************************************************************)
(* The worker: Reconcile.                                                  *)
(***************************************************************************)

Recorded(s) == {e \in Entities : s.roles[e].path # None}

\* Mutant: roles are written before the finalizer is stored.
FetchWithoutFinalizer(b) ==
  /\ pc = "idle"
  /\ binding[b].phase # "absent"
  /\ key' = b /\ obj' = binding[b] /\ fresh' = TRUE
  /\ IF binding[b].phase = "deleting"
     THEN pc' = "delete" /\ todo' = Recorded(binding[b].status)
     ELSE pc' = "refs" /\ todo' = binding[b].refs
  /\ UNCHANGED <<binding, envVars, role, cur, acc, lost>>

\* Get the binding; a deleted one goes through the roles its status records.
Fetch(b) ==
  /\ pc = "idle"
  /\ binding[b].phase # "absent"
  /\ key' = b
  /\ obj' = [binding[b] EXCEPT !.status.name = binding[b].policy]
  /\ fresh' = TRUE
  /\ IF binding[b].phase = "deleting"
     THEN pc' = "delete" /\ todo' = Recorded(binding[b].status)
     ELSE /\ pc' = IF binding[b].finalizer THEN "refs" ELSE "finalize"
          /\ todo' = binding[b].refs
  /\ UNCHANGED <<binding, envVars, role, cur, acc, lost>>

AddFinalizer ==
  /\ pc = "finalize"
  /\ fresh
  /\ binding' = [binding EXCEPT ![key].finalizer = TRUE]
  /\ \/ /\ pc' = "refs"
        /\ obj' = [obj EXCEPT !.finalizer = TRUE]
        /\ UNCHANGED <<key, fresh, todo, cur, acc, lost>>
     \/ Idle
  /\ UNCHANGED <<envVars, role>>

\* Append a roleStatus for e; one that is not ready blocks the binding.
Gather(e, path, ready) ==
  /\ acc' = [acc EXCEPT !.roles[e] = [listed |-> TRUE, path |-> path, ready |-> ready],
                        !.allReady = @ /\ ready]
  /\ todo' = todo \ {e}
  /\ cur' = NoCurrent
  /\ pc' = "refs"

\* Mutant: an entity without a resolved identity is bound all the same.
ResolveEntityUngated(e) ==
  /\ pc = "refs"
  /\ e \in todo
  /\ \E v \in ViewsOf[e] :
       cur' = [NoCurrent EXCEPT !.e = e, !.subject = entity[e].subject, !.t = v.trust]
  /\ pc' = "trust"
  /\ UNCHANGED <<binding, envVars, role, key, obj, fresh, todo, acc, lost>>

\* Get the next ControlPlaneEntity; if that fails or it has no resolved identity
\* there is no role for it.  The code goes in list order; users choose the list.
ResolveEntity(e) ==
  /\ pc = "refs"
  /\ e \in todo
  /\ \/ Gather(e, None, FALSE)
     \/ /\ entity[e] # Unresolved
        /\ cur' = [NoCurrent EXCEPT !.e = e, !.subject = entity[e].subject,
                                    !.t = entity[e].trust]
        /\ pc' = "trust"
        /\ UNCHANGED <<todo, acc>>
  /\ UNCHANGED <<binding, envVars, role, key, obj, fresh, lost>>

\* Mutant: the entity is read again for the name of its trust.
ResolveTrustRereading ==
  /\ pc = "trust"
  /\ entity[cur.e] # Unresolved
  /\ LET t == entity[cur.e].trust
     IN  /\ trust[t] = Configured
         /\ trustInst[t] \in reachable
         /\ cur' = [cur EXCEPT !.t = t, !.i = trustInst[t]]
         /\ pc' = "policy"
  /\ UNCHANGED <<binding, envVars, role, key, obj, fresh, todo, acc, lost>>

\* Get the trust of that entity, its instance, and a client for it.
ResolveTrust ==
  /\ pc = "trust"
  /\ LET i == trustInst[cur.t]
     IN  \/ \* not configured, or any error of the Get
            Gather(cur.e, None, FALSE)
         \/ /\ trust[cur.t] = Configured
            /\ \/ \* instance missing or not reachable, or ClientFactory fails
                  Gather(cur.e, cur.t, FALSE)
               \/ /\ i \in reachable
                  /\ cur' = [cur EXCEPT !.i = i]
                  /\ pc' = "policy"
                  /\ UNCHANGED <<todo, acc>>
  /\ UNCHANGED <<binding, envVars, role, key, obj, fresh, lost>>

\* Mutant: "not allowed to look" is taken for "exists".
CheckPolicyOptimistic ==
  /\ pc = "policy"
  /\ LET there == obj.policy \in policyIn[cur.i]
     IN  \/ /\ acc' = [acc EXCEPT !.checked = TRUE, !.exists = @ /\ there,
                                  !.allReady = @ /\ there]
            /\ cur' = [cur EXCEPT !.ok = there]
         \/ acc' = [acc EXCEPT !.checked = TRUE] /\ UNCHANGED cur
  /\ pc' = "role"
  /\ UNCHANGED <<binding, envVars, role, key, obj, fresh, todo, lost>>

\* PolicyExists: the answer, "not allowed to look", or an error.  The answer
\* never stops the role from being written.
CheckPolicy ==
  /\ pc = "policy"
  /\ LET there == obj.policy \in policyIn[cur.i]
     IN  \/ /\ acc' = [acc EXCEPT !.checked = TRUE, !.exists = @ /\ there,
                                  !.allReady = @ /\ there]
            /\ cur' = [cur EXCEPT !.ok = there]
         \/ /\ acc' = [acc EXCEPT !.checked = TRUE, !.known = FALSE]
            /\ UNCHANGED cur
         \/ /\ acc' = [acc EXCEPT !.checked = TRUE, !.known = FALSE,
                                  !.allReady = FALSE]
            /\ cur' = [cur EXCEPT !.ok = FALSE]
  /\ pc' = "role"
  /\ UNCHANGED <<binding, envVars, role, key, obj, fresh, todo, lost>>

\* Mutant: an existing role is left as it is.
WriteRoleOnce ==
  role' = [role EXCEPT ![cur.i][cur.t][RoleName(key, cur.e)] =
             IF @ = None THEN [subject |-> cur.subject, policy |-> obj.policy]
             ELSE @]

WriteRole ==
  role' = [role EXCEPT ![cur.i][cur.t][RoleName(key, cur.e)] =
             [subject |-> cur.subject, policy |-> obj.policy]]

\* Mutant: an error of the call is taken for success.
EnsureRoleUnchecked ==
  /\ pc = "role"
  /\ WriteRole \/ UNCHANGED role
  /\ Gather(cur.e, cur.t, cur.ok)
  /\ UNCHANGED <<binding, envVars, key, obj, fresh, lost>>

\* EnsureJWTRole, an upsert; it may fail with or without effect.
EnsureRole ==
  /\ pc = "role"
  /\ \/ WriteRole /\ Gather(cur.e, cur.t, cur.ok)
     \/ WriteRole /\ Gather(cur.e, cur.t, FALSE)
     \/ UNCHANGED role /\ Gather(cur.e, cur.t, FALSE)
  /\ UNCHANGED <<binding, envVars, key, obj, fresh, lost>>

\* The status after the loop: roles[], PolicyExists, then Ready.
PolicyExistence ==
  IF ~acc.checked \/ ~acc.known THEN "Unknown"
  ELSE IF acc.exists THEN "True" ELSE "False"

Summary == [roles  |-> acc.roles,
            name   |-> obj.status.name,
            policy |-> PolicyExistence,
            ready  |-> acc.exists /\ acc.allReady]

\* Mutant: the status is forced in without the resourceVersion check.
UpdateStatusForced ==
  /\ pc = "refs"
  /\ todo = {}
  /\ binding[key].phase # "absent"
  /\ binding' = [binding EXCEPT ![key].status = Summary]
  /\ Idle
  /\ UNCHANGED <<envVars, role>>

\* patchStatus: Status().Update stores it.
UpdateStatus ==
  /\ pc = "refs"
  /\ todo = {}
  /\ fresh
  /\ binding' = [binding EXCEPT ![key].status = Summary]
  /\ Idle
  /\ UNCHANGED <<envVars, role>>

-----------------------------------------------------------------------------
(***************************************************************************)
(* The worker: reconcileDelete.                                            *)
(***************************************************************************)

\* Mutant: a role that cannot be reached blocks the deletion.
FindRoleStrict(e) ==
  /\ pc = "delete"
  /\ e \in todo
  /\ LET t == obj.status.roles[e].path
     IN  /\ trust[t] # Missing
         /\ trustInst[t] \in reachable
         /\ cur' = [NoCurrent EXCEPT !.e = e, !.t = t, !.i = trustInst[t]]
         /\ pc' = "unrole"
  /\ UNCHANGED <<binding, envVars, role, key, obj, fresh, todo, acc, lost>>

\* findTrustForAuthMount, the instance of that trust and a client for it.  A
\* role whose mount no trust publishes any more, or whose instance cannot be
\* used, is skipped.
FindRole(e) ==
  /\ pc = "delete"
  /\ e \in todo
  /\ LET t == obj.status.roles[e].path
     IN  \/ /\ todo' = todo \ {e}
            /\ UNCHANGED <<pc, cur>>
         \/ /\ trust[t] # Missing
            /\ trustInst[t] \in reachable
            /\ cur' = [NoCurrent EXCEPT !.e = e, !.t = t, !.i = trustInst[t]]
            /\ pc' = "unrole"
            /\ UNCHANGED todo
  /\ UNCHANGED <<binding, envVars, role, key, obj, fresh, acc, lost>>

\* DeleteJWTRole, idempotent; an error ends the reconcile.
RemoveRole ==
  /\ pc = "unrole"
  /\ role' = [role EXCEPT ![cur.i][cur.t][RoleName(key, cur.e)] = None]
  /\ \/ /\ pc' = "delete"
        /\ todo' = todo \ {cur.e}
        /\ cur' = NoCurrent
        /\ UNCHANGED <<key, obj, fresh, acc, lost>>
     \/ Idle
  /\ UNCHANGED <<binding, envVars>>

\* RemoveFinalizer and Update: the API server drops the object.
Release ==
  /\ pc = "delete"
  /\ todo = {}
  /\ fresh
  /\ binding' = [binding EXCEPT ![key] = NoObject]
  /\ Idle
  /\ UNCHANGED <<envVars, role>>

\* A call fails without effect and the error is returned, a write conflicts,
\* or the process dies.
Abandon ==
  /\ pc # "idle"
  /\ Idle
  /\ UNCHANGED <<binding, envVars, role>>

Worker == \/ \E b \in Bindings : Fetch(b)
          \/ AddFinalizer
          \/ \E e \in Entities : ResolveEntity(e) \/ FindRole(e)
          \/ ResolveTrust \/ CheckPolicy \/ EnsureRole \/ UpdateStatus
          \/ RemoveRole \/ Release
          \/ Abandon

-----------------------------------------------------------------------------
(***************************************************************************)
(* Users and the other controllers.                                        *)
(***************************************************************************)

Touch(b) ==
  /\ fresh' = (fresh /\ key # b)
  /\ UNCHANGED <<envVars, role, pc, key, obj, todo, cur, acc, lost>>

CreateBinding(b) ==
  /\ binding[b].phase = "absent"
  /\ \E refs \in RefChoices, p \in Policies :
       binding' = [binding EXCEPT
         ![b] = [NoObject EXCEPT !.phase = "live", !.refs = refs, !.policy = p]]
  /\ Touch(b)

EditBinding(b) ==
  /\ binding[b].phase = "live"
  /\ \E refs \in RefChoices, p \in Policies :
       /\ <<refs, p>> # <<binding[b].refs, binding[b].policy>>
       /\ binding' = [binding EXCEPT ![b].refs = refs, ![b].policy = p]
  /\ Touch(b)

DeleteBinding(b) ==
  /\ binding[b].phase = "live"
  /\ binding' = [binding EXCEPT ![b] = IF binding[b].finalizer
                                       THEN [@ EXCEPT !.phase = "deleting"]
                                       ELSE NoObject]
  /\ Touch(b)

\* The ControlPlaneEntity controller and its users.
SetEntity(e) ==
  /\ \E v \in {Unresolved} \cup ViewsOf[e] :
       entity' = [entity EXCEPT ![e] = v]
  /\ UNCHANGED <<binding, trust, trustInst, reachable, policyIn, role, workerVars, lost>>

\* The ControlPlaneTrust controller publishes, withdraws or moves a mount.
SetTrust(t) ==
  /\ \E s \in TrustStates, i \in InstancesOf[t] :
       /\ trust' = [trust EXCEPT ![t] = s]
       /\ trustInst' = [trustInst EXCEPT ![t] = i]
  /\ UNCHANGED <<binding, entity, reachable, policyIn, role, workerVars, lost>>

\* It removes a mount, with every role on it, when the trust is deleted.
RemoveMount(t) ==
  /\ \E i \in Instances :
       /\ role' = [role EXCEPT ![i][t] = [r \in RoleNames |-> None]]
       /\ lost' = lost \cup {<<i, t, e>> : e \in {d \in Entities :
                    /\ acc.roles[d].ready /\ acc.roles[d].path = t
                    /\ role[i][t][RoleName(key, d)] # None}}
  /\ UNCHANGED <<binding, envVars, workerVars>>

SetReachable ==
  /\ reachable' \in Reachable
  /\ UNCHANGED <<binding, entity, trust, trustInst, policyIn, role, workerVars, lost>>

SetPolicy(i) ==
  /\ \E p \in Policies :
       \/ policyIn' = [policyIn EXCEPT ![i] = @ \cup {p}]
       \/ PoliciesVanish /\ policyIn' = [policyIn EXCEPT ![i] = @ \ {p}]
  /\ UNCHANGED <<binding, entity, trust, trustInst, reachable, role, workerVars, lost>>

User == \E b \in Bindings : CreateBinding(b) \/ EditBinding(b) \/ DeleteBinding(b)

Environment == \/ \E e \in Entities : SetEntity(e)
               \/ \E t \in Trusts : SetTrust(t) \/ RemoveMount(t)
               \/ \E i \in Instances : SetPolicy(i)
               \/ SetReachable

Next == Worker \/ User \/ Environment

Spec == Init /\ [][Next]_vars

-----------------------------------------------------------------------------
(***************************************************************************)
(* Properties.                                                             *)
(***************************************************************************)

\* Every variable has its type.
TypeOK ==
  /\ binding \in [Bindings -> Object]
  /\ entity \in [Entities -> {Unresolved} \cup Views]
  /\ trust \in [Trusts -> {Missing, Assigned, Configured}]
  /\ trustInst \in [Trusts -> Instances]
  /\ reachable \in SUBSET Instances
  /\ policyIn \in [Instances -> SUBSET Policies]
  /\ role \in [Instances -> [Trusts -> [RoleNames -> Role \cup {None}]]]
  /\ pc \in Calls
  /\ key \in Bindings \cup {None}
  /\ obj \in Object
  /\ fresh \in BOOLEAN
  /\ todo \in SUBSET Entities
  /\ cur \in Current
  /\ acc \in Gathered
  /\ lost \in SUBSET (Instances \X Trusts \X Entities)

\* A role named for entity e, on the mount of trust t, binds a subject that e
\* published while it named t, however e and the others change during the loop.
RoleIsolation ==
  \A i \in Instances, t \in Trusts, b \in Bindings, e \in Entities :
    LET r == role[i][t][RoleName(b, e)]
    IN  r # None => [trust |-> t, subject |-> r.subject] \in ViewsOf[e]

\* Ready turns True only for the current spec: every reference has a ready entry
\* with its mount, nothing else is listed, and behind the entry there is a role
\* that requests the policy the spec names, unless the mount was removed after
\* this very reconcile had written it.
ReadyIsEarned ==
  [][\A b \in Bindings :
       ~binding[b].status.ready /\ binding'[b].status.ready =>
         LET s == binding'[b].status
         IN  /\ {e \in Entities : s.roles[e].listed} = binding'[b].refs
             /\ s.name = binding'[b].policy /\ s.policy # "False"
             /\ \A e \in binding'[b].refs :
                  LET t == s.roles[e].path
                  IN  /\ s.roles[e].ready /\ t # None
                      /\ \E i \in InstancesOf[t] :
                           LET r == role[i][t][RoleName(b, e)]
                           IN  /\ r # None => r.policy = s.name
                               /\ r = None => <<i, t, e>> \in lost]_vars

\* The controller keeps the promise of its finalizer: between them, users and
\* worker take each binding through the stages of FinalizerProtocol, and a role
\* changes only on behalf of the held binding it is named for, or is lost with
\* its mount.
Stage(o) == IF o.phase = "live" /\ o.finalizer THEN "held" ELSE o.phase

RolePlaces == Instances \X Trusts \X RoleNames

Protocol == INSTANCE FinalizerProtocol WITH
  Objects <- Bindings,
  Owns    <- [b \in Bindings |-> {m \in RolePlaces : m[3][1] = b}],
  Places  <- RolePlaces,
  Containers <- {{i} \X {t} \X RoleNames : i \in Instances, t \in Trusts},   \* mounts
  Nothing <- None,
  stage   <- [b \in Bindings |-> Stage(binding[b])],
  outside <- [m \in RolePlaces |-> role[m[1]][m[2]][m[3]]]

FollowsProtocol == Protocol!Spec

\* "does not falsely claim the policy exists": policyExists is True only if the
\* policy exists in the instance of every role reported as ready.
PolicyNotFalselyClaimed ==
  \A b \in Bindings :
    LET s == binding[b].status
    IN  s.policy = "True" =>
          \A e \in Recorded(s) : s.roles[e].ready =>
            \A i \in InstancesOf[s.roles[e].path] : s.name \in policyIn[i]

\* "The binding owns one generated OpenBao JWT role per referenced entity": a
\* status that turns Ready finds no other role of the binding in OpenBao: each is
\* for a referenced entity, on the mount its entry names, and in one instance.
ReadyMeansExactRoles ==
  [][\A b \in Bindings :
       ~binding[b].status.ready /\ binding'[b].status.ready =>
         \A i \in Instances, t \in Trusts, e \in Entities :
           role[i][t][RoleName(b, e)] # None =>
             /\ e \in binding'[b].refs
             /\ t = binding'[b].status.roles[e].path
             /\ \A j \in Instances \ {i} : role[j][t][RoleName(b, e)] = None]_vars

-----------------------------------------------------------------------------
(***************************************************************************)
(* Liveness: see ControlPlaneTrust for why the queue is fair.              *)
(***************************************************************************)

Scheduling ==
  /\ WF_vars(Worker)
  /\ \A b \in Bindings : SF_vars(Fetch(b))

CallsSucceed ==
  /\ \A e \in Entities : SF_vars(FindRole(e))
  /\ SF_vars(RemoveRole /\ pc' = "delete")
  /\ SF_vars(Release)

ScheduledSpec == Spec /\ Scheduling
FairSpec      == ScheduledSpec /\ CallsSucceed

\* A deleted binding is eventually finalized.
DeletionCompletes ==
  \A b \in Bindings :
    binding[b].phase = "deleting" ~> binding[b].phase # "deleting"

\* From now on b wants policy p for refs, and all it depends on is there.
Settled(b, refs, p, view) ==
  /\ binding[b].phase = "live"
  /\ binding[b].refs = refs /\ binding[b].policy = p
  /\ \A e \in refs : LET t == view[e].trust
                     IN  /\ entity[e] = view[e]
                         /\ trust[t] = Configured
                         /\ trustInst[t] \in reachable
                         /\ p \in policyIn[trustInst[t]]

\* A call of a reconcile of b fails, or its mount is removed.
Disturbed(b) ==
  \/ \E t \in Trusts : RemoveMount(t)
  \/ /\ key = b
     /\ \/ Abandon /\ ~UpdateStatus   \* which may rewrite what is there
        \/ AddFinalizer /\ pc' = "idle"
        \/ (\E e \in Entities : ResolveEntity(e)) /\ pc' = "refs"
        \/ ResolveTrust /\ pc' = "refs"
        \/ CheckPolicy /\ (~acc'.known \/ ~cur'.ok)
        \/ EnsureRole /\ ~acc'.allReady

\* Once its dependencies stay put and its calls succeed, a binding becomes Ready
\* for good and its roles request exactly the named policy for the current
\* identities, whatever policy or identity they had before.
BindingConverges ==
  \A b \in Bindings, refs \in RefChoices, p \in Policies,
     view \in {f \in [Entities -> Views] : \A e \in Entities : f[e] \in ViewsOf[e]} :
    <>[]Settled(b, refs, p, view) /\ <>[][~Disturbed(b)]_vars =>
      <>[](/\ binding[b].status.ready
           /\ \A e \in refs :
                LET t == view[e].trust
                IN  role[trustInst[t]][t][RoleName(b, e)]
                      = [subject |-> view[e].subject, policy |-> p])
=============================================================================

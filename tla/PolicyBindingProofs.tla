------------------------ MODULE PolicyBindingProofs ------------------------
(***************************************************************************)
(* Proofs about PolicyBinding, for any sets of bindings, entities, trusts, *)
(* instances and policies.                                                 *)
(***************************************************************************)
EXTENDS PolicyBinding, TLAPS

(***************************************************************************)
(* The inductive invariants.                                               *)
(***************************************************************************)

LoopCalls   == {"trust", "policy", "role"}   \* for one reference
LiveCalls   == {"refs"} \cup LoopCalls
DeleteCalls == {"delete", "unrole"}

\* What the worker knows, by the next call it makes.
WorkerTyped ==
  /\ pc # "idle" => key \in Bindings
  /\ pc \in LiveCalls \cup {"finalize"} => obj.policy \in Policies
  /\ pc \in LoopCalls \cup {"unrole"} => cur.e \in Entities /\ cur.t \in Trusts
  /\ pc \in LoopCalls => cur.subject \in Subjects
  /\ pc \in {"policy", "role", "unrole"} => cur.i \in Instances
  /\ pc \in DeleteCalls => todo \subseteq Recorded(obj.status)

\* A stored binding names a policy.
PoliciesTyped ==
  \A b \in Bindings : binding[b].phase # "absent" => binding[b].policy \in Policies

TypeInv == TypeOK /\ WorkerTyped /\ PoliciesTyped

-----------------------------------------------------------------------------
LEMMA NoObjectType == NoObject \in Object /\ NoStatus \in Status
  BY DEF NoObject, NoStatus, NoRoles, Object, Status, RoleStatus

LEMMA NoCurrentType == NoCurrent \in Current
  BY DEF NoCurrent, Current

LEMMA NothingGatheredType == NothingGathered \in Gathered
  BY DEF NothingGathered, NoRoles, Gathered, RoleStatus

LEMMA IdleTyped ==
  ASSUME Idle
  PROVE  /\ pc' = "idle" /\ pc' \in Calls
         /\ key' \in Bindings \cup {None} /\ obj' \in Object /\ fresh' \in BOOLEAN
         /\ todo' \in SUBSET Entities /\ cur' \in Current /\ acc' \in Gathered
         /\ lost' = {}
  BY NoObjectType, NoCurrentType, NothingGatheredType DEF Idle, Calls

LEMMA ViewTyped ==
  ASSUME NEW e \in Entities, NEW v \in ViewsOf[e]
  PROVE  /\ v \in Views /\ v.trust \in Trusts /\ v.subject \in Subjects
         /\ v = [trust |-> v.trust, subject |-> v.subject]
         /\ v # Unresolved
  <1>1. v \in Views
    BY DEF Views
  <1>2. v.trust \in Trusts /\ v.subject \in Subjects
        /\ v = [trust |-> v.trust, subject |-> v.subject]
    BY <1>1, ReferencesAssumption DEF Subjects
  <1>3. v.trust # None
    BY <1>2, NamesAssumption
  <1> QED
    BY <1>1, <1>2, <1>3 DEF Unresolved

\* Adding the entry of one reference.
LEMMA GatherTyped ==
  ASSUME acc \in Gathered, todo \in SUBSET Entities, NEW e \in Entities,
         NEW path \in Trusts \cup {None}, NEW r \in BOOLEAN, Gather(e, path, r)
  PROVE  /\ acc' \in Gathered /\ todo' \in SUBSET Entities
         /\ cur' \in Current /\ pc' = "refs"
  <1>1. [listed |-> TRUE, path |-> path, ready |-> r] \in RoleStatus
    BY DEF RoleStatus
  <1>2. (acc.allReady /\ r) \in BOOLEAN
    OBVIOUS
  <1>3. acc' \in Gathered
    BY <1>1, <1>2 DEF Gather, Gathered
  <1> QED
    BY <1>3, NoCurrentType DEF Gather

\* Writing one role keeps the type of all.
RoleType == [Instances -> [Trusts -> [RoleNames -> Role \cup {None}]]]

LEMMA RoleWritten ==
  ASSUME role \in RoleType, NEW i \in Instances, NEW t \in Trusts,
         NEW n \in RoleNames, NEW x \in Role \cup {None},
         role' = [role EXCEPT ![i][t][n] = x]
  PROVE  role' \in RoleType
  BY DEF RoleType

LEMMA TypeInit == Init => TypeInv
  <1> SUFFICES ASSUME Init PROVE TypeInv
    OBVIOUS
  <1>1. TypeOK
    BY NoObjectType, NoCurrentType, NothingGatheredType, ReferencesAssumption
    DEF Init, TypeOK, Reachable, Calls
  <1>2. WorkerTyped /\ PoliciesTyped
    BY DEF Init, WorkerTyped, PoliciesTyped, NoObject, LiveCalls, LoopCalls, DeleteCalls
  <1> QED
    BY <1>1, <1>2 DEF TypeInv

\* The copy that a reconcile starts from.
LEMMA Fetched ==
  ASSUME TypeInv, NEW b \in Bindings, Fetch(b)
  PROVE  /\ obj' \in Object
         /\ obj'.phase = binding[b].phase /\ obj'.finalizer = binding[b].finalizer
         /\ obj'.refs = binding[b].refs /\ obj'.policy = binding[b].policy
         /\ obj'.status.name = obj'.policy
         /\ obj'.status.roles = binding[b].status.roles
         /\ obj'.status.ready = binding[b].status.ready
  <1> DEFINE o == binding[b]
             s == [o.status EXCEPT !.name = o.policy]
  <1>1. o \in Object /\ o.status \in Status /\ o.policy \in Policies \cup {None}
    BY DEF TypeInv, TypeOK, Object
  <1>2. /\ s \in Status /\ s.name = o.policy
        /\ s.roles = o.status.roles /\ s.ready = o.status.ready
    BY <1>1 DEF Status
  <1>3. obj' = [o EXCEPT !.status = s]
    BY <1>1 DEF Fetch, Object, Status
  <1> HIDE DEF o, s
  <1>4. obj' \in Object /\ obj'.status = s /\ obj'.phase = o.phase
        /\ obj'.finalizer = o.finalizer /\ obj'.refs = o.refs /\ obj'.policy = o.policy
    BY <1>1, <1>2, <1>3 DEF Object
  <1> QED
    BY <1>2, <1>4 DEF o

\* Recording what the loop has gathered.
LEMMA GatherKeepsType ==
  ASSUME TypeInv, pc \in LiveCalls, NEW e \in Entities,
         NEW path \in Trusts \cup {None}, NEW r \in BOOLEAN, Gather(e, path, r),
         UNCHANGED <<binding, envVars, key, obj, fresh, lost>>,
         role' \in RoleType
  PROVE  TypeInv'
  <1>1. /\ acc' \in Gathered /\ todo' \in SUBSET Entities
        /\ cur' \in Current /\ pc' = "refs"
    BY GatherTyped DEF TypeInv, TypeOK
  <1>2. TypeOK'
    BY <1>1 DEF TypeInv, TypeOK, RoleType, envVars, Calls
  <1>3. WorkerTyped' /\ PoliciesTyped'
    BY <1>1 DEF TypeInv, WorkerTyped, PoliciesTyped, LiveCalls, LoopCalls, DeleteCalls
  <1> QED
    BY <1>2, <1>3 DEF TypeInv

\* A reconcile that ends.
LEMMA IdleKeepsType ==
  ASSUME TypeInv, Idle, binding' \in [Bindings -> Object], PoliciesTyped',
         UNCHANGED envVars, role' \in RoleType
  PROVE  TypeInv'
  BY IdleTyped DEF TypeInv, TypeOK, RoleType, envVars, WorkerTyped, LiveCalls,
     LoopCalls, DeleteCalls

LEMMA TypeWorker == TypeInv /\ Worker => TypeInv'
  <1> SUFFICES ASSUME TypeInv, Worker PROVE TypeInv'
    OBVIOUS
  <1> USE DEF LiveCalls, LoopCalls, DeleteCalls
  <1>0. role \in RoleType /\ obj \in Object /\ obj.status \in Status /\ acc \in Gathered
        /\ cur \in Current /\ binding \in [Bindings -> Object]
    BY DEF TypeInv, TypeOK, RoleType, Object
  <1>1. ASSUME NEW b \in Bindings, Fetch(b) PROVE TypeInv'
    <2>1. obj' \in Object /\ obj'.policy = binding[b].policy
          /\ obj'.status.roles = binding[b].status.roles
      BY <1>1, Fetched
    <2>2. Recorded(binding[b].status) = Recorded(obj'.status)
      BY <2>1 DEF Recorded
    <2>3. Recorded(binding[b].status) \subseteq Entities /\ binding[b].refs \subseteq Entities
      BY <1>0 DEF Recorded, Object
    <2>4. TypeOK'
      BY <1>1, <2>1, <2>3 DEF Fetch, TypeInv, TypeOK, envVars, Calls
    <2>5. WorkerTyped'
      BY <1>1, <2>1, <2>2 DEF Fetch, TypeInv, WorkerTyped, PoliciesTyped
    <2>6. PoliciesTyped'
      BY <1>1 DEF Fetch, TypeInv, PoliciesTyped
    <2> QED
      BY <2>4, <2>5, <2>6 DEF TypeInv
  <1>2. CASE AddFinalizer
    <2>1. binding' \in [Bindings -> Object] /\ PoliciesTyped'
      BY <1>2, <1>0 DEF AddFinalizer, TypeInv, PoliciesTyped, WorkerTyped, Object
    <2>2. CASE Idle
      BY <1>0, <1>2, <2>1, <2>2, IdleKeepsType DEF AddFinalizer
    <2>3. CASE ~Idle
      <3>1. obj' \in Object /\ obj'.policy = obj.policy /\ pc' = "refs"
        BY <1>0, <1>2, <2>3 DEF AddFinalizer, Object
      <3> QED
        BY <1>2, <2>1, <2>3, <3>1
        DEF AddFinalizer, TypeInv, TypeOK, WorkerTyped, envVars, Calls
    <2> QED BY <2>2, <2>3
  <1>3. ASSUME NEW e \in Entities, ResolveEntity(e) PROVE TypeInv'
    <2>1. CASE Gather(e, None, FALSE)
      BY <1>0, <1>3, <2>1, GatherKeepsType DEF ResolveEntity
    <2>2. CASE ~Gather(e, None, FALSE)
      <3> DEFINE c == [NoCurrent EXCEPT !.e = e, !.subject = entity[e].subject,
                                        !.t = entity[e].trust]
      <3>1. cur' = c /\ pc' = "trust" /\ entity[e] # Unresolved
        BY <1>3, <2>2 DEF ResolveEntity
      <3>2. entity[e].subject \in Subjects /\ entity[e].trust \in Trusts
        <4>1. entity[e] \in Views
          BY <3>1 DEF TypeInv, TypeOK
        <4> QED
          BY <4>1, ReferencesAssumption DEF Subjects
      <3>3. c \in Current /\ c.e = e /\ c.subject = entity[e].subject /\ c.t = entity[e].trust
        BY <3>2 DEF NoCurrent, Current
      <3> HIDE DEF c
      <3>4. TypeOK'
        BY <1>3, <2>2, <3>1, <3>3 DEF ResolveEntity, TypeInv, TypeOK, envVars, Calls
      <3> QED
        BY <1>3, <2>2, <3>1, <3>2, <3>3, <3>4
        DEF ResolveEntity, TypeInv, WorkerTyped, PoliciesTyped
    <2> QED BY <2>1, <2>2
  <1>4. CASE ResolveTrust
    <2>0. cur.e \in Entities /\ cur.t \in Trusts
      BY <1>4 DEF ResolveTrust, TypeInv, WorkerTyped
    <2>1. CASE Gather(cur.e, None, FALSE) \/ Gather(cur.e, cur.t, FALSE)
      BY <1>0, <1>4, <2>0, <2>1, GatherKeepsType DEF ResolveTrust
    <2>2. CASE ~(Gather(cur.e, None, FALSE) \/ Gather(cur.e, cur.t, FALSE))
      <3>1. cur' = [cur EXCEPT !.i = trustInst[cur.t]] /\ pc' = "policy" /\ todo' = todo
            /\ acc' = acc
        BY <1>4, <2>2 DEF ResolveTrust
      <3>2. trustInst[cur.t] \in Instances
        BY <2>0 DEF TypeInv, TypeOK
      <3>3. cur' \in Current /\ cur'.e = cur.e /\ cur'.t = cur.t
            /\ cur'.subject = cur.subject /\ cur'.i \in Instances
        BY <1>0, <3>1, <3>2 DEF Current
      <3>4. TypeOK'
        BY <1>4, <3>1, <3>3 DEF ResolveTrust, TypeInv, TypeOK, envVars, Calls
      <3> QED
        BY <1>4, <3>1, <3>3, <3>4
        DEF ResolveTrust, TypeInv, WorkerTyped, PoliciesTyped
    <2> QED BY <2>1, <2>2
  <1>5. CASE CheckPolicy
    <2> DEFINE there == obj.policy \in policyIn[cur.i]
    <2>1. there \in BOOLEAN
      OBVIOUS
    <2>2. acc' \in Gathered
      <3>1. CASE acc' = [acc EXCEPT !.checked = TRUE, !.exists = @ /\ there,
                                    !.allReady = @ /\ there]
        BY <1>0, <3>1 DEF Gathered
      <3>2. CASE acc' = [acc EXCEPT !.checked = TRUE, !.known = FALSE]
                 \/ acc' = [acc EXCEPT !.checked = TRUE, !.known = FALSE,
                                       !.allReady = FALSE]
        BY <1>0, <3>2 DEF Gathered
      <3> QED
        BY <1>5, <3>1, <3>2 DEF CheckPolicy
    <2>3. PICK ok \in BOOLEAN : cur' = [cur EXCEPT !.ok = ok] \/ cur' = cur
      BY <1>5, <2>1 DEF CheckPolicy
    <2>4. cur' \in Current /\ cur'.e = cur.e /\ cur'.t = cur.t
          /\ cur'.subject = cur.subject /\ cur'.i = cur.i
      BY <1>0, <2>3 DEF Current
    <2>5. TypeOK'
      BY <1>5, <2>2, <2>4 DEF CheckPolicy, TypeInv, TypeOK, envVars, Calls
    <2> QED
      BY <1>5, <2>4, <2>5 DEF CheckPolicy, TypeInv, WorkerTyped, PoliciesTyped
  <1>6. CASE EnsureRole
    <2>1. cur.e \in Entities /\ cur.t \in Trusts /\ cur.i \in Instances
          /\ key \in Bindings /\ cur.subject \in Subjects /\ obj.policy \in Policies
      BY <1>6 DEF EnsureRole, TypeInv, WorkerTyped
    <2>2. role' \in RoleType
      <3>1. CASE WriteRole
        <4> DEFINE n == RoleName(key, cur.e)
                   x == [subject |-> cur.subject, policy |-> obj.policy]
                   i == cur.i
                   t == cur.t
        <4>1. n \in RoleNames /\ x \in Role /\ i \in Instances /\ t \in Trusts
          BY <2>1 DEF RoleName, RoleNames, Role
        <4>2. role' = [role EXCEPT ![i][t][n] = x]
          BY <3>1 DEF WriteRole
        <4> HIDE DEF n, x, i, t
        <4> QED
          BY <1>0, <4>1, <4>2, RoleWritten
      <3> QED
        BY <1>0, <1>6, <3>1 DEF EnsureRole
    <2>3. PICK r \in BOOLEAN : Gather(cur.e, cur.t, r)
      <3>1. cur.ok \in BOOLEAN
        BY <1>0 DEF Current
      <3> QED
        BY <1>6, <3>1 DEF EnsureRole
    <2> QED
      BY <1>6, <2>1, <2>2, <2>3, GatherKeepsType DEF EnsureRole
  <1>7. CASE UpdateStatus
    <2>1. Summary \in Status
      BY <1>0 DEF Summary, PolicyExistence, Gathered, Status
    <2>2. binding' \in [Bindings -> Object] /\ PoliciesTyped'
      BY <1>0, <1>7, <2>1 DEF UpdateStatus, TypeInv, PoliciesTyped, Object
    <2> QED
      BY <1>0, <1>7, <2>2, IdleKeepsType DEF UpdateStatus
  <1>8. ASSUME NEW e \in Entities, FindRole(e) PROVE TypeInv'
    <2>1. CASE pc' = "unrole"
      <3> DEFINE t == obj.status.roles[e].path
                 c == [NoCurrent EXCEPT !.e = e, !.t = t, !.i = trustInst[t]]
      <3>1. cur' = c /\ todo' = todo
        BY <1>8, <2>1 DEF FindRole
      <3>2. t \in Trusts
        BY <1>0, <1>8 DEF FindRole, TypeInv, WorkerTyped, Recorded, Status, RoleStatus
      <3>3. c \in Current /\ c.e = e /\ c.t = t /\ c.i \in Instances
        BY <3>2 DEF NoCurrent, Current, TypeInv, TypeOK
      <3> HIDE DEF c, t
      <3>4. TypeOK'
        BY <1>8, <2>1, <3>1, <3>3 DEF FindRole, TypeInv, TypeOK, envVars, Calls
      <3> QED
        BY <1>8, <2>1, <3>1, <3>2, <3>3, <3>4
        DEF FindRole, TypeInv, WorkerTyped, PoliciesTyped
    <2>2. CASE pc' # "unrole"
      BY <1>8, <2>2 DEF FindRole, TypeInv, TypeOK, WorkerTyped, PoliciesTyped, envVars
    <2> QED BY <2>1, <2>2
  <1>9. CASE RemoveRole
    <2>1. role' \in RoleType
      <3> DEFINE n == RoleName(key, cur.e)
                 i == cur.i
                 t == cur.t
      <3>1. n \in RoleNames /\ i \in Instances /\ t \in Trusts
        BY <1>9 DEF RemoveRole, TypeInv, WorkerTyped, RoleName, RoleNames
      <3>2. role' = [role EXCEPT ![i][t][n] = None]
        BY <1>9 DEF RemoveRole
      <3> HIDE DEF n, i, t
      <3> QED
        BY <1>0, <3>1, <3>2, RoleWritten
    <2>2. CASE Idle
      BY <1>0, <1>9, <2>1, <2>2, IdleKeepsType DEF RemoveRole, TypeInv, PoliciesTyped
    <2>3. CASE ~Idle
      <3>1. TypeOK'
        BY <1>9, <2>1, <2>3, NoCurrentType
        DEF RemoveRole, TypeInv, TypeOK, RoleType, envVars, Calls
      <3> QED
        BY <1>9, <2>3, <3>1 DEF RemoveRole, TypeInv, WorkerTyped, PoliciesTyped
    <2> QED BY <2>2, <2>3
  <1>10. CASE Release
    <2>1. binding' \in [Bindings -> Object] /\ PoliciesTyped'
      BY <1>0, <1>10, NoObjectType DEF Release, TypeInv, PoliciesTyped, NoObject
    <2> QED
      BY <1>0, <1>10, <2>1, IdleKeepsType DEF Release
  <1>11. CASE Abandon
    BY <1>0, <1>11, IdleKeepsType DEF Abandon, TypeInv, PoliciesTyped
  <1> QED
    BY <1>1, <1>2, <1>3, <1>4, <1>5, <1>6, <1>7, <1>8, <1>9, <1>10, <1>11 DEF Worker

\* What a user's request does to the object it is about.
UserWrites(b, o) ==
  \/ /\ binding[b].phase = "absent"
     /\ o.phase = "live" /\ ~o.finalizer /\ o.status = NoStatus
     /\ o.policy \in Policies
  \/ /\ binding[b].phase = "live" /\ o.phase \in {"live", "deleting"}
     /\ o.finalizer = binding[b].finalizer /\ o.status = binding[b].status
     /\ o.phase = "deleting" => o.finalizer
     /\ o.policy \in Policies
  \/ /\ binding[b].phase = "live" /\ ~binding[b].finalizer
     /\ o = NoObject

LEMMA UserEffect ==
  ASSUME TypeInv, User
  PROVE  \E b \in Bindings, o \in Object :
           /\ binding' = [binding EXCEPT ![b] = o]
           /\ UserWrites(b, o)
           /\ Touch(b)
  <1> USE ReferencesAssumption DEF TypeInv, TypeOK
  <1>1. PICK b \in Bindings : CreateBinding(b) \/ EditBinding(b) \/ DeleteBinding(b)
    BY DEF User
  <1>2. CASE CreateBinding(b)
    <2>1. PICK refs \in RefChoices, p \in Policies :
            binding' = [binding EXCEPT
              ![b] = [NoObject EXCEPT !.phase = "live", !.refs = refs, !.policy = p]]
      BY <1>2 DEF CreateBinding
    <2> DEFINE o == [NoObject EXCEPT !.phase = "live", !.refs = refs, !.policy = p]
    <2>2. o \in Object
      BY <2>1, NoObjectType DEF Object
    <2>3. o.phase = "live" /\ ~o.finalizer /\ o.status = NoStatus /\ o.policy = p
      BY DEF NoObject
    <2>4. binding' = [binding EXCEPT ![b] = o]
      BY <2>1
    <2> HIDE DEF o
    <2>5. UserWrites(b, o)
      BY <1>2, <2>1, <2>3 DEF CreateBinding, UserWrites
    <2> QED
      BY <1>2, <2>2, <2>4, <2>5 DEF CreateBinding
  <1>3. CASE EditBinding(b)
    <2>1. PICK refs \in RefChoices, p \in Policies :
            binding' = [binding EXCEPT ![b].refs = refs, ![b].policy = p]
      BY <1>3 DEF EditBinding
    <2> DEFINE o == [binding[b] EXCEPT !.refs = refs, !.policy = p]
    <2>a. binding[b] \in Object /\ refs \in SUBSET Entities /\ binding[b].phase = "live"
      BY <1>3, <2>1 DEF EditBinding
    <2>2. o \in Object /\ o.phase = "live" /\ binding[b].phase = "live"
          /\ o.finalizer = binding[b].finalizer /\ o.status = binding[b].status
          /\ o.policy = p
      BY <2>1, <2>a DEF Object
    <2>3. binding' = [binding EXCEPT ![b] = o]
      BY <2>1
    <2> HIDE DEF o
    <2> QED
      BY <1>3, <2>2, <2>3 DEF EditBinding, UserWrites
  <1>4. CASE DeleteBinding(b) /\ binding[b].finalizer
    <2> DEFINE o == [binding[b] EXCEPT !.phase = "deleting"]
    <2>a. binding[b] \in Object /\ binding[b].phase = "live" /\ binding[b].policy \in Policies
      BY <1>4 DEF DeleteBinding, PoliciesTyped
    <2>1. o \in Object /\ o.phase = "deleting" /\ binding[b].phase = "live"
          /\ o.finalizer = binding[b].finalizer /\ o.status = binding[b].status
          /\ o.policy \in Policies
      BY <2>a DEF Object
    <2>2. binding' = [binding EXCEPT ![b] = o]
      BY <1>4 DEF DeleteBinding
    <2> HIDE DEF o
    <2> QED
      BY <1>4, <2>1, <2>2 DEF DeleteBinding, UserWrites
  <1>5. CASE DeleteBinding(b) /\ ~binding[b].finalizer
    BY <1>5, NoObjectType DEF DeleteBinding, UserWrites
  <1> QED
    BY <1>1, <1>2, <1>3, <1>4, <1>5

LEMMA TypeUser == TypeInv /\ User => TypeInv'
  <1> SUFFICES ASSUME TypeInv, User PROVE TypeInv'
    OBVIOUS
  <1>1. PICK b \in Bindings, o \in Object :
          binding' = [binding EXCEPT ![b] = o] /\ UserWrites(b, o) /\ Touch(b)
    BY UserEffect
  <1>2. o.phase # "absent" => o.policy \in Policies
    BY <1>1 DEF UserWrites, NoObject
  <1>3. fresh' \in BOOLEAN
    BY <1>1 DEF Touch
  <1> QED
    BY <1>1, <1>2, <1>3
    DEF TypeInv, TypeOK, WorkerTyped, PoliciesTyped, Touch, envVars

\* What others do to OpenBao: it only loses roles.
LEMMA EnvironmentEffect ==
  ASSUME TypeInv, Environment
  PROVE  /\ UNCHANGED <<binding, workerVars>>
         /\ \/ role' = role
            \/ \E i \in Instances, t \in Trusts :
                 role' = [role EXCEPT ![i][t] = [n \in RoleNames |-> None]]
  BY DEF Environment, SetEntity, SetTrust, RemoveMount, SetPolicy, SetReachable

\* Losing the roles of one mount.
LEMMA RolesLost ==
  ASSUME TypeInv, Environment
  PROVE  /\ role' \in RoleType
         /\ \A j \in Instances, u \in Trusts, n \in RoleNames :
              role'[j][u][n] \in {role[j][u][n], None}
  <1>0. role \in RoleType
    BY DEF TypeInv, TypeOK, RoleType
  <1>1. CASE role' = role
    BY <1>0, <1>1
  <1>2. ASSUME NEW i \in Instances, NEW t \in Trusts,
               role' = [role EXCEPT ![i][t] = [n \in RoleNames |-> None]]
        PROVE  /\ role' \in RoleType
               /\ \A j \in Instances, u \in Trusts, n \in RoleNames :
                    role'[j][u][n] \in {role[j][u][n], None}
    <2>1. [n \in RoleNames |-> None] \in [RoleNames -> Role \cup {None}]
      OBVIOUS
    <2> QED
      BY <1>0, <1>2, <2>1 DEF RoleType
  <1> QED
    BY <1>1, <1>2, EnvironmentEffect

\* A role that the reconcile has reported ready is not lost unrecorded.
LEMMA LossRecorded ==
  ASSUME TypeInv, Environment
  PROVE  /\ lost \subseteq lost'
         /\ \A i \in Instances, t \in Trusts, e \in Entities :
              /\ acc.roles[e].ready /\ acc.roles[e].path = t
              /\ role[i][t][RoleName(key, e)] # None
              /\ role'[i][t][RoleName(key, e)] = None
              => <<i, t, e>> \in lost'
  <1>1. CASE UNCHANGED <<role, lost>>
    BY <1>1
  <1>2. ASSUME NEW u \in Trusts, RemoveMount(u)
        PROVE  /\ lost \subseteq lost'
               /\ \A i \in Instances, t \in Trusts, e \in Entities :
                    /\ acc.roles[e].ready /\ acc.roles[e].path = t
                    /\ role[i][t][RoleName(key, e)] # None
                    /\ role'[i][t][RoleName(key, e)] = None
                    => <<i, t, e>> \in lost'
    <2>1. PICK j \in Instances :
            /\ role' = [role EXCEPT ![j][u] = [r \in RoleNames |-> None]]
            /\ lost' = lost \cup {<<j, u, e>> : e \in {d \in Entities :
                          /\ acc.roles[d].ready /\ acc.roles[d].path = u
                          /\ role[j][u][RoleName(key, d)] # None}}
      BY <1>2 DEF RemoveMount
    <2>2. ASSUME NEW i \in Instances, NEW t \in Trusts, ~(i = j /\ t = u)
          PROVE  role'[i][t] = role[i][t]
      BY <2>1, <2>2 DEF TypeInv, TypeOK
    <2> QED
      BY <2>1, <2>2
  <1> QED
    BY <1>1, <1>2 DEF Environment, SetEntity, SetTrust, SetPolicy, SetReachable

LEMMA TypeEnvironment == TypeInv /\ Environment => TypeInv'
  <1> SUFFICES ASSUME TypeInv, Environment PROVE TypeInv'
    OBVIOUS
  <1> USE ReferencesAssumption
  <1>1. WorkerTyped' /\ PoliciesTyped'
    BY EnvironmentEffect DEF workerVars, TypeInv, WorkerTyped, PoliciesTyped
  <1>2. role' \in RoleType
    BY RolesLost
  <1>3. ASSUME NEW e \in Entities, SetEntity(e) PROVE TypeOK'
    <2>1. ViewsOf[e] \subseteq Views
      BY DEF Views
    <2> QED
      BY <1>3, <2>1 DEF SetEntity, TypeInv, TypeOK, workerVars
  <1>4. ASSUME NEW t \in Trusts, SetTrust(t) PROVE TypeOK'
    BY <1>4 DEF SetTrust, TypeInv, TypeOK, workerVars
  <1>5. ASSUME NEW t \in Trusts, RemoveMount(t) PROVE TypeOK'
    <2>1. lost' \in SUBSET (Instances \X Trusts \X Entities)
      BY <1>5 DEF RemoveMount, TypeInv, TypeOK
    <2> QED
      BY <1>2, <1>5, <2>1 DEF RemoveMount, TypeInv, TypeOK, RoleType, envVars, workerVars
  <1>6. ASSUME NEW i \in Instances, SetPolicy(i) PROVE TypeOK'
    <2>1. PICK S \in SUBSET Policies : policyIn' = [policyIn EXCEPT ![i] = S]
      BY <1>6 DEF SetPolicy, TypeInv, TypeOK
    <2>2. policyIn' \in [Instances -> SUBSET Policies]
      BY <2>1 DEF TypeInv, TypeOK
    <2> QED
      BY <1>6, <2>2 DEF SetPolicy, TypeInv, TypeOK, workerVars
  <1>7. ASSUME SetReachable PROVE TypeOK'
    BY <1>7 DEF SetReachable, Reachable, TypeInv, TypeOK, workerVars
  <1> QED
    BY <1>1, <1>3, <1>4, <1>5, <1>6, <1>7 DEF Environment, TypeInv

LEMMA TypeNext == TypeInv /\ [Next]_vars => TypeInv'
  <1> SUFFICES ASSUME TypeInv, [Next]_vars PROVE TypeInv'
    OBVIOUS
  <1>1. CASE Next
    BY <1>1, TypeWorker, TypeUser, TypeEnvironment DEF Next
  <1>2. CASE UNCHANGED vars
    BY <1>2 DEF vars, envVars, workerVars, TypeInv, TypeOK, WorkerTyped, PoliciesTyped
  <1> QED
    BY <1>1, <1>2

LEMMA TypeInvariant == Spec => []TypeInv
  BY TypeInit, TypeNext, PTL DEF Spec

\* Type correctness of every variable, in every reachable state.
THEOREM TypeCorrect == Spec => []TypeOK
  BY TypeInvariant, PTL DEF TypeInv

-----------------------------------------------------------------------------
(***************************************************************************)
(* Roles belong together: subject and mount come from one read.            *)
(***************************************************************************)

ViewOf(t, s) == [trust |-> t, subject |-> s]

IsolationInv ==
  /\ \A e \in Entities : entity[e] \in {Unresolved} \cup ViewsOf[e]
  /\ pc \in LoopCalls => ViewOf(cur.t, cur.subject) \in ViewsOf[cur.e]
  /\ RoleIsolation

\* A step that changes neither entities nor roles, and that keeps or forgets
\* the reference at hand.
LEMMA IsolationKept ==
  ASSUME IsolationInv, UNCHANGED <<entity, role>>,
         \/ pc' \notin LoopCalls
         \/ pc \in LoopCalls /\ cur'.e = cur.e /\ cur'.t = cur.t
            /\ cur'.subject = cur.subject
  PROVE  IsolationInv'
  BY DEF IsolationInv, RoleIsolation, ViewOf

LEMMA IsolationWorker == TypeInv /\ IsolationInv /\ Worker => IsolationInv'
  <1> SUFFICES ASSUME TypeInv, IsolationInv, Worker PROVE IsolationInv'
    OBVIOUS
  <1> USE DEF LoopCalls
  <1>0. cur \in Current /\ role \in RoleType
    BY DEF TypeInv, TypeOK, RoleType
  <1>1. CASE pc' \notin LoopCalls /\ UNCHANGED <<entity, role>>
    BY <1>1, IsolationKept
  <1>2. ASSUME NEW e \in Entities, ResolveEntity(e), pc' \in LoopCalls
        PROVE  IsolationInv'
    <2>1. cur' = [NoCurrent EXCEPT !.e = e, !.subject = entity[e].subject,
                                   !.t = entity[e].trust]
          /\ entity[e] # Unresolved /\ UNCHANGED <<entity, role>>
      BY <1>2 DEF ResolveEntity, Gather, envVars
    <2>2. cur'.e = e /\ cur'.subject = entity[e].subject /\ cur'.t = entity[e].trust
      BY <2>1 DEF NoCurrent
    <2>3. entity[e] \in ViewsOf[e]
      BY <2>1 DEF IsolationInv
    <2>4. ViewOf(cur'.t, cur'.subject) \in ViewsOf[cur'.e]
      BY <2>2, <2>3, ViewTyped DEF ViewOf
    <2> QED
      BY <2>1, <2>4 DEF IsolationInv, RoleIsolation
  <1>3. CASE ResolveTrust /\ pc' \in LoopCalls
    BY <1>0, <1>3, IsolationKept DEF ResolveTrust, Gather, Current, envVars
  <1>4. CASE CheckPolicy
    <2>1. \E ok : cur' = cur \/ cur' = [cur EXCEPT !.ok = ok]
      BY <1>4 DEF CheckPolicy
    <2>2. cur'.e = cur.e /\ cur'.t = cur.t /\ cur'.subject = cur.subject
      BY <1>0, <2>1 DEF Current
    <2> QED
      BY <1>4, <2>2, IsolationKept DEF CheckPolicy, envVars
  <1>5. CASE EnsureRole
    <2>1. pc' = "refs" /\ entity' = entity /\ (WriteRole \/ role' = role)
      BY <1>5 DEF EnsureRole, Gather, envVars
    <2>2. PICK i \in Instances, t \in Trusts, b \in Bindings, e \in Entities :
            i = cur.i /\ t = cur.t /\ b = key /\ e = cur.e
      BY <1>5 DEF EnsureRole, TypeInv, WorkerTyped
    <2>3. ViewOf(t, cur.subject) \in ViewsOf[e]
      BY <1>5, <2>2 DEF EnsureRole, IsolationInv
    <2>4. CASE WriteRole
      <3> DEFINE x == [subject |-> cur.subject, policy |-> obj.policy]
                 n == RoleName(b, e)
      <3>1. role' = [role EXCEPT ![i][t][n] = x] /\ x.subject = cur.subject
        BY <2>2, <2>4 DEF WriteRole
      <3>2. n \in RoleNames /\ \A c \in Bindings, d \in Entities :
              RoleName(c, d) = n => c = b /\ d = e
        BY DEF RoleName, RoleNames
      <3>3. \A c \in Bindings, d \in Entities : RoleName(c, d) \in RoleNames
        BY DEF RoleName, RoleNames
      <3> HIDE DEF x, n
      <3>4. ASSUME NEW j \in Instances, NEW u \in Trusts, NEW c \in Bindings,
                   NEW d \in Entities
            PROVE  \/ role'[j][u][RoleName(c, d)] = role[j][u][RoleName(c, d)]
                   \/ u = t /\ d = e /\ role'[j][u][RoleName(c, d)] = x
        BY <1>0, <3>1, <3>2, <3>3 DEF RoleType
      <3> QED
        BY <2>1, <2>3, <3>1, <3>4 DEF IsolationInv, RoleIsolation, ViewOf
    <2>5. CASE role' = role
      BY <2>1, <2>5, IsolationKept
    <2> QED
      BY <2>1, <2>4, <2>5
  <1>6. CASE RemoveRole
    <2>1. pc' \notin LoopCalls /\ entity' = entity
          /\ role' = [role EXCEPT ![cur.i][cur.t][RoleName(key, cur.e)] = None]
      BY <1>6 DEF RemoveRole, Idle, envVars
    <2>2. \A c \in Bindings, d \in Entities : RoleName(c, d) \in RoleNames
      BY DEF RoleName, RoleNames
    <2>3. ASSUME NEW j \in Instances, NEW u \in Trusts, NEW n \in RoleNames
          PROVE  role'[j][u][n] \in {role[j][u][n], None}
      BY <1>0, <2>1 DEF RoleType
    <2>4. RoleIsolation'
      <3> SUFFICES ASSUME NEW j \in Instances, NEW u \in Trusts, NEW c \in Bindings,
                          NEW d \in Entities, role'[j][u][RoleName(c, d)] # None
                   PROVE  [trust |-> u, subject |-> role'[j][u][RoleName(c, d)].subject]
                            \in ViewsOf[d]
        BY DEF RoleIsolation
      <3>1. role'[j][u][RoleName(c, d)] = role[j][u][RoleName(c, d)]
        BY <2>2, <2>3
      <3> QED
        BY <3>1 DEF IsolationInv, RoleIsolation
    <2> QED
      BY <2>1, <2>4 DEF IsolationInv
  <1> QED
    BY <1>1, <1>2, <1>3, <1>4, <1>5, <1>6
    DEF Worker, Fetch, AddFinalizer, ResolveEntity, ResolveTrust, UpdateStatus,
        FindRole, Release, Abandon, Idle, envVars

LEMMA IsolationNext == TypeInv /\ IsolationInv /\ [Next]_vars => IsolationInv'
  <1> SUFFICES ASSUME TypeInv, IsolationInv, [Next]_vars PROVE IsolationInv'
    OBVIOUS
  <1>1. CASE Worker
    BY <1>1, IsolationWorker
  <1>2. CASE User
    BY <1>2, UserEffect DEF Touch, envVars, IsolationInv, RoleIsolation, ViewOf
  <1>3. CASE Environment
    <2>1. \A e \in Entities : entity'[e] \in {Unresolved} \cup ViewsOf[e]
      BY <1>3 DEF Environment, SetEntity, SetTrust, RemoveMount, SetPolicy,
         SetReachable, envVars, IsolationInv, TypeInv, TypeOK
    <2>2. \A i \in Instances, t \in Trusts, n \in RoleNames :
            role'[i][t][n] \in {role[i][t][n], None}
      BY <1>3, RolesLost
    <2>3. \A b \in Bindings, e \in Entities : RoleName(b, e) \in RoleNames
      BY DEF RoleName, RoleNames
    <2>4. RoleIsolation'
      BY <2>2, <2>3 DEF IsolationInv, RoleIsolation
    <2> QED
      BY <1>3, <2>1, <2>4, EnvironmentEffect DEF IsolationInv, workerVars, ViewOf
  <1>4. CASE UNCHANGED vars
    BY <1>4 DEF vars, envVars, workerVars, IsolationInv, RoleIsolation, ViewOf
  <1> QED
    BY <1>1, <1>2, <1>3, <1>4 DEF Next

LEMMA IsolationInvariant == Spec => []IsolationInv
  <1>1. Init => IsolationInv
    <2> SUFFICES ASSUME Init PROVE IsolationInv
      OBVIOUS
    <2>1. \A b \in Bindings, e \in Entities : RoleName(b, e) \in RoleNames
      BY DEF RoleName, RoleNames
    <2>2. /\ role = [i \in Instances |-> [t \in Trusts |-> [r \in RoleNames |-> None]]]
          /\ entity = [e \in Entities |-> Unresolved] /\ pc = "idle"
      BY DEF Init
    <2>3. RoleIsolation
      BY <2>1, <2>2 DEF RoleIsolation
    <2> QED
      BY <2>2, <2>3 DEF IsolationInv, LoopCalls
  <1> QED
    BY <1>1, IsolationNext, TypeInvariant, PTL DEF Spec

\* However entities, trusts, mounts and bindings change during the loop, every
\* role binds a subject that its entity published while it named the trust on
\* whose mount the role lies.
THEOREM RolesIsolated == Spec => []RoleIsolation
  <1>1. IsolationInv => RoleIsolation
    BY DEF IsolationInv
  <1> QED
    BY <1>1, IsolationInvariant, PTL

-----------------------------------------------------------------------------
(***************************************************************************)
(* Ready is earned.                                                        *)
(***************************************************************************)

Listed(roles) == {e \in Entities : roles[e].listed}

\* Some instance of trust t holds a role of the reconciled binding for e that
\* requests the policy of the copy, or has lost it after it was written.
BackedAt(i, e, t) ==
  LET r == role[i][t][RoleName(key, e)]
  IN  /\ r # None => r.policy = obj.policy
      /\ r = None => <<i, t, e>> \in lost

Backed(e, t) == t \in Trusts /\ \E i \in InstancesOf[t] : BackedAt(i, e, t)

\* What the loop has gathered so far.
GatheredInv ==
  /\ Listed(acc.roles) \cup todo = obj.refs
  /\ acc.allReady => \A e \in Listed(acc.roles) : acc.roles[e].ready
  /\ \A e \in Entities : acc.roles[e].ready => Backed(e, acc.roles[e].path)

EarnedInv ==
  /\ \A t \in Trusts : trustInst[t] \in InstancesOf[t]
  /\ pc \in {"idle", "finalize"} => acc = NothingGathered
  /\ pc = "finalize" => todo = obj.refs
  /\ pc \in LiveCalls => GatheredInv
  /\ pc \in LoopCalls => cur.e \in todo
  /\ pc \in {"policy", "role"} => cur.i \in InstancesOf[cur.t]
  /\ pc \in LiveCalls \cup {"finalize"} =>
       /\ obj.status.name = obj.policy
       /\ fresh => obj.refs = binding[key].refs /\ obj.policy = binding[key].policy

\* Nothing is gathered before the loop.
LEMMA NothingEarned ==
  ASSUME acc = NothingGathered, todo = obj.refs
  PROVE  GatheredInv
  BY DEF NothingGathered, NoRoles, GatheredInv, Listed

\* What happens to the roles while a reconcile runs: they are written for the
\* policy of the copy, and one that was reported ready is not lost unrecorded.
RolesKept ==
  /\ lost \subseteq lost'
  /\ \A i \in Instances, t \in Trusts, n \in RoleNames :
       role'[i][t][n] # None /\ role'[i][t][n] # role[i][t][n] =>
         role'[i][t][n].policy = obj.policy
  /\ \A i \in Instances, t \in Trusts, e \in Entities :
       /\ acc.roles[e].ready /\ acc.roles[e].path = t
       /\ role[i][t][RoleName(key, e)] # None /\ role'[i][t][RoleName(key, e)] = None
       => <<i, t, e>> \in lost'

LEMMA BackedKept ==
  ASSUME TypeInv, GatheredInv, pc \in LiveCalls, RolesKept,
         key' = key, obj'.policy = obj.policy,
         NEW e \in Entities, acc.roles[e].ready
  PROVE  Backed(e, acc.roles[e].path) /\ (\E t : t = acc.roles[e].path /\ Backed(e, t)')
  <1>1. PICK t : t = acc.roles[e].path
    OBVIOUS
  <1>2. t \in Trusts /\ Backed(e, t)
    BY <1>1 DEF GatheredInv, Backed
  <1>3. PICK i \in InstancesOf[t] : BackedAt(i, e, t)
    BY <1>2 DEF Backed
  <1>4. i \in Instances
    BY <1>2, <1>3, ReferencesAssumption
  <1> DEFINE n == RoleName(key, e)
  <1>5. n \in RoleNames
    BY DEF RoleName, RoleNames, TypeInv, WorkerTyped, LiveCalls, LoopCalls
  <1>6. RoleName(key', e) = n
    OBVIOUS
  <1>7. /\ role[i][t][n] # None => role[i][t][n].policy = obj.policy
        /\ role[i][t][n] = None => <<i, t, e>> \in lost
    BY <1>3 DEF BackedAt
  <1>8. role[i][t][n] # None /\ role'[i][t][n] = None => <<i, t, e>> \in lost'
    BY <1>1, <1>2, <1>4 DEF RolesKept
  <1>9. role'[i][t][n] # None => role'[i][t][n].policy = obj.policy
    BY <1>2, <1>4, <1>5, <1>7 DEF RolesKept
  <1>10. role'[i][t][n] = None => <<i, t, e>> \in lost'
    BY <1>7, <1>8 DEF RolesKept
  <1> HIDE DEF n
  <1>11. BackedAt(i, e, t)'
    BY <1>6, <1>9, <1>10 DEF BackedAt
  <1> QED
    BY <1>1, <1>2, <1>3, <1>11 DEF Backed

\* What was gathered stays true on such a step.
LEMMA GatheredKept ==
  ASSUME TypeInv, GatheredInv, pc \in LiveCalls, RolesKept, UNCHANGED <<key, todo>>,
         acc'.roles = acc.roles, acc'.allReady => acc.allReady,
         obj'.refs = obj.refs /\ obj'.policy = obj.policy
  PROVE  GatheredInv'
  <1>1. ASSUME NEW e \in Entities, acc'.roles[e].ready
        PROVE  Backed(e, acc.roles[e].path)'
    <2>1. PICK t : t = acc.roles[e].path /\ Backed(e, t)'
      BY <1>1, BackedKept
    <2>2. acc'.roles[e].path = t
      BY <2>1
    <2> QED
      BY <2>1, <2>2 DEF Backed, BackedAt
  <1> QED
    BY <1>1 DEF GatheredInv

LEMMA GatherEarned ==
  ASSUME TypeInv, EarnedInv, pc \in LiveCalls,
         NEW e \in Entities, e \in todo, NEW path \in Trusts \cup {None},
         NEW r \in BOOLEAN, Gather(e, path, r), r => Backed(e, path)',
         UNCHANGED <<binding, envVars, key, obj, fresh>>, RolesKept
  PROVE  EarnedInv'
  <1> DEFINE entry == [listed |-> TRUE, path |-> path, ready |-> r]
  <1>0. acc.roles \in [Entities -> RoleStatus] /\ GatheredInv
    BY DEF TypeInv, TypeOK, Gathered, EarnedInv
  <1>1. acc' = [acc EXCEPT !.roles[e] = entry, !.allReady = @ /\ r]
        /\ todo' = todo \ {e} /\ pc' = "refs"
    BY DEF Gather
  <1>2. /\ acc'.roles = [acc.roles EXCEPT ![e] = entry]
        /\ acc'.allReady = (acc.allReady /\ r)
    BY <1>1 DEF TypeInv, TypeOK, Gathered
  <1>3. acc'.roles[e] = entry /\ \A d \in Entities \ {e} : acc'.roles[d] = acc.roles[d]
    BY <1>0, <1>2
  <1>4. Listed(acc'.roles) = Listed(acc.roles) \cup {e}
    BY <1>3 DEF Listed
  <1>5. Listed(acc'.roles) \cup todo' = obj'.refs
    BY <1>0, <1>1, <1>4 DEF GatheredInv
  <1>6. acc'.allReady => \A d \in Listed(acc'.roles) : acc'.roles[d].ready
    <2> SUFFICES ASSUME acc'.allReady, NEW d \in Listed(acc'.roles)
                 PROVE  acc'.roles[d].ready
      OBVIOUS
    <2>1. acc.allReady /\ r
      BY <1>2, Zenon
    <2> QED
      BY <1>0, <1>3, <1>4, <2>1 DEF GatheredInv, Listed
  <1>8. \A d \in Entities : acc'.roles[d].ready => Backed(d, acc.roles[d].path)'
    <2> SUFFICES ASSUME NEW d \in Entities, acc'.roles[d].ready
                 PROVE  Backed(d, acc.roles[d].path)'
      OBVIOUS
    <2>1. CASE d = e
      <3>1. acc'.roles[d].path = path /\ r
        BY <1>3, <2>1
      <3> QED
        BY <2>1, <3>1 DEF Backed, BackedAt
    <2>2. CASE d # e
      <3>1. acc'.roles[d] = acc.roles[d]
        BY <1>3, <2>2
      <3>2. PICK t : t = acc.roles[d].path /\ Backed(d, t)'
        BY <1>0, <3>1, BackedKept
      <3>3. acc'.roles[d].path = t
        BY <3>1, <3>2
      <3> QED
        BY <3>2, <3>3 DEF Backed, BackedAt
    <2> QED BY <2>1, <2>2
  <1>9. GatheredInv'
    BY <1>5, <1>6, <1>8 DEF GatheredInv
  <1> QED
    BY <1>1, <1>9 DEF EarnedInv, envVars, LiveCalls, LoopCalls

LEMMA EarnedIdle ==
  ASSUME EarnedInv, Idle, UNCHANGED trustInst
  PROVE  EarnedInv'
  BY DEF Idle, EarnedInv, LiveCalls, LoopCalls

LEMMA EarnedWorker == TypeInv /\ EarnedInv /\ Worker => EarnedInv'
  <1> SUFFICES ASSUME TypeInv, EarnedInv, Worker PROVE EarnedInv'
    OBVIOUS
  <1> USE DEF LiveCalls, LoopCalls
  <1>0. obj \in Object /\ acc \in Gathered /\ cur \in Current
        /\ binding \in [Bindings -> Object] /\ role \in RoleType
    BY DEF TypeInv, TypeOK, RoleType
  <1>1. ASSUME NEW b \in Bindings, Fetch(b) PROVE EarnedInv'
    <2>1. /\ obj'.refs = binding[b].refs /\ obj'.policy = binding[b].policy
          /\ obj'.status.name = obj'.policy
      BY <1>1, Fetched
    <2>2. acc' = NothingGathered /\ UNCHANGED <<binding, trustInst>> /\ key' = b
      BY <1>1 DEF Fetch, EarnedInv, envVars
    <2>3. pc' # "delete" => todo' = obj'.refs
      BY <1>1, <2>1 DEF Fetch
    <2>4. pc' # "delete" => GatheredInv'
      BY <2>2, <2>3 DEF NothingGathered, NoRoles, GatheredInv, Listed
    <2> QED
      BY <1>1, <2>1, <2>2, <2>3, <2>4 DEF Fetch, EarnedInv
  <1>2. CASE AddFinalizer
    <2>1. CASE Idle
      BY <1>2, <2>1, EarnedIdle DEF AddFinalizer, envVars
    <2>2. CASE ~Idle
      <3>1. /\ pc' = "refs" /\ UNCHANGED <<key, fresh, todo, acc, trustInst>>
            /\ obj' = [obj EXCEPT !.finalizer = TRUE]
            /\ binding' = [binding EXCEPT ![key].finalizer = TRUE]
            /\ pc = "finalize" /\ key \in Bindings
        BY <1>2, <2>2 DEF AddFinalizer, envVars, TypeInv, WorkerTyped
      <3>2. obj'.refs = obj.refs /\ obj'.policy = obj.policy /\ obj'.status = obj.status
        BY <1>0, <3>1 DEF Object
      <3>3. binding'[key].refs = binding[key].refs /\ binding'[key].policy = binding[key].policy
        BY <1>0, <3>1 DEF Object
      <3>4. GatheredInv'
        BY <3>1, <3>2 DEF EarnedInv, NothingGathered, NoRoles, GatheredInv, Listed
      <3> QED
        BY <3>1, <3>2, <3>3, <3>4 DEF EarnedInv
    <2> QED BY <2>1, <2>2
  <1>3. ASSUME NEW e \in Entities, ResolveEntity(e) PROVE EarnedInv'
    <2>1. CASE Gather(e, None, FALSE)
      BY <1>3, <2>1, GatherEarned DEF ResolveEntity, RolesKept
    <2>2. CASE ~Gather(e, None, FALSE)
      <3>1. /\ UNCHANGED <<binding, trustInst, role, key, obj, fresh, todo, acc, lost>>
            /\ pc = "refs" /\ pc' = "trust" /\ e \in todo
            /\ cur' = [NoCurrent EXCEPT !.e = e, !.subject = entity[e].subject,
                                        !.t = entity[e].trust]
        BY <1>3, <2>2 DEF ResolveEntity, envVars
      <3>2. cur'.e = e
        BY <3>1 DEF NoCurrent
      <3>3. GatheredInv'
        BY <3>1, GatheredKept DEF EarnedInv, RolesKept
      <3> QED
        BY <3>1, <3>2, <3>3 DEF EarnedInv
    <2> QED BY <2>1, <2>2
  <1>4. CASE ResolveTrust
    <2>0. PICK e \in Entities, t \in Trusts : e = cur.e /\ t = cur.t /\ e \in todo
      BY <1>4 DEF ResolveTrust, TypeInv, WorkerTyped, EarnedInv
    <2>1. CASE Gather(e, None, FALSE) \/ Gather(e, t, FALSE)
      BY <1>4, <2>0, <2>1, GatherEarned DEF ResolveTrust, RolesKept
    <2>2. CASE ~(Gather(e, None, FALSE) \/ Gather(e, t, FALSE))
      <3>1. /\ UNCHANGED <<binding, trustInst, role, key, obj, fresh, todo, acc, lost>>
            /\ pc = "trust" /\ pc' = "policy" /\ cur' = [cur EXCEPT !.i = trustInst[t]]
        BY <1>4, <2>0, <2>2 DEF ResolveTrust, envVars
      <3>2. cur'.e = e /\ cur'.t = t /\ cur'.i = trustInst[t]
        BY <1>0, <2>0, <3>1 DEF Current
      <3>3. GatheredInv'
        BY <3>1, GatheredKept DEF EarnedInv, RolesKept
      <3> QED
        BY <2>0, <3>1, <3>2, <3>3 DEF EarnedInv
    <2> QED BY <2>1, <2>2
  <1>5. CASE CheckPolicy
    <2>1. \E ok : cur' = cur \/ cur' = [cur EXCEPT !.ok = ok]
      BY <1>5 DEF CheckPolicy
    <2>2. cur'.e = cur.e /\ cur'.t = cur.t /\ cur'.i = cur.i
      BY <1>0, <2>1 DEF Current
    <2> DEFINE there == obj.policy \in policyIn[cur.i]
    <2>3. acc'.roles = acc.roles /\ (acc'.allReady => acc.allReady)
      <3>1. CASE acc' = [acc EXCEPT !.checked = TRUE, !.exists = @ /\ there,
                                    !.allReady = @ /\ there]
        <4>1. acc'.roles = acc.roles
          BY <1>0, <3>1 DEF Gathered
        <4>2. acc'.allReady = (acc.allReady /\ there)
          BY <1>0, <3>1 DEF Gathered
        <4> QED BY <4>1, <4>2, Zenon
      <3>2. CASE acc' = [acc EXCEPT !.checked = TRUE, !.known = FALSE]
        BY <1>0, <3>2 DEF Gathered
      <3>3. CASE acc' = [acc EXCEPT !.checked = TRUE, !.known = FALSE, !.allReady = FALSE]
        BY <1>0, <3>3 DEF Gathered
      <3> QED
        BY <1>5, <3>1, <3>2, <3>3 DEF CheckPolicy
    <2>4. UNCHANGED <<binding, trustInst, role, key, obj, fresh, todo, lost>>
          /\ pc = "policy" /\ pc' = "role"
      BY <1>5 DEF CheckPolicy, envVars
    <2>5. GatheredInv'
      BY <2>3, <2>4, GatheredKept DEF EarnedInv, RolesKept
    <2> QED
      BY <2>2, <2>4, <2>5 DEF EarnedInv
  <1>6. CASE EnsureRole
    <2>0. PICK e \in Entities, t \in Trusts, i \in Instances, b \in Bindings :
            e = cur.e /\ t = cur.t /\ i = cur.i /\ b = key
      BY <1>6 DEF EnsureRole, TypeInv, WorkerTyped
    <2>1. e \in todo /\ i \in InstancesOf[t] /\ pc = "role"
      BY <1>6, <2>0 DEF EnsureRole, EarnedInv
    <2>2. UNCHANGED <<binding, envVars, key, obj, fresh, lost>>
      BY <1>6 DEF EnsureRole
    <2> DEFINE n == RoleName(b, e)
               x == [subject |-> cur.subject, policy |-> obj.policy]
    <2>3. n \in RoleNames /\ x.policy = obj.policy /\ x # None
      <3>1. x \in [subject : Subjects, policy : Policies]
        BY <2>1 DEF TypeInv, WorkerTyped
      <3> QED
        BY <3>1, NamesAssumption DEF RoleName, RoleNames
    <2>4. WriteRole => role' = [role EXCEPT ![i][t][n] = x]
      BY <2>0 DEF WriteRole
    <2>5. WriteRole \/ role' = role
      BY <1>6 DEF EnsureRole
    <2>6. RoleName(key, e)' = n
      BY <2>0, <2>2
    <2> HIDE DEF n, x
    <2>7. RolesKept
      <3>1. ASSUME NEW j \in Instances, NEW u \in Trusts, NEW m \in RoleNames
            PROVE  role'[j][u][m] \in {role[j][u][m], x}
        <4>1. CASE role' = [role EXCEPT ![i][t][n] = x]
          BY <1>0, <2>3, <4>1 DEF RoleType
        <4> QED
          BY <2>4, <2>5, <4>1
      <3>2. \A d \in Entities : RoleName(key, d) \in RoleNames
        BY <2>0 DEF RoleName, RoleNames
      <3> QED
        BY <2>2, <2>3, <3>1, <3>2 DEF RolesKept
    <2>8. WriteRole => Backed(e, t)'
      <3> SUFFICES ASSUME WriteRole PROVE Backed(e, t)'
        OBVIOUS
      <3>1. role'[i][t][n] = x
        BY <1>0, <2>3, <2>4 DEF RoleType
      <3> QED
        BY <2>1, <2>2, <2>3, <2>6, <3>1 DEF Backed, BackedAt
    <2>9. PICK r \in BOOLEAN : Gather(e, t, r) /\ (r => WriteRole)
      <3>1. cur.ok \in BOOLEAN
        BY <1>0 DEF Current
      <3> QED
        BY <1>6, <2>0, <3>1, Zenon DEF EnsureRole
    <2> QED
      BY <2>1, <2>2, <2>7, <2>8, <2>9, GatherEarned
  <1>7. CASE UpdateStatus \/ Release \/ Abandon
    BY <1>7, EarnedIdle DEF UpdateStatus, Release, Abandon, envVars
  <1>8. ASSUME NEW e \in Entities, FindRole(e) PROVE EarnedInv'
    BY <1>8 DEF FindRole, EarnedInv, envVars
  <1>9. CASE RemoveRole
    <2>1. CASE Idle
      BY <1>9, <2>1, EarnedIdle DEF RemoveRole, envVars
    <2>2. CASE ~Idle
      BY <1>9, <2>2 DEF RemoveRole, EarnedInv, envVars
    <2> QED BY <2>1, <2>2
  <1> QED
    BY <1>1, <1>2, <1>3, <1>4, <1>5, <1>6, <1>7, <1>8, <1>9 DEF Worker

\* Users make the copy stale, the others only take roles away.
LEMMA EarnedNext == TypeInv /\ EarnedInv /\ [Next]_vars => EarnedInv'
  <1> SUFFICES ASSUME TypeInv, EarnedInv, [Next]_vars PROVE EarnedInv'
    OBVIOUS
  <1> USE DEF LiveCalls, LoopCalls
  <1>1. CASE Worker
    BY <1>1, EarnedWorker
  <1>2. CASE User
    <2>1. PICK b \in Bindings, o \in Object :
            binding' = [binding EXCEPT ![b] = o] /\ Touch(b)
      BY <1>2, UserEffect
    <2>2. /\ UNCHANGED <<trustInst, role, pc, key, obj, todo, cur, acc, lost>>
          /\ fresh' => fresh /\ key # b
      BY <2>1 DEF Touch, envVars
    <2>3. pc \in LiveCalls => GatheredInv'
      BY <2>2 DEF EarnedInv, GatheredInv, Backed, BackedAt
    <2>4. fresh' /\ pc # "idle" => binding'[key] = binding[key]
      BY <2>1, <2>2 DEF TypeInv, TypeOK, WorkerTyped
    <2> QED
      BY <2>2, <2>3, <2>4 DEF EarnedInv
  <1>3. CASE Environment
    <2>1. UNCHANGED <<binding, pc, key, obj, fresh, todo, cur, acc>>
      BY <1>3, EnvironmentEffect DEF workerVars
    <2>2. \A t \in Trusts : trustInst'[t] \in InstancesOf[t]
      BY <1>3 DEF Environment, SetEntity, SetTrust, RemoveMount, SetPolicy,
         SetReachable, envVars, EarnedInv, TypeInv, TypeOK
    <2>3. pc \in LiveCalls => GatheredInv'
      <3>1. RolesKept
        BY <1>3, <2>1, RolesLost, LossRecorded DEF RolesKept
      <3> QED
        BY <2>1, <3>1, GatheredKept DEF EarnedInv
    <2> QED
      BY <2>1, <2>2, <2>3 DEF EarnedInv
  <1>4. CASE UNCHANGED vars
    <2>1. UNCHANGED <<binding, trustInst, role, pc, key, obj, fresh, todo, cur, acc, lost>>
      BY <1>4 DEF vars, envVars, workerVars
    <2>2. pc \in LiveCalls => GatheredInv'
      BY <2>1 DEF EarnedInv, GatheredInv, Backed, BackedAt
    <2> QED
      BY <2>1, <2>2 DEF EarnedInv
  <1> QED
    BY <1>1, <1>2, <1>3, <1>4 DEF Next

LEMMA EarnedInvariant == Spec => []EarnedInv
  <1>1. Init => EarnedInv
    BY DEF Init, EarnedInv, LiveCalls, LoopCalls
  <1> QED
    BY <1>1, EarnedNext, TypeInvariant, PTL DEF Spec

\* Whatever users, trusts, instances and policies do while a reconcile runs: a
\* binding turns ready only for the spec it has at that moment, with a ready
\* entry for each reference and a role behind it that asks for the policy of that
\* spec, or that went with its mount after the reconcile had written it.
THEOREM ReadyEarned == Spec => ReadyIsEarned
  <1> DEFINE Earned(b) ==
        LET s == binding'[b].status
        IN  /\ {e \in Entities : s.roles[e].listed} = binding'[b].refs
            /\ s.name = binding'[b].policy /\ s.policy # "False"
            /\ \A e \in binding'[b].refs :
                 LET t == s.roles[e].path
                 IN  /\ s.roles[e].ready /\ t # None
                     /\ \E i \in InstancesOf[t] :
                          LET r == role[i][t][RoleName(b, e)]
                          IN  /\ r # None => r.policy = s.name
                              /\ r = None => <<i, t, e>> \in lost
  <1>1. ASSUME TypeInv, EarnedInv, Next, NEW b \in Bindings,
               ~binding[b].status.ready, binding'[b].status.ready
        PROVE  Earned(b)
    <2>0. binding \in [Bindings -> Object] /\ acc \in Gathered /\ obj \in Object
      BY <1>1 DEF TypeInv, TypeOK
    <2>1. CASE UpdateStatus /\ key = b
      <3>1. /\ binding' = [binding EXCEPT ![b].status = Summary]
            /\ pc = "refs" /\ todo = {} /\ fresh
        BY <2>1 DEF UpdateStatus
      <3>2. /\ binding'[b].status = Summary /\ binding'[b].refs = binding[b].refs
            /\ binding'[b].policy = binding[b].policy
        BY <2>0, <3>1 DEF Object
      <3>3. /\ GatheredInv /\ obj.status.name = obj.policy
            /\ obj.refs = binding[b].refs /\ obj.policy = binding[b].policy
        BY <1>1, <2>1, <3>1 DEF EarnedInv, LiveCalls
      <3> DEFINE s == Summary
      <3>4. s.roles = acc.roles /\ s.name = obj.status.name /\ s.policy = PolicyExistence
            /\ s.ready = (acc.exists /\ acc.allReady)
        BY DEF Summary
      <3>5. acc.exists /\ acc.allReady
        <4>1. s.ready
          BY <1>1, <3>2
        <4> QED
          BY <3>4, <4>1, Zenon
      <3>6. s.policy # "False"
        BY <3>4, <3>5 DEF PolicyExistence
      <3>7. Listed(acc.roles) = binding[b].refs
        BY <3>1, <3>3 DEF GatheredInv
      <3>8. ASSUME NEW e \in Listed(acc.roles)
            PROVE  /\ acc.roles[e].ready /\ acc.roles[e].path # None
                   /\ \E i \in InstancesOf[acc.roles[e].path] :
                        LET r == role[i][acc.roles[e].path][RoleName(b, e)]
                        IN  /\ r # None => r.policy = obj.policy
                            /\ r = None => <<i, acc.roles[e].path, e>> \in lost
        <4>1. e \in Entities /\ acc.roles[e].ready
          BY <3>3, <3>5, <3>8 DEF GatheredInv, Listed
        <4>2. Backed(e, acc.roles[e].path)
          BY <3>3, <4>1 DEF GatheredInv
        <4> QED
          BY <2>1, <4>1, <4>2, NamesAssumption DEF Backed, BackedAt
      <3> HIDE DEF s
      <3>9. {e \in Entities : s.roles[e].listed} = binding[b].refs
        BY <3>4, <3>7 DEF Listed
      <3>10. ASSUME NEW e \in binding[b].refs
             PROVE  LET t == s.roles[e].path
                    IN  /\ s.roles[e].ready /\ t # None
                        /\ \E i \in InstancesOf[t] :
                             LET r == role[i][t][RoleName(b, e)]
                             IN  /\ r # None => r.policy = s.name
                                 /\ r = None => <<i, t, e>> \in lost
        <4>1. s.roles[e] = acc.roles[e] /\ s.name = obj.policy
          BY <3>3, <3>4
        <4>2. e \in Listed(acc.roles)
          BY <3>7
        <4> QED
          BY <3>8, <4>1, <4>2
      <3>11. binding'[b].status = s
        BY <3>2 DEF s
      <3>12. s.name = binding'[b].policy /\ binding'[b].refs = binding[b].refs
        BY <3>2, <3>3, <3>4
      <3> QED
        BY <3>6, <3>9, <3>10, <3>11, <3>12
    <2>2. CASE Worker /\ ~(UpdateStatus /\ key = b)
      <3>1. ASSUME AddFinalizer PROVE binding'[b].status = binding[b].status
        <4>1. binding' = [binding EXCEPT ![key].finalizer = TRUE]
          BY <3>1 DEF AddFinalizer
        <4> QED
          BY <2>0, <4>1 DEF Object
      <3>2. ASSUME Release
            PROVE  binding'[b] = binding[b] \/ ~binding'[b].status.ready
        BY <2>0, <3>2 DEF Release, NoObject, NoStatus
      <3>3. ASSUME UpdateStatus PROVE binding'[b] = binding[b]
        BY <2>0, <2>2, <3>3 DEF UpdateStatus
      <3> QED
        BY <1>1, <2>2, <3>1, <3>2, <3>3
        DEF Worker, Fetch, ResolveEntity, FindRole, ResolveTrust, CheckPolicy,
            EnsureRole, RemoveRole, Abandon
    <2>3. CASE User
      <3>1. PICK c \in Bindings, o \in Object :
              binding' = [binding EXCEPT ![c] = o] /\ UserWrites(c, o)
        BY <1>1, <2>3, UserEffect
      <3>2. o.status = binding[c].status \/ ~o.status.ready
        BY <3>1 DEF UserWrites, NoObject, NoStatus
      <3> QED
        BY <1>1, <2>0, <3>1, <3>2
    <2>4. CASE Environment
      BY <1>1, <2>4, EnvironmentEffect
    <2> QED
      BY <1>1, <2>1, <2>2, <2>3, <2>4 DEF Next
  <1>2. TypeInv /\ EarnedInv /\ [Next]_vars =>
          [\A b \in Bindings :
             ~binding[b].status.ready /\ binding'[b].status.ready => Earned(b)]_vars
    BY <1>1
  <1> QED
    BY <1>2, TypeInvariant, EarnedInvariant, PTL DEF Spec, ReadyIsEarned

-----------------------------------------------------------------------------
(***************************************************************************)
(* The policy is not falsely claimed.                                      *)
(***************************************************************************)

OneInstanceEach == \A t \in Trusts : \A i, j \in InstancesOf[t] : i = j

HasPolicy(t) == \A i \in InstancesOf[t] : obj.policy \in policyIn[i]

\* As long as every answer so far was "exists", the policy is in the instance of
\* each role recorded as ready, and of the one to be written.
ClaimInv ==
  /\ PolicyNotFalselyClaimed
  /\ pc \in LiveCalls /\ acc.known /\ acc.exists =>
       /\ \A e \in Entities : acc.roles[e].ready => HasPolicy(acc.roles[e].path)
       /\ pc = "role" => obj.policy \in policyIn[cur.i]

\* What was claimed stays true when policies are only created.
LEMMA ClaimsKept ==
  ASSUME TypeInv, ClaimInv, \A i \in Instances : policyIn[i] \subseteq policyIn'[i],
         NEW b \in Bindings, binding'[b].status = binding[b].status,
         binding'[b].status.policy = "True",
         NEW e \in Recorded(binding[b].status), binding[b].status.roles[e].ready,
         NEW i \in InstancesOf[binding[b].status.roles[e].path]
  PROVE  binding'[b].status.name \in policyIn'[i]
  <1>1. binding[b].status \in Status
    BY DEF TypeInv, TypeOK, Object
  <1>2. e \in Entities /\ binding[b].status.roles[e].path \in Trusts
    BY <1>1 DEF Recorded, Status, RoleStatus
  <1>3. i \in Instances
    BY <1>2, ReferencesAssumption
  <1>4. binding[b].status.name \in policyIn[i]
    BY DEF ClaimInv, PolicyNotFalselyClaimed
  <1> QED
    BY <1>3, <1>4

LEMMA ClaimGathered ==
  ASSUME TypeInv, ClaimInv, pc \in LiveCalls,
         NEW e \in Entities, NEW path \in Trusts \cup {None}, NEW r \in BOOLEAN,
         Gather(e, path, r), UNCHANGED <<binding, envVars, key, obj, fresh>>,
         r /\ acc.known /\ acc.exists => HasPolicy(path)
  PROVE  ClaimInv'
  <1> DEFINE entry == [listed |-> TRUE, path |-> path, ready |-> r]
  <1>1. acc' = [acc EXCEPT !.roles[e] = entry, !.allReady = @ /\ r] /\ pc' = "refs"
    BY DEF Gather
  <1>2. /\ acc'.roles = [acc.roles EXCEPT ![e] = entry]
        /\ acc'.known = acc.known /\ acc'.exists = acc.exists
        /\ acc.roles \in [Entities -> RoleStatus]
    BY <1>1 DEF TypeInv, TypeOK, Gathered
  <1>3. acc'.roles[e] = entry /\ \A d \in Entities \ {e} : acc'.roles[d] = acc.roles[d]
    BY <1>2
  <1>4. ASSUME acc'.known, acc'.exists, NEW d \in Entities, acc'.roles[d].ready
        PROVE  HasPolicy(acc'.roles[d].path)
    <2>1. acc.known /\ acc.exists
      BY <1>2, <1>4
    <2>2. CASE d = e
      <3>1. acc'.roles[d].path = path /\ r
        BY <1>3, <1>4, <2>2
      <3> QED BY <2>1, <3>1
    <2>3. CASE d # e
      BY <1>3, <1>4, <2>1, <2>3 DEF ClaimInv
    <2> QED BY <2>2, <2>3
  <1>5. PolicyNotFalselyClaimed'
    BY DEF ClaimInv, PolicyNotFalselyClaimed, Recorded, envVars
  <1>6. ASSUME NEW t PROVE HasPolicy(t) => HasPolicy(t)'
    BY DEF HasPolicy, envVars
  <1>7. \A d \in Entities : acc'.known /\ acc'.exists /\ acc'.roles[d].ready =>
          HasPolicy(acc.roles[d].path)'
    BY <1>4, <1>6 DEF HasPolicy, envVars
  <1> QED
    BY <1>1, <1>5, <1>7 DEF ClaimInv

LEMMA ClaimWorker ==
  ASSUME OneInstanceEach, TypeInv, EarnedInv, ClaimInv, Worker
  PROVE  ClaimInv'
  <1> USE DEF LiveCalls, LoopCalls
  <1>0. obj \in Object /\ acc \in Gathered /\ cur \in Current /\ policyIn' = policyIn
        /\ binding \in [Bindings -> Object] /\ acc.roles \in [Entities -> RoleStatus]
    BY DEF TypeInv, TypeOK, Gathered, Worker, Fetch, AddFinalizer, ResolveEntity,
       FindRole, ResolveTrust, CheckPolicy, EnsureRole, UpdateStatus, RemoveRole,
       Release, Abandon, envVars
  <1>a. ASSUME \A b \in Bindings : binding'[b].status = binding[b].status
        PROVE  PolicyNotFalselyClaimed'
    BY <1>0, <1>a DEF ClaimInv, PolicyNotFalselyClaimed, Recorded
  <1>b. ASSUME acc' = NothingGathered, pc' # "role" PROVE
          (pc \in LiveCalls /\ acc.known /\ acc.exists =>
             /\ \A e \in Entities : acc.roles[e].ready => HasPolicy(acc.roles[e].path)
             /\ pc = "role" => obj.policy \in policyIn[cur.i])'
    BY <1>b DEF NothingGathered, NoRoles
  <1>1. ASSUME NEW b \in Bindings, Fetch(b) PROVE ClaimInv'
    <2>1. acc' = NothingGathered /\ binding' = binding /\ pc' # "role"
      BY <1>1 DEF Fetch, EarnedInv
    <2> QED
      BY <1>a, <1>b, <2>1 DEF ClaimInv
  <1>2. CASE AddFinalizer
    <2>1. \A b \in Bindings : binding'[b].status = binding[b].status
      BY <1>0, <1>2 DEF AddFinalizer, TypeInv, WorkerTyped, Object
    <2>2. acc' = NothingGathered /\ pc' # "role"
      BY <1>2 DEF AddFinalizer, Idle, EarnedInv
    <2> QED
      BY <1>a, <1>b, <2>1, <2>2 DEF ClaimInv
  <1>3. ASSUME NEW e \in Entities, ResolveEntity(e) PROVE ClaimInv'
    <2>1. CASE Gather(e, None, FALSE)
      BY <1>3, <2>1, ClaimGathered DEF ResolveEntity
    <2>2. CASE ~Gather(e, None, FALSE)
      <3>1. UNCHANGED <<binding, policyIn, obj, acc>> /\ pc = "refs" /\ pc' = "trust"
        BY <1>3, <2>2 DEF ResolveEntity, envVars
      <3> QED
        BY <1>a, <3>1 DEF ClaimInv, HasPolicy
    <2> QED BY <2>1, <2>2
  <1>4. CASE ResolveTrust
    <2>0. PICK e \in Entities, t \in Trusts : e = cur.e /\ t = cur.t
      BY <1>4 DEF ResolveTrust, TypeInv, WorkerTyped
    <2>1. CASE Gather(e, None, FALSE) \/ Gather(e, t, FALSE)
      BY <1>4, <2>0, <2>1, ClaimGathered DEF ResolveTrust
    <2>2. CASE ~(Gather(e, None, FALSE) \/ Gather(e, t, FALSE))
      <3>1. UNCHANGED <<binding, policyIn, obj, acc>> /\ pc = "trust" /\ pc' = "policy"
        BY <1>4, <2>0, <2>2 DEF ResolveTrust, envVars
      <3> QED
        BY <1>a, <3>1 DEF ClaimInv, HasPolicy
    <2> QED BY <2>1, <2>2
  <1>5. CASE CheckPolicy
    <2> DEFINE there == obj.policy \in policyIn[cur.i]
    <2>0. UNCHANGED <<binding, policyIn, obj>> /\ pc = "policy" /\ pc' = "role"
      BY <1>5 DEF CheckPolicy, envVars
    <2>1. CASE /\ acc' = [acc EXCEPT !.checked = TRUE, !.exists = @ /\ there,
                                     !.allReady = @ /\ there]
               /\ cur' = [cur EXCEPT !.ok = there]
      <3>1. acc'.roles = acc.roles /\ acc'.known = acc.known /\ cur'.i = cur.i
        BY <1>0, <2>1 DEF Gathered, Current
      <3>2. acc'.exists = (acc.exists /\ there)
        BY <1>0, <2>1 DEF Gathered
      <3>3. acc'.exists => acc.exists /\ there
        BY <3>2, Zenon
      <3> QED
        BY <1>a, <2>0, <3>1, <3>3 DEF ClaimInv, HasPolicy
    <2>2. CASE \/ acc' = [acc EXCEPT !.checked = TRUE, !.known = FALSE]
               \/ acc' = [acc EXCEPT !.checked = TRUE, !.known = FALSE, !.allReady = FALSE]
      <3>1. ~acc'.known
        BY <1>0, <2>2 DEF Gathered
      <3> QED
        BY <1>a, <2>0, <3>1 DEF ClaimInv
    <2> QED
      BY <1>5, <2>1, <2>2 DEF CheckPolicy
  <1>6. CASE EnsureRole
    <2>1. PICK e \in Entities, t \in Trusts, r \in BOOLEAN :
            t = cur.t /\ Gather(e, t, r)
      <3>1. cur.ok \in BOOLEAN
        BY <1>0 DEF Current
      <3> QED
        BY <1>6, <3>1 DEF EnsureRole, TypeInv, WorkerTyped
    <2>2. acc.known /\ acc.exists => HasPolicy(t)
      BY <1>6, <2>1 DEF EnsureRole, ClaimInv, EarnedInv, HasPolicy, OneInstanceEach
    <2> QED
      BY <1>6, <2>1, <2>2, ClaimGathered DEF EnsureRole
  <1>7. CASE UpdateStatus
    <2>1. /\ binding' = [binding EXCEPT ![key].status = Summary] /\ key \in Bindings
          /\ pc = "refs" /\ pc' = "idle"
      BY <1>7 DEF UpdateStatus, Idle, TypeInv, WorkerTyped
    <2>2. /\ binding'[key].status = Summary
          /\ \A b \in Bindings \ {key} : binding'[b] = binding[b]
      BY <1>0, <2>1 DEF Object
    <2>3. ASSUME Summary.policy = "True", NEW e \in Recorded(Summary),
                 Summary.roles[e].ready, NEW i \in InstancesOf[Summary.roles[e].path]
          PROVE  Summary.name \in policyIn[i]
      <3>1. acc.known /\ acc.exists
        BY <2>3 DEF Summary, PolicyExistence
      <3>2. Summary.roles = acc.roles /\ Summary.name = obj.policy
        BY <2>1 DEF Summary, EarnedInv
      <3>3. HasPolicy(acc.roles[e].path)
        BY <2>1, <2>3, <3>1, <3>2 DEF ClaimInv, Recorded
      <3> QED
        BY <2>3, <3>2, <3>3 DEF HasPolicy
    <2>4. PolicyNotFalselyClaimed'
      <3> SUFFICES ASSUME NEW b \in Bindings, binding'[b].status.policy = "True",
                          NEW e \in Recorded(binding'[b].status),
                          binding'[b].status.roles[e].ready,
                          NEW i \in InstancesOf[binding'[b].status.roles[e].path]
                   PROVE  binding'[b].status.name \in policyIn'[i]
        BY DEF PolicyNotFalselyClaimed, Recorded
      <3>1. CASE b = key
        BY <1>0, <2>2, <2>3, <3>1
      <3>2. CASE b # key
        BY <1>0, <2>2, <3>2 DEF ClaimInv, PolicyNotFalselyClaimed
      <3> QED BY <3>1, <3>2
    <2> QED
      BY <2>1, <2>4 DEF ClaimInv
  <1>8. ASSUME NEW e \in Entities, FindRole(e) PROVE ClaimInv'
    BY <1>8, <1>a DEF FindRole, ClaimInv
  <1>9. CASE RemoveRole \/ Abandon
    BY <1>9, <1>a DEF RemoveRole, Abandon, Idle, ClaimInv
  <1>10. CASE Release
    <2>1. binding' = [binding EXCEPT ![key] = NoObject] /\ pc' = "idle"
      BY <1>10 DEF Release, Idle
    <2>2. NoObject.status.policy # "True"
      BY DEF NoObject, NoStatus
    <2>3. \A b \in Bindings : binding'[b] = binding[b] \/ binding'[b] = NoObject
      BY <1>0, <2>1
    <2> QED
      BY <1>0, <2>1, <2>2, <2>3 DEF ClaimInv, PolicyNotFalselyClaimed, Recorded
  <1> QED
    BY <1>1, <1>2, <1>3, <1>4, <1>5, <1>6, <1>7, <1>8, <1>9, <1>10 DEF Worker

LEMMA ClaimNext ==
  ASSUME OneInstanceEach, ~PoliciesVanish
  PROVE  TypeInv /\ EarnedInv /\ ClaimInv /\ [Next]_vars => ClaimInv'
  <1> SUFFICES ASSUME TypeInv, EarnedInv, ClaimInv, [Next]_vars PROVE ClaimInv'
    OBVIOUS
  <1>1. CASE Worker
    BY <1>1, ClaimWorker
  <1>2. CASE User
    <2>1. PICK b \in Bindings, o \in Object :
            binding' = [binding EXCEPT ![b] = o] /\ UserWrites(b, o) /\ Touch(b)
      BY <1>2, UserEffect
    <2>2. UNCHANGED <<policyIn, pc, obj, acc, cur>>
      BY <2>1 DEF Touch, envVars
    <2>3. o.status = binding[b].status \/ o.status.policy # "True"
      BY <2>1 DEF UserWrites, NoObject, NoStatus
    <2>4. \A c \in Bindings : \/ binding'[c].status = binding[c].status
                              \/ binding'[c].status.policy # "True"
      BY <2>1, <2>3 DEF TypeInv, TypeOK
    <2>5. PolicyNotFalselyClaimed'
      BY <2>2, <2>4 DEF ClaimInv, PolicyNotFalselyClaimed, Recorded
    <2> QED
      BY <2>2, <2>5 DEF ClaimInv, HasPolicy
  <1>3. CASE Environment
    <2>1. UNCHANGED <<binding, pc, key, obj, todo, cur, acc>>
      BY <1>3, EnvironmentEffect DEF workerVars
    <2>2. \A i \in Instances : policyIn[i] \subseteq policyIn'[i]
      <3>1. ASSUME NEW j \in Instances, SetPolicy(j)
            PROVE  \A i \in Instances : policyIn[i] \subseteq policyIn'[i]
        <4>1. PICK p \in Policies : policyIn' = [policyIn EXCEPT ![j] = @ \cup {p}]
          BY <3>1 DEF SetPolicy
        <4> QED
          BY <4>1 DEF TypeInv, TypeOK
      <3>2. policyIn' = policyIn \/ \E j \in Instances : SetPolicy(j)
        BY <1>3 DEF Environment, SetEntity, SetTrust, RemoveMount, SetReachable, envVars
      <3> QED
        BY <3>1, <3>2
    <2>3. PolicyNotFalselyClaimed'
      BY <2>1, <2>2, ClaimsKept DEF PolicyNotFalselyClaimed, Recorded
    <2>4. ASSUME pc \in LiveCalls, acc.known, acc.exists
          PROVE  /\ \A e \in Entities : acc.roles[e].ready => HasPolicy(acc.roles[e].path)'
                 /\ pc = "role" => obj.policy \in policyIn'[cur.i]
      <3>1. ASSUME NEW e \in Entities, acc.roles[e].ready,
                   NEW i \in InstancesOf[acc.roles[e].path]
            PROVE  obj.policy \in policyIn'[i]
        <4>1. acc.roles[e].path \in Trusts
          BY <2>4, <3>1 DEF EarnedInv, GatheredInv, Backed
        <4>2. i \in Instances
          BY <3>1, <4>1, ReferencesAssumption
        <4> QED
          BY <2>2, <2>4, <3>1, <4>2 DEF ClaimInv, HasPolicy
      <3>2. pc = "role" => obj.policy \in policyIn'[cur.i]
        BY <2>2, <2>4 DEF ClaimInv, TypeInv, WorkerTyped
      <3> QED
        BY <2>1, <3>1, <3>2 DEF HasPolicy
    <2> QED
      BY <2>1, <2>3, <2>4 DEF ClaimInv
  <1>4. CASE UNCHANGED vars
    BY <1>4 DEF vars, envVars, workerVars, ClaimInv, PolicyNotFalselyClaimed, Recorded,
       HasPolicy
  <1> QED
    BY <1>1, <1>2, <1>3, <1>4 DEF Next

\* If each trust stays on one instance and policies are only created, a status
\* that says the policy exists is right for each role it reports as ready: "not
\* allowed to look" and an error never turn into "exists" on the way.
THEOREM PolicyClaimedTruly ==
  ASSUME OneInstanceEach, ~PoliciesVanish
  PROVE  Spec => []PolicyNotFalselyClaimed
  <1>1. Init => ClaimInv
    BY DEF Init, ClaimInv, PolicyNotFalselyClaimed, NoObject, NoStatus, LiveCalls, LoopCalls
  <1>2. TypeInv /\ EarnedInv /\ ClaimInv /\ [Next]_vars => ClaimInv'
    BY ClaimNext
  <1>3. ClaimInv => PolicyNotFalselyClaimed
    BY DEF ClaimInv
  <1> QED
    BY <1>1, <1>2, <1>3, TypeInvariant, EarnedInvariant, PTL DEF Spec

-----------------------------------------------------------------------------
(***************************************************************************)
(* PolicyBinding implements FinalizerProtocol.                             *)
(***************************************************************************)

\* Roles are written only for a binding that the API server holds on to, and
\* removed only for one that is being deleted: the copy may be stale, but a
\* binding with a finalizer does not go away under a running reconcile.
HeldInv ==
  /\ \A b \in Bindings : binding[b].phase = "deleting" => binding[b].finalizer
  /\ pc = "finalize" /\ fresh => binding[key].phase = "live"
  /\ pc \in LiveCalls => /\ binding[key].phase \in {"live", "deleting"}
                         /\ binding[key].finalizer
  /\ pc \in DeleteCalls => binding[key].phase = "deleting"

\* A step of the worker that leaves the bindings alone and goes on with the
\* same one, in the same branch.
LEMMA HeldKept ==
  ASSUME HeldInv, UNCHANGED <<binding, key>>,
         \/ pc \in LiveCalls /\ pc' \in LiveCalls
         \/ pc \in DeleteCalls /\ pc' \in DeleteCalls
  PROVE  HeldInv'
  BY DEF HeldInv, LiveCalls, LoopCalls, DeleteCalls

LEMMA HeldWorker == TypeInv /\ HeldInv /\ Worker => HeldInv'
  <1> SUFFICES ASSUME TypeInv, HeldInv, Worker PROVE HeldInv'
    OBVIOUS
  <1> USE DEF LiveCalls, LoopCalls, DeleteCalls
  <1>0. binding \in [Bindings -> Object]
    BY DEF TypeInv, TypeOK
  <1>1. ASSUME NEW b \in Bindings, Fetch(b) PROVE HeldInv'
    BY <1>0, <1>1 DEF Fetch, HeldInv, Object
  <1>2. CASE AddFinalizer
    <2>1. /\ binding' = [binding EXCEPT ![key].finalizer = TRUE]
          /\ key \in Bindings /\ binding[key].phase = "live"
      BY <1>2 DEF AddFinalizer, TypeInv, WorkerTyped, HeldInv
    <2>2. /\ binding'[key].finalizer /\ binding'[key].phase = "live"
          /\ \A b \in Bindings : /\ binding'[b].phase = binding[b].phase
                                 /\ binding[b].finalizer => binding'[b].finalizer
      BY <1>0, <2>1 DEF Object
    <2>3. Idle \/ (pc' = "refs" /\ key' = key)
      BY <1>2 DEF AddFinalizer
    <2> QED
      BY <2>2, <2>3 DEF Idle, HeldInv
  <1>3. ASSUME NEW e \in Entities, ResolveEntity(e) \/ FindRole(e) PROVE HeldInv'
    BY <1>3, HeldKept DEF ResolveEntity, FindRole, Gather
  <1>4. CASE ResolveTrust \/ CheckPolicy \/ EnsureRole
    BY <1>4, HeldKept DEF ResolveTrust, CheckPolicy, EnsureRole, Gather
  <1>5. CASE UpdateStatus
    <2>1. \A b \in Bindings : /\ binding'[b].phase = binding[b].phase
                              /\ binding'[b].finalizer = binding[b].finalizer
      BY <1>0, <1>5 DEF UpdateStatus, TypeInv, WorkerTyped, Object
    <2> QED
      BY <1>5, <2>1 DEF UpdateStatus, Idle, HeldInv
  <1>6. CASE RemoveRole
    BY <1>6, HeldKept DEF RemoveRole, Idle, HeldInv
  <1>7. CASE Release
    BY <1>0, <1>7 DEF Release, Idle, HeldInv, NoObject
  <1>8. CASE Abandon
    BY <1>8 DEF Abandon, Idle, HeldInv
  <1> QED
    BY <1>1, <1>2, <1>3, <1>4, <1>5, <1>6, <1>7, <1>8 DEF Worker

LEMMA HeldNext == TypeInv /\ HeldInv /\ [Next]_vars => HeldInv'
  <1> SUFFICES ASSUME TypeInv, HeldInv, [Next]_vars PROVE HeldInv'
    OBVIOUS
  <1>1. CASE Worker
    BY <1>1, HeldWorker
  <1>2. CASE User
    <2>1. PICK b \in Bindings, o \in Object :
            binding' = [binding EXCEPT ![b] = o] /\ UserWrites(b, o) /\ Touch(b)
      BY <1>2, UserEffect
    <2>2. UNCHANGED <<pc, key>> /\ (fresh' => fresh /\ key # b)
      BY <2>1 DEF Touch
    <2>3. o.phase = "deleting" => o.finalizer
      BY <2>1 DEF UserWrites, NoObject
    <2>4. binding[b].phase = "live" /\ binding[b].finalizer =>
            o.phase \in {"live", "deleting"} /\ o.finalizer
      BY <2>1 DEF UserWrites
    <2>5. binding[b].phase # "deleting"
      BY <2>1 DEF UserWrites
    <2>6. /\ binding'[b] = o
          /\ \A c \in Bindings \ {b} : binding'[c] = binding[c]
      BY <2>1 DEF TypeInv, TypeOK
    <2>7. pc # "idle" => key \in Bindings
      BY DEF TypeInv, WorkerTyped
    <2>8. CASE key = b
      BY <2>2, <2>3, <2>4, <2>5, <2>6, <2>7, <2>8
      DEF HeldInv, LiveCalls, LoopCalls, DeleteCalls
    <2>9. CASE key # b
      BY <2>2, <2>3, <2>6, <2>7, <2>9
      DEF HeldInv, LiveCalls, LoopCalls, DeleteCalls
    <2> QED BY <2>8, <2>9
  <1>3. CASE Environment
    BY <1>3, EnvironmentEffect DEF workerVars, HeldInv
  <1>4. CASE UNCHANGED vars
    BY <1>4 DEF vars, workerVars, HeldInv
  <1> QED
    BY <1>1, <1>2, <1>3, <1>4 DEF Next

LEMMA HeldInvariant == Spec => []HeldInv
  <1>1. Init => HeldInv
    BY DEF Init, HeldInv, NoObject, LiveCalls, LoopCalls, DeleteCalls
  <1> QED
    BY <1>1, HeldNext, TypeInvariant, PTL DEF Spec

-----------------------------------------------------------------------------
(***************************************************************************)
(* The refinement.                                                         *)
(***************************************************************************)

\* Writing one object and no role moves that object between stages.
LEMMA StageMoves ==
  ASSUME TypeInv, NEW b \in Bindings, NEW o \in Object,
         binding' = [binding EXCEPT ![b] = o], role' = role
  PROVE  Protocol!Move(b, Stage(binding[b]), Stage(o))
  BY DEF Protocol!Move, Stage, TypeInv, TypeOK

\* Writing a role named for a held binding is work on its behalf.
LEMMA RoleWork ==
  ASSUME TypeInv, binding' = binding,
         NEW b \in Bindings, Stage(binding[b]) \in {"held", "deleting"},
         NEW i \in Instances, NEW t \in Trusts, NEW e \in Entities, NEW x,
         role' = role \/ role' = [role EXCEPT ![i][t][RoleName(b, e)] = x]
  PROVE  Protocol!Work(b)
  <1>0. role \in RoleType
    BY DEF TypeInv, TypeOK, RoleType
  <1> DEFINE n == RoleName(b, e)
  <1>1. n \in RoleNames /\ n[1] = b
    BY DEF RoleName, RoleNames
  <1>2. role' = role \/ role' = [role EXCEPT ![i][t][n] = x]
    OBVIOUS
  <1> HIDE DEF n
  <1>3. ASSUME NEW m \in RolePlaces, m[3][1] # b
        PROVE  role'[m[1]][m[2]][m[3]] = role[m[1]][m[2]][m[3]]
    <2>1. m[1] \in Instances /\ m[2] \in Trusts /\ m[3] \in RoleNames /\ m[3] # n
      BY <1>1, <1>3 DEF RolePlaces
    <2>2. CASE role' = [role EXCEPT ![i][t][n] = x]
      BY <1>0, <2>1, <2>2 DEF RoleType
    <2> QED
      BY <1>2, <2>2
  <1> QED
    BY <1>3 DEF Protocol!Work

LEMMA StepRefines ==
  TypeInv /\ HeldInv /\ [Next]_vars
    => [Protocol!Next]_<<[b \in Bindings |-> Stage(binding[b])],
                         [m \in RolePlaces |-> role[m[1]][m[2]][m[3]]]>>
  <1> DEFINE Step == [Protocol!Next]_<<[b \in Bindings |-> Stage(binding[b])],
                         [m \in RolePlaces |-> role[m[1]][m[2]][m[3]]]>>
  <1> SUFFICES ASSUME TypeInv, HeldInv, [Next]_vars PROVE Step
    OBVIOUS
  <1>a. ASSUME UNCHANGED <<binding, role>> PROVE Step
    BY <1>a
  <1>b. ASSUME NEW b \in Bindings,
               \/ Protocol!Create(b) \/ Protocol!Hold(b) \/ Protocol!Delete(b)
               \/ Protocol!Release(b) \/ Protocol!Work(b)
        PROVE  Step
    BY <1>b DEF Protocol!Next
  <1>c. ASSUME NEW b \in Bindings, Protocol!Move(b, Stage(binding[b]), Stage(binding[b]))
        PROVE  Step
    BY <1>c DEF Protocol!Move
  <1>e. ASSUME NEW i \in Instances, NEW t \in Trusts,
               Protocol!Lose({i} \X {t} \X RoleNames)
        PROVE  Step
    BY <1>e DEF Protocol!Next
  <1> HIDE DEF Step
  <1>d. pc # "idle" => key \in Bindings
    BY DEF TypeInv, WorkerTyped
  <1>1. CASE AddFinalizer
    <2> DEFINE o == [binding[key] EXCEPT !.finalizer = TRUE]
    <2>1. o \in Object /\ binding' = [binding EXCEPT ![key] = o] /\ Stage(o) = "held"
      BY <1>1, <1>d DEF AddFinalizer, TypeInv, TypeOK, HeldInv, Object, Stage
    <2>2. Stage(binding[key]) \in {"live", "held"}
      BY <1>1, <1>d DEF AddFinalizer, HeldInv, Stage
    <2> HIDE DEF o
    <2>3. Protocol!Move(key, Stage(binding[key]), "held")
      BY <1>1, <1>d, <2>1, StageMoves DEF AddFinalizer
    <2> QED
      BY <1>1, <1>b, <1>c, <1>d, <2>2, <2>3 DEF Protocol!Hold, AddFinalizer
  <1>2. CASE UpdateStatus
    <2> DEFINE o == [binding[key] EXCEPT !.status = Summary]
    <2>0. Summary \in Status
      BY DEF Summary, PolicyExistence, Gathered, Status, Object, TypeInv, TypeOK
    <2>1. o \in Object /\ binding' = [binding EXCEPT ![key] = o]
          /\ Stage(o) = Stage(binding[key])
      BY <1>2, <1>d, <2>0 DEF UpdateStatus, TypeInv, TypeOK, Object, Stage
    <2> HIDE DEF o
    <2> QED
      BY <1>2, <1>c, <1>d, <2>1, StageMoves DEF UpdateStatus
  <1>3. CASE Release
    <2>1. Stage(binding[key]) = "deleting" /\ Stage(NoObject) = "absent"
      BY <1>3 DEF Release, HeldInv, DeleteCalls, Stage, NoObject
    <2>2. Protocol!Release(key)
      BY <1>3, <1>d, <2>1, StageMoves, NoObjectType DEF Release, Protocol!Release
    <2> QED
      BY <1>3, <1>b, <1>d, <2>2 DEF Release
  <1>4. CASE EnsureRole \/ RemoveRole
    <2>1. pc \in {"role", "unrole"} /\ binding' = binding
      BY <1>4 DEF EnsureRole, RemoveRole
    <2>2. PICK b \in Bindings, i \in Instances, t \in Trusts, e \in Entities :
            b = key /\ i = cur.i /\ t = cur.t /\ e = cur.e
      BY <1>d, <2>1 DEF TypeInv, WorkerTyped, LoopCalls
    <2>3. Stage(binding[b]) \in {"held", "deleting"}
      BY <2>1, <2>2 DEF HeldInv, LiveCalls, LoopCalls, DeleteCalls, Stage
    <2>4. PICK x : role' = role \/ role' = [role EXCEPT ![i][t][RoleName(b, e)] = x]
      BY <1>4, <2>2 DEF EnsureRole, WriteRole, RemoveRole
    <2>5. Protocol!Work(b)
      BY <2>1, <2>2, <2>3, <2>4, RoleWork
    <2> QED
      BY <1>b, <2>5
  <1>5. CASE User
    <2>1. PICK b \in Bindings, o \in Object :
            binding' = [binding EXCEPT ![b] = o] /\ UserWrites(b, o) /\ Touch(b)
      BY <1>5, UserEffect
    <2>2. Protocol!Move(b, Stage(binding[b]), Stage(o))
      BY <2>1, StageMoves DEF Touch
    <2>3. \/ Stage(binding[b]) = "absent" /\ Stage(o) = "live"
          \/ Stage(binding[b]) = "held" /\ Stage(o) = "deleting"
          \/ Stage(binding[b]) = "live" /\ Stage(o) = "absent"
          \/ Stage(o) = Stage(binding[b])
      BY <2>1 DEF UserWrites, Stage, NoObject
    <2> QED
      BY <1>b, <1>c, <2>2, <2>3 DEF Protocol!Create, Protocol!Delete
  <1>6. CASE Environment
    <2>1. binding' = binding
      BY <1>6, EnvironmentEffect
    <2>2. ASSUME NEW i \in Instances, NEW t \in Trusts,
                 role' = [role EXCEPT ![i][t] = [n \in RoleNames |-> None]]
          PROVE  Protocol!Lose({i} \X {t} \X RoleNames)
      <3>1. ASSUME NEW m \in RolePlaces
            PROVE  role'[m[1]][m[2]][m[3]] = IF m \in {i} \X {t} \X RoleNames
                                            THEN None ELSE role[m[1]][m[2]][m[3]]
        <4>1. m[1] \in Instances /\ m[2] \in Trusts /\ m[3] \in RoleNames
              /\ m = <<m[1], m[2], m[3]>>
          BY <3>1 DEF RolePlaces
        <4>2. m \in {i} \X {t} \X RoleNames <=> m[1] = i /\ m[2] = t
          BY <4>1
        <4> QED
          BY <2>2, <4>1, <4>2 DEF TypeInv, TypeOK
      <3> QED
        BY <2>1, <3>1 DEF Protocol!Lose
    <2> QED
      BY <1>6, <1>a, <1>e, <2>1, <2>2, EnvironmentEffect
  <1>7. CASE ~(\/ AddFinalizer \/ UpdateStatus \/ Release \/ EnsureRole
               \/ RemoveRole \/ User \/ Environment)
    <2>1. UNCHANGED <<binding, role>>
      BY <1>7 DEF Next, Worker, Fetch, ResolveEntity, FindRole, ResolveTrust,
         CheckPolicy, Abandon, vars
    <2> QED
      BY <1>a, <2>1
  <1> QED
    BY <1>1, <1>2, <1>3, <1>4, <1>5, <1>6, <1>7 DEF Step

\* The binding controller implements FinalizerProtocol for any number of
\* bindings and references, whatever fails and whoever edits what meanwhile: a
\* role changes only on behalf of the held binding it is named for, or is lost
\* with its mount.
THEOREM ProtocolFollowed == Spec => FollowsProtocol
  <1>1. Init => Protocol!Init
    BY DEF Init, Protocol!Init, Stage, NoObject, RolePlaces
  <1> QED
    BY <1>1, StepRefines, HeldInvariant, TypeInvariant, PTL
    DEF Spec, FollowsProtocol, Protocol!Spec

-----------------------------------------------------------------------------
(***************************************************************************)
(* When a Ready binding has exactly its roles: what the documentation says *)
(* of the binding fails only through the edits excluded here.              *)
(***************************************************************************)

\* Nobody takes a reference out of a binding, or gives a new binding a name
\* under which OpenBao still has roles for other entities.
NeverDrops ==
  \A b \in Bindings : binding'[b].phase # "absent" =>
    IF binding[b].phase # "absent"
    THEN binding[b].refs \subseteq binding'[b].refs
    ELSE \A i \in Instances, t \in Trusts, e \in Entities \ binding'[b].refs :
           role[i][t][RoleName(b, e)] = None

\* The binding still refers to every entity that it has a role for, also to
\* those that the worker handles from an older copy.
OwnInv ==
  /\ \A b \in Bindings, i \in Instances, t \in Trusts, e \in Entities :
       binding[b].phase # "absent" /\ role[i][t][RoleName(b, e)] # None =>
         e \in binding[b].refs
  /\ pc \in LiveCalls => obj.refs \subseteq binding[key].refs

\* A role that appears or changes is the one the worker is writing.
LEMMA OneRoleWritten ==
  ASSUME TypeInv, [Next]_vars,
         NEW b \in Bindings, NEW i \in Instances, NEW t \in Trusts, NEW e \in Entities,
         role'[i][t][RoleName(b, e)] \notin {role[i][t][RoleName(b, e)], None}
  PROVE  /\ EnsureRole /\ pc = "role" /\ binding' = binding
         /\ key = b /\ cur.e = e /\ cur.t = t /\ cur.i = i
  <1> DEFINE n == RoleName(b, e)
  <1>0. n \in RoleNames /\ role \in RoleType
    BY DEF RoleName, RoleNames, TypeInv, TypeOK, RoleType
  <1>1. ASSUME NEW j, NEW u, NEW d, NEW c, NEW x,
               role' = [role EXCEPT ![j][u][RoleName(d, c)] = x]
        PROVE  RoleName(d, c) = n /\ j = i /\ u = t /\ role'[i][t][n] = x
    <2> DEFINE m == RoleName(d, c)
    <2>1. role' = [role EXCEPT ![j][u][m] = x]
      BY <1>1
    <2> HIDE DEF m, n
    <2> QED
      BY <1>0, <2>1 DEF RoleType, m, n
  <1>2. CASE EnsureRole
    <2>1. WriteRole /\ pc = "role" /\ binding' = binding
      BY <1>2 DEF EnsureRole
    <2>2. RoleName(key, cur.e) = n /\ cur.i = i /\ cur.t = t
      BY <1>1, <2>1 DEF WriteRole
    <2> QED
      BY <1>2, <2>1, <2>2 DEF RoleName
  <1>3. CASE RemoveRole
    BY <1>1, <1>3 DEF RemoveRole
  <1>4. CASE Environment
    BY <1>0, <1>4, RolesLost
  <1>5. CASE ~(EnsureRole \/ RemoveRole \/ Environment)
    BY <1>5 DEF Next, Worker, User, Fetch, AddFinalizer, ResolveEntity, FindRole,
       ResolveTrust, CheckPolicy, UpdateStatus, Release, Abandon,
       CreateBinding, EditBinding, DeleteBinding, Touch, vars
  <1> QED
    BY <1>2, <1>3, <1>4, <1>5

\* How the worker comes to handle references.
LEMMA LiveFrom ==
  ASSUME TypeInv, [Next]_vars, pc' \in LiveCalls
  PROVE  \/ \E b \in Bindings : Fetch(b)
         \/ AddFinalizer
         \/ pc \in LiveCalls /\ UNCHANGED <<key, obj>>
  <1> USE DEF LiveCalls, LoopCalls
  <1>1. CASE Worker
    BY <1>1 DEF Worker, ResolveEntity, FindRole, ResolveTrust, CheckPolicy,
       EnsureRole, UpdateStatus, RemoveRole, Release, Abandon, Idle, Gather
  <1>2. CASE User
    BY <1>2 DEF User, CreateBinding, EditBinding, DeleteBinding, Touch
  <1>3. CASE Environment
    BY <1>3, EnvironmentEffect DEF workerVars
  <1>4. CASE UNCHANGED vars
    BY <1>4 DEF vars, workerVars
  <1> QED
    BY <1>1, <1>2, <1>3, <1>4 DEF Next

\* What one step of the loop does to what is gathered.
LEMMA LoopStep ==
  ASSUME TypeInv, EarnedInv, [Next]_vars, pc \in LiveCalls, pc' \in LiveCalls
  PROVE  /\ key' = key
         /\ \/ todo' = todo /\ acc'.roles = acc.roles /\ ~EnsureRole
            \/ \E e \in todo, x \in RoleStatus :
                 /\ todo' = todo \ {e} /\ acc'.roles = [acc.roles EXCEPT ![e] = x]
                 /\ EnsureRole => x.path = cur.t
                 /\ EnsureRole \/ x.path # None =>
                      pc \in LoopCalls /\ e = cur.e /\ x.path = cur.t
  <1> USE DEF LiveCalls, LoopCalls
  <1>0. acc \in Gathered /\ acc.roles \in [Entities -> RoleStatus] /\ todo \subseteq Entities
    BY DEF TypeInv, TypeOK, Gathered
  <1>1. ASSUME NEW e \in todo, NEW p \in Trusts \cup {None}, NEW r \in BOOLEAN,
               Gather(e, p, r)
        PROVE  \E x \in RoleStatus :
                 /\ todo' = todo \ {e} /\ acc'.roles = [acc.roles EXCEPT ![e] = x]
                 /\ x.path = p
    <2> DEFINE x == [listed |-> TRUE, path |-> p, ready |-> r]
    <2>1. x \in RoleStatus /\ x.path = p
      BY DEF RoleStatus
    <2>2. todo' = todo \ {e} /\ acc'.roles = [acc.roles EXCEPT ![e] = x]
      BY <1>0, <1>1 DEF Gather, Gathered
    <2> HIDE DEF x
    <2> QED
      BY <2>1, <2>2
  <1>2. ASSUME NEW e \in Entities, ResolveEntity(e)
        PROVE  /\ key' = key /\ ~EnsureRole
               /\ \/ todo' = todo /\ acc' = acc
                  \/ e \in todo /\ Gather(e, None, FALSE)
    <2>1. pc = "refs" /\ key' = key
      BY <1>2 DEF ResolveEntity
    <2>2. \/ todo' = todo /\ acc' = acc
          \/ e \in todo /\ Gather(e, None, FALSE)
      BY <1>2 DEF ResolveEntity
    <2>3. ~EnsureRole
      BY <2>1 DEF EnsureRole
    <2> QED
      BY <2>1, <2>2, <2>3
  <1>3. CASE ResolveTrust
    <2>1. cur.e \in todo /\ cur.t \in Trusts /\ key' = key /\ ~EnsureRole
      BY <1>3 DEF ResolveTrust, EnsureRole, EarnedInv, TypeInv, WorkerTyped
    <2>2. (todo' = todo /\ acc' = acc) \/ Gather(cur.e, None, FALSE)
            \/ Gather(cur.e, cur.t, FALSE)
      BY <1>3 DEF ResolveTrust
    <2>3. pc \in LoopCalls
      BY <1>3 DEF ResolveTrust
    <2>4. CASE todo' = todo /\ acc' = acc
      BY <2>1, <2>4
    <2>5. CASE Gather(cur.e, None, FALSE)
      <3>1. PICK x \in RoleStatus :
              /\ todo' = todo \ {cur.e} /\ acc'.roles = [acc.roles EXCEPT ![cur.e] = x]
              /\ x.path = None
        BY <1>1, <2>1, <2>5
      <3> QED
        BY <2>1, <3>1
    <2>6. CASE Gather(cur.e, cur.t, FALSE)
      <3>1. PICK x \in RoleStatus :
              /\ todo' = todo \ {cur.e} /\ acc'.roles = [acc.roles EXCEPT ![cur.e] = x]
              /\ x.path = cur.t
        BY <1>1, <2>1, <2>6
      <3> QED
        BY <2>1, <2>3, <3>1
    <2> QED
      BY <2>2, <2>4, <2>5, <2>6
  <1>4. CASE CheckPolicy
    <2>1. key' = key /\ todo' = todo /\ ~EnsureRole
      BY <1>4 DEF CheckPolicy, EnsureRole
    <2>2. acc'.roles = acc.roles
      BY <1>0, <1>4 DEF CheckPolicy, Gathered
    <2> QED BY <2>1, <2>2
  <1>5. CASE EnsureRole
    <2>1. cur.e \in todo /\ cur.t \in Trusts /\ key' = key
      BY <1>5 DEF EnsureRole, EarnedInv, TypeInv, WorkerTyped
    <2>2. Gather(cur.e, cur.t, cur.ok) \/ Gather(cur.e, cur.t, FALSE)
      BY <1>5 DEF EnsureRole
    <2>3. cur.ok \in BOOLEAN
      BY DEF TypeInv, TypeOK, Current
    <2>a. PICK r \in BOOLEAN : Gather(cur.e, cur.t, r)
      BY <2>2, <2>3, Zenon
    <2>4. PICK x \in RoleStatus :
            /\ todo' = todo \ {cur.e} /\ acc'.roles = [acc.roles EXCEPT ![cur.e] = x]
            /\ x.path = cur.t
      BY <1>1, <2>1, <2>a
    <2>5. pc \in LoopCalls
      BY <1>5 DEF EnsureRole
    <2> QED
      BY <2>1, <2>4, <2>5
  <1>6. CASE ~((\E e \in Entities : ResolveEntity(e)) \/ ResolveTrust \/ CheckPolicy
               \/ EnsureRole)
    <2>1. UNCHANGED <<pc, key, todo, acc>>
      BY <1>6, EnvironmentEffect
      DEF Next, Worker, Fetch, AddFinalizer, FindRole, UpdateStatus, RemoveRole, Release,
          Abandon, Idle, User, CreateBinding, EditBinding, DeleteBinding, Touch, vars,
          workerVars
    <2> QED
      BY <1>6, <2>1
  <1>7. ASSUME NEW e \in Entities, ResolveEntity(e)
        PROVE  /\ key' = key
               /\ \/ todo' = todo /\ acc'.roles = acc.roles /\ ~EnsureRole
                  \/ \E d \in todo, x \in RoleStatus :
                       /\ todo' = todo \ {d} /\ acc'.roles = [acc.roles EXCEPT ![d] = x]
                       /\ EnsureRole => x.path = cur.t
                       /\ EnsureRole \/ x.path # None =>
                            pc \in LoopCalls /\ d = cur.e /\ x.path = cur.t
    <2>1. CASE todo' = todo /\ acc' = acc
      BY <1>2, <1>7, <2>1
    <2>2. CASE e \in todo /\ Gather(e, None, FALSE)
      <3>1. PICK x \in RoleStatus :
              /\ todo' = todo \ {e} /\ acc'.roles = [acc.roles EXCEPT ![e] = x]
              /\ x.path = None
        BY <1>1, <2>2
      <3> QED
        BY <1>2, <1>7, <2>2, <3>1
    <2> QED
      BY <1>2, <1>7, <2>1, <2>2
  <1>8. CASE \E e \in Entities : ResolveEntity(e)
    <2>1. PICK e \in Entities : ResolveEntity(e)
      BY <1>8
    <2> QED
      BY <1>7, <2>1
  <1> QED
    BY <1>3, <1>4, <1>5, <1>6, <1>8, Zenon

\* Roles are where a trust's instance is.
HomeInv ==
  \A b \in Bindings, e \in Entities, t \in Trusts, i \in Instances :
    role[i][t][RoleName(b, e)] # None => i \in InstancesOf[t]

LEMMA HomeNext == TypeInv /\ EarnedInv /\ HomeInv /\ [Next]_vars => HomeInv'
  <1> SUFFICES ASSUME TypeInv, EarnedInv, HomeInv, [Next]_vars,
                      NEW b \in Bindings, NEW e \in Entities, NEW t \in Trusts,
                      NEW i \in Instances, role'[i][t][RoleName(b, e)] # None
               PROVE  i \in InstancesOf[t]
    BY DEF HomeInv
  <1>1. CASE role'[i][t][RoleName(b, e)] = role[i][t][RoleName(b, e)]
    BY <1>1 DEF HomeInv
  <1>2. CASE role'[i][t][RoleName(b, e)] # role[i][t][RoleName(b, e)]
    <2>1. pc = "role" /\ cur.t = t /\ cur.i = i
      BY <1>2, OneRoleWritten
    <2> QED
      BY <2>1 DEF EarnedInv
  <1> QED BY <1>1, <1>2

LEMMA HomeInvariant == Spec => []HomeInv
  <1>1. Init => HomeInv
    <2>1. \A b \in Bindings, e \in Entities : RoleName(b, e) \in RoleNames
      BY DEF RoleName, RoleNames
    <2> QED
      BY <2>1 DEF Init, HomeInv
  <1> QED
    BY <1>1, HomeNext, TypeInvariant, EarnedInvariant, PTL DEF Spec

\* What the loop gathers for an entity names a trust that the entity named.
PathInv ==
  pc \in LiveCalls =>
    \A e \in Entities : acc.roles[e].path # None =>
      \E v \in ViewsOf[e] : v.trust = acc.roles[e].path

LEMMA PathNext ==
  TypeInv /\ EarnedInv /\ IsolationInv /\ PathInv /\ [Next]_vars => PathInv'
  <1> SUFFICES ASSUME TypeInv, EarnedInv, IsolationInv, PathInv, [Next]_vars,
                      pc' \in LiveCalls, NEW e \in Entities, acc'.roles[e].path # None
               PROVE  \E v \in ViewsOf[e] : v.trust = acc'.roles[e].path
    BY DEF PathInv
  <1>1. CASE (\E b \in Bindings : Fetch(b)) \/ AddFinalizer
    <2>1. acc = NothingGathered /\ acc' = acc
      BY <1>1 DEF Fetch, AddFinalizer, Idle, EarnedInv
    <2> QED
      BY <2>1 DEF NothingGathered, NoRoles
  <1>2. CASE pc \in LiveCalls
    <2>1. CASE acc'.roles = acc.roles
      BY <1>2, <2>1 DEF PathInv
    <2>2. CASE acc'.roles # acc.roles
      <3>1. PICK d \in todo, x \in RoleStatus :
              /\ acc'.roles = [acc.roles EXCEPT ![d] = x]
              /\ x.path # None => pc \in LoopCalls /\ d = cur.e /\ x.path = cur.t
        BY <1>2, <2>2, LoopStep
      <3>2. CASE d = e
        <4>1. acc'.roles[e] = x
          BY <3>1, <3>2 DEF TypeInv, TypeOK, Gathered
        <4>2. ViewOf(cur.t, cur.subject) \in ViewsOf[e] /\ x.path = cur.t
          BY <3>1, <3>2, <4>1 DEF IsolationInv
        <4> QED
          BY <4>1, <4>2 DEF ViewOf
      <3>3. CASE d # e
        <4>1. acc'.roles[e] = acc.roles[e]
          BY <3>1, <3>3 DEF TypeInv, TypeOK, Gathered
        <4> QED
          BY <1>2, <4>1 DEF PathInv
      <3> QED BY <3>2, <3>3
    <2> QED BY <2>1, <2>2
  <1> QED
    BY <1>1, <1>2, LiveFrom

LEMMA OwnNext ==
  TypeInv /\ EarnedInv /\ HeldInv /\ HeldInv' /\ OwnInv /\ NeverDrops /\ [Next]_vars
    => OwnInv'
  <1> SUFFICES ASSUME TypeInv, EarnedInv, HeldInv, HeldInv', OwnInv, NeverDrops, [Next]_vars
               PROVE  OwnInv'
    OBVIOUS
  <1>1. ASSUME NEW b \in Bindings, NEW i \in Instances, NEW t \in Trusts,
               NEW e \in Entities, binding'[b].phase # "absent",
               role'[i][t][RoleName(b, e)] # None
        PROVE  e \in binding'[b].refs
    <2>1. CASE role'[i][t][RoleName(b, e)] = role[i][t][RoleName(b, e)]
      BY <1>1, <2>1 DEF OwnInv, NeverDrops
    <2>2. CASE role'[i][t][RoleName(b, e)] # role[i][t][RoleName(b, e)]
      <3>1. pc = "role" /\ binding' = binding /\ key = b /\ cur.e = e
        BY <1>1, <2>2, OneRoleWritten
      <3>2. e \in obj.refs
        BY <3>1 DEF EarnedInv, GatheredInv, LiveCalls, LoopCalls
      <3> QED
        BY <3>1, <3>2 DEF OwnInv, LiveCalls, LoopCalls
    <2> QED BY <2>1, <2>2
  <1>2. ASSUME pc' \in LiveCalls PROVE obj'.refs \subseteq binding'[key'].refs
    <2>1. CASE \E b \in Bindings : Fetch(b)
      <3>1. PICK b \in Bindings : Fetch(b)
        BY <2>1
      <3>2. obj'.refs = binding[b].refs
        BY <3>1, Fetched
      <3> QED
        BY <3>1, <3>2 DEF Fetch
    <2>2. CASE AddFinalizer
      <3>1. /\ key \in Bindings /\ obj.refs = binding[key].refs
            /\ binding' = [binding EXCEPT ![key].finalizer = TRUE]
        BY <2>2 DEF AddFinalizer, TypeInv, WorkerTyped, EarnedInv
      <3>2. key' = key /\ obj' = [obj EXCEPT !.finalizer = TRUE]
        BY <1>2, <2>2 DEF AddFinalizer, Idle, LiveCalls, LoopCalls
      <3>3. obj'.refs = obj.refs /\ binding'[key].refs = binding[key].refs
        BY <3>1, <3>2 DEF TypeInv, TypeOK, Object
      <3> QED
        BY <3>1, <3>2, <3>3
    <2>3. CASE pc \in LiveCalls /\ UNCHANGED <<key, obj>>
      <3>1. binding[key].phase # "absent" /\ binding'[key].phase # "absent"
        BY <1>2, <2>3 DEF HeldInv
      <3>2. key \in Bindings
        BY <2>3 DEF TypeInv, WorkerTyped, LiveCalls, LoopCalls
      <3>3. binding[key].refs \subseteq binding'[key].refs
        BY <3>1, <3>2 DEF NeverDrops
      <3> QED
        BY <2>3, <3>3 DEF OwnInv
    <2> QED
      BY <1>2, <2>1, <2>2, <2>3, LiveFrom
  <1> QED
    BY <1>1, <1>2 DEF OwnInv

\* An entity is not edited to name another trust.
OneTrustEach == \A e \in Entities : \A v, w \in ViewsOf[e] : v.trust = w.trust

\* What makes a Ready binding own other roles than its references call for is one
\* of four: a reference was dropped, a name was reused beside old roles, an entity
\* was edited to name another trust, or a trust moved to another instance (the old
\* role is never removed, so ReadyMeansExactRoles fails).  Without them, whatever
\* fails meanwhile, each role is for a reference, on the mount its entry names, and
\* in one instance only; that there is one is ReadyEarned.
THEOREM ExactUnlessDropped ==
  ASSUME OneTrustEach, OneInstanceEach
  PROVE  Spec /\ [][NeverDrops]_vars => ReadyMeansExactRoles
  <1> DEFINE Exact ==
        \A b \in Bindings :
          ~binding[b].status.ready /\ binding'[b].status.ready =>
            \A i \in Instances, t \in Trusts, e \in Entities :
              role[i][t][RoleName(b, e)] # None =>
                /\ e \in binding'[b].refs
                /\ t = binding'[b].status.roles[e].path
                /\ \A j \in Instances \ {i} : role[j][t][RoleName(b, e)] = None
  <1>1. Init => OwnInv /\ PathInv
    BY DEF Init, OwnInv, NoObject, PathInv, LiveCalls, LoopCalls
  <1>2. /\ TypeInv /\ EarnedInv /\ HeldInv /\ HeldInv' /\ OwnInv
        /\ [Next]_vars /\ [NeverDrops]_vars
        => OwnInv'
    <2>1. CASE UNCHANGED vars
      BY <2>1 DEF vars, workerVars, OwnInv
    <2> QED
      BY <2>1, OwnNext
  <1>3. /\ TypeInv /\ EarnedInv /\ HeldInv /\ OwnInv /\ HomeInv /\ PathInv
        /\ RoleIsolation /\ [Next]_vars
        => [Exact]_vars
    <2> SUFFICES ASSUME TypeInv, EarnedInv, HeldInv, OwnInv, HomeInv, PathInv,
                        RoleIsolation, [Next]_vars, NEW b \in Bindings,
                        ~binding[b].status.ready, binding'[b].status.ready,
                        NEW i \in Instances, NEW t \in Trusts, NEW e \in Entities,
                        role[i][t][RoleName(b, e)] # None
                 PROVE  /\ e \in binding'[b].refs
                        /\ t = binding'[b].status.roles[e].path
                        /\ \A j \in Instances \ {i} : role[j][t][RoleName(b, e)] = None
      OBVIOUS
    <2>0. binding \in [Bindings -> Object]
      BY DEF TypeInv, TypeOK
    <2>1. UpdateStatus /\ key = b
      <3>1. CASE UpdateStatus
        BY <2>0, <3>1 DEF UpdateStatus
      <3>2. CASE AddFinalizer \/ Release
        BY <2>0, <3>2 DEF AddFinalizer, Release, NoObject, NoStatus, Object, Status
      <3>3. CASE User
        <4>1. PICK c \in Bindings, o \in Object :
                binding' = [binding EXCEPT ![c] = o] /\ UserWrites(c, o)
          BY <3>3, UserEffect
        <4>2. o.status = binding[c].status \/ ~o.status.ready
          BY <4>1 DEF UserWrites, NoObject, NoStatus
        <4> QED
          BY <2>0, <4>1, <4>2
      <3>4. CASE ~(UpdateStatus \/ AddFinalizer \/ Release \/ User)
        <4>1. binding' = binding
          BY <3>4, EnvironmentEffect
          DEF Next, Worker, Fetch, ResolveEntity, FindRole, ResolveTrust,
              CheckPolicy, EnsureRole, RemoveRole, Abandon, vars
        <4> QED
          BY <4>1
      <3> QED
        BY <3>1, <3>2, <3>3, <3>4
    <2>2. /\ binding' = [binding EXCEPT ![b].status = Summary]
          /\ pc = "refs" /\ pc \in LiveCalls /\ todo = {} /\ fresh
      BY <2>1 DEF UpdateStatus, LiveCalls
    <2>3. binding'[b].status = Summary /\ binding'[b].refs = binding[b].refs
      BY <2>0, <2>2 DEF Object
    <2>4. Summary.roles = acc.roles /\ Summary.ready = (acc.exists /\ acc.allReady)
      BY DEF Summary
    <2>5. acc.allReady
      <3>1. Summary.ready
        BY <2>3
      <3> QED
        BY <2>4, <3>1, Zenon
    <2>6. e \in binding[b].refs
      BY <2>1, <2>2 DEF OwnInv, HeldInv
    <2>7. acc.roles[e].ready /\ acc.roles[e].path \in Trusts
      <3>1. GatheredInv /\ obj.refs = binding[b].refs
        BY <2>1, <2>2 DEF EarnedInv
      <3>2. e \in Listed(acc.roles)
        BY <2>2, <2>6, <3>1 DEF GatheredInv
      <3> QED
        BY <2>5, <3>1, <3>2 DEF GatheredInv, Backed
    <2>8. PICK v \in ViewsOf[e] : v.trust = acc.roles[e].path
      BY <2>2, <2>7, NamesAssumption DEF PathInv
    <2>9. [trust |-> t, subject |-> role[i][t][RoleName(b, e)].subject] \in ViewsOf[e]
      BY DEF RoleIsolation
    <2>10. t = acc.roles[e].path
      BY <2>8, <2>9 DEF OneTrustEach
    <2>11. \A j \in Instances \ {i} : role[j][t][RoleName(b, e)] = None
      BY DEF HomeInv, OneInstanceEach
    <2> QED
      BY <2>3, <2>4, <2>6, <2>10, <2>11
  <1>4. TypeInv /\ EarnedInv /\ IsolationInv /\ PathInv /\ [Next]_vars => PathInv'
    BY PathNext
  <1>5. IsolationInv => RoleIsolation
    BY DEF IsolationInv
  <1> QED
    BY <1>1, <1>2, <1>3, <1>4, <1>5, TypeInvariant, EarnedInvariant, HeldInvariant,
       IsolationInvariant, HomeInvariant, PTL
    DEF Spec, ReadyMeansExactRoles, Exact

-----------------------------------------------------------------------------
(***************************************************************************)
(* How OpenBao is left with a role that no binding remembers.              *)
(***************************************************************************)

Remembered(b, e, t) == binding[b].finalizer /\ binding[b].status.roles[e].path = t

\* The loop has written the role, or found it out of reach, and will record it.
InHand(b, e, t) == pc \in LiveCalls /\ key = b /\ acc.roles[e].path = t

Owned(b, e, t) == Remembered(b, e, t) \/ InHand(b, e, t)

\* The binding is released; the loop ends with another entry for the reference,
\* or none; the reconcile ends before the status is stored.
Loses(b, e, t) ==
  \/ Release /\ key = b /\ Remembered(b, e, t)
  \/ UpdateStatus /\ key = b /\ Remembered(b, e, t) /\ acc.roles[e].path # t
  \/ Abandon /\ InHand(b, e, t)

\* Every reference is gathered once.
OnceInv == pc \in LiveCalls => \A e \in todo : acc.roles[e].path = None

\* What is not there has no finalizer.
AbsentInv == \A b \in Bindings : binding[b].phase = "absent" => ~binding[b].finalizer

LEMMA AbsentNext == TypeInv /\ HeldInv /\ AbsentInv /\ [Next]_vars => AbsentInv'
  <1> SUFFICES ASSUME TypeInv, HeldInv, AbsentInv, [Next]_vars PROVE AbsentInv'
    OBVIOUS
  <1>0. binding \in [Bindings -> Object]
    BY DEF TypeInv, TypeOK
  <1>1. CASE AddFinalizer
    <2>1. key \in Bindings /\ binding[key].phase = "live"
      BY <1>1 DEF AddFinalizer, HeldInv, TypeInv, WorkerTyped
    <2> QED
      BY <1>0, <1>1, <2>1 DEF AddFinalizer, AbsentInv, Object
  <1>2. CASE UpdateStatus
    BY <1>0, <1>2 DEF UpdateStatus, AbsentInv, TypeInv, WorkerTyped, Object
  <1>3. CASE Release
    BY <1>0, <1>3 DEF Release, AbsentInv, NoObject
  <1>4. CASE User
    <2>1. PICK c \in Bindings, o \in Object :
            binding' = [binding EXCEPT ![c] = o] /\ UserWrites(c, o)
      BY <1>4, UserEffect
    <2>2. o.phase = "absent" => ~o.finalizer
      BY <2>1 DEF UserWrites, NoObject
    <2> QED
      BY <1>0, <2>1, <2>2 DEF AbsentInv
  <1>5. CASE ~(AddFinalizer \/ UpdateStatus \/ Release \/ User)
    <2>1. binding' = binding
      BY <1>5, EnvironmentEffect
      DEF Next, Worker, Fetch, ResolveEntity, FindRole, ResolveTrust, CheckPolicy,
          EnsureRole, RemoveRole, Abandon, vars
    <2> QED
      BY <2>1 DEF AbsentInv
  <1> QED
    BY <1>1, <1>2, <1>3, <1>4, <1>5

LEMMA OnceNext == TypeInv /\ EarnedInv /\ OnceInv /\ [Next]_vars => OnceInv'
  <1> SUFFICES ASSUME TypeInv, EarnedInv, OnceInv, [Next]_vars,
                      pc' \in LiveCalls, NEW e \in todo'
               PROVE  acc'.roles[e].path = None
    BY DEF OnceInv
  <1>0. acc.roles \in [Entities -> RoleStatus] /\ todo \subseteq Entities /\ todo' \subseteq Entities
    BY TypeNext DEF TypeInv, TypeOK, Gathered
  <1>1. CASE (\E b \in Bindings : Fetch(b)) \/ AddFinalizer
    <2>1. acc' = acc /\ acc = NothingGathered
      BY <1>1 DEF Fetch, AddFinalizer, Idle, EarnedInv, LiveCalls, LoopCalls
    <2> QED
      BY <1>0, <2>1 DEF NothingGathered, NoRoles
  <1>2. CASE pc \in LiveCalls
    <2>1. \/ todo' = todo /\ acc'.roles = acc.roles
          \/ \E d \in todo, x \in RoleStatus :
               todo' = todo \ {d} /\ acc'.roles = [acc.roles EXCEPT ![d] = x]
      BY <1>2, LoopStep
    <2>2. e \in todo /\ acc'.roles[e] = acc.roles[e]
      BY <1>0, <2>1
    <2> QED
      BY <1>2, <2>2 DEF OnceInv
  <1> QED
    BY <1>1, <1>2, LiveFrom

\* What a status remembers is lost by the end of a loop and by the release.
LEMMA RoleMemoryLost ==
  ASSUME TypeInv, HeldInv, AbsentInv, [Next]_vars,
         NEW b \in Bindings, NEW e \in Entities, NEW t \in Trusts,
         Remembered(b, e, t), ~Remembered(b, e, t)'
  PROVE  Loses(b, e, t)
  <1>0. binding \in [Bindings -> Object] /\ binding[b].finalizer
        /\ binding[b].status.roles[e].path = t
    BY DEF TypeInv, TypeOK, Remembered
  <1>1. ~(binding'[b].finalizer /\ binding'[b].status.roles[e].path = t)
    BY DEF Remembered
  <1>2. CASE AddFinalizer
    BY <1>0, <1>1, <1>2 DEF AddFinalizer, TypeInv, WorkerTyped, Object
  <1>3. CASE UpdateStatus
    <2>1. key \in Bindings /\ binding' = [binding EXCEPT ![key].status = Summary]
      BY <1>3 DEF UpdateStatus, TypeInv, WorkerTyped
    <2>2. key = b
      BY <1>0, <1>1, <2>1
    <2>3. binding'[b].finalizer /\ binding'[b].status = Summary
      BY <1>0, <2>1, <2>2 DEF Object
    <2>4. Summary.roles = acc.roles
      BY DEF Summary
    <2> QED
      BY <1>1, <1>3, <2>2, <2>3, <2>4 DEF Loses
  <1>4. CASE Release
    <2>1. key = b
      BY <1>0, <1>1, <1>4 DEF Release, TypeInv, WorkerTyped, DeleteCalls
    <2> QED
      BY <1>4, <2>1 DEF Loses
  <1>5. CASE User
    <2>1. PICK c \in Bindings, o \in Object :
            binding' = [binding EXCEPT ![c] = o] /\ UserWrites(c, o)
      BY <1>5, UserEffect
    <2>2. binding[c].finalizer => o.finalizer /\ o.status = binding[c].status
      BY <2>1 DEF UserWrites, AbsentInv
    <2> QED
      BY <1>0, <1>1, <2>1, <2>2
  <1>6. CASE ~(AddFinalizer \/ UpdateStatus \/ Release \/ User)
    <2>1. binding' = binding
      BY <1>6, EnvironmentEffect
      DEF Next, Worker, Fetch, ResolveEntity, FindRole, ResolveTrust, CheckPolicy,
          EnsureRole, RemoveRole, Abandon, vars
    <2> QED
      BY <1>0, <1>1, <2>1
  <1> QED
    BY <1>2, <1>3, <1>4, <1>5, <1>6

\* What the loop has gathered is recorded in the end, or the reconcile ends early.
LEMMA RoleHandLost ==
  ASSUME TypeInv, EarnedInv, HeldInv, OnceInv, [Next]_vars,
         NEW b \in Bindings, NEW e \in Entities, NEW t \in Trusts,
         InHand(b, e, t), ~Owned(b, e, t)'
  PROVE  Loses(b, e, t)
  <1>0. /\ pc \in LiveCalls /\ key = b /\ acc.roles[e].path = t
        /\ acc.roles \in [Entities -> RoleStatus] /\ t # None /\ todo \subseteq Entities
    BY NamesAssumption DEF InHand, TypeInv, TypeOK, Gathered
  <1>1. ~InHand(b, e, t)' /\ ~Remembered(b, e, t)'
    BY DEF Owned
  <1>2. CASE pc' \in LiveCalls
    <2>1. key' = b
      BY <1>0, <1>2, LoopStep
    <2>2. e \notin todo
      BY <1>0 DEF OnceInv
    <2>3. acc'.roles[e] = acc.roles[e]
      BY <1>0, <1>2, <2>2, LoopStep
    <2> QED
      BY <1>0, <1>1, <1>2, <2>1, <2>3 DEF InHand
  <1>3. CASE UpdateStatus
    <2>1. binding \in [Bindings -> Object] /\ binding[b].finalizer
      BY <1>0 DEF TypeInv, TypeOK, HeldInv
    <2>2. binding' = [binding EXCEPT ![b].status = Summary]
      BY <1>0, <1>3 DEF UpdateStatus
    <2>3. binding'[b].finalizer /\ binding'[b].status = Summary
      BY <2>1, <2>2 DEF Object
    <2>4. Summary.roles = acc.roles
      BY DEF Summary
    <2> QED
      BY <1>0, <1>1, <2>3, <2>4 DEF Remembered
  <1>4. CASE pc' \notin LiveCalls /\ ~UpdateStatus
    <2>1. Abandon
      BY <1>0, <1>4, EnvironmentEffect
      DEF LiveCalls, LoopCalls, Next, Worker, Fetch, AddFinalizer, ResolveEntity, FindRole,
          ResolveTrust, CheckPolicy, EnsureRole, RemoveRole, Release, Gather, User,
          CreateBinding, EditBinding, DeleteBinding, Touch, vars, workerVars
    <2> QED
      BY <2>1 DEF Loses
  <1> QED
    BY <1>2, <1>3, <1>4

\* A role of a binding stays owned, by its status or by the loop that writes it,
\* but for three events: the release that skips it, the loop that ends with
\* another entry for the reference or with none (it was dropped, it moved, or a Get
\* failed), and the reconcile that ends before the status is stored.  No user's edit
\* of a binding, no stale copy and no other binding leaves a role behind.
THEOREM ForgottenInThreeWays ==
  Spec => [][\A b \in Bindings, e \in Entities, t \in Trusts, i \in Instances :
               role'[i][t][RoleName(b, e)] # None /\ ~Owned(b, e, t)' =>
                 \/ role[i][t][RoleName(b, e)] # None /\ ~Owned(b, e, t)
                 \/ Loses(b, e, t)]_vars
  <1> DEFINE A == \A b \in Bindings, e \in Entities, t \in Trusts, i \in Instances :
                    role'[i][t][RoleName(b, e)] # None /\ ~Owned(b, e, t)' =>
                      \/ role[i][t][RoleName(b, e)] # None /\ ~Owned(b, e, t)
                      \/ Loses(b, e, t)
  <1>1. Init => OnceInv /\ AbsentInv
    BY DEF Init, OnceInv, AbsentInv, NoObject, LiveCalls, LoopCalls
  <1>2. TypeInv /\ EarnedInv /\ HeldInv /\ OnceInv /\ AbsentInv /\ [Next]_vars => A
    <2> SUFFICES ASSUME TypeInv, EarnedInv, HeldInv, OnceInv, AbsentInv, [Next]_vars,
                        NEW b \in Bindings, NEW e \in Entities, NEW t \in Trusts,
                        NEW i \in Instances,
                        role'[i][t][RoleName(b, e)] # None, ~Owned(b, e, t)',
                        role[i][t][RoleName(b, e)] = None \/ Owned(b, e, t)
                 PROVE  Loses(b, e, t)
      OBVIOUS
    <2>1. CASE Owned(b, e, t)
      BY <2>1, RoleMemoryLost, RoleHandLost DEF Owned
    <2>2. CASE role[i][t][RoleName(b, e)] = None
      <3>1. /\ EnsureRole /\ pc = "role" /\ key = b /\ cur.e = e /\ cur.t = t
        BY <2>2, OneRoleWritten
      <3>2. pc \in LiveCalls /\ pc' = "refs"
        BY <3>1 DEF EnsureRole, Gather, LiveCalls, LoopCalls
      <3>3. pc' \in LiveCalls
        BY <3>2 DEF LiveCalls
      <3>4. key' = b /\ acc'.roles[e].path = t
        BY <3>1, <3>2, <3>3, LoopStep DEF TypeInv, TypeOK, Gathered
      <3> QED
        BY <3>3, <3>4 DEF Owned, InHand
    <2> QED BY <2>1, <2>2
  <1> QED
    BY <1>1, <1>2, OnceNext, AbsentNext, TypeInvariant, EarnedInvariant, HeldInvariant, PTL
    DEF Spec

-----------------------------------------------------------------------------
(***************************************************************************)
(* What a released binding leaves behind.                                  *)
(***************************************************************************)

\* reconcileDelete gives up on a role that is there: no trust publishes its path
\* or the instance cannot be used.
Skips ==
  /\ pc = "delete" /\ pc' = "delete"
  /\ \E e \in todo \ todo', i \in Instances :
       role[i][obj.status.roles[e].path][RoleName(key, e)] # None

\* When a binding is gone, so are the roles that its status records.
LeavesNothing ==
  \A b \in Bindings : binding[b].phase = "deleting" /\ binding'[b].phase = "absent" =>
    \A e \in Recorded(binding[b].status), i \in Instances :
      role[i][binding[b].status.roles[e].path][RoleName(b, e)] = None

\* A deletion has removed those of the recorded roles that it is through with.
CleanInv ==
  /\ pc \in DeleteCalls =>
       /\ obj.status.roles = binding[key].status.roles
       /\ \A e \in Recorded(obj.status) \ todo, i \in Instances :
            role[i][obj.status.roles[e].path][RoleName(key, e)] = None
  /\ pc = "unrole" => /\ cur.e \in todo /\ cur.t = obj.status.roles[cur.e].path
                      /\ cur.i \in InstancesOf[cur.t]

\* How the worker comes to handle recorded roles.
LEMMA DeleteFrom ==
  ASSUME TypeInv, HeldInv, [Next]_vars, pc' \in DeleteCalls
  PROVE  \/ \E b \in Bindings : Fetch(b)
         \/ pc \in DeleteCalls /\ UNCHANGED <<key, obj, binding>>
         \/ pc \in DeleteCalls /\ User /\ UNCHANGED <<pc, key, obj, todo, cur, role>>
  <1> USE DEF LiveCalls, LoopCalls, DeleteCalls
  <1>1. CASE Worker
    BY <1>1 DEF Worker, AddFinalizer, ResolveEntity, FindRole, ResolveTrust, CheckPolicy,
       EnsureRole, UpdateStatus, RemoveRole, Release, Abandon, Idle, Gather
  <1>2. CASE User
    BY <1>2 DEF User, CreateBinding, EditBinding, DeleteBinding, Touch
  <1>3. CASE Environment
    BY <1>3, EnvironmentEffect DEF workerVars
  <1>4. CASE UNCHANGED vars
    BY <1>4 DEF vars, workerVars
  <1> QED
    BY <1>1, <1>2, <1>3, <1>4 DEF Next

LEMMA CleanNext ==
  ASSUME OneInstanceEach
  PROVE  TypeInv /\ EarnedInv /\ HeldInv /\ HomeInv /\ CleanInv
         /\ [Next]_vars /\ [~Skips]_vars
           => CleanInv'
  <1> SUFFICES ASSUME TypeInv, EarnedInv, HeldInv, HomeInv, CleanInv, [Next]_vars,
                      [~Skips]_vars
               PROVE  CleanInv'
    OBVIOUS
  <1>0. /\ InstancesOf \in [Trusts -> SUBSET Instances]
        /\ todo \subseteq Entities /\ obj \in Object
    BY ReferencesAssumption DEF TypeInv, TypeOK
  <1>2. ASSUME pc' \in DeleteCalls
        PROVE  /\ obj'.status.roles = binding'[key'].status.roles
               /\ \A e \in Recorded(obj'.status) \ todo', i \in Instances :
                    role'[i][obj'.status.roles[e].path][RoleName(key', e)] = None
    <2>1. CASE \E b \in Bindings : Fetch(b)
      <3>1. PICK b \in Bindings : Fetch(b)
        BY <2>1
      <3>2. /\ obj'.status.roles = binding[b].status.roles
            /\ key' = b /\ binding' = binding
        BY <3>1, Fetched DEF Fetch
      <3>3. todo' = Recorded(binding[b].status)
        BY <1>2, <3>1 DEF Fetch, DeleteCalls
      <3>4. Recorded(obj'.status) = todo'
        BY <3>2, <3>3 DEF Recorded
      <3> QED
        BY <3>2, <3>4
    <2>2. CASE pc \in DeleteCalls /\ UNCHANGED <<key, obj>>
      <3>0. key \in Bindings /\ binding[key].phase = "deleting"
        BY <2>2 DEF TypeInv, WorkerTyped, HeldInv, DeleteCalls
      <3>1. binding'[key].status = binding[key].status
        <4>1. CASE binding' = binding
          BY <4>1
        <4>2. CASE User
          <5>1. PICK c \in Bindings, o \in Object :
                  binding' = [binding EXCEPT ![c] = o] /\ UserWrites(c, o)
            BY <4>2, UserEffect
          <5>2. c # key
            BY <3>0, <5>1 DEF UserWrites
          <5> QED
            BY <3>0, <5>1, <5>2 DEF TypeInv, TypeOK
        <4> QED
          BY <1>2, <2>2, <4>1, <4>2, DeleteFrom DEF Fetch, DeleteCalls
      <3>2. ASSUME NEW e \in Recorded(obj.status), e \notin todo', NEW i \in Instances
            PROVE  role'[i][obj.status.roles[e].path][RoleName(key, e)] = None
        <4> DEFINE t == obj.status.roles[e].path
        <4>0. e \in Entities /\ t \in Trusts
          BY <1>0 DEF Recorded, Object, Status, RoleStatus
        <4>1. role'[i][t][RoleName(key, e)] \in {role[i][t][RoleName(key, e)], None}
          BY <2>2, <3>0, <4>0, OneRoleWritten DEF DeleteCalls
        <4>2. CASE e \notin todo
          BY <2>2, <4>1, <4>2 DEF CleanInv
        <4>3. CASE e \in todo /\ pc = "delete" /\ pc' = "delete"
          <5>1. ~Skips
            <6>1. todo' # todo
              BY <3>2, <4>3
            <6> QED
              BY <6>1 DEF vars, workerVars
          <5> QED
            BY <3>2, <4>1, <4>3, <5>1 DEF Skips
        <4>4. CASE e \in todo /\ ~(pc = "delete" /\ pc' = "delete")
          <5>1. RemoveRole /\ e = cur.e
            BY <1>2, <2>2, <3>2, <4>4, EnvironmentEffect
            DEF DeleteCalls, Next, Worker, Fetch, AddFinalizer, ResolveEntity, FindRole,
                ResolveTrust, CheckPolicy, EnsureRole, UpdateStatus, RemoveRole, Release,
                Abandon, Idle, Gather, User, CreateBinding, EditBinding, DeleteBinding,
                Touch, vars, workerVars
          <5>2. /\ pc = "unrole" /\ cur.t = t /\ cur.i \in InstancesOf[t]
                /\ role' = [role EXCEPT ![cur.i][cur.t][RoleName(key, e)] = None]
            BY <5>1 DEF RemoveRole, CleanInv
          <5>3. RoleName(key, e) \in RoleNames /\ role \in RoleType
            BY <3>0, <4>0 DEF RoleName, RoleNames, TypeInv, TypeOK, RoleType
          <5>4. CASE i = cur.i
            <6> DEFINE n == RoleName(key, e)
            <6>1. role' = [role EXCEPT ![i][t][n] = None] /\ n \in RoleNames
              BY <5>2, <5>3, <5>4
            <6> HIDE DEF n, t
            <6>2. role'[i][t][n] = None
              BY <4>0, <5>3, <6>1 DEF RoleType
            <6> QED
              BY <6>2 DEF n, t
          <5>5. CASE i # cur.i
            <6>1. i \notin InstancesOf[t]
              BY <4>0, <5>2, <5>5 DEF OneInstanceEach
            <6>2. role[i][t][RoleName(key, e)] = None
              BY <3>0, <4>0, <6>1 DEF HomeInv
            <6> QED
              BY <4>1, <6>2
          <5> QED BY <5>4, <5>5
        <4> QED BY <4>2, <4>3, <4>4
      <3> QED
        BY <2>2, <3>1, <3>2 DEF CleanInv
    <2> QED
      BY <1>2, <2>1, <2>2, DeleteFrom
  <1>3. ASSUME pc' = "unrole"
        PROVE  /\ cur'.e \in todo' /\ cur'.t = obj'.status.roles[cur'.e].path
               /\ cur'.i \in InstancesOf[cur'.t]
    <2>1. CASE \E e \in Entities : FindRole(e)
      <3>1. PICK e \in Entities : FindRole(e)
        BY <2>1
      <3> DEFINE t == obj.status.roles[e].path
      <3>2. /\ cur' = [NoCurrent EXCEPT !.e = e, !.t = t, !.i = trustInst[t]]
            /\ e \in todo /\ todo' = todo /\ obj' = obj /\ pc = "delete"
        BY <1>3, <3>1 DEF FindRole
      <3>3. t \in Trusts
        BY <1>0, <3>2 DEF Recorded, TypeInv, WorkerTyped, DeleteCalls, Object, Status,
           RoleStatus
      <3>4. cur'.e = e /\ cur'.t = t /\ cur'.i = trustInst[t]
        BY <3>2 DEF NoCurrent
      <3> QED
        BY <3>2, <3>3, <3>4 DEF EarnedInv
    <2>2. CASE ~\E e \in Entities : FindRole(e)
      <3>1. pc = "unrole" /\ UNCHANGED <<cur, todo, obj>>
        BY <1>3, <2>2, EnvironmentEffect
        DEF Next, Worker, Fetch, AddFinalizer, ResolveEntity, ResolveTrust, CheckPolicy,
            EnsureRole, UpdateStatus, RemoveRole, Release, Abandon, Idle, Gather, User,
            CreateBinding, EditBinding, DeleteBinding, Touch, vars, workerVars
      <3> QED
        BY <3>1 DEF CleanInv
    <2> QED BY <2>1, <2>2
  <1> QED
    BY <1>2, <1>3 DEF CleanInv

\* If each trust stays on one instance, a released binding leaves a role that it
\* recorded only because reconcileDelete gave up on that very role: errors, crashes,
\* retries and edits on the way leave nothing.
THEOREM CleanUnlessSkipped ==
  ASSUME OneInstanceEach
  PROVE  Spec /\ [][~Skips]_vars => [][LeavesNothing]_vars
  <1>1. Init => CleanInv
    BY DEF Init, CleanInv, DeleteCalls
  <1>2. TypeInv /\ HeldInv /\ CleanInv /\ [Next]_vars => [LeavesNothing]_vars
    <2> SUFFICES ASSUME TypeInv, HeldInv, CleanInv, [Next]_vars, NEW b \in Bindings,
                        binding[b].phase = "deleting", binding'[b].phase = "absent",
                        NEW e \in Recorded(binding[b].status), NEW i \in Instances
                 PROVE  role[i][binding[b].status.roles[e].path][RoleName(b, e)] = None
      BY DEF LeavesNothing
    <2>0. binding \in [Bindings -> Object]
      BY DEF TypeInv, TypeOK
    <2>1. Release
      <3>1. CASE User
        <4>1. PICK c \in Bindings, o \in Object :
                binding' = [binding EXCEPT ![c] = o] /\ UserWrites(c, o)
          BY <3>1, UserEffect
        <4> QED
          BY <2>0, <4>1 DEF UserWrites
      <3>2. CASE AddFinalizer \/ UpdateStatus
        BY <2>0, <3>2 DEF AddFinalizer, UpdateStatus, TypeInv, WorkerTyped, Object
      <3>3. CASE ~(User \/ AddFinalizer \/ UpdateStatus \/ Release)
        <4>1. binding' = binding
          BY <3>3, EnvironmentEffect
          DEF Next, Worker, Fetch, ResolveEntity, FindRole, ResolveTrust, CheckPolicy,
              EnsureRole, RemoveRole, Abandon, vars
        <4> QED
          BY <4>1
      <3> QED BY <3>1, <3>2, <3>3
    <2>2. key = b /\ pc = "delete" /\ todo = {}
      BY <2>0, <2>1 DEF Release, TypeInv, WorkerTyped, DeleteCalls
    <2>3. obj.status.roles = binding[b].status.roles
      BY <2>2 DEF CleanInv, DeleteCalls
    <2>4. e \in Recorded(obj.status) \ todo
      BY <2>2, <2>3 DEF Recorded
    <2> QED
      BY <2>2, <2>3, <2>4 DEF CleanInv, DeleteCalls
  <1> QED
    BY <1>1, <1>2, CleanNext, TypeInvariant, EarnedInvariant, HeldInvariant, HomeInvariant,
       PTL DEF Spec
=============================================================================

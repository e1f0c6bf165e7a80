---------------------- MODULE ControlPlaneTrustProofs ----------------------
(***************************************************************************)
(* Proofs about ControlPlaneTrust, for any sets of trusts, ControlPlanes,  *)
(* instances, prefixes and issuers.                                        *)
(***************************************************************************)
EXTENDS ControlPlaneTrust, TLAPS

(***************************************************************************)
(* The inductive invariants.                                               *)
(***************************************************************************)

\* What the worker's copy and target are, by the next call it makes.
WorkerTyped ==
  /\ pc # "idle" => /\ key \in Trusts
                    /\ obj.target \in ControlPlanes
                    /\ cfg \in ConfigPrefixes
  /\ pc \in {"controlplane", "mount", "configure", "unmount"} =>
       client \in Instances
  /\ pc \in {"mount", "configure", "unmount"} => obj.status.path \in Paths
  /\ pc \in {"mount", "configure"} => obj.status.issuer \in Issuers

\* A stored object names a ControlPlane that its spec may name.
TargetsTyped ==
  \A t \in Trusts : trust[t].phase # "absent" => trust[t].target \in Targets[t]

TypeInv == TypeOK /\ WorkerTyped /\ TargetsTyped

LiveCalls   == {"resolve", "controlplane", "mount", "configure", "status"}
DeleteCalls == {"delete", "unmount", "release"}

\* The finalizer protocol: a deleted object keeps its finalizer until the
\* worker releases it, and until then nobody changes what its status records.
HeldInv ==
  /\ \A t \in Trusts : trust[t].phase = "deleting" => trust[t].finalizer
  /\ pc = "finalize" /\ fresh => trust[key].phase = "live"
  /\ pc \in LiveCalls => trust[key].phase # "absent" /\ trust[key].finalizer
  /\ pc \in DeleteCalls => /\ trust[key].phase = "deleting"
                           /\ obj.status = trust[key].status
  /\ pc \in {"idle", "finalize", "resolve", "delete"} => client = None
  /\ pc = "unmount" => client = obj.status.inst

\* Path and issuer come from the same ControlPlane.
IssuerInv ==
  /\ \A c \in ControlPlanes :
       controlPlane[c] \in {Missing, NoIssuer} \cup IssuersOf[c]
  /\ pc \in {"mount", "configure"} =>
       /\ obj.status.issuer \in IssuersOf[obj.target]
       /\ \E q \in Prefixes : obj.status.path = MountPath(q, obj.target)
  /\ IssuerIsolation

\* A status that would turn Ready on agrees with OpenBao while it is fresh.
Earned(s) == s.configured /\ mount[s.inst][s.path] = s.issuer
ReadyInv ==
  /\ fresh /\ pc \in {"finalize", "resolve", "controlplane", "mount", "configure"} =>
       obj.status.ready = trust[key].status.ready
  /\ pc \in {"controlplane", "mount", "configure"} => client = obj.status.inst
  /\ fresh /\ pc = "status" /\ obj.status.ready /\ ~trust[key].status.ready =>
       Earned(obj.status)

-----------------------------------------------------------------------------
USE DEF Missing, Unreachable, Reachable, NoIssuer, Unbound

LEMMA NoObjectType == NoObject \in Object
  BY DEF NoObject, NoStatus, Object, Status

\* Replacing the status of an object touches nothing else of it.
LEMMA StatusReplaced ==
  ASSUME NEW o \in Object, NEW s \in Status
  PROVE  LET n == [o EXCEPT !.status = s]
         IN  /\ n \in Object
             /\ n.status = s
             /\ n.phase = o.phase
             /\ n.finalizer = o.finalizer
             /\ n.target = o.target
  BY DEF Object

\* The statuses the reconcile writes are statuses.
LEMMA StatusesTyped ==
  ASSUME NEW s \in Status
  PROVE  /\ \A b \in BOOLEAN : [s EXCEPT !.ready = b] \in Status
         /\ \A b \in BOOLEAN : [s EXCEPT !.configured = b] \in Status
         /\ \A b \in BOOLEAN :
              [s EXCEPT !.configured = b, !.ready = b] \in Status
         /\ \A i \in Instances \cup {None} :
              /\ [s EXCEPT !.inst = i] \in Status
              /\ [[s EXCEPT !.inst = i] EXCEPT !.ready = FALSE] \in Status
         /\ \A x \in Issuers, p \in Paths :
              [s EXCEPT !.issuer = x, !.path = p] \in Status
  BY DEF Status

\* What they say of readiness.
LEMMA StatusesReady ==
  ASSUME NEW s \in Status
  PROVE  /\ ~[s EXCEPT !.ready = FALSE].ready
         /\ [s EXCEPT !.configured = FALSE].ready = s.ready
         /\ ~[s EXCEPT !.configured = FALSE, !.ready = FALSE].ready
  BY DEF Status

\* A step that ends the reconcile keeps the worker's variables typed.
LEMMA IdleTyped ==
  ASSUME Idle
  PROVE  /\ pc' = "idle" /\ pc' \in Calls
         /\ key' \in Trusts \cup {None}
         /\ obj' \in Object
         /\ fresh' \in BOOLEAN
         /\ cfg' \in ConfigPrefixes \cup {None}
         /\ client' \in Instances \cup {None}
  BY NoObjectType DEF Idle, Calls

\* What a mount path is drawn from.
LEMMA PathTyped ==
  ASSUME NEW q \in Prefixes, NEW c \in ControlPlanes
  PROVE  MountPath(q, c) \in Paths
  BY DEF Paths

\* Writing one mount keeps the type of all.
MountType == [Instances -> [Paths -> {None, Unbound} \cup Issuers]]

LEMMA MountWritten ==
  ASSUME mount \in MountType,
         NEW i \in Instances, NEW p \in Paths, NEW x \in {None, Unbound} \cup Issuers,
         mount' = mount \/ mount' = [mount EXCEPT ![i][p] = x]
  PROVE  mount' \in MountType
  BY DEF MountType

LEMMA TypeInit == Init => TypeInv
  <1> SUFFICES ASSUME Init PROVE TypeInv
    OBVIOUS
  <1>1. NoObject \in Object
    BY NoObjectType
  <1>2. instance \in [Instances -> {Missing, Unreachable, Reachable}]
    BY TargetsAssumption DEF Init
  <1>3. mount \in [Instances -> [Paths -> {None, Unbound} \cup Issuers]]
    BY DEF Init
  <1>4. TypeOK
    BY <1>1, <1>2, <1>3 DEF Init, TypeOK, Calls
  <1>5. WorkerTyped /\ TargetsTyped
    BY DEF Init, WorkerTyped, TargetsTyped, NoObject
  <1> QED
    BY <1>4, <1>5 DEF TypeInv

LEMMA TypeWorker == TypeInv /\ Worker => TypeInv'
  <1> SUFFICES ASSUME TypeInv, Worker PROVE TypeInv'
    OBVIOUS
  <1> USE TargetsAssumption DEF TypeInv, TypeOK, WorkerTyped, TargetsTyped, envVars
  <1>1. ASSUME NEW t \in Trusts, Fetch(t) PROVE TypeInv'
    BY <1>1 DEF Fetch, Object, Calls
  <1>2. CASE AddFinalizer
    <2>1. trust' \in [Trusts -> Object]
      <3>1. key \in Trusts /\ trust[key] \in Object
        BY <1>2 DEF AddFinalizer
      <3>2. [trust[key] EXCEPT !.finalizer = TRUE] \in Object
        BY <3>1 DEF Object
      <3> QED
        BY <1>2, <3>1, <3>2 DEF AddFinalizer
    <2>2. TargetsTyped'
      BY <1>2 DEF AddFinalizer, Object
    <2>3. CASE Idle
      BY <1>2, <2>1, <2>2, <2>3, IdleTyped DEF AddFinalizer
    <2>4. CASE ~Idle
      BY <1>2, <2>1, <2>2, <2>4 DEF AddFinalizer, Object, Calls
    <2> QED BY <2>3, <2>4
  <1>3. CASE ResolveInstance
    <2>1. PICK s \in Status : SetStatus(s)
      <3>1. project[key] \in Instances \cup {None}
        BY <1>3 DEF ResolveInstance
      <3> QED
        BY <1>3, <3>1, StatusesTyped DEF ResolveInstance, DependencyNotReady, Object
    <2>2. obj' \in Object /\ obj'.target = obj.target
      BY <2>1, StatusReplaced DEF SetStatus
    <2> QED
      BY <1>3, <2>2 DEF ResolveInstance, DependencyNotReady, Calls
  <1>4. CASE ResolveControlPlane
    <2>1. CASE pc' = "mount"
      <3> DEFINE p == MountPath(ResolveAuthMountPrefix(client), obj.target)
                 s == [obj.status EXCEPT !.issuer = controlPlane[obj.target], !.path = p]
      <3>1. ResolveAuthMountPrefix(client) \in Prefixes
        BY <1>4 DEF ResolveControlPlane, ResolveAuthMountPrefix, Prefixes
      <3>2. p \in Paths
        BY <1>4, <3>1, PathTyped DEF ResolveControlPlane
      <3>3. SetStatus(s) /\ controlPlane[obj.target] \in Issuers
        BY <1>4, <2>1 DEF ResolveControlPlane, DependencyNotReady, TrustIncomplete
      <3>4. s \in Status /\ s.path = p /\ s.issuer = controlPlane[obj.target]
        BY <3>2, <3>3, StatusesTyped DEF Object, Status
      <3> HIDE DEF s, p
      <3>5. obj' \in Object /\ obj'.target = obj.target /\ obj'.status = s
        BY <3>3, <3>4, StatusReplaced DEF SetStatus
      <3> QED
        BY <1>4, <2>1, <3>2, <3>3, <3>4, <3>5 DEF ResolveControlPlane, Calls
    <2>2. CASE pc' # "mount"
      <3>1. PICK s \in Status : SetStatus(s)
        BY <1>4, <2>2, StatusesTyped DEF ResolveControlPlane, DependencyNotReady, TrustIncomplete, Object
      <3>2. obj' \in Object /\ obj'.target = obj.target /\ pc' = "status"
        BY <1>4, <2>2, <3>1, StatusReplaced DEF ResolveControlPlane, DependencyNotReady, TrustIncomplete, SetStatus
      <3> QED
        BY <1>4, <3>2 DEF ResolveControlPlane, Calls
    <2> QED BY <2>1, <2>2
  <1>5. CASE EnsureMount
    <2>1. mount' \in [Instances -> [Paths -> {None, Unbound} \cup Issuers]]
      <3> DEFINE i == client
                 p == obj.status.path
                 x == Unbound
      <3>1. p \in Paths /\ i \in Instances /\ x \in {None, Unbound}
        BY <1>5 DEF EnsureMount
      <3>2. mount' = mount \/ mount' = [mount EXCEPT ![i][p] = x]
        BY <1>5 DEF EnsureMount, EnableMount
      <3> HIDE DEF i, p, x
      <3> QED
        BY <3>1, <3>2, MountWritten DEF MountType
    <2>2. CASE pc' = "configure" /\ obj' = obj
      BY <1>5, <2>1, <2>2 DEF EnsureMount, Calls
    <2>3. CASE TrustFailed \/ TrustIncomplete
      <3>1. PICK s \in Status : SetStatus(s)
        BY <2>3, StatusesTyped DEF TrustFailed, TrustIncomplete, Object
      <3>2. obj' \in Object /\ obj'.target = obj.target
        BY <3>1, StatusReplaced DEF SetStatus
      <3> QED
        BY <1>5, <2>1, <2>3, <3>2 DEF EnsureMount, TrustFailed, TrustIncomplete, Calls
    <2> QED
      BY <1>5, <2>2, <2>3 DEF EnsureMount
  <1>6. CASE ConfigureTrust
    <2>1. mount' \in [Instances -> [Paths -> {None, Unbound} \cup Issuers]]
      <3> DEFINE i == client
                 p == obj.status.path
                 x == obj.status.issuer
      <3>1. p \in Paths /\ i \in Instances /\ x \in Issuers
        BY <1>6 DEF ConfigureTrust
      <3>2. mount' = mount \/ mount' = [mount EXCEPT ![i][p] = x]
        BY <1>6 DEF ConfigureTrust, BindIssuer
      <3> HIDE DEF i, p, x
      <3> QED
        BY <3>1, <3>2, MountWritten DEF MountType
    <2>2. PICK s \in Status : SetStatus(s)
      BY <1>6, StatusesTyped DEF ConfigureTrust, TrustFailed, Object
    <2>3. obj' \in Object /\ obj'.target = obj.target /\ pc' = "status"
      BY <1>6, <2>2, StatusReplaced DEF ConfigureTrust, TrustFailed, SetStatus
    <2> QED
      BY <1>6, <2>1, <2>3 DEF ConfigureTrust, Calls
  <1>7. CASE UpdateStatus
    <2>1. key \in Trusts /\ trust[key] \in Object /\ obj.status \in Status
      BY <1>7 DEF UpdateStatus, Object
    <2> DEFINE o == [trust[key] EXCEPT !.status = obj.status]
    <2>2. o \in Object /\ o.target = trust[key].target /\ o.phase = trust[key].phase
      BY <2>1, StatusReplaced
    <2>3. trust' = [trust EXCEPT ![key] = o]
      BY <1>7 DEF UpdateStatus
    <2> HIDE DEF o
    <2>4. trust' \in [Trusts -> Object]
      BY <2>1, <2>2, <2>3
    <2>5. TargetsTyped'
      BY <2>1, <2>2, <2>3
    <2> QED
      BY <1>7, <2>4, <2>5, IdleTyped DEF UpdateStatus
  <1>8. CASE FindMount
    BY <1>8 DEF FindMount, Recorded, Object, Status, Calls
  <1>9. CASE Unmount
    BY <1>9, IdleTyped DEF Unmount, Object, Calls
  <1>10. CASE Release
    BY <1>10, IdleTyped, NoObjectType DEF Release, NoObject
  <1>11. CASE Abandon
    BY <1>11, IdleTyped DEF Abandon
  <1> QED
    BY <1>1, <1>2, <1>3, <1>4, <1>5, <1>6, <1>7, <1>8, <1>9, <1>10, <1>11 DEF Worker

LEMMA TypeUser == TypeInv /\ User => TypeInv'
  <1> SUFFICES ASSUME TypeInv, User PROVE TypeInv'
    OBVIOUS
  <1> USE TargetsAssumption DEF TypeInv, TypeOK, WorkerTyped, TargetsTyped, envVars, Touch
  <1>1. PICK t \in Trusts : CreateTrust(t) \/ EditTrust(t) \/ DeleteTrust(t)
    BY DEF User
  <1>2. fresh' \in BOOLEAN
    BY <1>1 DEF CreateTrust, EditTrust, DeleteTrust
  <1>3. CASE CreateTrust(t)
    <2>1. PICK c \in Targets[t] :
            trust' = [trust EXCEPT ![t] = [NoObject EXCEPT !.phase = "live", !.target = c]]
      BY <1>3 DEF CreateTrust
    <2>2. [NoObject EXCEPT !.phase = "live", !.target = c] \in Object
      BY <2>1, NoObjectType DEF Object
    <2>3. trust' \in [Trusts -> Object] /\ TargetsTyped'
      BY <2>1, <2>2, NoObjectType DEF Object
    <2> QED
      BY <1>2, <1>3, <2>3 DEF CreateTrust
  <1>4. CASE EditTrust(t)
    <2>1. PICK c \in Targets[t] : trust' = [trust EXCEPT ![t].target = c]
      BY <1>4 DEF EditTrust
    <2>2. trust' \in [Trusts -> Object] /\ TargetsTyped'
      BY <2>1 DEF Object
    <2> QED
      BY <1>2, <1>4, <2>2 DEF EditTrust
  <1>5. CASE DeleteTrust(t)
    <2>1. trust' \in [Trusts -> Object] /\ TargetsTyped'
      BY <1>5, NoObjectType DEF DeleteTrust, Object, NoObject
    <2> QED
      BY <1>2, <1>5, <2>1 DEF DeleteTrust
  <1> QED
    BY <1>1, <1>3, <1>4, <1>5

LEMMA TypeEnvironment == TypeInv /\ Environment => TypeInv'
  <1> SUFFICES ASSUME TypeInv, Environment PROVE TypeInv'
    OBVIOUS
  <1> USE TargetsAssumption DEF TypeInv, TypeOK, WorkerTyped, TargetsTyped, workerVars
  <1>1. ASSUME NEW t \in Trusts, SetProject(t) PROVE TypeInv'
    BY <1>1 DEF SetProject
  <1>2. ASSUME NEW i \in Instances, SetInstance(i) PROVE TypeInv'
    BY <1>2 DEF SetInstance
  <1>3. ASSUME NEW c \in ControlPlanes, SetControlPlane(c) PROVE TypeInv'
    <2>1. IssuersOf[c] \subseteq Issuers
      BY DEF Issuers
    <2> QED
      BY <1>3, <2>1 DEF SetControlPlane
  <1>4. ASSUME SetPrefix PROVE TypeInv'
    BY <1>4 DEF SetPrefix
  <1> QED
    BY <1>1, <1>2, <1>3, <1>4 DEF Environment

LEMMA TypeNext == TypeInv /\ [Next]_vars => TypeInv'
  <1> SUFFICES ASSUME TypeInv, [Next]_vars PROVE TypeInv'
    OBVIOUS
  <1>1. CASE Next
    BY <1>1, TypeWorker, TypeUser, TypeEnvironment DEF Next
  <1>2. CASE UNCHANGED vars
    BY <1>2 DEF vars, envVars, workerVars, TypeInv, TypeOK, WorkerTyped, TargetsTyped
  <1> QED
    BY <1>1, <1>2

LEMMA TypeInvariant == Spec => []TypeInv
  BY TypeInit, TypeNext, PTL DEF Spec

\* Type correctness of every variable, in every reachable state.
THEOREM TypeCorrect == Spec => []TypeOK
  BY TypeInvariant, PTL DEF TypeInv

-----------------------------------------------------------------------------
(***************************************************************************)
(* The finalizer protocol.                                                 *)
(***************************************************************************)

LEMMA HeldInit == Init => HeldInv
  BY DEF Init, HeldInv, LiveCalls, DeleteCalls, NoObject

\* A reconcile that ends leaves HeldInv to the stored objects alone.
LEMMA HeldIdle ==
  ASSUME Idle,
         \A t \in Trusts : trust'[t].phase = "deleting" => trust'[t].finalizer
  PROVE  HeldInv'
  BY DEF Idle, HeldInv, LiveCalls, DeleteCalls

LEMMA HeldWorker == TypeInv /\ HeldInv /\ Worker => HeldInv'
  <1> SUFFICES ASSUME TypeInv, HeldInv, Worker PROVE HeldInv'
    OBVIOUS
  <1> USE DEF TypeInv, TypeOK, WorkerTyped, HeldInv, LiveCalls, DeleteCalls
  <1>1. ASSUME NEW t \in Trusts, Fetch(t) PROVE HeldInv'
    BY <1>1 DEF Fetch, Object
  <1>2. CASE AddFinalizer
    <2>1. \A t \in Trusts : trust'[t].phase = "deleting" => trust'[t].finalizer
      BY <1>2 DEF AddFinalizer, Object
    <2>2. trust'[key].phase = "live" /\ trust'[key].finalizer
      BY <1>2 DEF AddFinalizer, Object
    <2>3. CASE Idle
      BY <2>1, <2>3, HeldIdle
    <2>4. CASE ~Idle
      BY <1>2, <2>1, <2>2, <2>4 DEF AddFinalizer
    <2> QED BY <2>3, <2>4
  <1>3. CASE ResolveInstance
    BY <1>3 DEF ResolveInstance, DependencyNotReady
  <1>4. CASE ResolveControlPlane
    BY <1>4 DEF ResolveControlPlane, DependencyNotReady, TrustIncomplete
  <1>5. CASE EnsureMount
    BY <1>5 DEF EnsureMount, TrustFailed, TrustIncomplete
  <1>6. CASE ConfigureTrust
    BY <1>6 DEF ConfigureTrust, TrustFailed
  <1>7. CASE UpdateStatus
    <2>1. \A t \in Trusts : trust'[t].phase = "deleting" => trust'[t].finalizer
      BY <1>7 DEF UpdateStatus, Object
    <2> QED
      BY <1>7, <2>1, HeldIdle DEF UpdateStatus
  <1>8. CASE FindMount
    BY <1>8 DEF FindMount
  <1>9. CASE Unmount
    BY <1>9, HeldIdle DEF Unmount
  <1>10. CASE Release
    <2>1. \A t \in Trusts : trust'[t].phase = "deleting" => trust'[t].finalizer
      BY <1>10 DEF Release, NoObject
    <2> QED
      BY <1>10, <2>1, HeldIdle DEF Release
  <1>11. CASE Abandon
    BY <1>11, HeldIdle DEF Abandon
  <1> QED
    BY <1>1, <1>2, <1>3, <1>4, <1>5, <1>6, <1>7, <1>8, <1>9, <1>10, <1>11 DEF Worker

\* What a user's request does to the object it is about.
UserWrites(t, o) ==
  \/ /\ trust[t].phase = "absent"
     /\ o.phase = "live" /\ ~o.finalizer /\ o.status = NoStatus
  \/ /\ trust[t].phase = "live" /\ o.phase \in {"live", "deleting"}
     /\ o.finalizer = trust[t].finalizer /\ o.status = trust[t].status
     /\ o.phase = "deleting" => o.finalizer
  \/ /\ trust[t].phase = "live" /\ ~trust[t].finalizer
     /\ o = NoObject

LEMMA UserEffect ==
  ASSUME TypeInv, User
  PROVE  \E t \in Trusts, o \in Object :
           /\ trust' = [trust EXCEPT ![t] = o]
           /\ UserWrites(t, o)
           /\ Touch(t)
  <1> USE TargetsAssumption DEF TypeInv, TypeOK
  <1>1. PICK t \in Trusts : CreateTrust(t) \/ EditTrust(t) \/ DeleteTrust(t)
    BY DEF User
  <1>2. CASE CreateTrust(t)
    <2>1. PICK c \in Targets[t] :
            trust' = [trust EXCEPT ![t] = [NoObject EXCEPT !.phase = "live", !.target = c]]
      BY <1>2 DEF CreateTrust
    <2> DEFINE o == [NoObject EXCEPT !.phase = "live", !.target = c]
    <2>2. o \in Object
      BY <2>1, NoObjectType DEF Object
    <2>3. o.phase = "live" /\ ~o.finalizer /\ o.status = NoStatus
      BY DEF NoObject
    <2> HIDE DEF o
    <2> QED
      BY <1>2, <2>1, <2>2, <2>3 DEF CreateTrust, UserWrites, o
  <1>3. CASE EditTrust(t)
    <2>1. PICK c \in Targets[t] : trust' = [trust EXCEPT ![t].target = c]
      BY <1>3 DEF EditTrust
    <2> DEFINE o == [trust[t] EXCEPT !.target = c]
    <2>2. o \in Object /\ o.phase = "live" /\ trust[t].phase = "live"
          /\ o.finalizer = trust[t].finalizer /\ o.status = trust[t].status
      BY <1>3, <2>1 DEF Object, EditTrust
    <2>3. trust' = [trust EXCEPT ![t] = o]
      BY <2>1
    <2> HIDE DEF o
    <2> QED
      BY <1>3, <2>2, <2>3 DEF EditTrust, UserWrites
  <1>4. CASE DeleteTrust(t) /\ trust[t].finalizer
    <2> DEFINE o == [trust[t] EXCEPT !.phase = "deleting"]
    <2>1. o \in Object /\ o.phase = "deleting" /\ trust[t].phase = "live"
          /\ o.finalizer = trust[t].finalizer /\ o.status = trust[t].status
      BY <1>4 DEF Object, DeleteTrust
    <2>2. trust' = [trust EXCEPT ![t] = o]
      BY <1>4 DEF DeleteTrust
    <2> HIDE DEF o
    <2> QED
      BY <1>4, <2>1, <2>2 DEF DeleteTrust, UserWrites
  <1>5. CASE DeleteTrust(t) /\ ~trust[t].finalizer
    BY <1>5, NoObjectType DEF DeleteTrust, UserWrites
  <1> QED
    BY <1>1, <1>2, <1>3, <1>4, <1>5

\* Users cannot disturb the object the worker holds: they may delete it, which
\* the finalizer turns into a mark, or make the copy stale.
LEMMA HeldUser == TypeInv /\ HeldInv /\ User => HeldInv'
  <1> SUFFICES ASSUME TypeInv, HeldInv, User PROVE HeldInv'
    OBVIOUS
  <1> USE DEF TypeInv, TypeOK, WorkerTyped, HeldInv, LiveCalls, DeleteCalls, Touch
  <1>1. PICK t \in Trusts, o \in Object :
          trust' = [trust EXCEPT ![t] = o] /\ UserWrites(t, o) /\ Touch(t)
    BY UserEffect
  <1>2. trust'[t] = o /\ \A u \in Trusts \ {t} : trust'[u] = trust[u]
    BY <1>1
  <1>3. NoObject.phase = "absent"
    BY DEF NoObject
  <1>4. o.phase = "deleting" => o.finalizer
    BY <1>1, <1>3 DEF UserWrites
  <1>5. pc \in LiveCalls /\ key = t => o.phase # "absent" /\ o.finalizer
    BY <1>1 DEF UserWrites
  <1>6. pc \in DeleteCalls => key # t
    BY <1>1 DEF UserWrites
  <1> QED
    BY <1>1, <1>2, <1>4, <1>5, <1>6

LEMMA HeldEnvironment == HeldInv /\ Environment => HeldInv'
  BY DEF HeldInv, Environment, SetProject, SetInstance, SetControlPlane, SetPrefix,
         workerVars

LEMMA HeldNext == TypeInv /\ HeldInv /\ [Next]_vars => HeldInv'
  <1> SUFFICES ASSUME TypeInv, HeldInv, [Next]_vars PROVE HeldInv'
    OBVIOUS
  <1>1. CASE Next
    BY <1>1, HeldWorker, HeldUser, HeldEnvironment DEF Next
  <1>2. CASE UNCHANGED vars
    BY <1>2 DEF vars, workerVars, HeldInv
  <1> QED
    BY <1>1, <1>2

LEMMA HeldInvariant == Spec => [](TypeInv /\ HeldInv)
  BY TypeInvariant, HeldInit, HeldNext, PTL DEF Spec

\* Whatever users, other controllers and crashes do, every call after
\* AddFinalizer is made for a stored object that holds the finalizer.
THEOREM FinalizerHeld == Spec => []FinalizerGuardsWork
  <1>1. TypeInv /\ HeldInv => FinalizerGuardsWork
    <2> SUFFICES ASSUME TypeInv, HeldInv, pc \notin {"idle", "finalize"}
                 PROVE  trust[key].phase # "absent" /\ trust[key].finalizer
      BY DEF FinalizerGuardsWork
    <2>1. pc \in LiveCalls \cup DeleteCalls
      BY DEF TypeInv, TypeOK, Calls, LiveCalls, DeleteCalls
    <2>2. key \in Trusts
      BY DEF TypeInv, WorkerTyped
    <2> QED
      BY <2>1, <2>2 DEF HeldInv
  <1> QED
    BY <1>1, HeldInvariant, PTL

\* A reconcile only unmounts the mount that the deleted object it finalizes
\* has recorded.
THEOREM CleanupScoped == Spec => OnlyOwnMountRemoved
  <1> DEFINE A == \A i \in Instances, p \in Paths :
                    mount[i][p] # None /\ mount'[i][p] = None =>
                      \E t \in Trusts : /\ trust[t].phase = "deleting"
                                        /\ trust[t].status.inst = i
                                        /\ trust[t].status.path = p
  <1>1. TypeInv /\ HeldInv /\ [Next]_vars => A
    <2> SUFFICES ASSUME TypeInv, HeldInv, [Next]_vars,
                        NEW i \in Instances, NEW p \in Paths,
                        mount[i][p] # None, mount'[i][p] = None
                 PROVE  \E t \in Trusts : /\ trust[t].phase = "deleting"
                                          /\ trust[t].status.inst = i
                                          /\ trust[t].status.path = p
      OBVIOUS
    <2> USE NamesAssumption DEF TypeInv, TypeOK, WorkerTyped
    <2>1. ~EnsureMount
      BY DEF EnsureMount, EnableMount, TrustFailed, TrustIncomplete
    <2>2. ASSUME ConfigureTrust PROVE FALSE
      <3>1. CASE UNCHANGED mount
        BY <3>1
      <3>2. CASE BindIssuer(client, obj.status.path, obj.status.issuer)
        <4>1. obj.status.issuer # None
          BY <2>2 DEF ConfigureTrust
        <4> QED
          BY <3>2, <4>1 DEF BindIssuer
      <3> QED
        BY <2>2, <3>1, <3>2 DEF ConfigureTrust
    <2>3. Unmount
      BY <2>1, <2>2 DEF Next, Worker, User, Environment, Fetch, AddFinalizer,
         ResolveInstance, ResolveControlPlane, UpdateStatus, FindMount, Release,
         Abandon, CreateTrust, EditTrust, DeleteTrust, Touch, SetProject,
         SetInstance, SetControlPlane, SetPrefix, vars
    <2>4. i = client /\ p = obj.status.path
      BY <2>3 DEF Unmount
    <2> QED
      BY <2>3, <2>4 DEF Unmount, HeldInv, DeleteCalls
  <1> QED
    BY <1>1, HeldInvariant, PTL DEF Spec, OnlyOwnMountRemoved

-----------------------------------------------------------------------------
(***************************************************************************)
(* Issuers stay with their ControlPlane.                                   *)
(***************************************************************************)

LEMMA IssuerInit == Init => IssuerInv
  BY PathTyped DEF Init, IssuerInv, IssuerIsolation

\* Writing one mount keeps isolation if an issuer goes to its own ControlPlane.
LEMMA IsolatedWrite ==
  ASSUME PathsDistinct, TypeInv, IssuerIsolation, NEW i, NEW p, NEW x,
         mount' = mount \/ mount' = [mount EXCEPT ![i][p] = x],
         \/ x \in {None, Unbound}
         \/ \E q \in Prefixes, c \in ControlPlanes :
              p = MountPath(q, c) /\ x \in IssuersOf[c]
  PROVE  IssuerIsolation'
  <1> SUFFICES ASSUME NEW j \in Instances, NEW q \in Prefixes, NEW c \in ControlPlanes
               PROVE  mount'[j][MountPath(q, c)] \in {None, Unbound} \cup IssuersOf[c]
    BY DEF IssuerIsolation
  <1> DEFINE m == MountPath(q, c)
  <1>1. m \in Paths
    BY PathTyped
  <1>2. mount[j][m] \in {None, Unbound} \cup IssuersOf[c]
    BY DEF IssuerIsolation
  <1>3. p = m => x \in {None, Unbound} \cup IssuersOf[c]
    BY DEF PathsDistinct
  <1> HIDE DEF m
  <1>4. mount'[j][m] = mount[j][m] \/ (p = m /\ mount'[j][m] = x)
    BY <1>1 DEF TypeInv, TypeOK
  <1> QED
    BY <1>2, <1>3, <1>4 DEF m

\* The step that chooses path and issuer takes both from one ControlPlane.
LEMMA IssuerChosen ==
  ASSUME TypeInv, IssuerInv, ResolveControlPlane, pc' = "mount"
  PROVE  /\ obj'.status.issuer \in IssuersOf[obj'.target]
         /\ \E q \in Prefixes : obj'.status.path = MountPath(q, obj'.target)
  <1> USE DEF TypeInv, TypeOK, WorkerTyped
  <1> DEFINE c == obj.target
             q == ResolveAuthMountPrefix(client)
             s == [obj.status EXCEPT !.issuer = controlPlane[c], !.path = MountPath(q, c)]
  <1>1. SetStatus(s) /\ controlPlane[c] \notin {Missing, NoIssuer}
    BY DEF ResolveControlPlane, DependencyNotReady, TrustIncomplete
  <1>2. c \in ControlPlanes /\ client \in Instances /\ cfg \in ConfigPrefixes
    BY DEF ResolveControlPlane
  <1>3. q \in Prefixes
    BY <1>2 DEF ResolveAuthMountPrefix, Prefixes
  <1>4. controlPlane[c] \in IssuersOf[c]
    BY <1>1, <1>2 DEF IssuerInv
  <1>5. obj.status \in Status
    BY DEF Object
  <1>6. s.issuer = controlPlane[c] /\ s.path = MountPath(q, c)
    BY <1>5 DEF Status
  <1>7. controlPlane[c] \in Issuers /\ MountPath(q, c) \in Paths
    BY <1>2, <1>3, <1>4, PathTyped DEF Issuers
  <1>8. s \in Status
    BY <1>5, <1>7, StatusesTyped
  <1> HIDE DEF s, q
  <1>9. obj'.status = s /\ obj'.target = c
    BY <1>1, <1>8, StatusReplaced DEF SetStatus
  <1> QED
    BY <1>3, <1>4, <1>6, <1>9

LEMMA IssuerWorker ==
  PathsDistinct /\ TypeInv /\ IssuerInv /\ Worker => IssuerInv'
  <1> SUFFICES ASSUME PathsDistinct, TypeInv, IssuerInv, Worker PROVE IssuerInv'
    OBVIOUS
  <1>0. Unbound \notin Issuers /\ None \notin Issuers
    BY NamesAssumption
  <1> USE DEF envVars, Idle, IssuerInv
  <1>1. ASSUME NEW t \in Trusts, Fetch(t) PROVE IssuerInv'
    BY <1>1 DEF Fetch, IssuerIsolation
  <1>2. CASE AddFinalizer
    BY <1>2 DEF AddFinalizer, IssuerIsolation
  <1>3. CASE ResolveInstance
    BY <1>3 DEF ResolveInstance, DependencyNotReady, IssuerIsolation
  <1>4. CASE ResolveControlPlane
    <2>1. pc' \in {"status", "mount"}
      BY <1>4 DEF ResolveControlPlane, DependencyNotReady, TrustIncomplete
    <2>2. UNCHANGED <<mount, controlPlane>>
      BY <1>4 DEF ResolveControlPlane
    <2> QED
      BY <1>4, <2>1, <2>2, IssuerChosen DEF IssuerIsolation
  <1>5. CASE EnsureMount
    <2>1. pc' = "status" \/ (pc' = "configure" /\ obj' = obj)
      BY <1>5 DEF EnsureMount, TrustFailed, TrustIncomplete
    <2>2. mount' = mount \/ mount' = [mount EXCEPT ![client][obj.status.path] = Unbound]
      BY <1>5 DEF EnsureMount, EnableMount
    <2>3. IssuerIsolation'
      BY <2>2, IsolatedWrite
    <2> QED
      BY <1>5, <2>1, <2>3 DEF EnsureMount
  <1>6. CASE ConfigureTrust
    <2> DEFINE c == obj.target
               p == obj.status.path
               x == obj.status.issuer
               i == client
    <2>1. pc' = "status" /\ controlPlane' = controlPlane
      BY <1>6 DEF ConfigureTrust, TrustFailed
    <2>2. mount' = mount \/ mount' = [mount EXCEPT ![i][p] = x]
      BY <1>6 DEF ConfigureTrust, BindIssuer
    <2>3. c \in ControlPlanes
      BY <1>6 DEF ConfigureTrust, TypeInv, WorkerTyped
    <2>4. x \in IssuersOf[c] /\ \E q \in Prefixes : p = MountPath(q, c)
      BY <1>6 DEF ConfigureTrust
    <2> HIDE DEF c, p, x, i
    <2>5. IssuerIsolation'
      BY <2>2, <2>3, <2>4, IsolatedWrite
    <2> QED
      BY <2>1, <2>5
  <1>7. CASE UpdateStatus
    BY <1>7 DEF UpdateStatus, IssuerIsolation
  <1>8. CASE FindMount
    BY <1>8 DEF FindMount, IssuerIsolation
  <1>9. CASE Unmount
    <2>1. pc' \in {"idle", "release"} /\ controlPlane' = controlPlane
      BY <1>9 DEF Unmount
    <2>2. IssuerIsolation'
      BY <1>9, IsolatedWrite DEF Unmount
    <2> QED
      BY <2>1, <2>2
  <1>10. CASE Release
    BY <1>10 DEF Release, IssuerIsolation
  <1>11. CASE Abandon
    BY <1>11 DEF Abandon, IssuerIsolation
  <1> QED
    BY <1>1, <1>2, <1>3, <1>4, <1>5, <1>6, <1>7, <1>8, <1>9, <1>10, <1>11 DEF Worker

LEMMA IssuerNext ==
  PathsDistinct /\ TypeInv /\ IssuerInv /\ [Next]_vars => IssuerInv'
  <1> SUFFICES ASSUME PathsDistinct, TypeInv, IssuerInv, [Next]_vars PROVE IssuerInv'
    OBVIOUS
  <1>1. CASE Worker
    BY <1>1, IssuerWorker
  <1>2. CASE User
    BY <1>2 DEF User, CreateTrust, EditTrust, DeleteTrust, Touch, envVars, IssuerInv, IssuerIsolation
  <1>3. CASE Environment
    <2> USE DEF IssuerInv, IssuerIsolation, workerVars
    <2>1. ASSUME NEW c \in ControlPlanes, SetControlPlane(c) PROVE IssuerInv'
      BY <2>1 DEF SetControlPlane, TypeInv, TypeOK
    <2> QED
      BY <1>3, <2>1 DEF Environment, SetProject, SetInstance, SetPrefix
  <1>4. CASE UNCHANGED vars
    BY <1>4 DEF vars, envVars, workerVars, IssuerInv, IssuerIsolation
  <1> QED
    BY <1>1, <1>2, <1>3, <1>4 DEF Next

\* No ControlPlane's tokens are ever trusted on another ControlPlane's mount,
\* however specs, issuers, prefixes and instances change during a reconcile,
\* if the names of two ControlPlanes never give the same mount path.
THEOREM IssuersIsolated ==
  ASSUME PathsDistinct
  PROVE  Spec => []IssuerIsolation
  <1>1. IssuerInv => IssuerIsolation
    BY DEF IssuerInv
  <1> QED
    BY <1>1, TypeInvariant, IssuerInit, IssuerNext, PTL DEF Spec

-----------------------------------------------------------------------------
(***************************************************************************)
(* Ready is earned.                                                        *)
(***************************************************************************)

LEMMA ReadyInit == Init => ReadyInv
  BY DEF Init, ReadyInv

LEMMA ReadyIdle == Idle => ReadyInv'
  BY DEF Idle, ReadyInv

\* The status a failed call leaves is ready only if the stored one is.
LEMMA ReadyFailed ==
  ASSUME TypeInv, ReadyInv,
         pc \in {"resolve", "controlplane", "mount", "configure"},
         pc' = "status",
         UNCHANGED <<trust, key, fresh>>,
         obj'.status.ready => obj.status.ready
  PROVE  ReadyInv'
  BY DEF ReadyInv

LEMMA ReadyWorker == TypeInv /\ ReadyInv /\ Worker => ReadyInv'
  <1> SUFFICES ASSUME TypeInv, ReadyInv, Worker PROVE ReadyInv'
    OBVIOUS
  <1>0. obj \in Object /\ obj.status \in Status
    BY DEF TypeInv, TypeOK, Object
  <1>1. ASSUME NEW t \in Trusts, Fetch(t) PROVE ReadyInv'
    BY <1>1 DEF Fetch, ReadyInv
  <1>2. CASE AddFinalizer
    <2>1. trust'[key].status = trust[key].status
      BY <1>2 DEF AddFinalizer, TypeInv, TypeOK, WorkerTyped, Object
    <2>2. CASE Idle
      BY <2>2, ReadyIdle
    <2>3. CASE ~Idle
      <3>1. obj'.status = obj.status
        BY <1>0, <1>2, <2>3 DEF AddFinalizer, Object
      <3> QED
        BY <1>2, <2>1, <2>3, <3>1 DEF AddFinalizer, ReadyInv
    <2> QED BY <2>2, <2>3
  <1>3. CASE ResolveInstance
    <2> DEFINE named == [obj.status EXCEPT !.inst = project[key]]
    <2>1. project[key] \in Instances \cup {None}
      BY <1>3 DEF ResolveInstance, TypeInv, TypeOK, WorkerTyped
    <2>2. named \in Status /\ named.ready = obj.status.ready /\ named.inst = project[key]
      BY <1>0, <2>1 DEF Status
    <2> HIDE DEF named
    <2>3. CASE SetStatus(named) /\ client' = project[key] /\ pc' = "controlplane"
      <3>1. obj'.status = named
        BY <1>0, <2>2, <2>3, StatusReplaced DEF SetStatus
      <3> QED
        BY <1>3, <2>2, <2>3, <3>1 DEF ResolveInstance, ReadyInv
    <2>4. CASE \E s \in {obj.status, named} : DependencyNotReady(s)
      <3>1. PICK s \in Status : DependencyNotReady(s)
        BY <1>0, <2>2, <2>4
      <3>2. ~[s EXCEPT !.ready = FALSE].ready /\ [s EXCEPT !.ready = FALSE] \in Status
        BY StatusesTyped DEF Status
      <3>3. ~obj'.status.ready /\ pc' = "status"
        BY <1>0, <3>1, <3>2, StatusReplaced DEF DependencyNotReady, SetStatus
      <3> QED
        BY <1>3, <3>3, ReadyFailed DEF ResolveInstance
    <2> QED
      BY <1>3, <2>3, <2>4 DEF ResolveInstance, named
  <1>4. CASE ResolveControlPlane
    <2>1. CASE pc' = "mount"
      <3> DEFINE c == obj.target
                 p == MountPath(ResolveAuthMountPrefix(client), c)
                 s == [obj.status EXCEPT !.issuer = controlPlane[c], !.path = p]
      <3>1. SetStatus(s)
        BY <1>4, <2>1 DEF ResolveControlPlane, DependencyNotReady, TrustIncomplete
      <3>2. s.ready = obj.status.ready /\ s.inst = obj.status.inst
        BY <1>0 DEF Status
      <3> HIDE DEF s
      <3>3. obj'.status = s
        BY <1>0, <3>1 DEF SetStatus, Object
      <3> QED
        BY <1>4, <2>1, <3>2, <3>3 DEF ResolveControlPlane, ReadyInv
    <2>2. CASE pc' # "mount"
      <3>1. PICK s \in Status : SetStatus(s) /\ ~s.ready
        BY <1>0, <1>4, <2>2, StatusesTyped, StatusesReady
        DEF ResolveControlPlane, DependencyNotReady, TrustIncomplete
      <3>2. ~obj'.status.ready /\ pc' = "status"
        BY <1>0, <1>4, <2>2, <3>1, StatusReplaced
        DEF ResolveControlPlane, DependencyNotReady, TrustIncomplete, SetStatus
      <3> QED
        BY <1>4, <3>2, ReadyFailed DEF ResolveControlPlane
    <2> QED BY <2>1, <2>2
  <1>5. CASE EnsureMount
    <2>1. CASE pc' = "configure" /\ obj' = obj
      BY <1>5, <2>1 DEF EnsureMount, ReadyInv
    <2>2. CASE TrustFailed \/ TrustIncomplete
      <3>1. PICK s \in Status : SetStatus(s) /\ (s.ready => obj.status.ready)
        BY <1>0, <2>2, StatusesTyped, StatusesReady DEF TrustFailed, TrustIncomplete
      <3>2. (obj'.status.ready => obj.status.ready) /\ pc' = "status"
        <4>1. obj'.status = s
          BY <1>0, <3>1, StatusReplaced DEF SetStatus
        <4>2. pc' = "status"
          BY <2>2 DEF TrustFailed, TrustIncomplete
        <4> QED BY <3>1, <4>1, <4>2
      <3> QED
        BY <1>5, <3>2, ReadyFailed DEF EnsureMount
    <2> QED
      BY <1>5, <2>1, <2>2 DEF EnsureMount
  <1>6. CASE ConfigureTrust
    <2>1. CASE TrustFailed
      <3>1. PICK s \in Status : SetStatus(s) /\ s.ready = obj.status.ready
        BY <1>0, <2>1, StatusesTyped, StatusesReady DEF TrustFailed
      <3>2. (obj'.status.ready => obj.status.ready) /\ pc' = "status"
        <4>1. obj'.status = s
          BY <1>0, <3>1, StatusReplaced DEF SetStatus
        <4>2. pc' = "status"
          BY <2>1 DEF TrustFailed
        <4> QED BY <3>1, <4>1, <4>2
      <3> QED
        BY <1>6, <3>2, ReadyFailed DEF ConfigureTrust
    <2>2. CASE ~TrustFailed
      <3> DEFINE s == [obj.status EXCEPT !.configured = TRUE, !.ready = TRUE]
      <3>1. SetStatus(s) /\ pc' = "status"
            /\ mount' = [mount EXCEPT ![client][obj.status.path] = obj.status.issuer]
        BY <1>6, <2>2 DEF ConfigureTrust, BindIssuer
      <3>2. /\ s.configured /\ s.inst = obj.status.inst
            /\ s.path = obj.status.path /\ s.issuer = obj.status.issuer
        BY <1>0 DEF Status
      <3> HIDE DEF s
      <3>3. obj'.status = s
        BY <1>0, <3>1 DEF SetStatus, Object
      <3>4. client = obj.status.inst /\ client \in Instances /\ obj.status.path \in Paths
        BY <1>6 DEF ConfigureTrust, ReadyInv, TypeInv, WorkerTyped
      <3>5. mount'[obj.status.inst][obj.status.path] = obj.status.issuer
        BY <3>1, <3>4 DEF TypeInv, TypeOK
      <3> QED
        BY <3>1, <3>2, <3>3, <3>5 DEF ReadyInv, Earned
    <2> QED BY <2>1, <2>2
  <1>7. CASE UpdateStatus
    BY <1>7, ReadyIdle DEF UpdateStatus
  <1>8. CASE FindMount
    BY <1>8 DEF FindMount, ReadyInv
  <1>9. CASE Unmount
    BY <1>9, ReadyIdle DEF Unmount, ReadyInv
  <1>10. CASE Release
    BY <1>10, ReadyIdle DEF Release
  <1>11. CASE Abandon
    BY <1>11, ReadyIdle DEF Abandon
  <1> QED
    BY <1>1, <1>2, <1>3, <1>4, <1>5, <1>6, <1>7, <1>8, <1>9, <1>10, <1>11 DEF Worker

LEMMA ReadyNext == TypeInv /\ ReadyInv /\ [Next]_vars => ReadyInv'
  <1> SUFFICES ASSUME TypeInv, ReadyInv, [Next]_vars PROVE ReadyInv'
    OBVIOUS
  <1>1. CASE Worker
    BY <1>1, ReadyWorker
  <1>2. CASE User
    <2>1. PICK t \in Trusts, o \in Object :
            trust' = [trust EXCEPT ![t] = o] /\ UserWrites(t, o) /\ Touch(t)
      BY <1>2, UserEffect
    <2>2. fresh' /\ key \in Trusts => trust'[key] = trust[key]
      BY <2>1 DEF Touch, TypeInv, TypeOK
    <2>3. pc # "idle" => key \in Trusts
      BY DEF TypeInv, WorkerTyped
    <2> QED
      BY <2>1, <2>2, <2>3 DEF Touch, ReadyInv, Earned
  <1>3. CASE Environment
    BY <1>3 DEF Environment, SetProject, SetInstance, SetControlPlane, SetPrefix,
       workerVars, ReadyInv, Earned
  <1>4. CASE UNCHANGED vars
    BY <1>4 DEF vars, workerVars, ReadyInv, Earned
  <1> QED
    BY <1>1, <1>2, <1>3, <1>4 DEF Next

\* A trust is published as Ready only with a status that agrees with OpenBao
\* at that moment; a conflicting or outdated write never gets through.
THEOREM ReadyEarned == Spec => ReadyIsEarned
  <1> DEFINE A == \A t \in Trusts :
                    ~trust[t].status.ready /\ trust'[t].status.ready =>
                      LET s == trust'[t].status
                      IN  s.configured /\ mount'[s.inst][s.path] = s.issuer
  <1>1. TypeInv /\ ReadyInv /\ [Next]_vars => A
    <2> SUFFICES ASSUME TypeInv, ReadyInv, [Next]_vars, NEW t \in Trusts,
                        ~trust[t].status.ready, trust'[t].status.ready
                 PROVE  /\ trust'[t].status.configured
                        /\ mount'[trust'[t].status.inst][trust'[t].status.path]
                             = trust'[t].status.issuer
      OBVIOUS
    <2>1. ~NoObject.status.ready /\ ~NoStatus.ready
      BY DEF NoObject, NoStatus
    <2>2. ~User
      <3>1. ASSUME User PROVE FALSE
        <4>1. PICK u \in Trusts, o \in Object :
                trust' = [trust EXCEPT ![u] = o] /\ UserWrites(u, o)
          BY <3>1, UserEffect
        <4>2. o.status.ready => trust[u].status.ready
          BY <2>1, <4>1 DEF UserWrites
        <4> QED
          BY <4>1, <4>2 DEF TypeInv, TypeOK
      <3> QED BY <3>1
    <2>3. ASSUME AddFinalizer PROVE FALSE
      BY <2>3 DEF AddFinalizer, TypeInv, TypeOK, WorkerTyped, Object
    <2>4. ASSUME Release PROVE FALSE
      BY <2>1, <2>4 DEF Release, TypeInv, TypeOK, WorkerTyped
    <2>5. UpdateStatus
      BY <2>2, <2>3, <2>4 DEF Next, Worker, Environment, Fetch,
         ResolveInstance, ResolveControlPlane, EnsureMount, ConfigureTrust, FindMount,
         Unmount, Abandon, SetProject, SetInstance, SetControlPlane, SetPrefix, vars
    <2>6. trust'[key].status = obj.status /\ key = t
      BY <2>5 DEF UpdateStatus, TypeInv, TypeOK, WorkerTyped, Object
    <2> QED
      BY <2>5, <2>6 DEF UpdateStatus, ReadyInv, Earned
  <1> QED
    BY <1>1, TypeInvariant, ReadyInit, ReadyNext, PTL DEF Spec, ReadyIsEarned
=============================================================================

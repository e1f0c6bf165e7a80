-------------------- MODULE ControlPlaneTrustRefinement --------------------
(***************************************************************************)
(* ControlPlaneTrust keeps the promise of its finalizer: proofs of what it *)
(* leaves behind when it releases an object, that it implements            *)
(* FinalizerProtocol, and what becomes of its promises under real names.   *)
(***************************************************************************)
EXTENDS ControlPlaneTrustProofs, NamingProofs

USE DEF Missing, Unreachable, Reachable, NoIssuer, Unbound

-----------------------------------------------------------------------------
(***************************************************************************)
(* Cleanup.                                                                *)
(***************************************************************************)

LEMMA CleanupNext ==
  TypeInv /\ HeldInv /\ CleanupBeforeRelease /\ [Next]_vars => CleanupBeforeRelease'
  <1> SUFFICES ASSUME TypeInv, HeldInv, CleanupBeforeRelease, [Next]_vars,
                      pc' = "release", client' # None
               PROVE  mount'[obj'.status.inst][obj'.status.path] = None
    BY DEF CleanupBeforeRelease
  <1>1. ~FindMount
    BY DEF FindMount, HeldInv
  <1>2. CASE Unmount
    <2>1. client \in Instances /\ obj.status.path \in Paths /\ client = obj.status.inst
      BY <1>2 DEF Unmount, TypeInv, WorkerTyped, HeldInv
    <2>2. mount' = [mount EXCEPT ![client][obj.status.path] = None] /\ obj' = obj
      BY <1>2 DEF Unmount, Idle
    <2> QED
      BY <2>1, <2>2 DEF TypeInv, TypeOK
  <1>3. CASE ~Unmount
    <2>1. UNCHANGED <<pc, client, obj, mount>>
      BY <1>1, <1>3 DEF Next, Worker, User, Environment, Fetch, AddFinalizer,
         ResolveInstance, ResolveControlPlane, EnsureMount, ConfigureTrust,
         UpdateStatus, Release, Abandon, Idle, DependencyNotReady, TrustIncomplete,
         TrustFailed, CreateTrust, EditTrust, DeleteTrust, Touch, SetProject,
         SetInstance, SetControlPlane, SetPrefix, vars, envVars, workerVars
    <2> QED
      BY <2>1 DEF CleanupBeforeRelease
  <1> QED
    BY <1>2, <1>3

\* A trust that reconcileDelete releases after it has talked to OpenBao leaves
\* no mount where its status says, whatever fails and is tried again.
THEOREM CleanedBeforeRelease == Spec => []CleanupBeforeRelease
  <1>1. Init => CleanupBeforeRelease
    BY DEF Init, CleanupBeforeRelease
  <1> QED
    BY <1>1, CleanupNext, HeldInvariant, PTL DEF Spec

\* What has no object has no finalizer.
AbsentInv == \A t \in Trusts : trust[t].phase = "absent" => ~trust[t].finalizer

LEMMA AbsentNext == TypeInv /\ HeldInv /\ AbsentInv /\ [Next]_vars => AbsentInv'
  <1> SUFFICES ASSUME TypeInv, HeldInv, AbsentInv, [Next]_vars PROVE AbsentInv'
    OBVIOUS
  <1>1. NoObject.phase = "absent" /\ ~NoObject.finalizer
    BY DEF NoObject
  <1> USE DEF AbsentInv, TypeInv, TypeOK
  <1>2. CASE User
    <2>1. PICK t \in Trusts, o \in Object :
            trust' = [trust EXCEPT ![t] = o] /\ UserWrites(t, o)
      BY <1>2, UserEffect
    <2>2. o.phase = "absent" => ~o.finalizer
      BY <1>1, <2>1 DEF UserWrites
    <2> QED
      BY <2>1, <2>2
  <1>3. CASE AddFinalizer
    <2>1. trust[key].phase = "live" /\ key \in Trusts
      BY <1>3 DEF AddFinalizer, HeldInv, WorkerTyped
    <2> QED
      BY <1>3, <2>1 DEF AddFinalizer, Object
  <1>4. CASE UpdateStatus
    BY <1>4 DEF UpdateStatus, WorkerTyped, Object
  <1>5. CASE Release
    BY <1>1, <1>5 DEF Release, WorkerTyped
  <1>6. CASE ~User /\ ~AddFinalizer /\ ~UpdateStatus /\ ~Release
    BY <1>6 DEF Next, Worker, Environment, Fetch, ResolveInstance,
       ResolveControlPlane, EnsureMount, ConfigureTrust, FindMount, Unmount, Abandon,
       SetProject, SetInstance, SetControlPlane, SetPrefix, vars
  <1> QED
    BY <1>2, <1>3, <1>4, <1>5, <1>6

LEMMA AbsentInvariant == Spec => []AbsentInv
  <1>1. Init => AbsentInv
    BY DEF Init, AbsentInv, NoObject
  <1> QED
    BY <1>1, AbsentNext, HeldInvariant, PTL DEF Spec

\* As long as a mount is there, some object with a finalizer remembers it, but
\* for two steps: the trust records another mount, or it is released without
\* having talked to OpenBao.
THEOREM ForgottenRarely == Spec => ForgottenOnlyByMoveOrSkip
  <1> DEFINE A == trust' # trust =>
                    \A i \in Instances, p \in Paths :
                      mount[i][p] # None /\ Remembered(i, p) =>
                        \/ mount'[i][p] = None
                        \/ Remembered(i, p)'
                        \/ pc = "status"
                        \/ pc = "release" /\ client = None
  <1>1. /\ TypeInv /\ HeldInv /\ AbsentInv /\ CleanupBeforeRelease
        /\ [Next]_vars
        => A
    <2> SUFFICES ASSUME TypeInv, HeldInv, AbsentInv, CleanupBeforeRelease,
                        [Next]_vars, trust' # trust,
                        NEW i \in Instances, NEW p \in Paths,
                        mount[i][p] # None, Remembered(i, p),
                        pc # "status", ~(pc = "release" /\ client = None)
                 PROVE  Remembered(i, p)'
      OBVIOUS
    <2> USE DEF TypeInv, TypeOK
    <2>1. PICK t \in Trusts : /\ trust[t].finalizer
                              /\ trust[t].status.inst = i /\ trust[t].status.path = p
      BY DEF Remembered
    <2>2. SUFFICES /\ trust'[t].finalizer
                   /\ trust'[t].status = trust[t].status
      BY <2>1 DEF Remembered
    <2>3. User \/ AddFinalizer \/ Release
      BY DEF Next, Worker, Environment, Fetch, ResolveInstance, ResolveControlPlane,
         EnsureMount, ConfigureTrust, UpdateStatus, FindMount, Unmount, Abandon,
         SetProject, SetInstance, SetControlPlane, SetPrefix, vars
    <2>4. CASE User
      <3>1. PICK u \in Trusts, o \in Object :
              trust' = [trust EXCEPT ![u] = o] /\ UserWrites(u, o)
        BY <2>4, UserEffect
      <3>2. trust[u].finalizer => o.finalizer /\ o.status = trust[u].status
        BY <3>1 DEF UserWrites, AbsentInv
      <3> QED
        BY <2>1, <3>1, <3>2
    <2>5. CASE AddFinalizer
      BY <2>1, <2>5 DEF AddFinalizer, WorkerTyped, Object
    <2>6. CASE Release
      <3>1. obj.status = trust[key].status /\ key \in Trusts
        BY <2>6 DEF Release, HeldInv, DeleteCalls, WorkerTyped
      <3>2. mount[obj.status.inst][obj.status.path] = None
        BY <2>6 DEF Release, CleanupBeforeRelease
      <3>3. key # t
        BY <2>1, <3>1, <3>2
      <3> QED
        BY <2>1, <2>6, <3>3 DEF Release
    <2> QED
      BY <2>3, <2>4, <2>5, <2>6
  <1> QED
    BY <1>1, HeldInvariant, AbsentInvariant, CleanedBeforeRelease, PTL
    DEF Spec, ForgottenOnlyByMoveOrSkip

-----------------------------------------------------------------------------
(***************************************************************************)
(* How a mount loses its owner.                                            *)
(***************************************************************************)

At(s, i, p) == s.inst = i /\ s.path = p

\* The worker is at the mount, or about to record it.
InHand(i, p) == pc \in {"mount", "configure", "status"} /\ At(obj.status, i, p)

Owned(i, p) == Remembered(i, p) \/ InHand(i, p)

\* A trust is released without having talked to OpenBao, a status records another
\* mount instead, or the worker gives up, or dies, before the status is stored.
Loses(i, p) ==
  \/ Release /\ client = None /\ At(trust[key].status, i, p)
  \/ UpdateStatus /\ At(trust[key].status, i, p) /\ ~At(obj.status, i, p)
  \/ Abandon /\ InHand(i, p)

\* Writing into the copy the worker keeps its mount in hand.
LEMMA HandKept ==
  ASSUME TypeInv, EnsureMount \/ ConfigureTrust
  PROVE  /\ pc' \in {"configure", "status"}
         /\ obj'.status.inst = obj.status.inst /\ obj'.status.path = obj.status.path
  <1> DEFINE s == obj.status
  <1>1. obj \in Object /\ s \in Status
    BY DEF TypeInv, TypeOK, Object
  <1>2. pc' \in {"configure", "status"}
    BY DEF EnsureMount, ConfigureTrust, TrustFailed, TrustIncomplete
  <1>3. CASE UNCHANGED obj
    BY <1>2, <1>3
  <1>4. ASSUME NEW b \in BOOLEAN, NEW c \in BOOLEAN,
               \/ SetStatus([s EXCEPT !.configured = b])
               \/ SetStatus([s EXCEPT !.configured = b, !.ready = c])
        PROVE  obj'.status.inst = s.inst /\ obj'.status.path = s.path
    <2>1. /\ [s EXCEPT !.configured = b].inst = s.inst
          /\ [s EXCEPT !.configured = b].path = s.path
          /\ [s EXCEPT !.configured = b, !.ready = c].inst = s.inst
          /\ [s EXCEPT !.configured = b, !.ready = c].path = s.path
      BY <1>1 DEF Status
    <2>2. ASSUME NEW r, SetStatus(r) PROVE obj'.status = r
      BY <1>1, <2>2 DEF SetStatus, Object
    <2> HIDE DEF s
    <2> QED
      BY <1>4, <2>1, <2>2, Zenon
  <1>5. CASE ~(UNCHANGED obj)
    <2>1. \/ SetStatus([s EXCEPT !.configured = FALSE])
          \/ SetStatus([s EXCEPT !.configured = FALSE, !.ready = FALSE])
          \/ SetStatus([s EXCEPT !.configured = TRUE, !.ready = TRUE])
      BY <1>5 DEF EnsureMount, ConfigureTrust, TrustFailed, TrustIncomplete
    <2> QED
      BY <1>2, <1>4, <2>1
  <1> QED
    BY <1>3, <1>5

\* What a status remembers is lost by UpdateStatus and Release only.
LEMMA MemoryLost ==
  ASSUME TypeInv, HeldInv, AbsentInv, CleanupBeforeRelease, [Next]_vars,
         NEW i \in Instances, NEW p \in Paths,
         mount'[i][p] # None, Remembered(i, p), ~Owned(i, p)'
  PROVE  Loses(i, p)
  <1> USE DEF TypeInv, TypeOK
  <1>1. PICK t \in Trusts : trust[t].finalizer /\ At(trust[t].status, i, p)
    BY DEF Remembered, At
  <1>2. ~(trust'[t].finalizer /\ At(trust'[t].status, i, p))
    BY DEF Owned, Remembered, At
  <1>3. CASE User
    <2>1. PICK u \in Trusts, o \in Object :
            trust' = [trust EXCEPT ![u] = o] /\ UserWrites(u, o)
      BY <1>3, UserEffect
    <2>2. trust[u].finalizer => o.finalizer /\ o.status = trust[u].status
      BY <2>1 DEF UserWrites, AbsentInv
    <2> QED
      BY <1>1, <1>2, <2>1, <2>2
  <1>4. CASE AddFinalizer
    BY <1>1, <1>2, <1>4 DEF AddFinalizer, WorkerTyped, Object
  <1>5. CASE UpdateStatus
    <2>1. key = t /\ trust'[key].finalizer = trust[key].finalizer
          /\ trust'[key].status = obj.status
      BY <1>1, <1>2, <1>5 DEF UpdateStatus, WorkerTyped, Object
    <2> QED
      BY <1>1, <1>2, <1>5, <2>1 DEF Loses
  <1>6. CASE Release
    <2>1. key = t /\ mount' = mount
      BY <1>1, <1>2, <1>6 DEF Release, WorkerTyped
    <2>2. obj.status = trust[key].status
      BY <1>6 DEF Release, HeldInv, DeleteCalls
    <2>3. client = None
      BY <1>1, <1>6, <2>1, <2>2 DEF Release, CleanupBeforeRelease, At
    <2> QED
      BY <1>1, <1>6, <2>1, <2>3 DEF Loses
  <1>7. CASE ~(User \/ AddFinalizer \/ UpdateStatus \/ Release)
    <2>1. trust' = trust
      BY <1>7 DEF Next, Worker, Environment, Fetch, ResolveInstance,
         ResolveControlPlane, EnsureMount, ConfigureTrust, FindMount, Unmount,
         Abandon, SetProject, SetInstance, SetControlPlane, SetPrefix, vars
    <2> QED
      BY <1>1, <1>2, <2>1
  <1> QED
    BY <1>3, <1>4, <1>5, <1>6, <1>7

\* What the worker has in hand is recorded in the end, or it gives up.
LEMMA HandLost ==
  ASSUME TypeInv, HeldInv, [Next]_vars, NEW i, NEW p,
         InHand(i, p), ~Owned(i, p)'
  PROVE  Loses(i, p)
  <1>1. ~InHand(i, p)' /\ ~Remembered(i, p)'
    BY DEF Owned
  <1>2. CASE EnsureMount \/ ConfigureTrust
    BY <1>1, <1>2, HandKept DEF InHand, At
  <1>3. CASE UpdateStatus
    <2>1. key \in Trusts /\ trust[key].finalizer
      BY <1>3 DEF UpdateStatus, HeldInv, LiveCalls, TypeInv, WorkerTyped
    <2>2. trust'[key].finalizer /\ trust'[key].status = obj.status
      BY <1>3, <2>1 DEF UpdateStatus, TypeInv, TypeOK, Object
    <2> QED
      BY <1>1, <2>1, <2>2 DEF InHand, At, Remembered
  <1>4. CASE Abandon
    BY <1>4 DEF Loses
  <1>5. CASE ~(EnsureMount \/ ConfigureTrust \/ UpdateStatus \/ Abandon)
    <2>1. UNCHANGED <<pc, obj>>
      BY <1>5 DEF InHand, Next, Worker, User, Environment, Fetch, AddFinalizer,
         ResolveInstance, ResolveControlPlane, FindMount, Unmount, Release,
         CreateTrust, EditTrust, DeleteTrust, Touch, SetProject, SetInstance,
         SetControlPlane, SetPrefix, vars, workerVars
    <2> QED
      BY <1>1, <2>1 DEF InHand
  <1> QED
    BY <1>2, <1>3, <1>4, <1>5

\* A mount appears in the hands of the worker.
LEMMA NewInHand ==
  ASSUME TypeInv, ReadyInv, [Next]_vars, NEW i \in Instances, NEW p \in Paths,
         mount[i][p] = None, mount'[i][p] # None
  PROVE  InHand(i, p)'
  <1>1. CASE EnsureMount \/ ConfigureTrust
    <2>1. /\ client \in Instances /\ obj.status.path \in Paths
          /\ client = obj.status.inst
      BY <1>1 DEF EnsureMount, ConfigureTrust, TypeInv, WorkerTyped, ReadyInv
    <2>2. PICK x : mount' = mount \/ mount' = [mount EXCEPT ![client][obj.status.path] = x]
      BY <1>1 DEF EnsureMount, ConfigureTrust, EnableMount, BindIssuer
    <2>3. At(obj.status, i, p)
      BY <2>1, <2>2 DEF TypeInv, TypeOK, At
    <2> QED
      BY <1>1, <2>3, HandKept DEF InHand, At
  <1>2. CASE Unmount
    BY <1>2 DEF Unmount, TypeInv, TypeOK, WorkerTyped
  <1>3. CASE ~(EnsureMount \/ ConfigureTrust \/ Unmount)
    BY <1>3 DEF Next, Worker, User, Environment, Fetch, AddFinalizer,
       ResolveInstance, ResolveControlPlane, UpdateStatus, FindMount, Release, Abandon,
       CreateTrust, EditTrust, DeleteTrust, Touch, SetProject, SetInstance,
       SetControlPlane, SetPrefix, vars
  <1> QED
    BY <1>1, <1>2, <1>3

\* A mount that is there stays owned, by a status or by the worker, but for three
\* events: the skipped cleanup, the status that moves on, and the reconcile that
\* ends between EnsureJWTAuthMount and the status, by a conflict, an error or a
\* crash.  Nothing else, no user's edit and no stale copy, leaves a mount behind.
THEOREM OrphanedInThreeWays ==
  Spec => [][\A i \in Instances, p \in Paths :
               mount'[i][p] # None /\ ~Owned(i, p)' =>
                 (mount[i][p] # None /\ ~Owned(i, p)) \/ Loses(i, p)]_vars
  <1> DEFINE A == \A i \in Instances, p \in Paths :
                    mount'[i][p] # None /\ ~Owned(i, p)' =>
                      (mount[i][p] # None /\ ~Owned(i, p)) \/ Loses(i, p)
  <1>1. TypeInv /\ HeldInv /\ AbsentInv /\ CleanupBeforeRelease /\ ReadyInv /\ [Next]_vars
        => A
    <2> SUFFICES ASSUME TypeInv, HeldInv, AbsentInv, CleanupBeforeRelease, ReadyInv,
                        [Next]_vars, NEW i \in Instances, NEW p \in Paths,
                        mount'[i][p] # None, ~Owned(i, p)',
                        mount[i][p] = None \/ Owned(i, p)
                 PROVE  Loses(i, p)
      OBVIOUS
    <2>1. mount[i][p] # None
      BY NewInHand DEF Owned
    <2> QED
      BY <2>1, MemoryLost, HandLost DEF Owned
  <1>2. TypeInv /\ ReadyInv /\ [Next]_vars => ReadyInv'
    BY ReadyNext
  <1> QED
    BY <1>1, <1>2, ReadyInit, HeldInvariant, AbsentInvariant, CleanedBeforeRelease, PTL
    DEF Spec

\* Whether reconcileDelete gives up on a mount that is there and that the status
\* records.
Remains(s) == Recorded(s) /\ mount[s.inst][s.path] # None

Skips == pc = "delete" /\ pc' = "release" /\ Remains(obj.status)

SkipInv == pc = "release" /\ client = None => ~Remains(obj.status)

\* A trust is released while its recorded mount is there (NoReleaseWhileMounted
\* fails) only after its cleanup was skipped, because its instance could not be
\* used: as long as that does not happen the finalizer is truthful, whatever else
\* fails and whoever edits what.
THEOREM TruthfulUnlessSkipped ==
  Spec /\ [][~Skips]_vars => NoReleaseWhileMounted
  <1> DEFINE A == \A t \in Trusts :
                    LET s == trust[t].status
                    IN  trust[t].finalizer /\ ~trust'[t].finalizer /\ Recorded(s) =>
                          mount[s.inst][s.path] = None
  <1>1. Init => SkipInv
    BY DEF Init, SkipInv
  <1>2. TypeInv /\ HeldInv /\ SkipInv /\ [Next]_vars /\ [~Skips]_vars => SkipInv'
    <2> SUFFICES ASSUME TypeInv, HeldInv, SkipInv, [Next]_vars, [~Skips]_vars,
                        pc' = "release", client' = None
                 PROVE  ~Remains(obj.status)'
      BY DEF SkipInv
    <2>1. CASE FindMount
      BY <2>1 DEF FindMount, Skips, Remains, vars, workerVars, envVars
    <2>2. CASE Unmount
      BY <2>2, NamesAssumption DEF Unmount, HeldInv, Idle, TypeInv, WorkerTyped
    <2>3. CASE ~(FindMount \/ Unmount)
      <3>1. UNCHANGED <<pc, client, obj, mount>>
        BY <2>3 DEF Next, Worker, User, Environment, Fetch, AddFinalizer,
           ResolveInstance, ResolveControlPlane, EnsureMount, ConfigureTrust,
           UpdateStatus, Release, Abandon, Idle, DependencyNotReady, TrustIncomplete,
           TrustFailed, CreateTrust, EditTrust, DeleteTrust, Touch, SetProject,
           SetInstance, SetControlPlane, SetPrefix, vars, envVars, workerVars
      <3> QED
        BY <3>1 DEF SkipInv, Remains
    <2> QED
      BY <2>1, <2>2, <2>3
  <1>3. /\ TypeInv /\ HeldInv /\ AbsentInv /\ CleanupBeforeRelease /\ SkipInv
        /\ [Next]_vars
        => A
    <2> SUFFICES ASSUME TypeInv, HeldInv, AbsentInv, CleanupBeforeRelease, SkipInv,
                        [Next]_vars, NEW t \in Trusts,
                        trust[t].finalizer, ~trust'[t].finalizer,
                        Recorded(trust[t].status)
                 PROVE  mount[trust[t].status.inst][trust[t].status.path] = None
      OBVIOUS
    <2> USE DEF TypeInv, TypeOK
    <2>1. CASE User
      <3>1. PICK u \in Trusts, o \in Object :
              trust' = [trust EXCEPT ![u] = o] /\ UserWrites(u, o)
        BY <2>1, UserEffect
      <3>2. trust[u].finalizer => o.finalizer
        BY <3>1 DEF UserWrites, AbsentInv
      <3> QED
        BY <3>1, <3>2
    <2>2. CASE AddFinalizer \/ UpdateStatus
      BY <2>2 DEF AddFinalizer, UpdateStatus, WorkerTyped, Object
    <2>3. CASE Release
      <3>1. key = t /\ obj.status = trust[key].status
        BY <2>3 DEF Release, WorkerTyped, HeldInv, DeleteCalls
      <3>2. CASE client = None
        BY <2>3, <3>1, <3>2 DEF Release, SkipInv, Remains
      <3>3. CASE client # None
        BY <2>3, <3>1, <3>3 DEF Release, CleanupBeforeRelease
      <3> QED
        BY <3>2, <3>3
    <2>4. CASE ~(User \/ AddFinalizer \/ UpdateStatus \/ Release)
      <3>1. trust' = trust
        BY <2>4 DEF Next, Worker, Environment, Fetch, ResolveInstance,
           ResolveControlPlane, EnsureMount, ConfigureTrust, FindMount, Unmount,
           Abandon, SetProject, SetInstance, SetControlPlane, SetPrefix, vars
      <3> QED
        BY <3>1
    <2> QED
      BY <2>1, <2>2, <2>3, <2>4
  <1> QED
    BY <1>1, <1>2, <1>3, HeldInvariant, AbsentInvariant, CleanedBeforeRelease, PTL
    DEF Spec, NoReleaseWhileMounted

-----------------------------------------------------------------------------
(***************************************************************************)
(* The refinement.                                                         *)
(***************************************************************************)

OwnPaths(t) == {MountPath(q, c) : q \in Prefixes, c \in Targets[t]}

\* Paths in the status of a trust, and in a copy of it, are paths for one of the
\* ControlPlanes it may name.
OwnInv ==
  /\ \A t \in Trusts : trust[t].status.path \in OwnPaths(t) \cup {None}
  /\ pc # "idle" => /\ obj.target \in Targets[key]
                    /\ obj.status.path \in OwnPaths(key) \cup {None}

\* Most of what the reconcile writes into the status leaves its path alone.
LEMMA StatusesPath ==
  ASSUME NEW s \in Status
  PROVE  /\ [s EXCEPT !.ready = FALSE].path = s.path
         /\ [s EXCEPT !.configured = FALSE].path = s.path
         /\ \A b \in BOOLEAN : [s EXCEPT !.configured = b, !.ready = b].path = s.path
         /\ \A i : /\ [s EXCEPT !.inst = i].path = s.path
                   /\ [[s EXCEPT !.inst = i] EXCEPT !.ready = FALSE].path = s.path
  BY DEF Status

LEMMA OwnSet ==
  ASSUME TypeInv, OwnInv, pc # "idle", UNCHANGED <<trust, key>>,
         NEW s, SetStatus(s), s.path \in OwnPaths(key) \cup {None}
  PROVE  OwnInv'
  <1>1. obj'.status = s /\ obj'.target = obj.target
    BY DEF SetStatus, TypeInv, TypeOK, Object
  <1> QED
    BY <1>1 DEF OwnInv

LEMMA OwnWorker == TypeInv /\ OwnInv /\ Worker => OwnInv'
  <1> SUFFICES ASSUME TypeInv, OwnInv, Worker PROVE OwnInv'
    OBVIOUS
  <1>0. obj \in Object /\ obj.status \in Status
    BY DEF TypeInv, TypeOK, Object
  <1>a. pc # "idle" => obj.status.path \in OwnPaths(key) \cup {None}
    BY DEF OwnInv
  <1>1. ASSUME NEW t \in Trusts, Fetch(t) PROVE OwnInv'
    BY <1>1 DEF Fetch, TypeInv, TargetsTyped, OwnInv
  <1>2. CASE AddFinalizer
    <2>1. \A t \in Trusts : trust'[t].status = trust[t].status
      BY <1>2 DEF AddFinalizer, TypeInv, TypeOK, WorkerTyped, Object
    <2>2. CASE Idle
      BY <2>1, <2>2 DEF Idle, OwnInv
    <2>3. CASE ~Idle
      <3>1. obj'.status = obj.status /\ obj'.target = obj.target
        BY <1>0, <1>2, <2>3 DEF AddFinalizer, Object
      <3> QED
        BY <1>2, <2>1, <2>3, <3>1 DEF AddFinalizer, OwnInv
    <2> QED BY <2>2, <2>3
  <1>3. CASE ResolveInstance
    <2>1. PICK s : SetStatus(s) /\ s.path = obj.status.path
      BY <1>0, <1>3, StatusesPath DEF ResolveInstance, DependencyNotReady
    <2> QED
      BY <1>3, <1>a, <2>1, OwnSet DEF ResolveInstance
  <1>4. CASE ResolveControlPlane
    <2>1. CASE pc' = "mount"
      <3> DEFINE q == ResolveAuthMountPrefix(client)
                 p == MountPath(q, obj.target)
                 s == [obj.status EXCEPT !.issuer = controlPlane[obj.target], !.path = p]
      <3>1. SetStatus(s)
        BY <1>4, <2>1 DEF ResolveControlPlane, DependencyNotReady, TrustIncomplete
      <3>2. q \in Prefixes
        BY <1>4 DEF ResolveControlPlane, ResolveAuthMountPrefix, Prefixes, TypeInv,
           TypeOK, WorkerTyped
      <3>3. s.path = p
        BY <1>0 DEF Status
      <3> HIDE DEF q, s
      <3>4. s.path \in OwnPaths(key)
        BY <1>4, <3>2, <3>3 DEF ResolveControlPlane, OwnPaths, OwnInv
      <3> QED
        BY <1>4, <3>1, <3>4, OwnSet DEF ResolveControlPlane
    <2>2. CASE pc' # "mount"
      <3>1. PICK s : SetStatus(s) /\ s.path = obj.status.path
        BY <1>0, <1>4, <2>2, StatusesPath
        DEF ResolveControlPlane, DependencyNotReady, TrustIncomplete
      <3> QED
        BY <1>4, <1>a, <3>1, OwnSet DEF ResolveControlPlane
    <2> QED BY <2>1, <2>2
  <1>5. CASE EnsureMount
    <2>1. CASE UNCHANGED obj
      BY <1>5, <2>1 DEF EnsureMount, OwnInv
    <2>2. CASE TrustFailed \/ TrustIncomplete
      <3>1. PICK s : SetStatus(s) /\ s.path = obj.status.path
        BY <1>0, <2>2, StatusesPath DEF TrustFailed, TrustIncomplete
      <3> QED
        BY <1>5, <1>a, <3>1, OwnSet DEF EnsureMount
    <2> QED
      BY <1>5, <2>1, <2>2 DEF EnsureMount
  <1>6. CASE ConfigureTrust
    <2>1. PICK s : SetStatus(s) /\ s.path = obj.status.path
      BY <1>0, <1>6, StatusesPath DEF ConfigureTrust, TrustFailed
    <2> QED
      BY <1>6, <1>a, <2>1, OwnSet DEF ConfigureTrust
  <1>7. CASE UpdateStatus
    BY <1>0, <1>7, <1>a DEF UpdateStatus, Idle, Object, TypeInv, TypeOK, WorkerTyped, OwnInv
  <1>8. CASE FindMount \/ Unmount
    BY <1>8 DEF FindMount, Unmount, Idle, OwnInv
  <1>9. CASE Release
    BY <1>9 DEF Release, Idle, NoObject, NoStatus, TypeInv, TypeOK, WorkerTyped, OwnInv
  <1>10. CASE Abandon
    BY <1>10 DEF Abandon, Idle, OwnInv
  <1> QED
    BY <1>1, <1>2, <1>3, <1>4, <1>5, <1>6, <1>7, <1>8, <1>9, <1>10 DEF Worker

LEMMA OwnNext == TypeInv /\ OwnInv /\ [Next]_vars => OwnInv'
  <1> SUFFICES ASSUME TypeInv, OwnInv, [Next]_vars PROVE OwnInv'
    OBVIOUS
  <1>1. CASE Worker
    BY <1>1, OwnWorker
  <1>2. CASE User
    <2>1. PICK t \in Trusts, o \in Object :
            trust' = [trust EXCEPT ![t] = o] /\ UserWrites(t, o) /\ Touch(t)
      BY <1>2, UserEffect
    <2>2. o.status.path \in {trust[t].status.path, None}
      BY <2>1 DEF UserWrites, NoObject, NoStatus
    <2> QED
      BY <2>1, <2>2 DEF Touch, TypeInv, TypeOK, OwnInv
  <1>3. CASE Environment
    BY <1>3 DEF Environment, SetProject, SetInstance, SetControlPlane, SetPrefix,
       workerVars, OwnInv
  <1>4. CASE UNCHANGED vars
    BY <1>4 DEF vars, workerVars, OwnInv
  <1> QED
    BY <1>1, <1>2, <1>3, <1>4 DEF Next

LEMMA OwnInvariant == Spec => []OwnInv
  <1>1. Init => OwnInv
    BY DEF Init, OwnInv, NoObject, NoStatus
  <1> QED
    BY <1>1, OwnNext, TypeInvariant, PTL DEF Spec

\* Writing one object and no mount moves that object between stages.
LEMMA StageMoves ==
  ASSUME TypeInv, NEW t \in Trusts, NEW o \in Object,
         trust' = [trust EXCEPT ![t] = o], mount' = mount
  PROVE  Protocol!Move(t, Stage(trust[t]), Stage(o))
  BY DEF Protocol!Move, Stage, TypeInv, TypeOK

\* Writing a mount of its own is work on behalf of a held object.
LEMMA MountWork ==
  ASSUME TypeInv, trust' = trust,
         NEW t \in Trusts, Stage(trust[t]) \in {"held", "deleting"},
         NEW i \in Instances, NEW p \in OwnPaths(t), NEW x,
         mount' = mount \/ mount' = [mount EXCEPT ![i][p] = x]
  PROVE  Protocol!Work(t)
  <1>1. ASSUME NEW m \in Instances \X Paths,
               m \notin Instances \X {MountPath(q, c) : q \in Prefixes, c \in Targets[t]}
        PROVE  mount'[m[1]][m[2]] = mount[m[1]][m[2]]
    BY <1>1 DEF OwnPaths, TypeInv, TypeOK
  <1> QED
    BY <1>1 DEF Protocol!Work

LEMMA StepRefines ==
  TypeInv /\ HeldInv /\ AbsentInv /\ OwnInv /\ [Next]_vars
    => [Protocol!Next]_<<[t \in Trusts |-> Stage(trust[t])],
                         [m \in Instances \X Paths |-> mount[m[1]][m[2]]]>>
  <1> DEFINE Step == [Protocol!Next]_<<[t \in Trusts |-> Stage(trust[t])],
                         [m \in Instances \X Paths |-> mount[m[1]][m[2]]]>>
  <1> SUFFICES ASSUME TypeInv, HeldInv, AbsentInv, OwnInv, [Next]_vars PROVE Step
    OBVIOUS
  <1>a. ASSUME UNCHANGED <<trust, mount>> PROVE Step
    BY <1>a
  <1>b. ASSUME NEW t \in Trusts,
               \/ Protocol!Create(t) \/ Protocol!Hold(t) \/ Protocol!Delete(t)
               \/ Protocol!Release(t) \/ Protocol!Work(t)
        PROVE  Step
    BY <1>b DEF Protocol!Next
  <1>c. ASSUME NEW t \in Trusts, Protocol!Move(t, Stage(trust[t]), Stage(trust[t]))
        PROVE  Step
    BY <1>c DEF Protocol!Move
  <1> HIDE DEF Step
  <1>d. pc # "idle" => key \in Trusts
    BY DEF TypeInv, WorkerTyped
  <1>1. CASE AddFinalizer
    <2> DEFINE o == [trust[key] EXCEPT !.finalizer = TRUE]
    <2>1. o \in Object /\ trust' = [trust EXCEPT ![key] = o] /\ Stage(o) = "held"
      BY <1>1, <1>d DEF AddFinalizer, TypeInv, TypeOK, HeldInv, Object, Stage
    <2>2. Stage(trust[key]) \in {"live", "held"}
      BY <1>1, <1>d DEF AddFinalizer, HeldInv, Stage
    <2> HIDE DEF o
    <2>3. Protocol!Move(key, Stage(trust[key]), "held")
      BY <1>1, <1>d, <2>1, StageMoves DEF AddFinalizer
    <2> QED
      BY <1>1, <1>b, <1>c, <1>d, <2>2, <2>3 DEF Protocol!Hold, AddFinalizer
  <1>2. CASE UpdateStatus
    <2> DEFINE o == [trust[key] EXCEPT !.status = obj.status]
    <2>1. o \in Object /\ trust' = [trust EXCEPT ![key] = o] /\ Stage(o) = Stage(trust[key])
      BY <1>2, <1>d DEF UpdateStatus, TypeInv, TypeOK, Object, Stage
    <2> HIDE DEF o
    <2> QED
      BY <1>2, <1>c, <1>d, <2>1, StageMoves DEF UpdateStatus
  <1>3. CASE Release
    <2>1. Stage(trust[key]) = "deleting" /\ Stage(NoObject) = "absent"
      BY <1>3 DEF Release, HeldInv, DeleteCalls, Stage, NoObject
    <2>2. Protocol!Release(key)
      BY <1>3, <1>d, <2>1, StageMoves, NoObjectType DEF Release, Protocol!Release
    <2> QED
      BY <1>3, <1>b, <1>d, <2>2 DEF Release
  <1>4. CASE EnsureMount \/ ConfigureTrust \/ Unmount
    <2>1. pc \in {"mount", "configure", "unmount"} /\ trust' = trust
      BY <1>4 DEF EnsureMount, ConfigureTrust, Unmount
    <2>2. PICK t \in Trusts, i \in Instances, p \in Paths :
            t = key /\ i = client /\ p = obj.status.path /\ p \in OwnPaths(t)
      BY <1>d, <2>1, NamesAssumption DEF TypeInv, WorkerTyped, OwnInv
    <2>3. Stage(trust[t]) \in {"held", "deleting"}
      BY <2>1, <2>2 DEF HeldInv, LiveCalls, DeleteCalls, Stage, TypeInv, TypeOK, Object
    <2>4. PICK x : mount' = mount \/ mount' = [mount EXCEPT ![i][p] = x]
      <3>1. CASE EnsureMount
        BY <2>2, <3>1 DEF EnsureMount, EnableMount
      <3>2. CASE ConfigureTrust
        BY <2>2, <3>2 DEF ConfigureTrust, BindIssuer
      <3>3. CASE Unmount
        BY <2>2, <3>3 DEF Unmount
      <3> QED
        BY <1>4, <3>1, <3>2, <3>3
    <2>5. Protocol!Work(t)
      BY <2>1, <2>2, <2>3, <2>4, MountWork
    <2> QED
      BY <1>b, <2>5
  <1>5. CASE User
    <2>1. PICK t \in Trusts, o \in Object :
            trust' = [trust EXCEPT ![t] = o] /\ UserWrites(t, o) /\ Touch(t)
      BY <1>5, UserEffect
    <2>2. Protocol!Move(t, Stage(trust[t]), Stage(o))
      BY <2>1, StageMoves DEF Touch
    <2>3. \/ Stage(trust[t]) = "absent" /\ Stage(o) = "live"
          \/ Stage(trust[t]) = "held" /\ Stage(o) = "deleting"
          \/ Stage(trust[t]) = "live" /\ Stage(o) = "absent"
          \/ Stage(o) = Stage(trust[t])
      BY <2>1 DEF UserWrites, Stage, NoObject
    <2> QED
      BY <1>b, <1>c, <2>2, <2>3 DEF Protocol!Create, Protocol!Delete
  <1>6. CASE ~(\/ AddFinalizer \/ UpdateStatus \/ Release \/ EnsureMount
               \/ ConfigureTrust \/ Unmount \/ User)
    <2>1. UNCHANGED <<trust, mount>>
      BY <1>6 DEF Next, Worker, Environment, Fetch, ResolveInstance,
         ResolveControlPlane, FindMount, Abandon, SetProject, SetInstance,
         SetControlPlane, SetPrefix, vars
    <2> QED
      BY <1>a, <2>1
  <1> QED
    BY <1>1, <1>2, <1>3, <1>4, <1>5, <1>6 DEF Step

\* The trust controller implements FinalizerProtocol for any number of trusts,
\* whatever fails: objects go through the stages in order, and a mount changes
\* only on behalf of a held object that may target the ControlPlane of its path.
THEOREM ProtocolFollowed == Spec => FollowsProtocol
  <1>1. Init => Protocol!Init
    BY DEF Init, Protocol!Init, Stage, NoObject
  <1> QED
    BY <1>1, StepRefines, HeldInvariant, AbsentInvariant, OwnInvariant, PTL
    DEF Spec, FollowsProtocol, Protocol!Spec

-----------------------------------------------------------------------------
(***************************************************************************)
(* A mount that is published as configured is there.                       *)
(***************************************************************************)

BoundAt(i, p) == i \in Instances /\ p \in Paths /\ mount[i][p] \notin {None, Unbound}

\* The cleanup of a trust removes the mount that another, live one publishes.
Takes ==
  /\ Unmount
  /\ \E t \in Trusts : /\ trust[t].phase = "live" /\ trust[t].status.configured
                       /\ trust[t].status.inst = client
                       /\ trust[t].status.path = obj.status.path

\* A reconcile ends in dependencyNotReady after it has named another instance than
\* the stored status does, beside the TrustConfigured of the old one.
Moves ==
  /\ pc \in {"resolve", "controlplane"} /\ pc' = "status"
  /\ obj'.status.configured /\ obj'.status.inst # trust[key].status.inst

\* A status that says "configured" is right, and so is a copy of it, also if it is
\* stale, until a new path is computed, and again when it is about to be stored.  In
\* between, the copy may name another instance than the status it was read from.
MountedInv ==
  /\ \A t \in Trusts :
       LET s == trust[t].status
       IN  trust[t].phase = "live" /\ s.configured => BoundAt(s.inst, s.path)
  /\ pc \in {"finalize", "status"} /\ obj.status.configured =>
       BoundAt(obj.status.inst, obj.status.path)
  /\ pc \in {"resolve", "controlplane"} /\ obj.status.configured =>
       BoundAt(trust[key].status.inst, obj.status.path)
  /\ (pc = "finalize" /\ fresh) \/ pc = "resolve" =>
       obj.status.inst = trust[key].status.inst

LEMMA StatusForms ==
  ASSUME NEW s \in Status
  PROVE  /\ LET r == [s EXCEPT !.ready = FALSE]
            IN  r.inst = s.inst /\ r.path = s.path /\ r.configured = s.configured
         /\ LET r == [s EXCEPT !.configured = FALSE]
            IN  r.inst = s.inst /\ ~r.configured
         /\ LET r == [s EXCEPT !.configured = FALSE, !.ready = FALSE]
            IN  r.inst = s.inst /\ ~r.configured
         /\ LET r == [s EXCEPT !.configured = TRUE, !.ready = TRUE]
            IN  r.inst = s.inst /\ r.path = s.path
         /\ \A i : LET r == [s EXCEPT !.inst = i]
                       q == [r EXCEPT !.ready = FALSE]
                   IN  /\ r.inst = i /\ r.path = s.path /\ r.configured = s.configured
                       /\ q.inst = i /\ q.path = s.path /\ q.configured = s.configured
         /\ \A i, p : LET r == [s EXCEPT !.issuer = i, !.path = p]
                      IN  r.inst = s.inst
  BY DEF Status

\* A mount stays bound when another one is written.
LEMMA BoundKept ==
  ASSUME TypeInv, NEW i, NEW p, BoundAt(i, p), NEW j, NEW q, NEW x,
         \/ mount' = mount
         \/ /\ mount' = [mount EXCEPT ![j][q] = x]
            /\ j # i \/ q # p \/ x \notin {None, Unbound}
  PROVE  BoundAt(i, p)'
  BY DEF BoundAt, TypeInv, TypeOK

\* The worker writes s into its copy and takes no bound mount away.
LEMMA MountedSet ==
  ASSUME TypeInv, MountedInv, UNCHANGED <<trust, key>>, NEW s, SetStatus(s),
         \A i, p : BoundAt(i, p) => BoundAt(i, p)',
         pc' \in {"controlplane", "mount", "status"},
         pc' = "status" /\ s.configured => BoundAt(s.inst, s.path)',
         pc' = "controlplane" /\ s.configured => BoundAt(trust[key].status.inst, s.path)
  PROVE  MountedInv'
  <1>1. obj'.status = s
    BY DEF SetStatus, TypeInv, TypeOK, Object
  <1>2. \A t \in Trusts :
          trust[t].phase = "live" /\ trust[t].status.configured
            => BoundAt(trust[t].status.inst, trust[t].status.path)'
    BY DEF MountedInv
  <1> QED
    BY <1>1, <1>2 DEF MountedInv, BoundAt

\* The calls that find out what the trust depends on change path and "configured" of
\* the copy only if they lead on to the mount or turn "configured" off.
LEMMA Resolved ==
  ASSUME TypeInv, ResolveInstance \/ ResolveControlPlane
  PROVE  /\ UNCHANGED <<trust, key, mount>> /\ pc \in {"resolve", "controlplane"}
         /\ SetStatus(obj'.status)
         /\ pc' \in {"controlplane", "mount", "status"}
         /\ \/ pc' = "mount"
            \/ ~obj'.status.configured
            \/ /\ obj'.status.path = obj.status.path
               /\ obj'.status.configured = obj.status.configured
  <1> DEFINE unready(s) == [s EXCEPT !.ready = FALSE]
             named(i) == [obj.status EXCEPT !.inst = i]
             placed(x, p) == [obj.status EXCEPT !.issuer = x, !.path = p]
  <1>0. obj.status \in Status /\ obj \in Object
    BY DEF TypeInv, TypeOK, Object
  <1>1. \/ SetStatus(unready(obj.status)) /\ pc' = "status"
        \/ \E i : SetStatus(unready(named(i))) /\ pc' = "status"
        \/ \E i : SetStatus(named(i)) /\ pc' = "controlplane"
        \/ TrustIncomplete
        \/ \E x, p : SetStatus(placed(x, p)) /\ pc' = "mount"
    BY DEF ResolveInstance, ResolveControlPlane, DependencyNotReady
  <1>2. /\ unready(obj.status).path = obj.status.path
        /\ unready(obj.status).configured = obj.status.configured
        /\ \A i : /\ named(i).path = obj.status.path
                  /\ named(i).configured = obj.status.configured
                  /\ unready(named(i)).path = obj.status.path
                  /\ unready(named(i)).configured = obj.status.configured
    BY <1>0, StatusForms
  <1>3. UNCHANGED <<trust, key, mount>> /\ pc \in {"resolve", "controlplane"}
    BY DEF ResolveInstance, ResolveControlPlane, envVars
  <1>4. PICK s : /\ SetStatus(s)
                 /\ pc' \in {"controlplane", "mount", "status"}
                 /\ \/ pc' = "mount"
                    \/ ~s.configured
                    \/ s.path = obj.status.path /\ s.configured = obj.status.configured
    <2>1. CASE TrustIncomplete
      BY <1>0, <2>1, StatusForms DEF TrustIncomplete
    <2> HIDE DEF unready, named, placed
    <2> QED
      BY <1>1, <1>2, <2>1
  <1>5. obj'.status = s
    BY <1>0, <1>4 DEF SetStatus, Object
  <1> QED
    BY <1>3, <1>4, <1>5

LEMMA MountedResolve ==
  ASSUME TypeInv, MountedInv, ResolveInstance \/ ResolveControlPlane, ~Moves
  PROVE  MountedInv'
  <1>1. PICK s : s = obj'.status
    OBVIOUS
  <1>2. \A i, p : BoundAt(i, p) => BoundAt(i, p)'
    BY Resolved DEF BoundAt
  <1>3. s.configured /\ pc' # "mount" => BoundAt(trust[key].status.inst, s.path)
    BY <1>1, Resolved DEF MountedInv
  <1>4. s.configured /\ pc' = "status" => s.inst = trust[key].status.inst
    BY <1>1, Resolved DEF Moves
  <1>5. /\ UNCHANGED <<trust, key>> /\ SetStatus(s)
        /\ pc' \in {"controlplane", "mount", "status"}
    BY <1>1, Resolved
  <1> QED
    BY <1>2, <1>3, <1>4, <1>5, MountedSet

\* The calls that make the mount.
LEMMA MountedWrite ==
  ASSUME TypeInv, ReadyInv, MountedInv, EnsureMount \/ ConfigureTrust
  PROVE  MountedInv'
  <1>0. obj \in Object /\ obj.status \in Status
    BY DEF TypeInv, TypeOK, Object
  <1>1. PICK j, q, x : j = client /\ q = obj.status.path /\ x = obj.status.issuer
    OBVIOUS
  <1>2. /\ UNCHANGED <<trust, key>> /\ j \in Instances /\ q \in Paths
        /\ j = obj.status.inst
    BY <1>1 DEF EnsureMount, ConfigureTrust, TypeInv, WorkerTyped, ReadyInv
  <1>3. CASE EnsureMount
    <2>1. \/ mount' = mount
          \/ mount[j][q] = None /\ mount' = [mount EXCEPT ![j][q] = Unbound]
      BY <1>1, <1>3 DEF EnsureMount, EnableMount
    <2>2. ASSUME NEW i, NEW p, BoundAt(i, p) PROVE BoundAt(i, p)'
      <3>1. mount' = mount \/ q # p \/ j # i
        BY <2>1, <2>2 DEF BoundAt
      <3> QED
        BY <2>1, <2>2, <3>1, BoundKept
    <2>3. CASE TrustFailed \/ TrustIncomplete
      <3>1. PICK s : SetStatus(s) /\ ~s.configured
        BY <1>0, <2>3, StatusForms DEF TrustFailed, TrustIncomplete
      <3>2. pc' = "status"
        BY <2>3 DEF TrustFailed, TrustIncomplete
      <3> QED
        BY <1>2, <2>2, <3>1, <3>2, MountedSet
    <2>4. CASE pc' = "configure" /\ UNCHANGED obj
      <3>1. \A t \in Trusts :
              trust[t].phase = "live" /\ trust[t].status.configured
                => BoundAt(trust[t].status.inst, trust[t].status.path)'
        BY <1>2, <2>2 DEF MountedInv
      <3> QED
        BY <1>2, <2>4, <3>1 DEF MountedInv, BoundAt
    <2> QED
      BY <1>3, <2>3, <2>4 DEF EnsureMount
  <1>4. CASE ConfigureTrust
    <2>1. pc' = "status" /\ x \notin {None, Unbound}
      BY <1>1, <1>4, NamesAssumption DEF ConfigureTrust, TrustFailed, TypeInv, WorkerTyped
    <2>2. mount' = mount \/ mount' = [mount EXCEPT ![j][q] = x]
      BY <1>1, <1>4 DEF ConfigureTrust, BindIssuer
    <2>3. \A i, p : BoundAt(i, p) => BoundAt(i, p)'
      BY <2>1, <2>2, BoundKept
    <2>4. PICK s : /\ SetStatus(s)
                   /\ \/ ~s.configured
                      \/ /\ s.inst = j /\ s.path = q
                         /\ mount' = [mount EXCEPT ![j][q] = x]
      <3>1. CASE TrustFailed
        BY <1>0, <3>1, StatusForms DEF TrustFailed
      <3>2. CASE ~TrustFailed
        <4> DEFINE r == [obj.status EXCEPT !.configured = TRUE, !.ready = TRUE]
        <4>1. SetStatus(r) /\ mount' = [mount EXCEPT ![j][q] = x]
          BY <1>1, <1>4, <3>2 DEF ConfigureTrust, BindIssuer
        <4>2. r.inst = j /\ r.path = q
          BY <1>0, <1>1, <1>2, StatusForms
        <4> HIDE DEF r
        <4> QED
          BY <4>1, <4>2
      <3> QED
        BY <3>1, <3>2
    <2>5. s.configured => BoundAt(s.inst, s.path)'
      BY <1>2, <2>1, <2>4 DEF BoundAt, TypeInv, TypeOK
    <2> QED
      BY <1>2, <2>1, <2>3, <2>4, <2>5, MountedSet
  <1> QED
    BY <1>3, <1>4

LEMMA MountedWorker ==
  ASSUME TypeInv, HeldInv, ReadyInv, MountedInv, Worker, ~Takes, ~Moves
  PROVE  MountedInv'
  <1>1. ASSUME NEW t \in Trusts, Fetch(t) PROVE MountedInv'
    <2>1. trust[t].phase = "live" \/ pc' = "delete"
      BY <1>1 DEF Fetch, TypeInv, TypeOK, Object
    <2> QED
      BY <1>1, <2>1 DEF Fetch, MountedInv, BoundAt
  <1>2. CASE AddFinalizer
    <2>1. \A t \in Trusts : /\ trust'[t].status = trust[t].status
                            /\ trust'[t].phase = trust[t].phase
      BY <1>2 DEF AddFinalizer, TypeInv, TypeOK, WorkerTyped, Object
    <2>2. CASE Idle
      BY <1>2, <2>1, <2>2 DEF AddFinalizer, Idle, MountedInv, BoundAt
    <2>3. CASE ~Idle
      <3>1. obj'.status = obj.status /\ UNCHANGED <<key, mount>> /\ pc' = "resolve"
            /\ pc = "finalize" /\ fresh /\ key \in Trusts
        BY <1>2, <2>3 DEF AddFinalizer, Object, TypeInv, TypeOK, WorkerTyped
      <3>2. obj.status.inst = trust[key].status.inst
        BY <3>1 DEF MountedInv
      <3> QED
        BY <2>1, <3>1, <3>2 DEF MountedInv, BoundAt
    <2> QED BY <2>2, <2>3
  <1>3. CASE UpdateStatus
    <2>1. /\ UNCHANGED mount /\ pc = "status" /\ key \in Trusts
          /\ trust' = [trust EXCEPT ![key] = [trust[key] EXCEPT !.status = obj.status]]
      BY <1>3 DEF UpdateStatus, TypeInv, WorkerTyped
    <2>2. \A t \in Trusts : trust'[t].phase = trust[t].phase
      BY <2>1 DEF TypeInv, TypeOK, Object
    <2>3. \A t \in Trusts : trust'[t].status = IF t = key THEN obj.status ELSE trust[t].status
      BY <2>1 DEF TypeInv, TypeOK, Object
    <2> QED
      BY <1>3, <2>1, <2>2, <2>3 DEF UpdateStatus, Idle, MountedInv, BoundAt
  <1>4. CASE FindMount
    <2>1. pc' \in {"unmount", "release"} /\ UNCHANGED <<trust, mount>>
      BY <1>4 DEF FindMount
    <2> QED
      BY <2>1 DEF MountedInv, BoundAt
  <1>5. CASE Unmount
    <2>1. ASSUME NEW t \in Trusts, trust[t].phase = "live", trust[t].status.configured
          PROVE  BoundAt(trust[t].status.inst, trust[t].status.path)'
      <3>1. PICK i, p : /\ i = trust[t].status.inst /\ p = trust[t].status.path
                        /\ BoundAt(i, p)
        BY <2>1 DEF MountedInv
      <3>2. PICK j, q : j = client /\ q = obj.status.path /\ (j # i \/ q # p)
        BY <1>5, <2>1, <3>1 DEF Takes
      <3>3. mount' = [mount EXCEPT ![j][q] = None] /\ trust' = trust
        BY <1>5, <3>2 DEF Unmount
      <3>4. BoundAt(i, p)'
        BY <3>1, <3>2, <3>3 DEF BoundAt, TypeInv, TypeOK
      <3> QED
        BY <3>1, <3>3, <3>4 DEF BoundAt
    <2>2. UNCHANGED trust /\ pc' \in {"idle", "release"}
      BY <1>5 DEF Unmount, Idle
    <2> QED
      BY <2>1, <2>2 DEF MountedInv, BoundAt
  <1>6. CASE Release
    <2>1. /\ trust' = [trust EXCEPT ![key] = NoObject] /\ UNCHANGED mount
          /\ pc' = "idle" /\ NoObject.phase = "absent"
      BY <1>6 DEF Release, Idle, NoObject
    <2> QED
      BY <2>1 DEF MountedInv, BoundAt, TypeInv, TypeOK
  <1>7. CASE Abandon
    BY <1>7 DEF Abandon, Idle, MountedInv, BoundAt
  <1> QED
    BY <1>1, <1>2, <1>3, <1>4, <1>5, <1>6, <1>7, MountedResolve, MountedWrite DEF Worker

LEMMA MountedNext ==
  ASSUME TypeInv, HeldInv, ReadyInv, MountedInv, [Next]_vars, ~Takes, ~Moves
  PROVE  MountedInv'
  <1>1. CASE Worker
    BY <1>1, MountedWorker
  <1>2. CASE User
    <2>1. PICK t \in Trusts, o \in Object :
            trust' = [trust EXCEPT ![t] = o] /\ UserWrites(t, o) /\ Touch(t)
      BY <1>2, UserEffect
    <2>2. ~o.status.configured \/ (o.status = trust[t].status /\ trust[t].phase = "live")
      BY <2>1 DEF UserWrites, NoObject, NoStatus
    <2>3. /\ UNCHANGED <<pc, key, obj, mount>>
          /\ pc = "finalize" /\ fresh' => fresh /\ key # t
      BY <2>1 DEF Touch, envVars
    <2>4. \A u \in Trusts : trust'[u] = IF u = t THEN o ELSE trust[u]
      BY <2>1 DEF TypeInv, TypeOK
    <2>5. pc \in LiveCalls \/ (pc = "finalize" /\ fresh')
            => trust'[key].status = trust[key].status
      <3>1. pc # "idle" => key \in Trusts
        BY DEF TypeInv, WorkerTyped
      <3>2. pc \in LiveCalls /\ key = t => o.status = trust[t].status
        BY <2>1 DEF UserWrites, HeldInv
      <3> QED
        BY <2>3, <2>4, <3>1, <3>2 DEF LiveCalls
    <2>6. \A u \in Trusts :
            trust'[u].phase = "live" /\ trust'[u].status.configured
              => BoundAt(trust'[u].status.inst, trust'[u].status.path)
      BY <2>2, <2>4 DEF MountedInv
    <2> QED
      BY <2>3, <2>5, <2>6 DEF LiveCalls, MountedInv, BoundAt
  <1>3. CASE Environment
    <2>1. UNCHANGED <<trust, mount, pc, key, obj, fresh>>
      BY <1>3 DEF Environment, SetProject, SetInstance, SetControlPlane, SetPrefix,
         workerVars
    <2> QED
      BY <2>1 DEF MountedInv, BoundAt
  <1>4. CASE UNCHANGED vars
    BY <1>4 DEF vars, envVars, workerVars, MountedInv, BoundAt
  <1> QED
    BY <1>1, <1>2, <1>3, <1>4 DEF Next

LEMMA MountedInit == Init => MountedInv /\ ReadyInv
  BY DEF Init, MountedInv, ReadyInv, NoObject, NoStatus

LEMMA MountedExists == MountedInv => ConfiguredMountExists
  BY DEF MountedInv, BoundAt, ConfiguredMountExists

\* The mount of a live trust that publishes TrustConfigured is missing only because
\* another trust with the same mount was deleted, or because the project moved to an
\* instance where the reconcile did not get as far as the mount.  No failing call,
\* crash, edit, deletion of the trust itself or move that comes through does it.
THEOREM MissingInTwoWays ==
  Spec /\ [][~Takes /\ ~Moves]_vars => []ConfiguredMountExists
  <1>1. MountedInv /\ ReadyInv /\ TypeInv /\ HeldInv /\ [Next]_vars /\ [~Takes /\ ~Moves]_vars
          => MountedInv' /\ ReadyInv'
    <2> SUFFICES ASSUME MountedInv, ReadyInv, TypeInv, HeldInv, [Next]_vars,
                        [~Takes /\ ~Moves]_vars
                 PROVE  MountedInv' /\ ReadyInv'
      OBVIOUS
    <2>1. CASE ~Takes /\ ~Moves
      BY <2>1, MountedNext, ReadyNext
    <2>2. CASE UNCHANGED vars
      <3>1. MountedInv'
        BY <2>2 DEF vars, envVars, workerVars, MountedInv, BoundAt
      <3> QED
        BY <3>1, ReadyNext
    <2> QED
      BY <2>1, <2>2
  <1> QED
    BY <1>1, MountedInit, MountedExists, HeldInvariant, PTL DEF Spec

\* No two trusts may want the same path, and no project moves.
PathsExclusive  == \A t, u \in Trusts : t # u => OwnPaths(t) \cap OwnPaths(u) = {}
OneInstanceEach == \A t \in Trusts : \A i, j \in ProjectsOf[t] \ {None} : i = j

\* Instances come from the projects.
PlaceInv ==
  /\ \A t \in Trusts : /\ project[t] \in ProjectsOf[t]
                       /\ trust[t].status.inst \in ProjectsOf[t] \cup {None}
  /\ pc # "idle" => obj.status.inst \in ProjectsOf[key] \cup {None}

\* Most of what the reconcile writes into the copy leaves its instance alone.
LEMMA PlaceSet ==
  ASSUME TypeInv, PlaceInv, Worker
  PROVE  \/ pc' = "idle" \/ pc = "idle"
         \/ /\ key' = key
            /\ \/ obj'.status.inst = obj.status.inst
               \/ pc = "resolve" /\ project[key] # None /\ obj'.status.inst = project[key]
  <1>0. obj \in Object /\ obj.status \in Status
    BY DEF TypeInv, TypeOK, Object
  <1>2. CASE ResolveInstance
    <2>1. PICK i : i = project[key]
      OBVIOUS
    <2> DEFINE named == [obj.status EXCEPT !.inst = i]
               unready(s) == [s EXCEPT !.ready = FALSE]
    <2>2. \/ obj' = [obj EXCEPT !.status = unready(obj.status)]
          \/ obj' = [obj EXCEPT !.status = unready(named)] /\ i # None
          \/ obj' = [obj EXCEPT !.status = named] /\ i # None
      BY <1>2, <2>1 DEF ResolveInstance, DependencyNotReady, SetStatus
    <2>3. unready(obj.status).inst = obj.status.inst /\ unready(named).inst = i
          /\ named.inst = i
      BY <1>0, StatusForms
    <2> HIDE DEF named, unready
    <2>4. key' = key /\ pc = "resolve"
      BY <1>2 DEF ResolveInstance
    <2> QED
      BY <1>0, <2>1, <2>2, <2>3, <2>4 DEF Object
  <1>3. CASE ResolveControlPlane
    <2> DEFINE placed(x, p) == [obj.status EXCEPT !.issuer = x, !.path = p]
    <2>1. \E s : SetStatus(s) /\ s.inst = obj.status.inst
      <3>1. \/ DependencyNotReady(obj.status) \/ TrustIncomplete
            \/ \E x, p : SetStatus(placed(x, p))
        BY <1>3 DEF ResolveControlPlane
      <3>2. \A x, p : placed(x, p).inst = obj.status.inst
        BY <1>0, StatusForms
      <3>3. CASE DependencyNotReady(obj.status)
        BY <1>0, <3>3, StatusForms DEF DependencyNotReady
      <3>4. CASE TrustIncomplete
        BY <1>0, <3>4, StatusForms DEF TrustIncomplete
      <3> HIDE DEF placed
      <3> QED
        BY <3>1, <3>2, <3>3, <3>4
    <2>2. key' = key
      BY <1>3 DEF ResolveControlPlane
    <2> QED
      BY <1>0, <2>1, <2>2 DEF SetStatus, Object
  <1>4. CASE EnsureMount \/ ConfigureTrust
    <2>1. key' = key /\ (obj' = obj \/ \E s : SetStatus(s) /\ s.inst = obj.status.inst)
      BY <1>0, <1>4, StatusForms
      DEF EnsureMount, ConfigureTrust, TrustFailed, TrustIncomplete
    <2> QED
      BY <1>0, <2>1 DEF SetStatus, Object
  <1>5. CASE ~(ResolveInstance \/ ResolveControlPlane \/ EnsureMount \/ ConfigureTrust)
    BY <1>0, <1>5 DEF Worker, Fetch, AddFinalizer, UpdateStatus, FindMount, Unmount, Release,
       Abandon, Idle, Object
  <1> QED
    BY <1>2, <1>3, <1>4, <1>5

LEMMA PlaceNext == TypeInv /\ PlaceInv /\ [Next]_vars => PlaceInv'
  <1> SUFFICES ASSUME TypeInv, PlaceInv, [Next]_vars PROVE PlaceInv'
    OBVIOUS
  <1>0. /\ TargetsAssumption /\ trust \in [Trusts -> Object]
        /\ pc # "idle" => key \in Trusts
    BY TargetsAssumption DEF TypeInv, TypeOK, WorkerTyped
  <1>1. CASE Worker
    <2>1. project' = project
      BY <1>1 DEF Worker, Fetch, AddFinalizer, ResolveInstance, ResolveControlPlane,
         EnsureMount, ConfigureTrust, UpdateStatus, FindMount, Unmount, Release, Abandon,
         envVars
    <2>2. \A t \in Trusts : trust'[t].status.inst \in ProjectsOf[t] \cup {None}
      <3>1. CASE AddFinalizer \/ UpdateStatus \/ Release
        BY <1>0, <3>1 DEF PlaceInv, AddFinalizer, UpdateStatus, Release, NoObject, NoStatus,
           Object
      <3>2. CASE ~(AddFinalizer \/ UpdateStatus \/ Release)
        <4>1. trust' = trust
          BY <1>1, <3>2 DEF Worker, Fetch, ResolveInstance, ResolveControlPlane, EnsureMount,
             ConfigureTrust, FindMount, Unmount, Abandon
        <4> QED
          BY <4>1 DEF PlaceInv
      <3> QED
        BY <3>1, <3>2
    <2>3. pc' # "idle" => obj'.status.inst \in ProjectsOf[key'] \cup {None}
      <3>1. CASE pc = "idle"
        <4>1. PICK t \in Trusts : Fetch(t)
          BY <1>1, <3>1 DEF Worker, AddFinalizer, ResolveInstance, ResolveControlPlane,
             EnsureMount, ConfigureTrust, UpdateStatus, FindMount, Unmount, Release, Abandon
        <4> QED
          BY <4>1 DEF Fetch, PlaceInv
      <3>2. CASE pc # "idle"
        BY <1>0, <1>1, <3>2, PlaceSet DEF PlaceInv
      <3> QED
        BY <3>1, <3>2
    <2> QED
      BY <2>1, <2>2, <2>3 DEF PlaceInv
  <1>2. CASE User
    <2>1. PICK t \in Trusts, o \in Object :
            trust' = [trust EXCEPT ![t] = o] /\ UserWrites(t, o) /\ Touch(t)
      BY <1>2, UserEffect
    <2>2. o.status.inst = None \/ o.status = trust[t].status
      BY <2>1 DEF UserWrites, NoObject, NoStatus
    <2> QED
      BY <1>0, <2>1, <2>2 DEF Touch, envVars, PlaceInv
  <1>3. CASE Environment
    BY <1>3 DEF Environment, SetProject, SetInstance, SetControlPlane, SetPrefix,
       workerVars, PlaceInv, TypeInv, TypeOK
  <1>4. CASE UNCHANGED vars
    BY <1>4 DEF vars, envVars, workerVars, PlaceInv
  <1> QED
    BY <1>1, <1>2, <1>3, <1>4 DEF Next

\* Neither of the two ways is open if paths are exclusive and no project moves.
LEMMA NeitherWay ==
  ASSUME PathsExclusive, OneInstanceEach, TypeInv, HeldInv, OwnInv, PlaceInv, MountedInv,
         ReadyInv, [Next]_vars
  PROVE  ~Takes /\ ~Moves
  <1>1. ~Takes
    <2> SUFFICES ASSUME Unmount, NEW t \in Trusts, trust[t].phase = "live",
                        trust[t].status.configured,
                        trust[t].status.path = obj.status.path
                 PROVE  FALSE
      BY DEF Takes
    <2>1. key \in Trusts /\ key # t
      BY DEF Unmount, HeldInv, DeleteCalls, TypeInv, WorkerTyped
    <2>2. trust[t].status.path # None
      BY NamesAssumption DEF MountedInv, BoundAt
    <2>3. trust[t].status.path \in OwnPaths(t) \cap OwnPaths(key)
      BY <2>1, <2>2 DEF OwnInv, Unmount
    <2> QED
      BY <2>1, <2>3 DEF PathsExclusive
  <1>2. ~Moves
    <2> SUFFICES ASSUME pc \in {"resolve", "controlplane"}, pc' = "status",
                        obj'.status.configured
                 PROVE  obj'.status.inst = trust[key].status.inst
      BY DEF Moves
    <2>1. ResolveInstance \/ ResolveControlPlane
      BY DEF Next, Worker, Fetch, AddFinalizer, EnsureMount, ConfigureTrust, UpdateStatus,
         FindMount, Unmount, Release, Abandon, Idle, User, CreateTrust, EditTrust,
         DeleteTrust, Touch, Environment, SetProject, SetInstance, SetControlPlane,
         SetPrefix, vars, workerVars
    <2>2. key \in Trusts /\ obj.status.configured
      BY <2>1, Resolved DEF TypeInv, WorkerTyped
    <2>3. /\ trust[key].status.inst \in ProjectsOf[key] \ {None}
          /\ pc = "resolve" => obj.status.inst = trust[key].status.inst
      BY <2>2, NamesAssumption DEF MountedInv, BoundAt, PlaceInv
    <2>4. pc = "controlplane" => obj.status.inst \in ProjectsOf[key] \ {None}
      BY NamesAssumption DEF ReadyInv, PlaceInv, TypeInv, WorkerTyped
    <2>5. \/ obj'.status.inst = obj.status.inst
          \/ obj'.status.inst \in ProjectsOf[key] \ {None}
      BY <2>1, <2>2, PlaceSet DEF PlaceInv, Worker
    <2> QED
      BY <2>2, <2>3, <2>4, <2>5 DEF OneInstanceEach
  <1> QED
    BY <1>1, <1>2

\* If no two trusts may want one path, and none moves to another instance, the
\* mount of a live trust that publishes TrustConfigured is there, also while the
\* controller works on that trust and on others that are deleted.
THEOREM ConfiguredMountThere ==
  ASSUME PathsExclusive, OneInstanceEach
  PROVE  Spec => []ConfiguredMountExists
  <1>1. Init => PlaceInv
    BY DEF Init, PlaceInv, NoObject, NoStatus
  <1>2. /\ MountedInv /\ ReadyInv /\ PlaceInv /\ TypeInv /\ HeldInv /\ OwnInv
        /\ [Next]_vars
        => MountedInv' /\ ReadyInv' /\ PlaceInv'
    BY MountedNext, ReadyNext, PlaceNext, NeitherWay
  <1> QED
    BY <1>1, <1>2, MountedInit, MountedExists, HeldInvariant, OwnInvariant, PTL DEF Spec

-----------------------------------------------------------------------------
(***************************************************************************)
(* The promises that need distinct paths, from what users write down: the  *)
(* prefixes are strings, the ControlPlanes have a namespace and a name,    *)
(* and a path is what openbao.AuthMountPath makes of them.                 *)
(***************************************************************************)

PathsNamed(Text, Space, Name) ==
  /\ \A q \in Prefixes : Text[q] \in Seq(Chars)
  /\ \A c \in ControlPlanes : ObjectName(Space[c]) /\ ObjectName(Name[c])
  /\ \A q \in Prefixes, c \in ControlPlanes :
       MountPath(q, c) = AuthMountPath(Text[q], Space[c], Name[c])

\* Two prefixes are one once they are sanitized, or none of them is empty or
\* continues the other behind a dash.
PrefixesApart(Text) ==
  \A q, r \in Prefixes :
    LET h == Sanitize(Text[q])
        k == Sanitize(Text[r])
    IN  h = k \/ (h # <<>> /\ k # <<>> /\ ~Continues(h, k) /\ ~Continues(k, h))

\* Namespace and name of two ControlPlanes do not read the same when they are
\* joined and dots are dashes.
ControlPlanesApart(Space, Name) ==
  \A c, d \in ControlPlanes : ReadSame(Space[c], Name[c], Space[d], Name[d]) => c = d

LEMMA NamedPathsDistinct ==
  ASSUME NEW Text, NEW Space, NEW Name,
         PathsNamed(Text, Space, Name), PrefixesApart(Text), ControlPlanesApart(Space, Name)
  PROVE  PathsDistinct
  <1> SUFFICES ASSUME NEW q \in Prefixes, NEW r \in Prefixes,
                      NEW c \in ControlPlanes, NEW d \in ControlPlanes,
                      MountPath(q, c) = MountPath(r, d)
               PROVE  c = d
    BY DEF PathsDistinct
  <1> DEFINE h == Sanitize(Text[q])  k == Sanitize(Text[r])
  <1>1. /\ Text[q] \in Seq(Chars) /\ Text[r] \in Seq(Chars)
        /\ ObjectName(Space[c]) /\ ObjectName(Name[c])
        /\ ObjectName(Space[d]) /\ ObjectName(Name[d])
        /\ AuthMountPath(Text[q], Space[c], Name[c]) = AuthMountPath(Text[r], Space[d], Name[d])
    BY DEF PathsNamed
  <1>2. h = k \/ (h # <<>> /\ k # <<>> /\ ~Continues(h, k) /\ ~Continues(k, h))
    BY DEF PrefixesApart
  <1>3. ReadSame(Space[c], Name[c], Space[d], Name[d])
    BY <1>1, <1>2, PrefixesTold
  <1> QED
    BY <1>3 DEF ControlPlanesApart

\* No mount of a ControlPlane is ever bound to a foreign issuer, although its path
\* is cut to a bound, hashed, and made from strings that users choose.
THEOREM IssuersIsolatedByNames ==
  ASSUME NEW Text, NEW Space, NEW Name,
         PathsNamed(Text, Space, Name), PrefixesApart(Text), ControlPlanesApart(Space, Name)
  PROVE  Spec => []IssuerIsolation
  BY NamedPathsDistinct, IssuersIsolated

\* What a trust publishes as configured is there if no two trusts may name one
\* ControlPlane, and none moves to another instance.
THEOREM ConfiguredThereByNames ==
  ASSUME NEW Text, NEW Space, NEW Name,
         PathsNamed(Text, Space, Name), PrefixesApart(Text), ControlPlanesApart(Space, Name),
         \A t, u \in Trusts : t # u => Targets[t] \cap Targets[u] = {},
         OneInstanceEach
  PROVE  Spec => []ConfiguredMountExists
  <1>1. PathsDistinct
    BY NamedPathsDistinct
  <1>2. PathsExclusive
    BY <1>1, TargetsAssumption DEF PathsExclusive, OwnPaths, PathsDistinct
  <1> QED
    BY <1>2, ConfiguredMountThere
=============================================================================

------------------------- MODULE ControlPlaneTrust -------------------------
(***************************************************************************)
(* The ControlPlaneTrust controller: for each ControlPlaneTrust object of  *)
(* the onboarding cluster it keeps one JWT auth mount in an OpenBao        *)
(* instance, bound to the issuer of the referenced ControlPlane, and       *)
(* removes the mount when the object is deleted.                           *)
(*                                                                         *)
(* One worker reconciles one object at a time (MaxConcurrentReconciles is  *)
(* left at its default of 1).  Every call it makes to the API server or to *)
(* OpenBao is a step of its own, so users, the other controllers and       *)
(* crashes interleave between any two calls.  Writes to the API server     *)
(* carry the resourceVersion read at the start: "fresh" says that nobody   *)
(* has written the object since, and a write that is not fresh conflicts.  *)
(***************************************************************************)

CONSTANTS
  Trusts,           \* namespaced names of ControlPlaneTrust objects
  ControlPlanes,    \* namespaced names of ControlPlane objects
  Instances,        \* names of OpenBaoInstance objects
  ConfigPrefixes,   \* values of ServiceConfig.spec.authMountPrefix
  OverridePrefixes, \* values of OpenBaoInstance.spec.auth.jwt.mountPrefix
  Targets,          \* trust -> ControlPlanes its spec.controlPlaneRef may name
  IssuersOf,        \* ControlPlane -> issuer URLs it may expose
  ProjectsOf,       \* trust -> instances its ProjectEntity may name, and None
  InstanceStates,   \* what an OpenBaoInstance may be
  PathOf,           \* <<prefix, ControlPlane>> -> mount path
  None              \* the empty string, the absent object

Prefixes == ConfigPrefixes \cup OverridePrefixes
Issuers  == UNION {IssuersOf[c] : c \in ControlPlanes}

\* openbao.AuthMountPath (module Naming), a function of the prefix and of the
\* names of the ControlPlane.
MountPath(prefix, c) == PathOf[<<prefix, c>>]
Paths == {MountPath(q, c) : q \in Prefixes, c \in ControlPlanes}

\* Two ControlPlanes never get the same path.  Naming says when this is so.
PathsDistinct ==
  \A q, r \in Prefixes, c, d \in ControlPlanes :
    MountPath(q, c) = MountPath(r, d) => c = d

Missing     == "missing"    \* the object does not exist
Unreachable == "unreachable"
Reachable   == "reachable"
NoIssuer    == "no-issuer"  \* a ControlPlane without service-account-issuer
Unbound     == "unbound"    \* a JWT mount whose config was never written

ASSUME TargetsAssumption ==
  /\ Targets \in [Trusts -> SUBSET ControlPlanes]
  /\ DOMAIN IssuersOf = ControlPlanes
  /\ ProjectsOf \in [Trusts -> SUBSET (Instances \cup {None})]
  /\ InstanceStates \subseteq {Missing, Unreachable, Reachable}
  /\ DOMAIN PathOf = Prefixes \X ControlPlanes

ASSUME NamesAssumption ==
  /\ None \notin Trusts \cup Instances \cup Prefixes \cup Issuers \cup Paths
  /\ {Missing, NoIssuer, Unbound} \cap (Issuers \cup {None}) = {}

VARIABLES
  trust,        \* the ControlPlaneTrust objects in the onboarding API server
  project,      \* trust -> instance its ProjectEntity names, None: no such PE
  instance,     \* instance -> "missing" / "unreachable" / "reachable"
  controlPlane, \* ControlPlane -> Missing / NoIssuer / the issuer it exposes
  cfgPrefix,    \* ServiceConfig.spec.authMountPrefix
  override,     \* instance -> spec.auth.jwt.mountPrefix, None if empty
  mount,        \* OpenBao: instance -> path -> None / Unbound / bound issuer
  pc,           \* the worker's next call, "idle" between reconciles
  key,          \* the object being reconciled, None when idle
  obj,          \* the worker's copy of it
  fresh,        \* obj still carries the current resourceVersion
  cfg,          \* authMountPrefix of the ServiceConfig read by this reconcile
  client        \* the instance this reconcile talks to, None before it knows

envVars    == <<project, instance, controlPlane, cfgPrefix, override>>
workerVars == <<pc, key, obj, fresh, cfg, client>>
vars       == <<trust, envVars, mount, workerVars>>

Status == [path       : Paths \cup {None},
           inst       : Instances \cup {None},
           issuer     : Issuers \cup {None},
           configured : BOOLEAN,    \* condition TrustConfigured is True
           ready      : BOOLEAN]    \* condition Ready is True

Object == [phase     : {"absent", "live", "deleting"},
           finalizer : BOOLEAN,
           target    : ControlPlanes \cup {None},   \* spec.controlPlaneRef
           status    : Status]

NoStatus == [path |-> None, inst |-> None, issuer |-> None,
             configured |-> FALSE, ready |-> FALSE]

NoObject == [phase |-> "absent", finalizer |-> FALSE, target |-> None,
             status |-> NoStatus]

Calls == {"idle", "finalize", "resolve", "controlplane", "mount",
          "configure", "status", "delete", "unmount", "release"}

Idle == /\ pc' = "idle"
        /\ key' = None
        /\ obj' = NoObject
        /\ fresh' = FALSE
        /\ cfg' = None
        /\ client' = None

Init ==
  /\ trust = [t \in Trusts |-> NoObject]
  /\ project \in {f \in [Trusts -> Instances \cup {None}] :
                    \A t \in Trusts : f[t] \in ProjectsOf[t]}
  /\ instance \in [Instances -> InstanceStates]
  /\ controlPlane \in [ControlPlanes -> {Missing}]
  /\ cfgPrefix \in ConfigPrefixes
  /\ override = [i \in Instances |-> None]
  /\ mount = [i \in Instances |-> [p \in Paths |-> None]]
  /\ pc = "idle" /\ key = None /\ obj = NoObject /\ fresh = FALSE
  /\ cfg = None /\ client = None

-----------------------------------------------------------------------------
(***************************************************************************)
(* The worker.  Each operator is one call of Reconcile or reconcileDelete. *)
(***************************************************************************)

\* Mutant: external work starts before the finalizer is stored.
FetchWithoutFinalizer(t) ==
  /\ pc = "idle"
  /\ trust[t].phase # "absent"
  /\ key' = t /\ obj' = trust[t] /\ fresh' = TRUE /\ cfg' = cfgPrefix
  /\ pc' = IF trust[t].phase = "deleting" THEN "delete" ELSE "resolve"
  /\ UNCHANGED <<trust, envVars, mount, client>>

\* Mutant: a trust that is Ready is not looked at again.
FetchOnlyUnready(t) ==
  /\ pc = "idle"
  /\ trust[t].phase = "deleting" \/ (trust[t].phase = "live" /\ ~trust[t].status.ready)
  /\ key' = t /\ obj' = trust[t] /\ fresh' = TRUE /\ cfg' = cfgPrefix
  /\ pc' = IF trust[t].phase = "deleting" THEN "delete"
           ELSE IF trust[t].finalizer THEN "resolve" ELSE "finalize"
  /\ UNCHANGED <<trust, envVars, mount, client>>

\* Get the object and the ServiceConfig.  A deleted object is cleaned up, a
\* live one gets its finalizer before anything else happens.
Fetch(t) ==
  /\ pc = "idle"
  /\ trust[t].phase # "absent"
  /\ key' = t
  /\ obj' = trust[t]
  /\ fresh' = TRUE
  /\ cfg' = cfgPrefix
  /\ pc' = IF trust[t].phase = "deleting" THEN "delete"
           ELSE IF trust[t].finalizer THEN "resolve" ELSE "finalize"
  /\ UNCHANGED <<trust, envVars, mount, client>>

\* controllerutil.AddFinalizer and the Update that stores it; the reply may
\* be lost after the server stored it.
AddFinalizer ==
  /\ pc = "finalize"
  /\ fresh
  /\ trust' = [trust EXCEPT ![key].finalizer = TRUE]
  /\ \/ /\ pc' = "resolve"
        /\ obj' = [obj EXCEPT !.finalizer = TRUE]
        /\ UNCHANGED <<key, fresh, cfg, client>>
     \/ Idle
  /\ UNCHANGED <<envVars, mount>>

SetStatus(s) == obj' = [obj EXCEPT !.status = s]

\* dependencyNotReady: Ready (and DependencyReady) turn False, TrustConfigured
\* keeps its value; patchStatus follows.
DependencyNotReady(s) ==
  /\ SetStatus([s EXCEPT !.ready = FALSE])
  /\ pc' = "status"

\* TrustConfigured and Ready both turn False; patchStatus follows.
TrustIncomplete ==
  /\ SetStatus([obj.status EXCEPT !.configured = FALSE, !.ready = FALSE])
  /\ pc' = "status"

\* Only TrustConfigured turns False, Ready keeps its value.
TrustFailed ==
  /\ SetStatus([obj.status EXCEPT !.configured = FALSE])
  /\ pc' = "status"

\* Get the ProjectEntity and the OpenBaoInstance it names.
ResolveInstance ==
  /\ pc = "resolve"
  /\ LET i     == project[key]
         named == [obj.status EXCEPT !.inst = i]
     IN  \/ /\ i = None \/ (i # None /\ instance[i] = Missing)
            /\ DependencyNotReady(obj.status)
            /\ UNCHANGED client
         \/ /\ i # None
            /\ instance[i] = Unreachable
            /\ DependencyNotReady(named)
            /\ UNCHANGED client
         \/ /\ i # None
            /\ instance[i] = Reachable
            /\ SetStatus(named)
            /\ client' = i
            /\ pc' = "controlplane"
  /\ UNCHANGED <<trust, envVars, mount, key, fresh, cfg>>

\* resolveAuthMountPrefix: the instance's own prefix, else the ServiceConfig's.
ResolveAuthMountPrefix(i) == IF override[i] # None THEN override[i] ELSE cfg

\* Mutant: an empty issuer is not treated as "not yet".
ResolveWithoutIssuerCheck ==
  /\ pc = "controlplane"
  /\ LET c == obj.target
     IN  \/ /\ controlPlane[c] = Missing
            /\ DependencyNotReady(obj.status)
         \/ /\ controlPlane[c] # Missing
            /\ SetStatus([obj.status EXCEPT
                 !.issuer = controlPlane[c],
                 !.path = MountPath(ResolveAuthMountPrefix(client), c)])
            /\ pc' = "mount"
  /\ UNCHANGED <<trust, envVars, mount, key, fresh, cfg, client>>

\* Mutant: the path is computed from a newer read of the spec than the issuer.
ResolveWithReread ==
  /\ pc = "controlplane"
  /\ controlPlane[obj.target] \notin {Missing, NoIssuer}
  /\ SetStatus([obj.status EXCEPT
       !.issuer = controlPlane[obj.target],
       !.path = MountPath(ResolveAuthMountPrefix(client), trust[key].target)])
  /\ pc' = "mount"
  /\ UNCHANGED <<trust, envVars, mount, key, fresh, cfg, client>>

\* Get the ControlPlane, discover its issuer, compute the mount path.
ResolveControlPlane ==
  /\ pc = "controlplane"
  /\ LET c == obj.target
     IN  \/ /\ controlPlane[c] = Missing
            /\ DependencyNotReady(obj.status)
         \/ /\ controlPlane[c] = NoIssuer
            /\ TrustIncomplete
         \/ /\ controlPlane[c] \notin {Missing, NoIssuer}
            /\ SetStatus([obj.status EXCEPT
                 !.issuer = controlPlane[c],
                 !.path = MountPath(ResolveAuthMountPrefix(client), c)])
            /\ pc' = "mount"
  /\ UNCHANGED <<trust, envVars, mount, key, fresh, cfg, client>>

\* What OpenBao does with the two writes.
EnableMount(i, p) ==
  mount' = IF mount[i][p] = None THEN [mount EXCEPT ![i][p] = Unbound]
           ELSE mount
BindIssuer(i, p, iss) ==
  /\ mount[i][p] # None
  /\ mount' = [mount EXCEPT ![i][p] = iss]

\* ClientFactory, then EnsureJWTAuthMount.  Either may fail, and the mount may
\* exist although the call reported an error.
EnsureMount ==
  /\ pc = "mount"
  /\ \/ TrustIncomplete /\ UNCHANGED mount
     \/ TrustFailed /\ UNCHANGED mount
     \/ TrustFailed /\ EnableMount(client, obj.status.path)
     \/ /\ EnableMount(client, obj.status.path)
        /\ pc' = "configure"
        /\ UNCHANGED obj
  /\ UNCHANGED <<trust, envVars, key, fresh, cfg, client>>

\* Mutant: the error of ConfigureJWTTrust is logged and forgotten.
ConfigureIgnoringError ==
  /\ pc = "configure"
  /\ \/ UNCHANGED mount
     \/ BindIssuer(client, obj.status.path, obj.status.issuer)
  /\ SetStatus([obj.status EXCEPT !.configured = TRUE, !.ready = TRUE])
  /\ pc' = "status"
  /\ UNCHANGED <<trust, envVars, key, fresh, cfg, client>>

\* ConfigureJWTTrust; on success TrustConfigured and Ready turn True.
ConfigureTrust ==
  /\ pc = "configure"
  /\ \/ TrustFailed /\ UNCHANGED mount
     \/ TrustFailed /\ BindIssuer(client, obj.status.path, obj.status.issuer)
     \/ /\ BindIssuer(client, obj.status.path, obj.status.issuer)
        /\ SetStatus([obj.status EXCEPT !.configured = TRUE, !.ready = TRUE])
        /\ pc' = "status"
  /\ UNCHANGED <<trust, envVars, key, fresh, cfg, client>>

\* patchStatus: Status().Update stores the whole status of the copy.
UpdateStatus ==
  /\ pc = "status"
  /\ fresh
  /\ trust' = [trust EXCEPT ![key].status = obj.status]
  /\ Idle
  /\ UNCHANGED <<envVars, mount>>

Recorded(s) == s.path # None /\ s.inst # None

\* Mutant: the cleanup goes to the instance the ProjectEntity names now.
FindMountByProject ==
  /\ pc = "delete"
  /\ \/ /\ Recorded(obj.status)
        /\ project[key] # None
        /\ instance[project[key]] = Reachable
        /\ client' = project[key]
        /\ pc' = "unmount"
     \/ /\ pc' = "release"
        /\ UNCHANGED client
  /\ UNCHANGED <<trust, envVars, mount, key, obj, fresh, cfg>>

\* Mutant: a trust that never got a mount is not released.
FindMountOnlyIfRecorded ==
  /\ pc = "delete"
  /\ Recorded(obj.status)
  /\ \/ /\ instance[obj.status.inst] = Reachable
        /\ client' = obj.status.inst
        /\ pc' = "unmount"
     \/ /\ pc' = "release"
        /\ UNCHANGED client
  /\ UNCHANGED <<trust, envVars, mount, key, obj, fresh, cfg>>

\* reconcileDelete looks for the instance that holds the mount and builds a
\* client for it.  If nothing is recorded, the instance is gone or not
\* reachable, or the client cannot be built, the cleanup is skipped.
FindMount ==
  /\ pc = "delete"
  /\ \/ /\ Recorded(obj.status)
        /\ instance[obj.status.inst] = Reachable
        /\ client' = obj.status.inst
        /\ pc' = "unmount"
     \/ \* nothing recorded, instance unusable, or ClientFactory fails
        /\ pc' = "release"
        /\ UNCHANGED client
  /\ UNCHANGED <<trust, envVars, mount, key, obj, fresh, cfg>>

\* Mutant: an error of DeleteAuthMount does not end the reconcile.
UnmountIgnoringError ==
  /\ pc = "unmount"
  /\ \/ mount' = [mount EXCEPT ![client][obj.status.path] = None]
     \/ UNCHANGED mount
  /\ pc' = "release"
  /\ UNCHANGED <<trust, envVars, key, obj, fresh, cfg, client>>

\* Mutant: the path is computed again instead of read from the status.
UnmountRecomputed ==
  /\ pc = "unmount"
  /\ LET p == MountPath(ResolveAuthMountPrefix(client), obj.target)
     IN  mount' = [mount EXCEPT ![client][p] = None]
  /\ pc' = "release"
  /\ UNCHANGED <<trust, envVars, key, obj, fresh, cfg, client>>

\* DeleteAuthMount, idempotent; an error ends the reconcile.
Unmount ==
  /\ pc = "unmount"
  /\ mount' = [mount EXCEPT ![client][obj.status.path] = None]
  /\ \/ pc' = "release" /\ UNCHANGED <<key, obj, fresh, cfg, client>>
     \/ Idle
  /\ UNCHANGED <<trust, envVars>>

\* RemoveFinalizer and Update: the API server drops the object.
Release ==
  /\ pc = "release"
  /\ fresh
  /\ trust' = [trust EXCEPT ![key] = NoObject]
  /\ Idle
  /\ UNCHANGED <<envVars, mount>>

\* A call fails without effect and the error is returned, a write conflicts,
\* or the process dies: nothing but the stored state survives.
Abandon ==
  /\ pc # "idle"
  /\ Idle
  /\ UNCHANGED <<trust, envVars, mount>>

Worker == \/ \E t \in Trusts : Fetch(t)
          \/ AddFinalizer \/ ResolveInstance \/ ResolveControlPlane
          \/ EnsureMount \/ ConfigureTrust \/ UpdateStatus
          \/ FindMount \/ Unmount \/ Release
          \/ Abandon

-----------------------------------------------------------------------------
(***************************************************************************)
(* Users, the other controllers and the ControlPlane operator.             *)
(***************************************************************************)

\* A write by anyone else makes the worker's copy of the object stale.
Touch(t) ==
  /\ fresh' = (fresh /\ key # t)
  /\ UNCHANGED <<envVars, mount, pc, key, obj, cfg, client>>

CreateTrust(t) ==
  /\ trust[t].phase = "absent"
  /\ \E c \in Targets[t] :
       trust' = [trust EXCEPT ![t] = [NoObject EXCEPT !.phase = "live",
                                                      !.target = c]]
  /\ Touch(t)

EditTrust(t) ==
  /\ trust[t].phase = "live"
  /\ \E c \in Targets[t] \ {trust[t].target} :
       trust' = [trust EXCEPT ![t].target = c]
  /\ Touch(t)

\* Without a finalizer the object vanishes at once.
DeleteTrust(t) ==
  /\ trust[t].phase = "live"
  /\ trust' = [trust EXCEPT ![t] = IF trust[t].finalizer
                                   THEN [@ EXCEPT !.phase = "deleting"]
                                   ELSE NoObject]
  /\ Touch(t)

SetProject(t) ==
  /\ \E i \in ProjectsOf[t] : project' = [project EXCEPT ![t] = i]
  /\ UNCHANGED <<trust, instance, controlPlane, cfgPrefix, override, mount,
                 workerVars>>

\* The instance fails or recovers; its name is that of one server for ever.
SetInstance(i) ==
  /\ \E s \in InstanceStates :
       instance' = [instance EXCEPT ![i] = s]
  /\ UNCHANGED <<trust, project, controlPlane, cfgPrefix, override, mount,
                 workerVars>>

SetControlPlane(c) ==
  /\ \E s \in {Missing, NoIssuer} \cup IssuersOf[c] :
       controlPlane' = [controlPlane EXCEPT ![c] = s]
  /\ UNCHANGED <<trust, project, instance, cfgPrefix, override, mount,
                 workerVars>>

SetPrefix ==
  /\ \/ /\ cfgPrefix' \in ConfigPrefixes
        /\ UNCHANGED override
     \/ /\ override' \in [Instances -> OverridePrefixes \cup {None}]
        /\ UNCHANGED cfgPrefix
  /\ UNCHANGED <<trust, project, instance, controlPlane, mount, workerVars>>

User == \E t \in Trusts : CreateTrust(t) \/ EditTrust(t) \/ DeleteTrust(t)

Environment == \/ \E t \in Trusts : SetProject(t)
               \/ \E i \in Instances : SetInstance(i)
               \/ \E c \in ControlPlanes : SetControlPlane(c)
               \/ SetPrefix

Next == Worker \/ User \/ Environment

Spec == Init /\ [][Next]_vars

-----------------------------------------------------------------------------
(***************************************************************************)
(* Properties.                                                             *)
(***************************************************************************)

\* Every variable has its type.
TypeOK ==
  /\ trust \in [Trusts -> Object]
  /\ project \in [Trusts -> Instances \cup {None}]
  /\ instance \in [Instances -> {Missing, Unreachable, Reachable}]
  /\ controlPlane \in [ControlPlanes -> {Missing, NoIssuer} \cup Issuers]
  /\ cfgPrefix \in ConfigPrefixes
  /\ override \in [Instances -> OverridePrefixes \cup {None}]
  /\ mount \in [Instances -> [Paths -> {None, Unbound} \cup Issuers]]
  /\ pc \in Calls
  /\ key \in Trusts \cup {None}
  /\ obj \in Object
  /\ fresh \in BOOLEAN
  /\ cfg \in ConfigPrefixes \cup {None}
  /\ client \in Instances \cup {None}

\* Between AddFinalizer and the end of the reconcile the stored object exists
\* and holds the finalizer, whatever users do meanwhile ("Ensure finalizer is
\* set before doing external work").
FinalizerGuardsWork ==
  pc \notin {"idle", "finalize"} =>
    /\ trust[key].phase # "absent"
    /\ trust[key].finalizer

\* A mount for ControlPlane c is only ever bound to an issuer that c exposes,
\* so tokens of one ControlPlane are never trusted on the mount of another.
IssuerIsolation ==
  \A i \in Instances, q \in Prefixes, c \in ControlPlanes :
    mount[i][MountPath(q, c)] \in {None, Unbound} \cup IssuersOf[c]

\* While a live trust publishes TrustConfigured, the mount it publishes is
\* there for the PolicyBindings and ESO stores that use it.
ConfiguredMountExists ==
  \A t \in Trusts :
    trust[t].phase = "live" /\ trust[t].status.configured =>
      mount[trust[t].status.inst][trust[t].status.path] \notin {None, Unbound}

\* When reconcileDelete has talked to OpenBao, the recorded mount is gone
\* before the finalizer is.
CleanupBeforeRelease ==
  pc = "release" /\ client # None =>
    mount[obj.status.inst][obj.status.path] = None

\* Ready turns True only in a status that says what OpenBao holds at that
\* moment: the published path, on the published instance, is bound to the
\* published issuer.
ReadyIsEarned ==
  [][\A t \in Trusts :
       ~trust[t].status.ready /\ trust'[t].status.ready =>
         LET s == trust'[t].status
         IN  s.configured /\ mount'[s.inst][s.path] = s.issuer]_vars

\* Cleanup is scoped: a mount disappears only while a deleted trust that
\* recorded it is being finalized ("nothing else").
OnlyOwnMountRemoved ==
  [][\A i \in Instances, p \in Paths :
       mount[i][p] # None /\ mount'[i][p] = None =>
         \E t \in Trusts : /\ trust[t].phase = "deleting"
                           /\ trust[t].status.inst = i
                           /\ trust[t].status.path = p]_vars

\* A stored object with the finalizer records the mount: deleting that object
\* still removes it.
Remembered(i, p) ==
  \E t \in Trusts : /\ trust[t].finalizer
                    /\ trust[t].status.inst = i /\ trust[t].status.path = p

\* A mount that is there is forgotten in two ways only: its trust moves to
\* another mount, which UpdateStatus records, or is released without having
\* talked to OpenBao.
ForgottenOnlyByMoveOrSkip ==
  [][trust' # trust =>
       \A i \in Instances, p \in Paths :
         mount[i][p] # None /\ Remembered(i, p) =>
           \/ mount'[i][p] = None
           \/ Remembered(i, p)'
           \/ pc = "status"
           \/ pc = "release" /\ client = None]_vars

\* The controller keeps the promise of its finalizer: between them, users and
\* worker take each object through the stages of FinalizerProtocol, and a mount
\* appears, changes or disappears only on behalf of a held object that may target
\* its ControlPlane.
Stage(o) == IF o.phase = "live" /\ o.finalizer THEN "held" ELSE o.phase

Protocol == INSTANCE FinalizerProtocol WITH
  Objects <- Trusts,
  Owns    <- [t \in Trusts |->
                Instances \X {MountPath(q, c) : q \in Prefixes, c \in Targets[t]}],
  Places  <- Instances \X Paths,
  Containers <- {},   \* nobody else removes a mount
  Nothing <- None,
  stage   <- [t \in Trusts |-> Stage(trust[t])],
  outside <- [m \in Instances \X Paths |-> mount[m[1]][m[2]]]

FollowsProtocol == Protocol!Spec

\* The docs: "outage during deletion leaves a truthful pending finalizer".
NoReleaseWhileMounted ==
  [][\A t \in Trusts :
       LET s == trust[t].status
       IN  trust[t].finalizer /\ ~trust'[t].finalizer /\ Recorded(s) =>
             mount[s.inst][s.path] = None]_vars

-----------------------------------------------------------------------------
(***************************************************************************)
(* Liveness.  The work queue retries an object whose reconcile failed and  *)
(* requeues one whose reconcile ended, so every object is fetched again    *)
(* and again; a call that is made again and again succeeds eventually.     *)
(***************************************************************************)

Scheduling ==
  /\ WF_vars(Worker)
  /\ \A t \in Trusts : SF_vars(Fetch(t))

CallsSucceed ==
  /\ SF_vars(FindMount)
  /\ SF_vars(Unmount /\ pc' = "release")
  /\ SF_vars(Release)

ScheduledSpec == Spec /\ Scheduling
FairSpec      == ScheduledSpec /\ CallsSucceed

\* A deleted trust is eventually finalized, whatever fails on the way.
DeletionCompletes ==
  \A t \in Trusts : trust[t].phase = "deleting" ~> trust[t].phase # "deleting"

\* i and x are what t will depend on from now on.
Settled(t, i, x) ==
  /\ trust[t].phase = "live"
  /\ project[t] = i
  /\ instance[i] = Reachable
  /\ controlPlane[trust[t].target] = x

Converged(t, i, x) ==
  LET s == trust[t].status
  IN  /\ s.ready /\ s.configured
      /\ s.inst = i /\ s.issuer = x
      /\ s.path # None /\ mount[i][s.path] = x

\* A reconcile of t that does not get to the end it was heading for.
CallFails(t) ==
  /\ key = t
  /\ \/ Abandon /\ ~UpdateStatus   \* which may rewrite what is there
     \/ AddFinalizer /\ pc' = "idle"
     \/ EnsureMount /\ pc' = "status"
     \/ ConfigureTrust /\ ~obj'.status.configured

\* Once its dependencies stay put and its calls succeed, a trust comes to
\* agree with them for good, whatever failed or changed before: the status
\* and the mount follow the current issuer.
TrustConverges ==
  \A t \in Trusts, i \in Instances, x \in Issuers :
    <>[]Settled(t, i, x) /\ <>[][~CallFails(t)]_vars => <>[]Converged(t, i, x)
=============================================================================

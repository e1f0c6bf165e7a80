--------------------------- MODULE ProjectEntity ---------------------------
(***************************************************************************)
(* The ProjectEntity controller, composed with the OpenBaoInstance         *)
(* controller it depends on: for every ProjectEntity of the onboarding     *)
(* cluster it keeps an identity entity in the OpenBao of the instance that *)
(* the ProjectEntity names.  The two workers run concurrently and meet     *)
(* only in the instance's published status; this controller does not watch *)
(* instances, it sees them when the requeue interval is over.              *)
(***************************************************************************)
EXTENDS OpenBaoInstance

CONSTANT Projects   \* namespaced names of ProjectEntity objects

ASSUME ProjectsAssumption == None \notin Projects

VARIABLES
  project,  \* the ProjectEntity objects in the onboarding API server
  identity, \* OpenBao: the IDs of the identity entities that exist
  worker    \* the controller's worker

projectVars == <<project, identity, worker>>
vars        == <<instVars, projectVars>>

\* The canonical ID that OpenBao gives the entity named after p: each server
\* makes its own, once.
EntityID(a, p) == <<a, p>>
IDs == {EntityID(a, p) : a \in Addresses, p \in Projects}

Project == [ref      : Instances \cup {None},   \* spec; None: no such object
            resolved : Instances \cup {None},   \* status.resolvedOpenBaoRef
            id       : IDs \cup {None},         \* status.entityID
            ready    : BOOLEAN]                 \* condition Ready
NoProject == [ref |-> None, resolved |-> None, id |-> None, ready |-> FALSE]

Worker == [call : {"idle", "resolve", "entity", "status"},
           key : Projects \cup {None}, copy : Project, fresh : BOOLEAN,
           client : Addresses \cup {None}]      \* where the client points
Idle == [call |-> "idle", key |-> None, copy |-> NoProject, fresh |-> FALSE,
         client |-> None]

Init ==
  /\ InstanceInit
  /\ project = [p \in Projects |-> NoProject]
  /\ identity = {}
  /\ worker = Idle

-----------------------------------------------------------------------------
\* Mutant: a project that is Ready is not looked at again.
FetchOnlyUnready(p) ==
  /\ worker.call = "idle"
  /\ project[p].ref # None
  /\ ~project[p].ready
  /\ worker' = [Idle EXCEPT !.call = "resolve", !.key = p, !.copy = project[p],
                            !.fresh = TRUE]
  /\ UNCHANGED <<instVars, project, identity>>

Fetch(p) ==
  /\ worker.call = "idle"
  /\ project[p].ref # None
  /\ worker' = [Idle EXCEPT !.call = "resolve", !.key = p, !.copy = project[p],
                            !.fresh = TRUE]
  /\ UNCHANGED <<instVars, project, identity>>

\* dependencyNotReady on the status s, which is stored next.
DependencyNotReady(s) ==
  worker' = [worker EXCEPT !.call = "status", !.copy = [s EXCEPT !.ready = FALSE]]

\* Mutant: an unreachable instance is recorded, readiness is left as it was.
ResolveInstanceKeepingReady ==
  /\ worker.call = "resolve"
  /\ LET i == worker.copy.ref
         named == [worker.copy EXCEPT !.resolved = i]
     IN  \/ ~Exists(i) /\ DependencyNotReady(worker.copy)
         \/ /\ Exists(i) /\ ~instance[i].reachable
            /\ worker' = [worker EXCEPT !.call = "status", !.copy = named]
         \/ /\ Exists(i) /\ instance[i].reachable
            /\ worker' = [worker EXCEPT !.call = "entity", !.copy = named,
                                        !.client = instance[i].address]
  /\ UNCHANGED <<instVars, project, identity>>

\* Get the instance, check that it is reachable, build a client for it.
ResolveInstance ==
  /\ worker.call = "resolve"
  /\ LET i == worker.copy.ref
         named == [worker.copy EXCEPT !.resolved = i]
     IN  \/ ~Exists(i) /\ DependencyNotReady(worker.copy)
         \/ \* not reachable, or ClientFactory fails
            Exists(i) /\ DependencyNotReady(named)
         \/ /\ Exists(i) /\ instance[i].reachable
            /\ worker' = [worker EXCEPT !.call = "entity", !.copy = named,
                                        !.client = instance[i].address]
  /\ UNCHANGED <<instVars, project, identity>>

\* Mutant: the name of the entity is published in place of its canonical ID.
EnsureEntityByName ==
  /\ worker.call = "entity"
  /\ server[worker.client] = "up"
  /\ identity' = identity \cup {EntityID(worker.client, worker.key)}
  /\ worker' = [worker EXCEPT !.call = "status", !.copy.id = worker.key,
                              !.copy.ready = TRUE]
  /\ UNCHANGED <<instVars, project>>

\* EnsureEntity writes the entity by name and reads its ID back; it may fail
\* before or after the write.
EnsureEntity ==
  /\ worker.call = "entity"
  /\ LET id == EntityID(worker.client, worker.key)
     IN  \/ DependencyNotReady(worker.copy) /\ UNCHANGED identity
         \/ /\ server[worker.client] = "up"
            /\ identity' = identity \cup {id}
            /\ \/ DependencyNotReady(worker.copy)
               \/ worker' = [worker EXCEPT !.call = "status", !.copy.id = id,
                                           !.copy.ready = TRUE]
  /\ UNCHANGED <<instVars, project>>

\* Mutant: the status is forced in without the resourceVersion check.
UpdateStatusForced ==
  /\ worker.call = "status"
  /\ project[worker.key].ref # None
  /\ project' = [project EXCEPT ![worker.key] = [worker.copy EXCEPT !.ref = project[worker.key].ref]]
  /\ worker' = Idle
  /\ UNCHANGED <<instVars, identity>>

UpdateStatus ==
  /\ worker.call = "status"
  /\ worker.fresh
  /\ project' = [project EXCEPT ![worker.key] = worker.copy]
  /\ worker' = Idle
  /\ UNCHANGED <<instVars, identity>>

Abandon ==
  /\ worker.call # "idle"
  /\ worker' = Idle
  /\ UNCHANGED <<instVars, project, identity>>

Working == \/ \E p \in Projects : Fetch(p)
           \/ ResolveInstance \/ EnsureEntity \/ UpdateStatus \/ Abandon

-----------------------------------------------------------------------------
\* Users create a project, move it to another instance, or delete it; nothing
\* in OpenBao is removed with it.
EditProject(p) ==
  /\ \/ \E i \in Instances \ {project[p].ref} :
          project' = [project EXCEPT ![p].ref = i]
     \/ project[p].ref # None /\ project' = [project EXCEPT ![p] = NoProject]
  /\ worker' = [worker EXCEPT !.fresh = @ /\ worker.key # p]
  /\ UNCHANGED <<instVars, identity>>

Next == \/ Working
        \/ \E p \in Projects : EditProject(p)
        \/ InstanceNext /\ UNCHANGED projectVars

Spec == Init /\ [][Next]_vars

-----------------------------------------------------------------------------
(***************************************************************************)
(* Properties.                                                             *)
(***************************************************************************)

\* Every variable has its type.
TypeOK == /\ InstanceTypeOK
          /\ project \in [Projects -> Project]
          /\ identity \subseteq IDs
          /\ worker \in Worker

\* A project that is Ready publishes an ID that exists, is its own, and comes
\* from a server of the instance it publishes beside it, not from the one it
\* was on before it moved.
ReadyIdentity ==
  \A p \in Projects :
    LET s == project[p]
    IN  s.ready => /\ s.resolved # None
                   /\ \E a \in AddressesOf[s.resolved] :
                        s.id = EntityID(a, p) /\ s.id \in identity

\* Ready turns True only for the instance the spec names at that moment.
ReadyIsEarned ==
  [][\A p \in Projects :
       ~project[p].ready /\ project'[p].ready =>
         project'[p].resolved = project'[p].ref]_vars

-----------------------------------------------------------------------------
\* Both queues retry what failed and requeue what ended.
FairSpec == /\ Spec
            /\ ProbingFair
            /\ WF_vars(Working)
            /\ \A p \in Projects : SF_vars(Fetch(p))

\* The instance that p names exists, and its server is in state st.
Backend(p) == instance[project[p].ref].address
Depends(p, st) == /\ project[p].ref # None
                  /\ Exists(project[p].ref)
                  /\ server[Backend(p)] = st

\* A user moves p or what it depends on.
Moved(p) == LET i == project[p].ref
            IN  project'[p].ref # i \/ (i # None /\ instance'[i].address # Backend(p))

CallFails(p) ==
  /\ worker.key = p
  /\ \/ Abandon /\ ~UpdateStatus   \* which may rewrite what is there
     \/ ResolveInstance /\ instance[worker.copy.ref].reachable /\ worker'.call = "status"
     \/ EnsureEntity /\ ~worker'.copy.ready

\* Once nothing moves, the server stays up and the calls succeed, the project
\* gets to Ready with the ID of its entity there, through the instance's status.
ProjectConverges ==
  \A p \in Projects :
    /\ <>[]Depends(p, "up")
    /\ <>[][~Moved(p) /\ ~ProbeFails /\ ~CallFails(p)]_vars
    => <>[](/\ project[p].ready
           /\ project[p].resolved = project[p].ref
           /\ project[p].id = EntityID(Backend(p), p))

\* Once nothing moves and the server stays away, "Ready follows that": the
\* project stops being Ready, through the instance's published status.
OutageShows ==
  \A p \in Projects :
    /\ <>[]Depends(p, "down")
    /\ <>[][/\ ~Moved(p) /\ ~ProbeLost
             /\ ~(worker.key = p /\ Abandon /\ ~UpdateStatus)]_vars
    => <>[](~project[p].ready)
=============================================================================

------------------------- MODULE ProjectEntityProofs -------------------------
(***************************************************************************)
(* Proofs about ProjectEntity and the OpenBaoInstance controller below it, *)
(* for any sets of projects, instances and addresses.                      *)
(***************************************************************************)
EXTENDS ProjectEntity, TLAPS

(***************************************************************************)
(* The inductive invariant.                                                *)
(***************************************************************************)

\* Instances have an address their users may give them; what the prober found
\* it found at the address of its copy.
InstanceInv ==
  /\ InstanceTypeOK
  /\ \A a \in Addresses : server[a] \in StatesOf[a]
  /\ \A i \in Instances : Exists(i) => instance[i].address \in AddressesOf[i]
  /\ prober.call # "idle" =>
       /\ prober.key \in Instances
       /\ prober.copy.address \in AddressesOf[prober.key]
       /\ prober.fresh => instance[prober.key].address = prober.copy.address
       /\ prober.call = "status" /\ prober.copy.reachable =>
            "up" \in StatesOf[prober.copy.address]

\* The status s of project p, if ready, publishes an identity that exists.
Identified(s, p) ==
  s.ready => /\ s.resolved # None
             /\ \E a \in AddressesOf[s.resolved] :
                  s.id = EntityID(a, p) /\ s.id \in identity

\* What the worker knows between two calls.  Between the resolution and the
\* write of the entity the copy names the new instance beside the old ID.
CopyInv ==
  LET s == worker.copy
  IN  /\ worker.key \in Projects
      /\ s.ref \in Instances
      /\ worker.fresh => project[worker.key].ref = s.ref
      /\ worker.call = "entity" => /\ s.resolved = s.ref
                                   /\ worker.client \in AddressesOf[s.ref]
      /\ worker.call = "status" => /\ Identified(s, worker.key)
                                   /\ s.ready => s.resolved = s.ref

Inv == /\ TypeOK /\ InstanceInv /\ ReadyIdentity
       /\ worker.call # "idle" => CopyInv

-----------------------------------------------------------------------------
(***************************************************************************)
(* The instances.                                                          *)
(***************************************************************************)

LEMMA NoInstanceType ==
  /\ NoInstance \in Instance /\ NoInstance.address = None /\ ~NoInstance.reachable
  /\ Resting \in Prober /\ Resting.call = "idle"
  BY DEF NoInstance, Instance, Resting, Prober

LEMMA InstanceInitInv == InstanceInit => InstanceInv
  BY NoInstanceType DEF InstanceInit, InstanceInv, InstanceTypeOK, Exists

LEMMA InstanceKept == InstanceInv /\ UNCHANGED instVars => InstanceInv'
  BY DEF instVars, InstanceInv, InstanceTypeOK, Exists

LEMMA InstanceStep == InstanceInv /\ InstanceNext => InstanceInv'
  <1> SUFFICES ASSUME InstanceInv, InstanceNext PROVE InstanceInv'
    OBVIOUS
  <1> USE AddressesAssumption
  <1>0. /\ instance \in [Instances -> Instance] /\ prober \in Prober
        /\ prober.copy \in Instance
    BY DEF InstanceInv, InstanceTypeOK, Prober
  <1>1. ASSUME NEW i \in Instances, FetchInstance(i) PROVE InstanceInv'
    <2>1. /\ prober' \in Prober /\ prober'.call = "probe" /\ prober'.key = i
          /\ prober'.copy = instance[i]
      BY <1>0, <1>1 DEF FetchInstance, Prober
    <2> QED
      BY <1>1, <2>1 DEF FetchInstance, InstanceInv, InstanceTypeOK, Exists
  <1>2. CASE Probe
    <2>1. PICK b \in BOOLEAN : /\ Observed(b)
                               /\ b => server[prober.copy.address] = "up"
      BY <1>2 DEF Probe
    <2> DEFINE o == [prober.copy EXCEPT !.reachable = b]
    <2>2. o \in Instance /\ o.address = prober.copy.address /\ o.reachable = b
      BY <1>0 DEF Instance
    <2>3. prober' = [prober EXCEPT !.call = "status", !.copy = o]
      BY <1>0, <2>1 DEF Observed, Prober, Instance
    <2> HIDE DEF o
    <2>4. /\ prober' \in Prober /\ prober'.call = "status" /\ prober'.key = prober.key
          /\ prober'.copy = o /\ prober'.fresh = prober.fresh
      BY <1>0, <2>2, <2>3 DEF Prober
    <2>5. b => "up" \in StatesOf[prober.copy.address]
      BY <1>2, <2>1 DEF Probe, InstanceInv
    <2> QED
      BY <1>2, <2>2, <2>4, <2>5 DEF Probe, InstanceInv, InstanceTypeOK, Exists
  <1>3. CASE Publish
    <2> DEFINE i == prober.key
               o == [instance[i] EXCEPT !.reachable = prober.copy.reachable]
    <2>1. i \in Instances /\ instance[i].address \in AddressesOf[i]
      BY <1>3 DEF Publish, InstanceInv
    <2>2. o \in Instance /\ o.address = instance[i].address
      BY <1>0, <2>1 DEF Instance
    <2>3. instance' = [instance EXCEPT ![i] = o]
      BY <1>3 DEF Publish
    <2> HIDE DEF o, i
    <2> QED
      BY <1>0, <1>3, <2>1, <2>2, <2>3, NoInstanceType
      DEF Publish, InstanceInv, InstanceTypeOK, Exists
  <1>4. CASE AbandonProbe
    BY <1>4, NoInstanceType DEF AbandonProbe, InstanceInv, InstanceTypeOK, Exists
  <1>5. ASSUME NEW i \in Instances, EditInstance(i) PROVE InstanceInv'
    <2>1. PICK o \in Instance : /\ instance' = [instance EXCEPT ![i] = o]
                                /\ o # NoInstance => o.address \in AddressesOf[i]
      <3>1. ASSUME NEW a \in AddressesOf[i], instance' = [instance EXCEPT ![i].address = a]
            PROVE  \E o \in Instance : /\ instance' = [instance EXCEPT ![i] = o]
                                       /\ o # NoInstance => o.address \in AddressesOf[i]
        <4> DEFINE o == [instance[i] EXCEPT !.address = a]
        <4>1. o \in Instance /\ o.address = a
          BY <1>0 DEF Instance
        <4>2. instance' = [instance EXCEPT ![i] = o]
          BY <3>1
        <4> HIDE DEF o
        <4> QED BY <4>1, <4>2
      <3> QED
        BY <1>5, <3>1, NoInstanceType DEF EditInstance
    <2>2. prober' = [prober EXCEPT !.fresh = @ /\ prober.key # i] /\ server' = server
      BY <1>5 DEF EditInstance
    <2>3. /\ prober' \in Prober /\ prober'.call = prober.call
          /\ prober'.key = prober.key /\ prober'.copy = prober.copy
      BY <1>0, <2>2 DEF Prober
    <2>4. prober'.fresh => prober.fresh /\ prober.key # i
      <3>1. prober'.fresh = (prober.fresh /\ prober.key # i)
        BY <1>0, <2>2 DEF Prober
      <3> QED BY <3>1, Zenon
    <2> QED
      BY <1>0, <2>1, <2>2, <2>3, <2>4 DEF InstanceInv, InstanceTypeOK, Exists
  <1>6. ASSUME NEW a \in Addresses, SetServer(a) PROVE InstanceInv'
    BY <1>6 DEF SetServer, InstanceInv, InstanceTypeOK, Exists
  <1> QED
    BY <1>1, <1>2, <1>3, <1>4, <1>5, <1>6 DEF InstanceNext, Probing

-----------------------------------------------------------------------------
(***************************************************************************)
(* The projects.                                                           *)
(***************************************************************************)

LEMMA NoProjectType ==
  /\ NoProject \in Project /\ NoProject.ref = None /\ ~NoProject.ready
  /\ Idle \in Worker /\ Idle.call = "idle"
  BY DEF NoProject, Project, Idle, Worker

LEMMA InitInv == Init => Inv
  BY InstanceInitInv, NoProjectType
  DEF Init, Inv, InstanceInv, TypeOK, ReadyIdentity

\* A step of this controller's worker that leaves the projects alone, and
\* creates identities at most.
LEMMA WorkerOnly ==
  ASSUME Inv, UNCHANGED <<instVars, project>>, worker' \in Worker,
         identity' \in SUBSET IDs, identity \subseteq identity',
         worker'.call # "idle" => CopyInv'
  PROVE  Inv'
  <1>1. InstanceInv'
    BY InstanceKept DEF Inv
  <1>2. ReadyIdentity'
    BY DEF Inv, ReadyIdentity
  <1> QED
    BY <1>1, <1>2 DEF Inv, TypeOK, InstanceInv

\* The copy s, with Ready turned off, is what gets stored.
LEMMA GivesUp ==
  ASSUME Inv, worker.call # "idle", UNCHANGED <<instVars, project>>,
         identity' \in SUBSET IDs, identity \subseteq identity',
         NEW s \in Project, s.ref = worker.copy.ref, DependencyNotReady(s)
  PROVE  Inv'
  <1> DEFINE o == [s EXCEPT !.ready = FALSE]
  <1>1. o \in Project /\ o.ref = worker.copy.ref /\ ~o.ready
    BY DEF Project
  <1>2. worker' = [worker EXCEPT !.call = "status", !.copy = o]
    BY DEF DependencyNotReady
  <1> HIDE DEF o
  <1>3. /\ worker' \in Worker /\ worker'.call = "status" /\ worker'.copy = o
        /\ worker'.key = worker.key /\ worker'.fresh = worker.fresh
    BY <1>1, <1>2 DEF Inv, TypeOK, Worker
  <1>4. CopyInv'
    BY <1>1, <1>3 DEF Inv, CopyInv, Identified
  <1> QED
    BY <1>3, <1>4, WorkerOnly

LEMMA InvWorking == Inv /\ Working => Inv'
  <1> SUFFICES ASSUME Inv, Working PROVE Inv'
    OBVIOUS
  <1> USE AddressesAssumption
  <1>0. /\ worker \in Worker /\ worker.copy \in Project
        /\ project \in [Projects -> Project] /\ identity \in SUBSET IDs
    BY DEF Inv, TypeOK, Worker
  <1>1. ASSUME NEW p \in Projects, Fetch(p) PROVE Inv'
    <2>1. /\ worker' \in Worker /\ worker'.call = "resolve" /\ worker'.key = p
          /\ worker'.copy = project[p]
      BY <1>0, <1>1, NoProjectType DEF Fetch, Worker
    <2>2. project[p].ref \in Instances /\ UNCHANGED <<instVars, project, identity>>
      BY <1>0, <1>1 DEF Fetch, Project
    <2>3. CopyInv'
      BY <2>1, <2>2 DEF CopyInv
    <2> QED
      BY <1>0, <2>1, <2>2, <2>3, WorkerOnly
  <1>2. CASE ResolveInstance
    <2> DEFINE i == worker.copy.ref
               named == [worker.copy EXCEPT !.resolved = i]
    <2>0. /\ worker.call = "resolve" /\ CopyInv /\ i \in Instances
          /\ UNCHANGED <<instVars, project, identity>>
      BY <1>2 DEF ResolveInstance, Inv, CopyInv
    <2>1. named \in Project /\ named.ref = i /\ named.resolved = i
      BY <1>0, <2>0 DEF Project
    <2>2. CASE DependencyNotReady(worker.copy) \/ DependencyNotReady(named)
      BY <1>0, <2>0, <2>1, <2>2, GivesUp
    <2>3. CASE ~(DependencyNotReady(worker.copy) \/ DependencyNotReady(named))
      <3>1. /\ Exists(i)
            /\ worker' = [worker EXCEPT !.call = "entity", !.copy = named,
                                        !.client = instance[i].address]
        BY <1>2, <2>3 DEF ResolveInstance
      <3>2. instance[i].address \in AddressesOf[i]
        BY <2>0, <3>1 DEF Inv, InstanceInv
      <3> HIDE DEF named
      <3>3. /\ worker' \in Worker /\ worker'.call = "entity" /\ worker'.copy = named
            /\ worker'.key = worker.key /\ worker'.fresh = worker.fresh
            /\ worker'.client = instance[i].address
        BY <1>0, <2>0, <2>1, <3>1, <3>2 DEF Worker
      <3>4. CopyInv'
        BY <2>0, <2>1, <3>2, <3>3 DEF CopyInv
      <3> QED
        BY <1>0, <2>0, <3>3, <3>4, WorkerOnly
    <2> QED BY <2>2, <2>3
  <1>3. CASE EnsureEntity
    <2> DEFINE id == EntityID(worker.client, worker.key)
               i == worker.copy.ref
    <2>0. /\ worker.call = "entity" /\ CopyInv /\ i \in Instances
          /\ worker.key \in Projects /\ worker.copy.resolved = i
          /\ worker.client \in AddressesOf[i] /\ UNCHANGED <<instVars, project>>
      BY <1>3 DEF EnsureEntity, Inv, CopyInv
    <2>1. id \in IDs
      BY <2>0 DEF IDs
    <2>2. identity' \in SUBSET IDs /\ identity \subseteq identity'
      BY <1>0, <1>3, <2>1 DEF EnsureEntity
    <2>3. CASE DependencyNotReady(worker.copy)
      BY <1>0, <2>0, <2>2, <2>3, GivesUp
    <2>4. CASE ~DependencyNotReady(worker.copy)
      <3> DEFINE s == [worker.copy EXCEPT !.id = id, !.ready = TRUE]
      <3>1. /\ id \in identity'
            /\ worker' = [worker EXCEPT !.call = "status", !.copy = s]
        BY <1>0, <1>3, <2>4 DEF EnsureEntity, Worker
      <3>2. s \in Project /\ s.ref = i /\ s.resolved = i /\ s.id = id
        BY <1>0, <2>0, <2>1 DEF Project
      <3> HIDE DEF s
      <3>3. /\ worker' \in Worker /\ worker'.call = "status" /\ worker'.copy = s
            /\ worker'.key = worker.key /\ worker'.fresh = worker.fresh
        BY <1>0, <3>1, <3>2 DEF Worker
      <3>4. CopyInv'
        BY <2>0, <3>1, <3>2, <3>3 DEF CopyInv, Identified
      <3> QED
        BY <2>0, <2>2, <3>3, <3>4, WorkerOnly
    <2> QED BY <2>3, <2>4
  <1>4. CASE UpdateStatus
    <2>1. /\ worker.call = "status" /\ worker.key \in Projects
          /\ Identified(worker.copy, worker.key)
          /\ project' = [project EXCEPT ![worker.key] = worker.copy]
          /\ UNCHANGED <<instVars, identity>> /\ worker' = Idle
      BY <1>4 DEF UpdateStatus, Inv, CopyInv
    <2>2. project' \in [Projects -> Project] /\ ReadyIdentity'
      BY <1>0, <2>1 DEF Inv, ReadyIdentity, Identified
    <2>3. InstanceInv'
      BY <2>1, InstanceKept DEF Inv
    <2> QED
      BY <2>1, <2>2, <2>3, NoProjectType DEF Inv, TypeOK, InstanceInv
  <1>5. CASE Abandon
    BY <1>0, <1>5, NoProjectType, WorkerOnly DEF Abandon
  <1> QED
    BY <1>1, <1>2, <1>3, <1>4, <1>5 DEF Working

LEMMA InvNext == Inv /\ [Next]_vars => Inv'
  <1> SUFFICES ASSUME Inv, [Next]_vars PROVE Inv'
    OBVIOUS
  <1>0. /\ worker \in Worker /\ worker.copy \in Project
        /\ project \in [Projects -> Project]
    BY DEF Inv, TypeOK, Worker
  <1>1. CASE Working
    BY <1>1, InvWorking
  <1>2. ASSUME NEW p \in Projects, EditProject(p) PROVE Inv'
    <2>1. PICK o \in Project :
            /\ project' = [project EXCEPT ![p] = o]
            /\ o.ready => /\ project[p].ready
                          /\ o.resolved = project[p].resolved /\ o.id = project[p].id
      <3>1. ASSUME NEW i \in Instances, project' = [project EXCEPT ![p].ref = i]
            PROVE  \E o \in Project :
                     /\ project' = [project EXCEPT ![p] = o]
                     /\ o.ready => /\ project[p].ready
                                   /\ o.resolved = project[p].resolved
                                   /\ o.id = project[p].id
        <4> DEFINE o == [project[p] EXCEPT !.ref = i]
        <4>1. /\ o \in Project /\ o.ready = project[p].ready
              /\ o.resolved = project[p].resolved /\ o.id = project[p].id
          BY <1>0 DEF Project
        <4>2. project' = [project EXCEPT ![p] = o]
          BY <3>1
        <4> HIDE DEF o
        <4> QED BY <4>1, <4>2
      <3> QED
        BY <1>2, <3>1, NoProjectType DEF EditProject
    <2>2. /\ worker' = [worker EXCEPT !.fresh = @ /\ worker.key # p]
          /\ UNCHANGED <<instVars, identity>>
      BY <1>2 DEF EditProject
    <2>3. /\ worker' \in Worker /\ worker'.call = worker.call /\ worker'.key = worker.key
          /\ worker'.copy = worker.copy /\ worker'.client = worker.client
      BY <1>0, <2>2 DEF Worker
    <2>4. worker'.fresh => worker.fresh /\ worker.key # p
      <3>1. worker'.fresh = (worker.fresh /\ worker.key # p)
        BY <1>0, <2>2 DEF Worker
      <3> QED BY <3>1, Zenon
    <2>5. worker.call # "idle" => CopyInv'
      BY <1>0, <2>1, <2>2, <2>3, <2>4 DEF Inv, CopyInv, Identified
    <2>6. project' \in [Projects -> Project] /\ ReadyIdentity'
      BY <1>0, <2>1, <2>2 DEF Inv, ReadyIdentity
    <2>7. InstanceInv'
      BY <2>2, InstanceKept DEF Inv
    <2> QED
      BY <2>2, <2>3, <2>5, <2>6, <2>7 DEF Inv, TypeOK, InstanceInv
  <1>3. CASE InstanceNext /\ UNCHANGED projectVars
    <2>1. InstanceInv'
      BY <1>3, InstanceStep DEF Inv
    <2> QED
      BY <1>3, <2>1 DEF projectVars, Inv, TypeOK, InstanceInv, ReadyIdentity, CopyInv,
         Identified
  <1>4. CASE UNCHANGED vars
    <2>1. InstanceInv'
      BY <1>4, InstanceKept DEF vars, Inv
    <2> QED
      BY <1>4, <2>1 DEF vars, projectVars, Inv, TypeOK, InstanceInv, ReadyIdentity,
         CopyInv, Identified
  <1> QED
    BY <1>1, <1>2, <1>3, <1>4 DEF Next

LEMMA Invariant == Spec => []Inv
  BY InitInv, InvNext, PTL DEF Spec

-----------------------------------------------------------------------------
\* Type correctness of every variable, in every reachable state.
THEOREM TypeCorrect == Spec => []TypeOK
  BY Invariant, PTL DEF Inv

\* However projects move between instances and instances between servers, a
\* project that is Ready publishes an ID of its own that exists on a server of
\* the instance it publishes beside it.
THEOREM IdentityPublished == Spec => []ReadyIdentity
  BY Invariant, PTL DEF Inv

\* A project turns ready only for the instance its spec names at that moment.
THEOREM ReadyEarned == Spec => ReadyIsEarned
  <1>1. ASSUME Inv, Next, NEW p \in Projects, ~project[p].ready, project'[p].ready
        PROVE  project'[p].resolved = project'[p].ref
    <2>0. project \in [Projects -> Project]
      BY <1>1 DEF Inv, TypeOK
    <2>1. CASE UpdateStatus
      <3>1. worker.call = "status" /\ CopyInv
            /\ project' = [project EXCEPT ![worker.key] = worker.copy]
        BY <1>1, <2>1 DEF UpdateStatus, Inv
      <3>2. project'[p] = worker.copy
        BY <1>1, <2>0, <3>1
      <3> QED
        BY <1>1, <3>1, <3>2 DEF CopyInv
    <2>2. ASSUME NEW q \in Projects, EditProject(q) PROVE FALSE
      <3>1. CASE project' = [project EXCEPT ![q] = NoProject]
        BY <1>1, <2>0, <3>1, NoProjectType
      <3>2. CASE \E i \in Instances : project' = [project EXCEPT ![q].ref = i]
        <4>1. project'[p].ready = project[p].ready
          BY <2>0, <3>2 DEF Project
        <4> QED BY <1>1, <4>1
      <3> QED BY <2>2, <3>1, <3>2 DEF EditProject
    <2>3. CASE ~UpdateStatus /\ \A q \in Projects : ~EditProject(q)
      BY <1>1, <2>3 DEF Next, Working, Fetch, ResolveInstance, EnsureEntity, Abandon,
         projectVars
    <2> QED BY <2>1, <2>2, <2>3
  <1>2. Inv /\ [Next]_vars =>
          [\A p \in Projects :
             ~project[p].ready /\ project'[p].ready =>
               project'[p].resolved = project'[p].ref]_vars
    BY <1>1
  <1> QED
    BY <1>2, Invariant, PTL DEF Spec, ReadyIsEarned

\* An instance turns reachable only for an address at which an OpenBao answers,
\* whatever the address was when the probe began.
THEOREM OnlyLivingReachable == Spec => OnlyLivingVouchedFor
  <1>1. ASSUME Inv, InstanceNext, NEW i \in Instances,
               ~instance[i].reachable, instance'[i].reachable
        PROVE  "up" \in StatesOf[instance'[i].address]
    <2>0. instance \in [Instances -> Instance]
      BY <1>1 DEF Inv, InstanceInv, InstanceTypeOK
    <2>1. CASE Publish
      <3>1. /\ prober.call = "status" /\ prober.key \in Instances
            /\ instance[prober.key].address = prober.copy.address
            /\ prober.copy.reachable => "up" \in StatesOf[prober.copy.address]
            /\ instance' = [instance EXCEPT ![prober.key].reachable = prober.copy.reachable]
        BY <1>1, <2>1 DEF Publish, Inv, InstanceInv
      <3>2. i = prober.key
        BY <1>1, <2>0, <3>1
      <3>3. /\ instance'[i].reachable = prober.copy.reachable
            /\ instance'[i].address = prober.copy.address
        BY <2>0, <3>1, <3>2 DEF Instance
      <3> QED
        BY <1>1, <3>1, <3>3
    <2>2. ASSUME NEW j \in Instances, EditInstance(j) PROVE FALSE
      <3>1. CASE instance' = [instance EXCEPT ![j] = NoInstance]
        BY <1>1, <2>0, <3>1, NoInstanceType
      <3>2. CASE \E a \in AddressesOf[j] : instance' = [instance EXCEPT ![j].address = a]
        <4>1. instance'[i].reachable = instance[i].reachable
          BY <2>0, <3>2 DEF Instance
        <4> QED BY <1>1, <4>1
      <3> QED BY <2>2, <3>1, <3>2 DEF EditInstance
    <2>3. CASE ~Publish /\ \A j \in Instances : ~EditInstance(j)
      BY <1>1, <2>3 DEF InstanceNext, Probing, FetchInstance, Probe, AbandonProbe, SetServer
    <2> QED BY <2>1, <2>2, <2>3
  <1>2. Inv /\ [Next]_vars =>
          [\A i \in Instances :
             ~instance[i].reachable /\ instance'[i].reachable =>
               "up" \in StatesOf[instance'[i].address]]_instVars
    BY <1>1 DEF Next, Working, Fetch, ResolveInstance, EnsureEntity, UpdateStatus,
       Abandon, EditProject, vars
  <1> QED
    BY <1>2, Invariant, PTL DEF Spec, OnlyLivingVouchedFor
=============================================================================

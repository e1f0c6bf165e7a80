# Formal model of platform-service-openbao

platform-service-openbao is a Kubernetes operator. It lets users of an openMCP
platform connect the workloads of their ControlPlanes to an OpenBao server:
trust in the ControlPlane's token issuer, the identity of a ServiceAccount, and a
role that gives this identity a policy. This directory holds TLA+ models of its
controllers, the TLC runs that check them, and machine-checked proofs about each
of them. Line numbers refer to files under `src/`; file names without a
directory are in `src/internal/controller/`.

## 1. The system

Five controllers run in one process (`cmd/.../app/run.go`), each with one worker
(controller-runtime's default), over two API servers (the *platform* and the
*onboarding* cluster) and any number of OpenBao servers. They do not call each
other. They meet in the objects' statuses, which one writes and the next reads:

    ServiceConfig ─┐
    OpenBaoInstance ── ProjectEntity ── ControlPlaneTrust ── ControlPlaneEntity ── PolicyBinding
       (platform)        (onboarding, all of these)                │
                                                   ControlPlane, its ServiceAccounts

| Component | State it keeps | Operations | What makes it correct |
|---|---|---|---|
| OpenBaoInstance controller | condition OpenBaoReachable | probe, publish | reachable is published only for a server that answered, never for an address edited in meanwhile |
| ProjectEntity controller | resolved instance, entity ID, Ready; an identity entity in OpenBao | resolve, ensure entity, publish | Ready is true of the instance named beside it; outage and recovery get through |
| ControlPlaneTrust controller | mount path, instance, issuer, TrustConfigured, Ready; one JWT auth mount in OpenBao | finalizer, resolve, mount, configure, publish, clean up | external work only under the finalizer; only its own mount is removed; never another ControlPlane's issuer; Ready is earned; deletion ends |
| ControlPlaneEntity controller | identity, IdentityResolved, Ready | resolve trust, ControlPlane, access, account; publish | Ready always has the identity the spec asks for; loss shows |
| PolicyBinding controller | per reference a role status, policyExists, Ready; one JWT role per reference in OpenBao | finalizer, loop over the references, publish, clean up | each role binds the identity of its own reference on its own mount; no false claim about the policy; Ready is earned; deletion ends |
| OpenBao client | none | idempotent writes and deletes of mounts, roles, identity entities | retries after a lost reply do no harm |
| Naming | none | sanitise, join, truncate with a hash suffix | names are legal in a path; distinct objects get distinct names |
| Delete-validation webhooks | none (registered only with a certificate) | refuse a delete while dependents exist | advisory: checked before the delete, so a dependent may still appear; never in the way of a teardown for ever |
| ServiceConfig, start-up | mount prefix, requeue interval | read by all | a change is picked up; an absent one stops everything |

What is hard here:

* **Interleaving.** A reconcile is a sequence of remote calls. Users, the other
  controllers and the ControlPlane operator act between any two of them. Only the
  object being reconciled is protected, by its resourceVersion.
* **Failure.** Each call may fail before or after it took effect, and the process
  may die between two calls. Two stores (API server and OpenBao) are written
  without a transaction.
* **Memory.** Cleanup relies on what the status recorded. What was never recorded,
  or was overwritten, cannot be undone.
* **Progress.** ControlPlanes, instances and ServiceAccounts are not watched by
  the controllers that need them; only retries and the periodic requeue make a
  change visible.

`PROJECT.json` lists these hazards one by one at the line where each bites.

## 2. The modules

| Module | Models | How state and actions correspond |
|---|---|---|
| `FinalizerProtocol` | abstract: what a finalizer promises, whatever the controller does | `stage` of an object (absent, live, held, deleting), what is `outside` the API server on its behalf; `Containers` = what others may remove, only as a whole |
| `ControlPlaneTrust` | the trust controller | `trust` = the stored objects, `mount` = auth mounts in OpenBao, `pc/key/obj/fresh/cfg/client` = the worker; one action per call of `Reconcile` and `reconcileDelete` |
| `PolicyBinding` | the binding controller | `binding`, `role` = JWT roles in OpenBao, `todo/cur/acc` = the local variables of the reference loop; one action per call; `lost` is no state of the code but remembers the roles that this reconcile wrote and whose mount was removed since |
| `ControlPlaneEntity` | the entity controller | `entity`, `worker`; `ResolveTrust`, `ResolveControlPlane`, `ControlPlaneAccess`, `ResolveIdentity`, `UpdateStatus` |
| `OpenBaoInstance` | the probe loop | `instance` = spec.address and OpenBaoReachable; `prober` = the worker; `FetchInstance`, `Probe`, `Publish` |
| `ProjectEntity` (EXTENDS `OpenBaoInstance`) | the ProjectEntity controller, composed with the probe loop | `project`, `identity` (entities in OpenBao), `worker`; `Fetch`, `ResolveInstance`, `EnsureEntity`, `UpdateStatus` |
| `BindingChain` | the entity and the binding controller together | instances of `ControlPlaneEntity` and `PolicyBinding`; what the first publishes is what the second reads (`View`: the trust in the spec and the account in the status, which is all that `Identity.Subject` names) |
| `Naming` | `openbao/naming.go` | pure operators on sequences of characters: `Sanitize`, `TruncateWithHash`, `AuthMountPath`, `RoleName`, `EntityName`; `ObjectName` is what the API server admits as a name |
| `Teardown` | webhooks, finalizers and the four user-facing kinds over whole project lifetimes | `stage`, `refs` = what a spec refers to, which users edit, `admitted` = deletes a webhook has let pass, `configured/resolved/recorded/ready` = what the statuses say, `mounts` and `roles` in OpenBao; a reconcile is one step |
| `TeardownNames` (EXTENDS `Teardown`, `Naming`) | the names of a teardown | `MountOf` and `RoleNameOf` of `Teardown` are what `Naming` computes from the names of the objects |
| `MC...` | instances for TLC | sets of model values and reference functions; `MCNaming` also lets bindings with arbitrary short names come and go, `MCTeardown` has TLC compute the names |
| `...Proofs` | theorems | see section 5 |

How they fit together:

    FinalizerProtocol   <= implemented by ControlPlaneTrust, PolicyBinding
    PolicyBinding!Spec  <= implemented by BindingChain (with ControlPlaneEntity)
    ControlPlaneTrust!PathsDistinct, PolicyBinding!RoleName injective
                        <= what Naming gives, and when it does not (NamingProofs,
                           ControlPlaneTrustRefinement)
    Teardown            coarser steps, all kinds at once; TeardownNames gives it
                        real names

Conventions shared by all:

* Each remote call is an action. The calls that only read and only choose what
  comes next are merged with their neighbours where nothing can tell the
  difference.
* `Abandon` stands for a call that fails without effect and whose error is
  returned, for a conflicting write, and for a crash: the worker's memory is lost,
  the stores keep what they have. A call that takes effect although its reply is
  lost is a disjunct of its own in the action of the call.
* `fresh` is the resourceVersion check. Any write by somebody else (`Touch`)
  makes the worker's copy stale, and a stale copy cannot be stored.
* Reads come from a cache in the code. A stale read of the reconciled object is
  the same as a read followed at once by the other writer's step, which the model
  allows. Stale reads of other objects are covered in the same way, since these
  change freely between the worker's read and its use of the value.
* Operators commented as *Mutant* are not part of any specification: each is the
  action after a plausible programming error, and each property is known to
  notice at least one of them (`PROJECT.json`, "mutants").

Abstractions: conditions are Booleans; reasons, messages, audiences, TTLs,
versions and times are left out. Each object carries only the finalizer of its own
controller. A call that was still under way in OpenBao when the process died does
not take effect later. Missing, unreachable and sealed servers are merged where the
code treats them alike. `ControlPlaneTrust` sees the ProjectEntity as the instance
it names, and mount paths as a function `PathOf` of prefix and ControlPlane; that
two ControlPlanes get different paths is the named condition `PathsDistinct`,
which only `IssuerIsolation` needs. `PolicyBinding` identifies a mount with the
trust that publishes it, takes role names as injective and handles references in
any order. `Naming` works on characters; the forty bits of SHA-256 are taken as
injective, so a name is its readable head beside the string that is hashed.
`Teardown` reconciles in one step, which may end before its status is stored, and
has an OpenBao that answers; its names come from `TeardownNames`, where all objects
are of one namespace, and the path of a trust's mount is fixed. Except in
`ProjectEntity`, the name of an OpenBaoInstance stands for one server for ever.

## 3. The runs

Expected to pass:

| Run | Question | Bounds |
|---|---|---|
| `projects` | Is what a project publishes as Ready true of the instance it names, and do outage and recovery get through two controllers? | 1 project, 2 instances; the address of one may be edited to a place where nothing answers |
| `moving` | Does the finalizer guard the work, is a mount ever bound to a foreign issuer or removed by somebody else, is what is published backed by OpenBao, and how can a recorded mount be forgotten? | 1 trust whose reference may be edited between 2 ControlPlanes with an issuer each; 1 instance that goes up and down; one prefix in the ServiceConfig, one override |
| `instances` | Does the controller implement `FinalizerProtocol`, does deletion clean the recorded instance and end, does a trust converge? | 1 trust, 1 ControlPlane, 2 instances that may be missing, unreachable or reachable; the project may name either or be gone |
| `entities` | Has Ready always the identity the spec asks for, and does loss show? | 1 entity, 2 trusts, 2 ControlPlanes, one trust may move |
| `references` | Does each role combine subject and mount of one read of its entity, is policyExists never claimed falsely, does Ready cover exactly the references, with a role behind each? | 1 binding with 1 or 2 references; one entity is edited to another trust and account during the loop; 1 instance that stays up while its calls may fail; the policy may only appear |
| `policies` | Does the controller implement `FinalizerProtocol`, does Ready name the policy of the spec, does deletion end, does a binding converge? | 1 binding, 1 entity, 2 policies that come and go |
| `chain` | Does the entity controller give the binding controller what `PolicyBinding` assumes, and do loss and recovery go through both? | 1 binding, 1 entity, 1 trust, 2 accounts, the entity may be edited between them; the layers below stay up |
| `teardown` | Is a role ever left where nobody finds it, does one binding take another's role, does a teardown end, does what lost its dependency stay Ready? | 1 project, 1 trust, 1 entity, 2 bindings whose names differ only after the point of truncation; the entity and one binding may be re-pointed to a name that no object has, and back; with and without webhooks; names of at most 8 characters, hash of 3 |

Expected to be violated, each against a sentence of the repository:

| Run | The sentence | What the run shows |
|---|---|---|
| `outage` | docs/manual-vault-namespace-acceptance-tests.md:514, "outage during deletion leaves a truthful pending finalizer" | `reconcileDelete` releases the trust when the instance cannot be used; the mount stays without owner |
| `dropped_ref` | api/v1alpha1/policybinding_types.go:35-37, "one generated OpenBao JWT role per referenced entity" | the role of a reference that was removed stays in OpenBao while the binding turns Ready (three more causes in section 5) |
| `collision` | internal/openbao/naming.go:92-94, "distinct PolicyBindings referencing the same ControlPlaneEntity never collide" | the names are hashed after they are sanitised, so bindings `a.a` and `a-a` of one namespace get one role name |
| `stale_identity` | policybinding_controller.go:62-64, the identity "is resolved from a short-lived ServiceAccount token obtained through an OpenMCP AccessRequest to the target ControlPlane" | after an entity is edited to another trust and account, the role on the new mount binds the account that was resolved on the old ControlPlane, one that the entity never names on the new one |

### Bounds and why they are enough

No counter is bounded: the state spaces are finite because every set is. Objects
are created, deleted and created again without limit, failures may be repeated
for ever, and every environment variable may change at any time. What is bounded
is how many objects exist. One worker handles one object at a time and objects of
one kind share nothing but OpenBao's name spaces; what they do to each other there
depends on their names, which is what `teardown` (two bindings) and `collision`
are about, and the theorems hold for any number of objects. Two instances,
ControlPlanes, issuers, accounts or policies are enough to see a stale value where
a current one belongs. Each run varies what its own question is about and the runs
together vary everything: `moving` keeps one instance because `instances` moves
between two, `instances` one ControlPlane because `moving` changes it,
`references` an instance that is up because `policies` has trusts that are missing
or not configured and calls fail in both. Two runs are as large as five minutes
allow. `chain` has one trust: with two it has more than three million states, so an
entity that moves to another trust is in `references` (roles) and `stale_identity`,
and the chain shows that a changed account is followed. In `teardown` the
references of the trust and of the second binding are fixed: with all of them
editable it has twice the states. What that would add is left to the theorems about
`Teardown`, which let every object be re-pointed to anything. Two constants narrow the environment of
`PolicyBinding`: `Outages` names the instances that may become unreachable (a
client that cannot be built has the same effect on the binding, and stays
possible everywhere) and `PoliciesVanish` says whether policies are deleted as
well as created (not in `references`, whose property relates a stored status to
the policies of now). `MCNaming` bounds the names a user chooses at three
characters over two letters, the dash and the dot, which is enough for a run of
dashes, a trimmed edge and a mapped dot. In `projects` one of the three servers is
always up. No symmetry is used. All passing runs have no deadlock: users can
always act.

## 4. Fairness

* A worker does not stop within a reconcile: each call returns or times out
  (`WF` of the worker's next step, which includes `Abandon`).
* Every object is fetched again and again: a reconcile that fails is retried with
  backoff, one that ends is requeued after `requeueAfter` (default 5 minutes,
  `shared.go:39,166-171`) (`SF` of `Fetch`). This is an assumption on the
  configuration: `requeueAfter: "0s"` is accepted (`serviceconfig_types.go:45-57`)
  and turns the requeue off.
* For deletion: a call that is tried again and again succeeds in the end
  (`CallsSucceed`). Nothing of the kind is assumed of the servers or of users.

* `chain` has the two workers' fairness side by side, one `WF` each and one `SF`
  of `Fetch` per object. `teardown` asks for `WF` of each object's `Reconcile`
  with a stored status.

The convergence properties (`TrustConverges`, `BindingConverges`,
`ProjectConverges`, `EntityConverges`, `ChainConverges`) have premises in place of
more fairness: if the dependencies stay put and the calls of this object succeed
from some point on, then it converges, whatever happened before.
`TeardownCompletes` has the users' part as its premise (`TearDown`): from some
point on nothing is created or edited, and deletes are asked for and carried out again and
again.

## 5. What is proved

All theorems hold for sets of any size. Besides the names' well-formedness (the
assumptions each module declares: references are in the sets they refer to, the
markers for "nothing" are not real values), some theorems have a hypothesis,
which the table gives: that names are distinct, which is what `Naming` is about
(`PathsDistinct`, `RoleNamesDistinct`), or that a trust stays on one instance
(`OneInstanceEach`), shares no path with another trust (`PathsExclusive`), that an
entity stays on one trust (`OneTrustEach`), or that policies are not deleted
(`~PoliciesVanish`). The
theorems called `...ByNames` replace the first kind by conditions on what users
and operators write down. A hypothesis about steps (`NeverDrops`, `NoLateReference`, no `Skips`,
no `Takes` or `Moves`) names the only events that break a promise: the theorem says that
nothing else does.

| Module | Theorem | States |
|---|---|---|
| `ControlPlaneTrustProofs` | `TypeCorrect`, `FinalizerHeld`, `CleanupScoped`, `ReadyEarned` | `TypeOK`, `FinalizerGuardsWork`, `OnlyOwnMountRemoved`, `ReadyIsEarned` |
| | `IssuersIsolated` | `IssuerIsolation`, under `PathsDistinct` |
| `ControlPlaneTrustRefinement` | `CleanedBeforeRelease`, `ForgottenRarely` | `CleanupBeforeRelease`, `ForgottenOnlyByMoveOrSkip` |
| | `OrphanedInThreeWays` | the only ways in which a mount is left without an owner |
| | `TruthfulUnlessSkipped` | `NoReleaseWhileMounted`, if `reconcileDelete` never `Skips` a mount that is there |
| | `ProtocolFollowed` | `FollowsProtocol`: implements `FinalizerProtocol` |
| | `MissingInTwoWays` | `ConfiguredMountExists`, if no step is one of `Takes` and `Moves` |
| | `ConfiguredMountThere` | `ConfiguredMountExists`, under `PathsExclusive` and `OneInstanceEach` |
| | `IssuersIsolatedByNames`, `ConfiguredThereByNames` | the two, with paths that `AuthMountPath` computes: under `PrefixesApart` and `ControlPlanesApart` |
| `PolicyBindingProofs` | `TypeCorrect`, `RolesIsolated`, `ReadyEarned` | `TypeOK`, `RoleIsolation`, `ReadyIsEarned` |
| | `PolicyClaimedTruly` | `PolicyNotFalselyClaimed`, under `OneInstanceEach` and `~PoliciesVanish` |
| | `ProtocolFollowed` | `FollowsProtocol`: implements `FinalizerProtocol` |
| | `ExactUnlessDropped` | `ReadyMeansExactRoles`, if every step is one of `NeverDrops`; under `OneTrustEach` and `OneInstanceEach` |
| | `ForgottenInThreeWays` | the only ways in which a role is left without a record |
| | `CleanUnlessSkipped` | a released binding leaves no recorded role, if `reconcileDelete` never `Skips` one that is there; under `OneInstanceEach` |
| `ControlPlaneEntityProofs` | `TypeCorrect`, `IdentityPublished`, `ReadyEarned` | `TypeOK`, `ReadyHasIdentity`, `ReadyIsEarned` |
| `BindingChainProofs` | `ChainImplements` | `EntitiesAsAssumed`: implements `PolicyBinding` |
| | `ChainIsolatesRoles`, `ChainEarnsReady` | `RoleIsolation` and `ReadyIsEarned` of `PolicyBinding`, for the chain |
| | `IdentityFromItsTrust` | `RoleIdentityFromItsTrust`, if the trusts an entity may name are for one ControlPlane |
| `ProjectEntityProofs` | `TypeCorrect`, `IdentityPublished`, `ReadyEarned`, `OnlyLivingReachable` | `TypeOK`, `ReadyIdentity`, `ReadyIsEarned`, `OnlyLivingVouchedFor` |
| `NamingProofs` | `NamesLegal`, `SanitizeIdempotent` | names are `Mountable`; `Sanitize` is a normal form |
| | `NamesTold`, `PrefixesTold`, `NamesDistinct`, `RoleNamesTold`, `RolesDistinct` | when two names are one |
| `TeardownProofs` | `TypeCorrect`, `NoRoleStranded`, `NamesStayMountable` | `TypeOK`, `RolesReachable`, `NamesMountable` |
| | `BindingsReleasedClean` | `ReleasedClean` |
| | `RolesKept` | `RoleKept`, under `RoleNamesDistinct` |
| | `RolesKeptByNames` | the same, with real names: under `BindingsApart` |
| | `DanglesByRaceOnly` | what goes is not referred to, with webhooks and if every step is one of `NoLateReference` |

None of the invariants is inductive alone; each needs what the worker holds.

**Trusts.**

* `TypeInv` adds to `TypeOK` what key, copy, client, path and issuer are at each
  call.
* `HeldInv` is the finalizer discipline: a deleting object keeps its finalizer, and
  from `AddFinalizer` on the stored object of the worker exists and has it,
  because users can then no more remove it than mark it as deleting. During
  cleanup the copy's status equals the stored one and the client points to the
  recorded instance. `FinalizerGuardsWork` and `OnlyOwnMountRemoved` follow.
* `IssuerInv` says that between discovery and the writes, path and issuer in the
  copy come from one ControlPlane: the one the copy names, whatever the stored
  spec names by then.
* `ReadyInv` says that while the copy is fresh, a status about to turn Ready on
  agrees with OpenBao. It needs that the environment changes no mount, that
  only this worker does, and that until `ConfigureTrust` the copy's Ready is the
  stored one.
* `AbsentInv`: between `Unmount` and `Release` nobody puts the mount back.
  `OwnInv`: a path in a status or a copy is one for a ControlPlane that this trust
  may name, so that work on it is work on its own place.
* `MountedInv`: a status or a copy that says "configured" is right, even if it is
  stale, until a new path is computed, and again when it is about to be stored. In
  between the copy may name another instance than the status it was read from. Only
  two events break it (`MissingInTwoWays`): the cleanup of a trust takes the mount of
  another (`Takes`, two trusts for one ControlPlane), and a reconcile ends in
  `dependencyNotReady` after the copy has moved to another instance (`Moves`). With
  exclusive paths and one instance for each trust neither can happen (`NeitherWay`,
  from `OwnInv`, `HeldInv` and `PlaceInv`), which gives `ConfiguredMountThere`. Either
  event alone is enough to break the property.

**Bindings.**

* `IsolationInv`: subject and trust of the reference at hand come from one view
  of its entity. The trust of `cur` is the mount it writes to, so a role inherits
  the pair.
* `EarnedInv`: what is listed and what is still to do make up the references of
  the copy; an entry recorded as ready has a role that asks for the copy's policy
  or one whose mount was removed since it was written (`lost`); a fresh copy has the stored spec. Only `UpdateStatus` turns
  Ready on, with nothing left to do and a fresh copy.
* `HeldInv`, as for trusts, but the copy may be stale all along: that the stored
  binding stays held is enough.
* `ClaimInv`: while every answer of a reconcile is "exists", the policy is in the
  instance of each role it has recorded as ready. Then the status it stores is
  right, and stays so if no policy is deleted and no trust moves.

**Refinement.** `FinalizerProtocol` says what a finalizer promises. The mapping
reads the stage off phase and finalizer of the stored object, and takes the mounts
(or roles) as the places outside; a place belongs to the objects that may name it.
Each write of an object maps to a move between stages or a stutter, each write to
OpenBao to `Work` on behalf of the worker's object (that is where `HeldInv` and
`OwnInv` are needed), and the loss of a mount with its roles to `Lose`. That action takes one of the
`Containers` and empties it entirely: for bindings these are the mounts, so nobody
else removes a single role, and for trusts there are none, so nobody else removes a
mount. Which of an object's own places `Work` touches is not the protocol's
business; `OnlyOwnMountRemoved`, `CleanupBeforeRelease` and `RoleKept` are about that.

**Composition.** `EntityInv` says that an entity that is resolved refers to a trust
it may name and has an identity it may have asked for, in the store and in the
copy of the entity worker. Then each of that worker's steps, and each edit, is
a `SetEntity` of `PolicyBinding` or a stutter, so what is proved of that module holds of
the chain. The pair need not be one the spec asks for at one moment: that is the
finding `stale_identity`. The role binds a namespace and a name only, so the finding
shows in it when the entity names another account with the new trust.

**Entities, projects, instances.** One invariant each: a copy about to be stored as
ready has the identity (or the ID) of what it names, and a fresh copy has the
stored spec. For projects, the copy names the new instance beside the old ID
between `ResolveInstance` and `EnsureEntity`, and never reaches the store like
that.

**Teardown.** `ReachInv`: a trust that publishes a mount has its finalizer, so the
mount goes before the trust does, and all its roles with it. A role that a released
binding skips lies on a path no trust publishes, so it is gone: this needs no two
mounts to be distinct. `WebhookInv`: with the webhooks registered nothing refers to
an object whose deletion was let pass, unless it was created or edited to do so
since (`NoLateReference` excludes both).

**Names.** A string is sanitized by a function of its kept positions (the legal
characters and the first of each illegal run), so what it gives is legal and has no
dash at an edge, for strings of any length. A name that the API server admits has no
two dots in a row and no dot or dash at an edge: of such names sanitizing is just
`Dashed`, which replaces dots one by one, and it commutes with joining. The hash
keeps truncation from making names equal, so two names are equal exactly if what was
joined reads the same (`NamesTold`). The rest is about how a joined string can be
split again: on one side only, unless one part continues the other behind a dash.

**The findings, from the other side.** Each finding has a theorem that says how far
the promise does hold, or that what the run shows is the only way to break it:

* `collision`: two bindings get one role name for an entity if and only if their
  names differ in dots against dashes only (`RoleNamesTold`). For two entities there
  is a second way, without any dot: binding `a` with entity `b-c` and binding `a-b`
  with entity `c` (`RolesDistinct`, `BindingsApart`). Mount paths and entity names
  have it across namespaces (`a` and `b-c`, `a-b` and `c`), and mount paths across
  prefixes (`PrefixesTold`).
* `dropped_ref`: a binding that turns Ready may have further roles for four reasons: a
  reference was taken out of it, it got a name under which old roles were left, an
  entity was edited to another trust, or a trust moved to another instance; the old
  role stays in each case. Without them it has roles for its references only, each on
  the mount its entry names (`ExactUnlessDropped`), and those are there (`ReadyEarned`).
  `OwnInv` is its invariant: what the worker handles from an older copy is still
  referred to by the stored binding, which cannot go meanwhile.
* `stale_identity`: while an entity moves only between trusts for one ControlPlane,
  its roles bind accounts that it may ask for on the ControlPlane of their mount
  (`IdentityFromItsTrust`).
* `outage`: while `reconcileDelete` does not give up on a recorded mount that is there,
  no trust is released with its recorded mount there, whatever else fails
  (`TruthfulUnlessSkipped`). A mount that no status records is another matter.
  `OrphanedInThreeWays` covers both: a mount is left without an owner only by the
  skipped cleanup, by a status that moves on to another mount, or by a reconcile that
  ends while it is at the mount, before the status update (error, conflict or crash).
  `Owned` is what makes this a statement of single steps: besides the statuses it
  counts the copy of the worker that is at the mount.
* The same two for the roles of a binding. `ForgottenInThreeWays`: a role loses the
  last record of it only by a release that leaves it there, by a status that has
  another or no entry for its reference (it was dropped, it moved, or a Get failed), or by
  a reconcile that ends before the status is stored. `CleanUnlessSkipped`: while
  `reconcileDelete` does not give up on a role that is there, a released binding leaves
  nothing that it recorded. It needs that a trust stays on one instance, because the
  role is looked for where the trust is now.

Only model-checked:

* all liveness (out of the prover's reach), which includes `DanglingShows`,
  `OutageShows`, `LossShows` and `LossReachesBinding`: that what lost its dependency
  stops being Ready;
* that the runs which expect a violation end in it.

Every invariant and every action property of a passing run is proved. Names are
proved about without induction over strings: `Sanitize` is not recursive but picks
the j-th kept position, and the facts about least and greatest positions follow from
the well-foundedness of the natural numbers.

## 6. What is not modelled

* Start-up and CLI (`src/cmd`): one sequential pass before the workers start. What
  it decides, which controllers run and whether webhooks are registered, is a
  constant of the models.
* Generated code, manifests, e2e tests, the test doubles of the OpenBao client.
* TLS, HTTP, login and tokens of the OpenBao client: a call succeeds, fails before
  it took effect, or after.
* Real time. The two minutes for which `controlPlaneClusterAccess` may hold the
  entity controller's worker are only a call that ends.
* Reasons and messages of conditions. `ReasonServiceAccountNotFound` is documented
  in `api/v1alpha1/shared.go:65-69` as the signal for a missing account and is
  never set by the entity controller.
* Several workers of one controller, or several active replicas: the code runs one
  worker of each controller; that one replica is active is the deployment's
  responsibility (`--leader-elect` is off by default, `run.go:98`).
* Edits of `spec.address` or `spec.namespace` of an OpenBaoInstance
  (`openbaoinstance_types.go:32-56`) in `ControlPlaneTrust`, `PolicyBinding` and
  `Teardown`, where the name of an instance is its server. The statuses record only
  that name, so mounts and roles on the old server stay there, and a cleanup that
  finds nothing on the new one succeeds. Those modules say what happens on one
  server; `ProjectEntity` has the edit of the address.
* A mount path that changes in `Teardown`. The path and the instance are computed anew
  in each reconcile (`controlplanetrust_controller.go:160`) from the prefix, the
  ControlPlane and the project, and the mount at the old path stays. These edits are in
  `ControlPlaneTrust` (`ForgottenOnlyByMoveOrSkip`, `OrphanedInThreeWays`); what they
  mean for the roles on the old mount is not: `RolesReachable` and `ReleasedClean` hold
  for trusts that stay on one path. `Teardown` has the edits of references.
* Runs with two trusts for one ControlPlane. `ControlPlaneTrust` and `Teardown` allow
  them, and the theorems about `IssuerIsolation`, `FollowsProtocol`, `RolesReachable` and
  `ReleasedClean` hold with them; `ConfiguredMountExists` is claimed without them, and
  `MissingInTwoWays` says what they can do to it.

## 7. Plan

Done: all five controllers and the webhooks, the naming functions, the abstract
finalizer protocol with two refinements, the composition of entities and bindings,
the teardown of a whole project, proofs of all safety properties that hold, for
computed names as well, and proofs of how far those that do not hold can be kept.

Considered and left out: the lower half of the chain composed as the upper half is, a
`ProjectEntity` with the `ControlPlaneTrust`s of its project. The trust controller reads
of the project only `spec.openBaoInstanceRef`, which users write, and of the instance
its existence and its condition (`controlplanetrust_controller.go:93-124`), nothing that
the ProjectEntity controller publishes. `SetProject` and `SetInstance` already let both
change at any time, so every behaviour of the composition is one of `ControlPlaneTrust`.

-------------------------- MODULE OpenBaoInstance --------------------------
(***************************************************************************)
(* The OpenBaoInstance controller: it probes the server that each          *)
(* registered instance names and publishes whether it is reachable, the    *)
(* gate every other controller reads before it calls OpenBao.  One worker; *)
(* a probe is a sequence of calls, and users edit the instance meanwhile.  *)
(***************************************************************************)

CONSTANTS
  Instances,   \* names of OpenBaoInstance objects
  Addresses,   \* values of spec.address
  AddressesOf, \* instance -> the addresses its spec may name
  StatesOf,    \* address -> what a probe may find there
  None

ASSUME AddressesAssumption ==
  /\ AddressesOf \in [Instances -> SUBSET Addresses]
  /\ StatesOf \in [Addresses -> SUBSET {"up", "down"}]
  /\ None \notin Instances \cup Addresses

VARIABLES
  instance, \* the OpenBaoInstance objects in the platform API server
  server,   \* address -> "up", or "down" (no answer, sealed, uninitialized)
  prober    \* the controller's worker

instVars == <<instance, server, prober>>

\* spec.address and condition OpenBaoReachable; Ready is always set with it.
Instance   == [address : Addresses \cup {None}, reachable : BOOLEAN]
NoInstance == [address |-> None, reachable |-> FALSE]

\* The worker: its next call, the object it reconciles, its copy of it, and
\* whether that copy still has the current resourceVersion.
Prober  == [call : {"idle", "probe", "status"},
            key : Instances \cup {None}, copy : Instance, fresh : BOOLEAN]
Resting == [call |-> "idle", key |-> None, copy |-> NoInstance, fresh |-> FALSE]

InstanceInit ==
  /\ instance = [i \in Instances |-> NoInstance]
  /\ server \in [Addresses -> {"up", "down"}]
  /\ \A a \in Addresses : server[a] \in StatesOf[a]
  /\ prober = Resting

Exists(i) == instance[i] # NoInstance

-----------------------------------------------------------------------------
FetchInstance(i) ==
  /\ prober.call = "idle"
  /\ Exists(i)
  /\ prober' = [call |-> "probe", key |-> i, copy |-> instance[i], fresh |-> TRUE]
  /\ UNCHANGED <<instance, server>>

Observed(b) == prober' = [prober EXCEPT !.call = "status", !.copy.reachable = b]

\* ClientFactory (credentials, login) and then /sys/health: an error of either,
\* no answer and an answer from a sealed server are all published as not
\* reachable.
Probe ==
  /\ prober.call = "probe"
  /\ \/ Observed(FALSE)
     \/ server[prober.copy.address] = "up" /\ Observed(TRUE)
  /\ UNCHANGED <<instance, server>>

\* Mutant: the result is stored in whatever the object is by now.
PublishForced ==
  /\ prober.call = "status"
  /\ Exists(prober.key)
  /\ instance' = [instance EXCEPT ![prober.key].reachable = prober.copy.reachable]
  /\ prober' = Resting
  /\ UNCHANGED server

\* patchStatus: the write conflicts when the instance was edited meanwhile.
Publish ==
  /\ prober.call = "status"
  /\ prober.fresh
  /\ instance' = [instance EXCEPT ![prober.key].reachable = prober.copy.reachable]
  /\ prober' = Resting
  /\ UNCHANGED server

\* An error is returned, a write conflicts, or the process dies.
AbandonProbe ==
  /\ prober.call # "idle"
  /\ prober' = Resting
  /\ UNCHANGED <<instance, server>>

Probing == \/ \E i \in Instances : FetchInstance(i)
           \/ Probe \/ Publish \/ AbandonProbe

-----------------------------------------------------------------------------
\* Users register an instance, point it elsewhere, or remove it.  A new spec
\* leaves the published status as it is.
EditInstance(i) ==
  /\ \/ \E a \in AddressesOf[i] \ {instance[i].address} :
          instance' = [instance EXCEPT ![i].address = a]
     \/ Exists(i) /\ instance' = [instance EXCEPT ![i] = NoInstance]
  /\ prober' = [prober EXCEPT !.fresh = @ /\ prober.key # i]
  /\ UNCHANGED server

SetServer(a) ==
  /\ \E s \in StatesOf[a] : server' = [server EXCEPT ![a] = s]
  /\ UNCHANGED <<instance, prober>>

InstanceNext == \/ Probing
                \/ \E i \in Instances : EditInstance(i)
                \/ \E a \in Addresses : SetServer(a)

InstanceTypeOK ==
  /\ instance \in [Instances -> Instance]
  /\ server \in [Addresses -> {"up", "down"}]
  /\ prober \in Prober

\* OpenBaoReachable turns True only for an address at which an OpenBao answers:
\* the probe of the old address never vouches for a new one.
OnlyLivingVouchedFor ==
  [][\A i \in Instances :
       ~instance[i].reachable /\ instance'[i].reachable =>
         "up" \in StatesOf[instance'[i].address]]_instVars

\* Every instance is probed again after requeueAfter or after a failure.
ProbingFair ==
  /\ WF_instVars(Probing)
  /\ \A i \in Instances : SF_instVars(FetchInstance(i))

\* A probe whose result is not stored (Publish may rewrite what is there).
ProbeLost == AbandonProbe /\ ~Publish

\* A probe that does not get to report what the server says.
ProbeFails ==
  \/ ProbeLost
  \/ Probe /\ server[prober.copy.address] = "up" /\ ~prober'.copy.reachable
=============================================================================

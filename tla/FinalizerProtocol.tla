-------------------------- MODULE FinalizerProtocol --------------------------
(***************************************************************************)
(* What the finalizers of this service promise, whatever a controller does *)
(* in detail: an object owns places outside the API server, and they are   *)
(* touched on its behalf only while the API server holds on to it.         *)
(*                                                                         *)
(* Users create objects, ask for their deletion and never see an object    *)
(* vanish that is held.  A controller first takes hold of an object        *)
(* (AddFinalizer), then works outside, and lets go of it (RemoveFinalizer) *)
(* after the deletion was asked for.  Nothing appears or disappears at a   *)
(* place on behalf of an object that does not own it or is not held; only  *)
(* what others may remove (Containers) goes without that.  Nothing is      *)
(* promised about what is left outside in the end: that depends on what    *)
(* the controller remembers.                                               *)
(***************************************************************************)

CONSTANTS
  Objects,    \* names of the objects
  Owns,       \* object -> the places outside it may touch
  Places,     \* all places
  Containers, \* the sets of places that others may remove, always at once
  Nothing     \* what is at a place where nothing is

VARIABLES
  stage,    \* object -> "absent" / "live" / "held" / "deleting"
  outside   \* place -> what is there

Init ==
  /\ stage = [o \in Objects |-> "absent"]
  /\ outside = [p \in Places |-> Nothing]

Move(o, from, to) ==
  /\ stage[o] = from
  /\ stage' = [stage EXCEPT ![o] = to]
  /\ UNCHANGED outside

Create(o)  == Move(o, "absent", "live")
Hold(o)    == Move(o, "live", "held")
Delete(o)  == Move(o, "live", "absent") \/ Move(o, "held", "deleting")
Release(o) == Move(o, "deleting", "absent")

\* Work outside on behalf of o.  A deletion may be asked for meanwhile.
Work(o) ==
  /\ stage[o] \in {"held", "deleting"}
  /\ \A p \in Places \ Owns[o] : outside'[p] = outside[p]
  /\ UNCHANGED stage

\* Others remove what some places lie in, and with it all that is there.  They
\* take nothing else: a place is emptied alone only by Work.
Lose(c) ==
  /\ \A p \in Places : outside'[p] = IF p \in c THEN Nothing ELSE outside[p]
  /\ UNCHANGED stage

Next == \/ \E o \in Objects : \/ Create(o) \/ Hold(o) \/ Delete(o) \/ Release(o)
                              \/ Work(o)
        \/ \E c \in Containers : Lose(c)

Spec == Init /\ [][Next]_<<stage, outside>>
=============================================================================

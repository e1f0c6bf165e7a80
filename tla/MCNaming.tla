------------------------------ MODULE MCNaming ------------------------------
(***************************************************************************)
(* The role names of Naming under the names users may choose: PolicyBinding *)
(* objects of one namespace that refer to one ControlPlaneEntity come and  *)
(* go.                                                                     *)
(***************************************************************************)
EXTENDS Naming, TLC

CONSTANTS NameLen, MaxBindings   \* bounds

Dot == "."   \* legal in the name of an object, illegal in OpenBao names

VARIABLE bindings

SmallOf    == "O" :> "o"
TheLetters == {"a", "o"}
TheChars   == TheLetters \cup {"O", "-", Dot}
TheOpenbao == <<"o">>

ObjectNames ==
  {s \in UNION {[1..n -> Letters \cup {Dash, Dot}] : n \in 1..NameLen} : ObjectName(s)}

Init == bindings = {}

Create == \E b \in ObjectNames \ bindings :
            /\ Cardinality(bindings) < MaxBindings
            /\ bindings' = bindings \cup {b}

Remove == \E b \in bindings : bindings' = bindings \ {b}

Next == Create \/ Remove

Spec == Init /\ [][Next]_bindings

\* The comment of RoleName: "distinct PolicyBindings referencing the same
\* ControlPlaneEntity never collide".
BindingsNeverCollide ==
  \A a, b \in bindings :
    a # b => RoleName(<<"o">>, Joined(a, <<"a">>)) # RoleName(<<"o">>, Joined(b, <<"a">>))
=============================================================================

------------------------------- MODULE Naming -------------------------------
(***************************************************************************)
(* The names this service gives to what it owns in OpenBao: auth mounts,   *)
(* JWT roles, identity entities.  A name has to be stable, legal in a URL  *)
(* path, short, and distinct for distinct owners.                          *)
(*                                                                         *)
(* A string is a sequence of characters.  A name is the readable head and  *)
(* the string its hash suffix is computed from: the hash, forty bits of    *)
(* SHA-256, is taken as injective.                                         *)
(***************************************************************************)
EXTENDS Integers, Sequences, FiniteSets, FiniteSetsExt

CONSTANTS
  Chars,     \* all characters
  Letters,   \* the characters a-z0-9
  Dash,      \* "-"
  LowerOf,   \* capital -> its small letter
  Openbao,   \* the string "openbao"
  MaxLen,    \* authMountMax, roleNameMax, entityNameMax
  HashLen    \* hashSuffixLen

Legal == Letters \cup {Dash}

ASSUME NamingAssumption ==
  /\ Letters \subseteq Chars /\ Dash \in Chars \ Letters
  /\ DOMAIN LowerOf \subseteq Chars \ Legal
  /\ Openbao \in Seq(Letters) /\ Openbao # <<>>
  /\ MaxLen \in Nat /\ HashLen \in Nat /\ HashLen <= MaxLen

\* strings.Trim(s, "-")
Trim(s) ==
  LET inner == {i \in DOMAIN s : s[i] # Dash}
  IN  IF inner = {} THEN <<>> ELSE SubSeq(s, Min(inner), Max(inner))

\* strings.ToLower, of a character
Lower(c) == IF c \in DOMAIN LowerOf THEN LowerOf[c] ELSE c

\* The positions of s that leave a character behind: those of legal characters,
\* and the first one of a run of illegal characters.
Kept(s) == {i \in DOMAIN s : \/ Lower(s[i]) \in Legal
                             \/ i = 1
                             \/ Lower(s[i - 1]) \in Legal}

\* The j-th smallest of a set of numbers.
Nth(K, j) == CHOOSE i \in K : Cardinality({k \in K : k <= i}) = j

\* Lower case; a run of illegal characters becomes one dash; edges trimmed.
Sanitize(s) ==
  LET c(j) == Lower(s[Nth(Kept(s), j)])
  IN  Trim([j \in 1..Cardinality(Kept(s)) |-> IF c(j) \in Legal THEN c(j) ELSE Dash])

\* Mutant: the hash is computed from what is left after truncation.
TruncateWithHashOfHead(full, maxLen) ==
  LET room == maxLen - HashLen - 1
      head == Trim(SubSeq(full, 1, Min({Len(full), room})))
  IN  [head |-> head, hash |-> head]

\* Mutant: a dash at the end of the truncated head stays.
TruncateWithoutTrim(full, maxLen) ==
  LET room == maxLen - HashLen - 1
  IN  [head |-> IF room < 1 THEN <<>> ELSE SubSeq(full, 1, Min({Len(full), room})),
       hash |-> full]

TruncateWithHash(full, maxLen) ==
  LET room == maxLen - HashLen - 1
  IN  [head |-> IF room < 1 THEN <<>>   \* the suffix alone
                ELSE Trim(SubSeq(full, 1, Min({Len(full), room}))),
       hash |-> full]

Joined(s, t) == s \o <<Dash>> \o t

AuthMountPath(prefix, namespace, controlPlane) ==
  LET head == Sanitize(prefix)
      tail == Sanitize(Joined(namespace, controlPlane))
  IN  TruncateWithHash(IF head # <<>> THEN Joined(head, tail) ELSE tail, MaxLen)

\* Callers pass the names of the binding and of the referenced entity, joined.
RoleName(namespace, policyBindingName) ==
  TruncateWithHash(Sanitize(Joined(namespace, policyBindingName)), MaxLen)

EntityName(namespace, projectEntityName) ==
  TruncateWithHash(Sanitize(Joined(Joined(Openbao, namespace), projectEntityName)),
                   MaxLen)

-----------------------------------------------------------------------------
\* What goes into a URL path: only legal characters, no dash at either end, and
\* no longer than the bound, counting the dash before the hash.
Mountable(name) ==
  LET h == name.head
  IN  /\ \A i \in DOMAIN h : h[i] \in Legal
      /\ h = <<>> \/ (h[1] # Dash /\ h[Len(h)] # Dash)
      /\ IF h = <<>> THEN HashLen <= MaxLen ELSE Len(h) + 1 + HashLen <= MaxLen

-----------------------------------------------------------------------------
\* When two names are one.

\* No two illegal characters are neighbours.
Single(s) == \A i \in 2..Len(s) : Lower(s[i]) \in Legal \/ Lower(s[i - 1]) \in Legal

\* What the API server admits as the name of an object or a namespace: it begins
\* and ends with a letter or a digit, and a dot has no dot beside it.
ObjectName(s) ==
  /\ s \in Seq(Chars) /\ s # <<>>
  /\ s[1] \in Letters /\ s[Len(s)] \in Letters
  /\ Single(s)

\* s with its dots, and whatever else is illegal, replaced one by one.
Dashed(s) == [i \in 1..Len(s) |-> IF Lower(s[i]) \in Legal THEN Lower(s[i]) ELSE Dash]

\* u is s, a dash and something more.
Continues(u, s) == \E k \in 1..Len(u) : u = Joined(s, SubSeq(u, k + 1, Len(u)))
=============================================================================

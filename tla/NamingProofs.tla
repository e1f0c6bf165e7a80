---------------------------- MODULE NamingProofs ----------------------------
(***************************************************************************)
(* Proofs about Naming, for strings of any length over any characters, and *)
(* any bound on the length of a name.                                      *)
(***************************************************************************)
EXTENDS Naming, FiniteSetTheorems, SequenceTheorems, TLAPS

-----------------------------------------------------------------------------
(***************************************************************************)
(* Sets of numbers.                                                        *)
(***************************************************************************)

LEMMA MinIsLeast ==
  ASSUME NEW K \in SUBSET Nat, K # {}
  PROVE  Min(K) \in K /\ \A k \in K : Min(K) <= k
  <1> DEFINE R == {p \in Nat \X Nat : p[1] < p[2]}
  <1>1. IsWellFoundedOn(R, Nat)
    BY NatLessThanWellFounded, Zenon DEF OpToRel
  <1>2. PICK i \in K : \A k \in K : <<k, i>> \notin R
    <2> HIDE DEF R
    <2> QED
      BY <1>1, WFMin
  <1>3. ASSUME NEW k \in K PROVE i <= k
    <2>1. <<k, i>> \in Nat \X Nat /\ k \in Nat /\ i \in Nat
      OBVIOUS
    <2>2. ~(<<k, i>>[1] < <<k, i>>[2])
      BY <1>2, <2>1, Zenon
    <2> QED
      BY <2>1, <2>2
  <1> HIDE DEF R
  <1> QED
    BY <1>3 DEF Min

LEMMA MaxIsGreatest ==
  ASSUME NEW n \in Nat, NEW K \in SUBSET (1..n), K # {}
  PROVE  Max(K) \in K /\ \A k \in K : k <= Max(K)
  <1> DEFINE M == {m \in 0..n : n - m \in K}
  <1>1. M \in SUBSET Nat /\ M # {}
    <2>1. PICK k \in K : TRUE
      OBVIOUS
    <2>2. n - k \in M
      BY <2>1
    <2>3. M \in SUBSET Nat
      OBVIOUS
    <2> HIDE DEF M
    <2> QED
      BY <2>2, <2>3
  <1>2. Min(M) \in M /\ \A m \in M : Min(M) <= m
    BY <1>1, MinIsLeast
  <1>3. PICK i \in K : n - i = Min(M)
    BY <1>2
  <1>4. ASSUME NEW k \in K PROVE k <= i
    <2>1. n - k \in M
      OBVIOUS
    <2>2. n - i <= n - k
      BY <1>2, <1>3, <2>1
    <2> QED
      BY <2>2
  <1> HIDE DEF M
  <1> QED
    BY <1>4 DEF Max

LEMMA MinOfTwo ==
  ASSUME NEW m \in Int, NEW n \in Int
  PROVE  Min({m, n}) = IF m <= n THEN m ELSE n
  BY DEF Min

\* In 1..n the j-th number is j.
LEMMA NthOfInterval ==
  ASSUME NEW n \in Nat, NEW j \in 1..n
  PROVE  Nth(1..n, j) = j
  <1>1. ASSUME NEW i \in 1..n PROVE Cardinality({k \in 1..n : k <= i}) = i
    <2>1. {k \in 1..n : k <= i} = 1..i
      OBVIOUS
    <2>2. Cardinality(1..i) = i
      BY FS_Interval
    <2> QED
      BY <2>1, <2>2
  <1> QED
    BY <1>1 DEF Nth

-----------------------------------------------------------------------------
(***************************************************************************)
(* Trim.                                                                   *)
(***************************************************************************)

\* No dash at either end.
Edged(s) == s # <<>> => s[1] # Dash /\ s[Len(s)] # Dash

LEMMA TrimEdges ==
  ASSUME NEW S, NEW s \in Seq(S)
  PROVE  Trim(s) \in Seq(S) /\ Edged(Trim(s)) /\ Len(Trim(s)) <= Len(s)
  <1> DEFINE inner == {i \in DOMAIN s : s[i] # Dash}
  <1>1. CASE inner = {}
    BY <1>1 DEF Trim, Edged
  <1>2. CASE inner # {}
    <2> DEFINE m == Min(inner)  n == Max(inner)
    <2>1. inner \in SUBSET (1..Len(s)) /\ Len(s) \in Nat
      OBVIOUS
    <2>2. m \in inner /\ n \in inner /\ m <= n
      <3> HIDE DEF inner
      <3>1. inner \in SUBSET Nat
        BY <2>1
      <3>2. m \in inner /\ \A k \in inner : m <= k
        BY <1>2, <3>1, MinIsLeast
      <3>3. n \in inner
        BY <1>2, <2>1, MaxIsGreatest
      <3> QED
        BY <3>2, <3>3
    <2>3. Trim(s) = SubSeq(s, m, n)
      BY <1>2 DEF Trim
    <2>4. m \in 1..Len(s) /\ n \in 1..Len(s) /\ s[m] # Dash /\ s[n] # Dash
      BY <2>1, <2>2
    <2> HIDE DEF m, n
    <2> QED
      BY <2>2, <2>3, <2>4, SubSeqProperties DEF Edged
  <1> QED
    BY <1>1, <1>2

LEMMA TrimOfEdged ==
  ASSUME NEW S, NEW s \in Seq(S), Edged(s)
  PROVE  Trim(s) = s
  <1> DEFINE inner == {i \in DOMAIN s : s[i] # Dash}
  <1>1. CASE s = <<>>
    BY <1>1 DEF Trim
  <1>2. CASE s # <<>>
    <2>1. Len(s) \in Nat \ {0} /\ inner \in SUBSET (1..Len(s))
      BY <1>2
    <2>2. 1 \in inner /\ Len(s) \in inner
      BY <1>2, <2>1 DEF Edged
    <2>3. Min(inner) = 1 /\ Max(inner) = Len(s)
      <3> HIDE DEF inner
      <3>1. Min(inner) \in inner /\ Min(inner) <= 1
        BY <2>1, <2>2, MinIsLeast
      <3>2. Max(inner) \in inner /\ Len(s) <= Max(inner)
        BY <2>1, <2>2, MaxIsGreatest
      <3>3. Min(inner) \in 1..Len(s) /\ Max(inner) \in 1..Len(s)
        BY <2>1, <3>1, <3>2
      <3> QED
        BY <3>1, <3>2, <3>3
    <2> QED
      BY <2>2, <2>3, SubSeqFull DEF Trim
  <1> QED
    BY <1>1, <1>2

-----------------------------------------------------------------------------
(***************************************************************************)
(* Sanitize.                                                               *)
(***************************************************************************)

\* What sanitize leaves: legal characters, no dash at either end.
LEMMA SanitizeIsClean ==
  ASSUME NEW S, NEW s \in Seq(S)
  PROVE  Sanitize(s) \in Seq(Legal) /\ Edged(Sanitize(s))
  <1> DEFINE c(j) == Lower(s[Nth(Kept(s), j)])
             t == [j \in 1..Cardinality(Kept(s)) |-> IF c(j) \in Legal THEN c(j) ELSE Dash]
  <1>1. Cardinality(Kept(s)) \in Nat
    <2>1. Kept(s) \in SUBSET (1..Len(s)) /\ Len(s) \in Nat
      BY DEF Kept
    <2>2. IsFiniteSet(1..Len(s))
      BY <2>1, FS_Interval
    <2> QED
      BY <2>1, <2>2, FS_Subset, FS_CardinalityType
  <1>2. \A j \in 1..Cardinality(Kept(s)) : (IF c(j) \in Legal THEN c(j) ELSE Dash) \in Legal
    BY DEF Legal
  <1>3. t \in Seq(Legal)
    <2> HIDE DEF c
    <2> QED
      BY <1>1, <1>2
  <1>4. Sanitize(s) = Trim(t)
    BY DEF Sanitize
  <1> HIDE DEF t
  <1> QED
    BY <1>3, <1>4, TrimEdges

LEMMA SanitizeOfSingle ==
  ASSUME NEW S, NEW s \in Seq(S), Single(s)
  PROVE  Sanitize(s) = Trim(Dashed(s)) /\ Dashed(s) \in Seq(Legal)
  <1> DEFINE n == Len(s)
             c(j) == Lower(s[Nth(Kept(s), j)])
  <1>1. n \in Nat
    OBVIOUS
  <1>2. Kept(s) = 1..n
    BY DEF Kept, Single
  <1>3. Cardinality(Kept(s)) = n
    BY <1>1, <1>2, FS_Interval
  <1>4. \A j \in 1..n : c(j) = Lower(s[j])
    BY <1>1, <1>2, NthOfInterval
  <1>5. Sanitize(s) = Trim([j \in 1..Cardinality(Kept(s)) |->
                              IF c(j) \in Legal THEN c(j) ELSE Dash])
    BY DEF Sanitize
  <1>6. [j \in 1..n |-> IF c(j) \in Legal THEN c(j) ELSE Dash] = Dashed(s)
    <2> HIDE DEF c
    <2> QED
      BY <1>4 DEF Dashed
  <1>7. Dashed(s) \in Seq(Legal)
    BY <1>1 DEF Dashed, Legal
  <1> HIDE DEF c, n
  <1> QED
    BY <1>3, <1>5, <1>6, <1>7

LEMMA LowerOfLegal ==
  ASSUME NEW x \in Legal
  PROVE  Lower(x) = x
  BY NamingAssumption DEF Lower

\* A name that is clean already is not changed.
LEMMA SanitizeOfClean ==
  ASSUME NEW s \in Seq(Legal), Edged(s)
  PROVE  Sanitize(s) = s
  <1>1. \A i \in 1..Len(s) : s[i] \in Legal /\ Lower(s[i]) = s[i]
    BY LowerOfLegal
  <1>2. Dashed(s) = s
    <2>1. s = [i \in 1..Len(s) |-> s[i]]
      OBVIOUS
    <2> QED
      BY <1>1, <2>1 DEF Dashed
  <1>3. Single(s)
    BY <1>1 DEF Single
  <1> QED
    BY <1>2, <1>3, SanitizeOfSingle, TrimOfEdged

-----------------------------------------------------------------------------
(***************************************************************************)
(* Names are legal.                                                        *)
(***************************************************************************)

\* j is s, a dash and t.
IsJoin(j, s, t) ==
  /\ Len(j) = Len(s) + 1 + Len(t)
  /\ \A i \in 1..Len(s) : j[i] = s[i]
  /\ j[Len(s) + 1] = Dash
  /\ \A i \in 1..Len(t) : j[Len(s) + 1 + i] = t[i]

LEMMA JoinedTyped ==
  ASSUME NEW S, Dash \in S, NEW s \in Seq(S), NEW t \in Seq(S)
  PROVE  Joined(s, t) \in Seq(S) /\ IsJoin(Joined(s, t), s, t)
  BY DEF Joined, IsJoin

LEMMA TruncateMountable ==
  ASSUME NEW s \in Seq(Legal)
  PROVE  Mountable(TruncateWithHash(s, MaxLen))
  <1> DEFINE room == MaxLen - HashLen - 1
             cut  == SubSeq(s, 1, Min({Len(s), room}))
             h    == TruncateWithHash(s, MaxLen).head
  <1>1. room \in Int /\ HashLen \in Nat /\ MaxLen \in Nat /\ HashLen <= MaxLen
    BY NamingAssumption
  <1>2. CASE room < 1
    BY <1>1, <1>2 DEF TruncateWithHash, Mountable
  <1>3. CASE room >= 1
    <2>1. h = Trim(cut)
      BY <1>1, <1>3 DEF TruncateWithHash
    <2>2. cut \in Seq(Legal) /\ Len(cut) <= room
      <3>1. PICK n \in 0..Len(s) : n = Min({Len(s), room}) /\ n <= room
        BY <1>1, <1>3, MinOfTwo
      <3>2. \A i \in 1..n : s[i] \in Legal
        OBVIOUS
      <3>3. SubSeq(s, 1, n) \in Seq(Legal) /\ Len(SubSeq(s, 1, n)) = n
        BY <3>2, SubSeqProperties
      <3> QED
        BY <3>1, <3>3
    <2>3. h \in Seq(Legal) /\ Edged(h) /\ Len(h) <= room
      <3> HIDE DEF cut, h, room
      <3>1. Len(cut) \in Nat /\ Len(Trim(cut)) <= Len(cut) /\ Trim(cut) \in Seq(Legal)
        BY <2>2, TrimEdges
      <3> QED
        BY <1>1, <2>1, <2>2, <3>1, TrimEdges
    <2> HIDE DEF h
    <2>4. /\ \A i \in DOMAIN h : h[i] \in Legal
          /\ h = <<>> \/ (h[1] # Dash /\ h[Len(h)] # Dash)
          /\ IF h = <<>> THEN HashLen <= MaxLen ELSE Len(h) + 1 + HashLen <= MaxLen
      BY <1>1, <2>3 DEF Edged
    <2> QED
      BY <2>4 DEF Mountable, h
  <1> QED
    BY <1>1, <1>2, <1>3

\* Every mount path, role name and entity name that the service computes may go
\* into a URL and keeps to the bound, whatever the strings it is made from.
THEOREM NamesLegal ==
  ASSUME NEW p \in Seq(Chars), NEW n \in Seq(Chars), NEW s \in Seq(Chars)
  PROVE  /\ Mountable(AuthMountPath(p, n, s))
         /\ Mountable(RoleName(n, s))
         /\ Mountable(EntityName(n, s))
  <1>1. Dash \in Chars /\ Dash \in Legal /\ Openbao \in Seq(Chars)
    BY NamingAssumption, SeqMonotonic DEF Legal
  <1>2. Joined(n, s) \in Seq(Chars) /\ Joined(Joined(Openbao, n), s) \in Seq(Chars)
    BY <1>1, JoinedTyped
  <1>3. /\ Sanitize(p) \in Seq(Legal)
        /\ Sanitize(Joined(n, s)) \in Seq(Legal)
        /\ Sanitize(Joined(Joined(Openbao, n), s)) \in Seq(Legal)
    BY <1>2, SanitizeIsClean
  <1>4. Joined(Sanitize(p), Sanitize(Joined(n, s))) \in Seq(Legal)
    BY <1>1, <1>3, JoinedTyped
  <1> QED
    BY <1>3, <1>4, TruncateMountable DEF AuthMountPath, RoleName, EntityName

\* sanitize is a normal form: what has been sanitized is not changed again.
THEOREM SanitizeIdempotent ==
  ASSUME NEW s \in Seq(Chars)
  PROVE  Sanitize(Sanitize(s)) = Sanitize(s)
  BY SanitizeIsClean, SanitizeOfClean

-----------------------------------------------------------------------------
(***************************************************************************)
(* Names are distinct.                                                     *)
(***************************************************************************)

LEMMA JoinedName ==
  ASSUME NEW s, NEW t, ObjectName(s), ObjectName(t)
  PROVE  ObjectName(Joined(s, t))
  <1> DEFINE j == Joined(s, t)  n == Len(s)
  <1>1. Dash \in Chars /\ Dash \in Legal /\ Lower(Dash) = Dash
    BY NamingAssumption, LowerOfLegal DEF Legal
  <1>2. /\ s \in Seq(Chars) /\ t \in Seq(Chars)
        /\ n \in Nat \ {0} /\ Len(t) \in Nat \ {0}
    BY DEF ObjectName
  <1>3. /\ j \in Seq(Chars) /\ Len(j) = n + 1 + Len(t)
        /\ \A i \in 1..n : j[i] = s[i]
        /\ j[n + 1] = Dash
        /\ \A i \in 1..Len(t) : j[n + 1 + i] = t[i]
    <2>1. j \in Seq(Chars) /\ IsJoin(j, s, t)
      BY <1>1, <1>2, JoinedTyped, Zenon
    <2> QED
      BY <2>1 DEF IsJoin
  <1> HIDE DEF j, n
  <1>4. j[1] \in Letters /\ j[Len(j)] \in Letters /\ j # <<>>
    <2>1. j[1] = s[1] /\ j[Len(j)] = t[Len(t)]
      <3>1. 1 \in 1..n /\ Len(t) \in 1..Len(t) /\ Len(j) = n + 1 + Len(t)
        BY <1>2, <1>3
      <3> QED
        BY <1>3, <3>1
    <2> QED
      BY <1>2, <1>3, <2>1 DEF ObjectName
  <1>5. ASSUME NEW i \in 2..Len(j)
        PROVE  Lower(j[i]) \in Legal \/ Lower(j[i - 1]) \in Legal
    <2>1. CASE i <= n
      <3>1. i \in 2..Len(s) /\ j[i] = s[i] /\ j[i - 1] = s[i - 1]
        BY <1>2, <1>3, <2>1 DEF n
      <3> QED
        BY <3>1 DEF ObjectName, Single
    <2>2. CASE i = n + 1 \/ i = n + 2
      BY <1>1, <1>2, <1>3, <2>2
    <2>3. CASE i > n + 2
      <3> DEFINE k == i - n - 1
      <3>1. k \in 2..Len(t) /\ n + 1 + k = i /\ n + 1 + (k - 1) = i - 1
        BY <1>2, <1>3, <2>3
      <3>2. j[i] = t[k] /\ j[i - 1] = t[k - 1]
        <4>1. k \in 1..Len(t) /\ k - 1 \in 1..Len(t)
          BY <1>2, <3>1
        <4> QED
          BY <1>3, <3>1, <4>1
      <3> QED
        BY <3>1, <3>2 DEF ObjectName, Single
    <2> QED
      BY <1>2, <2>1, <2>2, <2>3
  <1> QED
    BY <1>3, <1>4, <1>5 DEF ObjectName, Single, j

LEMMA DashedJoined ==
  ASSUME NEW s \in Seq(Chars), NEW t \in Seq(Chars)
  PROVE  Dashed(Joined(s, t)) = Joined(Dashed(s), Dashed(t))
  <1> DEFINE a == Dashed(Joined(s, t))  b == Joined(Dashed(s), Dashed(t))
  <1>1. Dash \in Chars /\ Dash \in Legal /\ Lower(Dash) = Dash
    BY NamingAssumption, LowerOfLegal DEF Legal
  <1>2. ASSUME NEW u \in Seq(Chars)
        PROVE  /\ Dashed(u) \in Seq(Legal) /\ Len(Dashed(u)) = Len(u)
               /\ \A i \in 1..Len(u) :
                    Dashed(u)[i] = IF Lower(u[i]) \in Legal THEN Lower(u[i]) ELSE Dash
    BY <1>1 DEF Dashed
  <1>3. /\ Joined(s, t) \in Seq(Chars)
        /\ Len(Joined(s, t)) = Len(s) + 1 + Len(t)
        /\ \A i \in 1..Len(s) : Joined(s, t)[i] = s[i]
        /\ Joined(s, t)[Len(s) + 1] = Dash
        /\ \A i \in 1..Len(t) : Joined(s, t)[Len(s) + 1 + i] = t[i]
    <2>1. Joined(s, t) \in Seq(Chars) /\ IsJoin(Joined(s, t), s, t)
      BY <1>1, JoinedTyped, Zenon
    <2> QED
      BY <2>1 DEF IsJoin
  <1>4. /\ b \in Seq(Legal)
        /\ Len(b) = Len(s) + 1 + Len(t)
        /\ \A i \in 1..Len(s) : b[i] = Dashed(s)[i]
        /\ b[Len(s) + 1] = Dash
        /\ \A i \in 1..Len(t) : b[Len(s) + 1 + i] = Dashed(t)[i]
    <2>1. /\ Dashed(s) \in Seq(Legal) /\ Len(Dashed(s)) = Len(s)
          /\ Dashed(t) \in Seq(Legal) /\ Len(Dashed(t)) = Len(t)
      BY <1>2
    <2>2. /\ b \in Seq(Legal)
          /\ Len(b) = Len(Dashed(s)) + 1 + Len(Dashed(t))
          /\ \A i \in 1..Len(Dashed(s)) : b[i] = Dashed(s)[i]
          /\ b[Len(Dashed(s)) + 1] = Dash
          /\ \A i \in 1..Len(Dashed(t)) : b[Len(Dashed(s)) + 1 + i] = Dashed(t)[i]
      <3>1. b \in Seq(Legal) /\ IsJoin(b, Dashed(s), Dashed(t))
        BY <1>1, <2>1, JoinedTyped, Zenon
      <3> QED
        BY <3>1 DEF IsJoin
    <2> HIDE DEF b
    <2> QED
      BY <2>1, <2>2
  <1>5. a \in Seq(Legal) /\ Len(a) = Len(b)
    BY <1>2, <1>3, <1>4
  <1>6. ASSUME NEW i \in 1..Len(a) PROVE a[i] = b[i]
    <2> HIDE DEF b
    <2>0. i \in 1..Len(Joined(s, t)) /\ Len(s) \in Nat /\ Len(t) \in Nat
      BY <1>3, <1>4, <1>5
    <2>1. a[i] = IF Lower(Joined(s, t)[i]) \in Legal THEN Lower(Joined(s, t)[i]) ELSE Dash
      BY <1>2, <1>3, <2>0
    <2> HIDE DEF a
    <2>2. CASE i <= Len(s)
      BY <1>2, <1>3, <1>4, <2>0, <2>1, <2>2
    <2>3. CASE i = Len(s) + 1
      BY <1>1, <1>3, <1>4, <2>0, <2>1, <2>3
    <2>4. CASE i > Len(s) + 1
      <3>1. PICK k \in 1..Len(t) : i = Len(s) + 1 + k
        <4>1. i - Len(s) - 1 \in 1..Len(t) /\ i = Len(s) + 1 + (i - Len(s) - 1)
          BY <1>3, <2>0, <2>4
        <4> QED
          BY <4>1
      <3> QED
        BY <1>2, <1>3, <1>4, <2>1, <3>1
    <2> QED
      BY <2>0, <2>2, <2>3, <2>4
  <1> HIDE DEF a, b
  <1>7. a = b
    BY <1>4, <1>5, <1>6, SeqEqual
  <1> QED
    BY <1>7 DEF a, b

LEMMA SanitizeOfName ==
  ASSUME NEW s, ObjectName(s)
  PROVE  Sanitize(s) = Dashed(s) /\ Dashed(s) \in Seq(Legal) /\ Dashed(s) # <<>>
  <1>1. s \in Seq(Chars) /\ Single(s) /\ Len(s) \in Nat \ {0}
    BY DEF ObjectName
  <1>2. Sanitize(s) = Trim(Dashed(s)) /\ Dashed(s) \in Seq(Legal)
    BY <1>1, SanitizeOfSingle
  <1>3. Len(Dashed(s)) = Len(s)
    BY <1>1 DEF Dashed
  <1>4. s[1] \in Legal /\ s[Len(s)] \in Legal /\ s[1] # Dash /\ s[Len(s)] # Dash
    BY NamingAssumption DEF ObjectName, Legal
  <1>5. Dashed(s)[1] = s[1] /\ Dashed(s)[Len(s)] = s[Len(s)]
    BY <1>1, <1>4, LowerOfLegal DEF Dashed
  <1> QED
    BY <1>1, <1>2, <1>3, <1>4, <1>5, TrimOfEdged DEF Edged

\* What is joined can be told apart again if one of the parts is known.
LEMMA JoinedCancels ==
  ASSUME NEW S, Dash \in S, NEW s \in Seq(S), NEW t \in Seq(S), NEW u \in Seq(S)
  PROVE  /\ Joined(s, t) = Joined(s, u) <=> t = u
         /\ Joined(s, u) = Joined(t, u) <=> s = t
  <1>1. <<Dash>> \in Seq(S)
    OBVIOUS
  <1>2. s \o <<Dash>> \in Seq(S) /\ t \o <<Dash>> \in Seq(S)
    BY <1>1, ConcatProperties
  <1>3. ASSUME Joined(s, t) = Joined(s, u) PROVE t = u
    BY <1>2, <1>3, ConcatSimplifications DEF Joined
  <1>4. ASSUME Joined(s, u) = Joined(t, u) PROVE s = t
    <2>1. s \o <<Dash>> = t \o <<Dash>>
      BY <1>2, <1>4, ConcatSimplifications DEF Joined
    <2> QED
      BY <1>1, <2>1, ConcatSimplifications
  <1> QED
    BY <1>3, <1>4

LEMMA LongerContinues ==
  ASSUME NEW s \in Seq(Legal), NEW t \in Seq(Legal),
         NEW u \in Seq(Legal), NEW v \in Seq(Legal),
         Joined(s, t) = Joined(u, v), Len(s) < Len(u)
  PROVE  Continues(u, s)
  <1> DEFINE m == Len(s)  n == Len(u)  j == Joined(s, t)  w == SubSeq(u, m + 2, n)
             k == Joined(s, w)
  <1>1. m \in Nat /\ n \in Nat /\ m < n /\ Dash \in Legal
    BY DEF Legal
  <1>2. IsJoin(j, s, t) /\ IsJoin(j, u, v)
    BY <1>1, JoinedTyped, Zenon
  <1>3. \A i \in 1..m : u[i] = s[i]
    BY <1>1, <1>2 DEF IsJoin
  <1>4. u[m + 1] = Dash
    BY <1>1, <1>2 DEF IsJoin
  <1>5. /\ w \in Seq(Legal) /\ Len(w) = n - m - 1
        /\ \A i \in 1..n - m - 1 : w[i] = u[m + 1 + i]
    <2>1. \A i \in m + 2..n : u[i] \in Legal
      BY <1>1
    <2>2. /\ w \in Seq(Legal)
          /\ Len(w) = IF m + 2 <= n THEN n - (m + 2) + 1 ELSE 0
          /\ \A i \in 1..n - (m + 2) + 1 : w[i] = u[m + 2 + i - 1]
      <3> HIDE DEF m, n
      <3> QED
        BY <1>1, <2>1, SubSeqProperties
    <2> HIDE DEF w
    <2> QED
      BY <1>1, <2>2
  <1>6. k \in Seq(Legal) /\ IsJoin(k, s, w)
    BY <1>1, <1>5, JoinedTyped, Zenon
  <1> HIDE DEF w, k
  <1>7. Len(k) = n
    BY <1>1, <1>5, <1>6 DEF IsJoin
  <1>8. ASSUME NEW i \in 1..n PROVE k[i] = u[i]
    <2>1. CASE i <= m
      BY <1>1, <1>3, <1>6, <2>1 DEF IsJoin
    <2>2. CASE i = m + 1
      BY <1>1, <1>4, <1>6, <2>2 DEF IsJoin
    <2>3. CASE i > m + 1
      <3>1. i - m - 1 \in 1..n - m - 1 /\ m + 1 + (i - m - 1) = i
        BY <1>1, <2>3
      <3>2. k[m + 1 + (i - m - 1)] = w[i - m - 1]
        BY <1>5, <1>6, <3>1 DEF IsJoin
      <3> QED
        BY <1>5, <3>1, <3>2
    <2> QED
      BY <1>1, <2>1, <2>2, <2>3
  <1>9. k = u
    BY <1>6, <1>7, <1>8, SeqEqual
  <1>10. m + 1 \in 1..n /\ u = Joined(s, SubSeq(u, (m + 1) + 1, n))
    BY <1>1, <1>9 DEF k, w
  <1> QED
    BY <1>10, Zenon DEF Continues

\* Two pairs with the same join are equal, unless one head continues the other
\* behind a dash.
LEMMA JoinedSplits ==
  ASSUME NEW s \in Seq(Legal), NEW t \in Seq(Legal),
         NEW u \in Seq(Legal), NEW v \in Seq(Legal),
         Joined(s, t) = Joined(u, v), ~Continues(u, s), ~Continues(s, u)
  PROVE  s = u /\ t = v
  <1>1. Len(s) \in Nat /\ Len(u) \in Nat /\ Dash \in Legal
    BY DEF Legal
  <1>2. Len(s) = Len(u)
    BY <1>1, LongerContinues
  <1>3. IsJoin(Joined(s, t), s, t) /\ IsJoin(Joined(s, t), u, v)
    BY <1>1, JoinedTyped, Zenon
  <1>4. s = u
    BY <1>2, <1>3, SeqEqual DEF IsJoin
  <1>5. Joined(s, t) = Joined(s, v)
    BY <1>4
  <1> QED
    BY <1>1, <1>4, <1>5, JoinedCancels

\* The hash tells sanitized names apart, however they are cut.
LEMMA HashTells ==
  ASSUME NEW s, NEW t, NEW m
  PROVE  TruncateWithHash(s, m) = TruncateWithHash(t, m) <=> s = t
  <1>1. TruncateWithHash(s, m).hash = s /\ TruncateWithHash(t, m).hash = t
    BY DEF TruncateWithHash
  <1> QED
    BY <1>1

LEMMA OpenbaoName == ObjectName(Openbao)
  <1>1. Openbao \in Seq(Letters) /\ Openbao \in Seq(Chars) /\ Len(Openbao) \in Nat \ {0}
    BY NamingAssumption, SeqMonotonic
  <1>2. \A i \in 1..Len(Openbao) : Openbao[i] \in Letters /\ Openbao[i] \in Legal
    BY <1>1 DEF Legal
  <1> QED
    BY <1>1, <1>2, LowerOfLegal DEF ObjectName, Single

LEMMA SanitizeOfJoined ==
  ASSUME NEW s, NEW t, ObjectName(s), ObjectName(t)
  PROVE  /\ Sanitize(Joined(s, t)) = Joined(Dashed(s), Dashed(t))
         /\ Joined(Dashed(s), Dashed(t)) \in Seq(Legal)
  <1>1. ObjectName(Joined(s, t)) /\ s \in Seq(Chars) /\ t \in Seq(Chars)
    BY JoinedName DEF ObjectName
  <1>2. Dashed(Joined(s, t)) = Joined(Dashed(s), Dashed(t))
    BY <1>1, DashedJoined
  <1> QED
    BY <1>1, <1>2, SanitizeOfName

\* Namespace and name read the same once they are joined and dots are dashes.
ReadSame(m, s, n, t) == Joined(Dashed(m), Dashed(s)) = Joined(Dashed(n), Dashed(t))

\* Under one prefix two names are equal just if their namespaces and names read
\* the same once they are joined and their dots are dashes: cutting the name
\* never makes two names equal, and neither does the prefix.
THEOREM NamesTold ==
  ASSUME NEW p \in Seq(Chars), NEW m, NEW n, NEW s, NEW t,
         ObjectName(m), ObjectName(n), ObjectName(s), ObjectName(t)
  PROVE  /\ AuthMountPath(p, m, s) = AuthMountPath(p, n, t) <=> ReadSame(m, s, n, t)
         /\ RoleName(m, s) = RoleName(n, t) <=> ReadSame(m, s, n, t)
         /\ EntityName(m, s) = EntityName(n, t) <=> ReadSame(m, s, n, t)
  <1> DEFINE a == Joined(Dashed(m), Dashed(s))  b == Joined(Dashed(n), Dashed(t))
             o == Dashed(Openbao)  q == Sanitize(p)
  <1>1. Dash \in Legal /\ <<Dash>> \in Seq(Legal)
    BY DEF Legal
  <1>2. /\ Sanitize(Joined(m, s)) = a /\ a \in Seq(Legal)
        /\ Sanitize(Joined(n, t)) = b /\ b \in Seq(Legal)
    BY SanitizeOfJoined
  <1>3. o \in Seq(Legal) /\ q \in Seq(Legal)
    BY OpenbaoName, SanitizeOfName, SanitizeIsClean
  <1>4. ASSUME NEW k, NEW u, ObjectName(k), ObjectName(u)
        PROVE  Sanitize(Joined(Joined(Openbao, k), u)) = Joined(o, Joined(Dashed(k), Dashed(u)))
    <2>1. Sanitize(Joined(Joined(Openbao, k), u)) = Joined(Dashed(Joined(Openbao, k)), Dashed(u))
      BY <1>4, OpenbaoName, JoinedName, SanitizeOfJoined
    <2>2. Dashed(Joined(Openbao, k)) = Joined(o, Dashed(k))
      BY <1>4, OpenbaoName, DashedJoined DEF ObjectName
    <2>3. Dashed(k) \in Seq(Legal) /\ Dashed(u) \in Seq(Legal)
      BY <1>4, SanitizeOfName
    <2> HIDE DEF o
    <2>a. o \o <<Dash>> \in Seq(Legal) /\ Dashed(k) \o <<Dash>> \in Seq(Legal)
      BY <1>1, <1>3, <2>3, ConcatProperties
    <2>4. (o \o <<Dash>> \o Dashed(k)) \o <<Dash>> = o \o <<Dash>> \o (Dashed(k) \o <<Dash>>)
      BY <1>1, <2>3, <2>a, ConcatAssociative
    <2>5. (o \o <<Dash>>) \o (Dashed(k) \o <<Dash>>) \o Dashed(u)
            = (o \o <<Dash>>) \o ((Dashed(k) \o <<Dash>>) \o Dashed(u))
      <3> DEFINE x == o \o <<Dash>>  y == Dashed(k) \o <<Dash>>  z == Dashed(u)
      <3>1. x \in Seq(Legal) /\ y \in Seq(Legal) /\ z \in Seq(Legal)
        BY <2>3, <2>a
      <3> HIDE DEF x, y, z
      <3>2. (x \o y) \o z = x \o (y \o z)
        BY <3>1, ConcatAssociative
      <3> QED
        BY <3>2 DEF x, y, z
    <2> QED
      BY <2>1, <2>2, <2>4, <2>5 DEF Joined
  <1> HIDE DEF a, b, o, q
  <1>5. (Joined(q, a) = Joined(q, b) <=> a = b) /\ (Joined(o, a) = Joined(o, b) <=> a = b)
    BY <1>1, <1>2, <1>3, JoinedCancels
  <1>6. AuthMountPath(p, m, s) = AuthMountPath(p, n, t) <=> a = b
    BY <1>2, <1>5, HashTells DEF AuthMountPath, q
  <1>7. RoleName(m, s) = RoleName(n, t) <=> a = b
    BY <1>2, HashTells DEF RoleName
  <1>8. EntityName(m, s) = EntityName(n, t) <=> a = b
    <2>1. /\ EntityName(m, s) = TruncateWithHash(Joined(o, a), MaxLen)
          /\ EntityName(n, t) = TruncateWithHash(Joined(o, b), MaxLen)
      BY <1>4 DEF EntityName, a, b
    <2> QED
      BY <1>5, <2>1, HashTells
  <1> QED
    BY <1>6, <1>7, <1>8 DEF a, b, ReadSame

\* Nor does a change of the prefix, by the operator or by an instance of its own:
\* two prefixes give different mount paths unless one is empty or continues the
\* other behind a dash.
THEOREM PrefixesTold ==
  ASSUME NEW p \in Seq(Chars), NEW q \in Seq(Chars), NEW m, NEW n, NEW s, NEW t,
         ObjectName(m), ObjectName(n), ObjectName(s), ObjectName(t),
         \/ Sanitize(p) = Sanitize(q)
         \/ /\ Sanitize(p) # <<>> /\ Sanitize(q) # <<>>
            /\ ~Continues(Sanitize(p), Sanitize(q)) /\ ~Continues(Sanitize(q), Sanitize(p)),
         AuthMountPath(p, m, s) = AuthMountPath(q, n, t)
  PROVE  Sanitize(p) = Sanitize(q) /\ ReadSame(m, s, n, t)
  <1> DEFINE a == Joined(Dashed(m), Dashed(s))  b == Joined(Dashed(n), Dashed(t))
             h == Sanitize(p)  k == Sanitize(q)
  <1>1. /\ Sanitize(Joined(m, s)) = a /\ a \in Seq(Legal)
        /\ Sanitize(Joined(n, t)) = b /\ b \in Seq(Legal)
    BY SanitizeOfJoined
  <1>2. h \in Seq(Legal) /\ k \in Seq(Legal) /\ Dash \in Legal
    BY SanitizeIsClean DEF Legal
  <1>3. (IF h # <<>> THEN Joined(h, a) ELSE a) = (IF k # <<>> THEN Joined(k, b) ELSE b)
    BY <1>1, HashTells DEF AuthMountPath
  <1> HIDE DEF a, b, h, k
  <1>4. h = k /\ a = b
    <2>1. CASE h = <<>> /\ k = <<>>
      BY <1>3, <2>1
    <2>2. CASE h # <<>> /\ h = k
      BY <1>1, <1>2, <1>3, <2>2, JoinedCancels
    <2>3. CASE h # <<>> /\ k # <<>> /\ h # k
      BY <1>1, <1>2, <1>3, <2>3, JoinedSplits DEF h, k
    <2> QED
      BY <2>1, <2>2, <2>3 DEF h, k
  <1> QED
    BY <1>4 DEF a, b, h, k, ReadSame

\* In one namespace, and in two of which none continues the other behind a dash,
\* names of ControlPlanes or ProjectEntities are told apart but for their dots.
THEOREM NamesDistinct ==
  ASSUME NEW p \in Seq(Chars), NEW m, NEW n, NEW s, NEW t,
         ObjectName(m), ObjectName(n), ObjectName(s), ObjectName(t),
         ~Continues(Dashed(m), Dashed(n)), ~Continues(Dashed(n), Dashed(m)),
         \/ AuthMountPath(p, m, s) = AuthMountPath(p, n, t)
         \/ EntityName(m, s) = EntityName(n, t)
  PROVE  Dashed(m) = Dashed(n) /\ Dashed(s) = Dashed(t)
  <1>1. Joined(Dashed(m), Dashed(s)) = Joined(Dashed(n), Dashed(t))
    <2>1. ReadSame(m, s, n, t)
      BY NamesTold
    <2> QED
      BY <2>1 DEF ReadSame
  <1>2. /\ Dashed(m) \in Seq(Legal) /\ Dashed(n) \in Seq(Legal)
        /\ Dashed(s) \in Seq(Legal) /\ Dashed(t) \in Seq(Legal)
    BY SanitizeOfName
  <1> QED
    BY <1>1, <1>2, JoinedSplits

\* Two PolicyBindings of a namespace have one role name for the same entity just
\* if their names differ at most in dots against dashes: what the comment of
\* RoleName promises holds among bindings without dots.
THEOREM RoleNamesTold ==
  ASSUME NEW n, NEW b, NEW c, NEW e,
         ObjectName(n), ObjectName(b), ObjectName(c), ObjectName(e)
  PROVE  RoleName(n, Joined(b, e)) = RoleName(n, Joined(c, e)) <=> Dashed(b) = Dashed(c)
  <1>1. ObjectName(Joined(b, e)) /\ ObjectName(Joined(c, e))
    BY JoinedName
  <1>2. /\ Dashed(Joined(b, e)) = Joined(Dashed(b), Dashed(e))
        /\ Dashed(Joined(c, e)) = Joined(Dashed(c), Dashed(e))
    BY DashedJoined DEF ObjectName
  <1>3. /\ Dashed(n) \in Seq(Legal) /\ Dashed(b) \in Seq(Legal) /\ Dashed(c) \in Seq(Legal)
        /\ Dashed(e) \in Seq(Legal) /\ Dash \in Legal
        /\ Dashed(Joined(b, e)) \in Seq(Legal) /\ Dashed(Joined(c, e)) \in Seq(Legal)
    BY <1>1, SanitizeOfName DEF Legal
  <1>4. RoleName(n, Joined(b, e)) = RoleName(n, Joined(c, e))
          <=> Joined(Dashed(n), Dashed(Joined(b, e))) = Joined(Dashed(n), Dashed(Joined(c, e)))
    <2>1. <<>> \in Seq(Chars)
      OBVIOUS
    <2>2. RoleName(n, Joined(b, e)) = RoleName(n, Joined(c, e))
            <=> ReadSame(n, Joined(b, e), n, Joined(c, e))
      BY <1>1, <2>1, NamesTold
    <2> QED
      BY <2>2 DEF ReadSame
  <1>5. Joined(Dashed(n), Dashed(Joined(b, e))) = Joined(Dashed(n), Dashed(Joined(c, e)))
          <=> Dashed(Joined(b, e)) = Dashed(Joined(c, e))
    BY <1>3, JoinedCancels
  <1>6. Joined(Dashed(b), Dashed(e)) = Joined(Dashed(c), Dashed(e)) <=> Dashed(b) = Dashed(c)
    BY <1>3, JoinedCancels
  <1> QED
    BY <1>2, <1>4, <1>5, <1>6

\* Roles of two bindings for two entities: their names differ unless the one
\* binding continues the other behind a dash.
THEOREM RolesDistinct ==
  ASSUME NEW n, NEW b, NEW c, NEW d, NEW e,
         ObjectName(n), ObjectName(b), ObjectName(c), ObjectName(d), ObjectName(e),
         ~Continues(Dashed(b), Dashed(c)), ~Continues(Dashed(c), Dashed(b)),
         RoleName(n, Joined(b, d)) = RoleName(n, Joined(c, e))
  PROVE  Dashed(b) = Dashed(c) /\ Dashed(d) = Dashed(e)
  <1>1. ObjectName(Joined(b, d)) /\ ObjectName(Joined(c, e))
    BY JoinedName
  <1>2. /\ Dashed(Joined(b, d)) = Joined(Dashed(b), Dashed(d))
        /\ Dashed(Joined(c, e)) = Joined(Dashed(c), Dashed(e))
    BY DashedJoined DEF ObjectName
  <1>3. /\ Dashed(n) \in Seq(Legal) /\ Dashed(b) \in Seq(Legal) /\ Dashed(c) \in Seq(Legal)
        /\ Dashed(d) \in Seq(Legal) /\ Dashed(e) \in Seq(Legal) /\ Dash \in Legal
        /\ Dashed(Joined(b, d)) \in Seq(Legal) /\ Dashed(Joined(c, e)) \in Seq(Legal)
    BY <1>1, SanitizeOfName DEF Legal
  <1>4. Joined(Dashed(n), Dashed(Joined(b, d))) = Joined(Dashed(n), Dashed(Joined(c, e)))
    <2>1. <<>> \in Seq(Chars)
      OBVIOUS
    <2>2. ReadSame(n, Joined(b, d), n, Joined(c, e))
      BY <1>1, <2>1, NamesTold
    <2> QED
      BY <2>2 DEF ReadSame
  <1>5. Joined(Dashed(b), Dashed(d)) = Joined(Dashed(c), Dashed(e))
    BY <1>2, <1>3, <1>4, JoinedCancels
  <1> QED
    BY <1>3, <1>5, JoinedSplits
=============================================================================

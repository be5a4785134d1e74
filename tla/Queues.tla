------------------------------- MODULE Queues -------------------------------
(***************************************************************************)
(* Queues as sequences: what is left of one when a member is taken out      *)
(* (splice), when its first members are taken (shift), and in which order;   *)
(* and facts about the operators of Totals.                                  *)
(***************************************************************************)
EXTENDS Totals, SequenceTheorems, FunctionTheorems, FiniteSetTheorems, WellFoundedInduction, TLAPS

Distinct(s) == \A i, j \in 1..Len(s) : s[i] = s[j] => i = j
Members(s) == {s[i] : i \in 1..Len(s)}

\* t is s without `gone', in the order of s (AdmissionGate's Left).
LeftOf(t, s, gone) ==
  /\ Members(t) = Members(s) \ gone
  /\ \A i, j \in 1..Len(t) : i < j =>
       \E k, l \in 1..Len(s) : k < l /\ s[k] = t[i] /\ s[l] = t[j]

Removed(s, p) == SubSeq(s, 1, p - 1) \o SubSeq(s, p + 1, Len(s))

\* What splice(p, 1) leaves, place by place.
LEMMA RemovedPlaces ==
  ASSUME NEW S, NEW s \in Seq(S), NEW p \in 1..Len(s)
  PROVE  /\ Removed(s, p) \in Seq(S)
         /\ Len(Removed(s, p)) = Len(s) - 1
         /\ \A i \in 1..(p - 1) : Removed(s, p)[i] = s[i]
         /\ \A i \in p..(Len(s) - 1) : Removed(s, p)[i] = s[i + 1]
<1> DEFINE a == SubSeq(s, 1, p - 1)
           b == SubSeq(s, p + 1, Len(s))
<1>1. a \in Seq(S) /\ Len(a) = p - 1 /\ \A i \in 1..(p - 1) : a[i] = s[i]
  OBVIOUS
<1>2. /\ b \in Seq(S) /\ Len(b) = Len(s) - p
      /\ \A i \in 1..(Len(s) - p) : b[i] = s[p + i]
  OBVIOUS
<1> HIDE DEF a, b
<1>3. /\ a \o b \in Seq(S) /\ Len(a \o b) = Len(a) + Len(b)
      /\ \A i \in 1..(Len(a) + Len(b)) :
           (a \o b)[i] = IF i <= Len(a) THEN a[i] ELSE b[i - Len(a)]
  BY <1>1, <1>2, ConcatProperties
<1>4. ASSUME NEW i \in 1..(Len(s) - 1)
      PROVE  (i < p => (a \o b)[i] = s[i]) /\ (i >= p => (a \o b)[i] = s[i + 1])
  <2>1. ASSUME i < p PROVE (a \o b)[i] = s[i]
    BY <1>1, <1>3, <2>1
  <2>2. ASSUME i >= p PROVE (a \o b)[i] = s[i + 1]
    <3>1. i - Len(a) \in 1..(Len(s) - p) /\ p + (i - Len(a)) = i + 1 /\ ~(i <= Len(a))
      BY <1>1, <2>2
    <3>2. (a \o b)[i] = b[i - Len(a)]
      BY <1>1, <1>2, <1>3, <3>1, SMTT(60)
    <3>3. b[i - Len(a)] = s[p + (i - Len(a))]
      BY <1>2, <3>1
    <3> QED  BY <3>1, <3>2, <3>3, Zenon
  <2> QED  BY <2>1, <2>2
<1>5. Removed(s, p) = a \o b
  BY DEF Removed, a, b
<1>6. Len(a) + Len(b) = Len(s) - 1
  BY <1>1, <1>2
<1>7. ASSUME NEW i \in 1..(p - 1) PROVE (a \o b)[i] = s[i]
  <2>1. i \in 1..(Len(s) - 1) /\ i < p
    OBVIOUS
  <2> QED  BY <1>4, <2>1
<1>8. ASSUME NEW i \in p..(Len(s) - 1) PROVE (a \o b)[i] = s[i + 1]
  <2>1. i \in 1..(Len(s) - 1) /\ i >= p
    OBVIOUS
  <2> QED  BY <1>4, <2>1
<1>9. Len(a \o b) = Len(s) - 1
  BY <1>3, <1>6
<1> QED
  BY <1>3, <1>5, <1>7, <1>8, <1>9, Zenon

\* splice(p, 1) on a sequence without repetitions.
LEMMA RemovedLeaves ==
  ASSUME NEW S, NEW s \in Seq(S), Distinct(s), NEW p \in 1..Len(s)
  PROVE  /\ Distinct(Removed(s, p))
         /\ Members(Removed(s, p)) = Members(s) \ {s[p]}
         /\ LeftOf(Removed(s, p), s, {s[p]})
<1> DEFINE t == Removed(s, p)
           past(i) == IF i < p THEN i ELSE i + 1
<1>1. /\ t \in Seq(S) /\ Len(t) = Len(s) - 1
      /\ \A i \in 1..(p - 1) : t[i] = s[i]
      /\ \A i \in p..(Len(s) - 1) : t[i] = s[i + 1]
  BY RemovedPlaces
<1> HIDE DEF t
<1>2. ASSUME NEW i \in 1..Len(t) PROVE past(i) \in 1..Len(s) /\ past(i) # p /\ t[i] = s[past(i)]
  BY <1>1
<1>3. ASSUME NEW i \in 1..Len(t), NEW j \in 1..Len(t)
      PROVE  (past(i) = past(j) => i = j) /\ (i < j => past(i) < past(j))
  BY <1>1
<1>4. ASSUME NEW k \in 1..Len(s), k # p PROVE \E i \in 1..Len(t) : past(i) = k
  <2>1. CASE k < p
    <3>1. k \in 1..Len(t) /\ past(k) = k
      BY <1>1, <2>1
    <3> QED  BY <3>1
  <2>2. CASE k > p
    <3>1. k - 1 \in 1..Len(t) /\ past(k - 1) = k
      BY <1>1, <2>2
    <3> QED  BY <3>1
  <2> QED  BY <1>4, <2>1, <2>2
<1> HIDE DEF past
<1>5. Distinct(t)
  BY <1>2, <1>3 DEF Distinct
<1>6. ASSUME NEW c \in Members(t) PROVE c \in Members(s) \ {s[p]}
  BY <1>2, <1>6 DEF Members, Distinct
<1>7. ASSUME NEW c \in Members(s) \ {s[p]} PROVE c \in Members(t)
  <2>1. PICK k \in 1..Len(s) : s[k] = c /\ k # p
    BY <1>7 DEF Members
  <2>2. PICK i \in 1..Len(t) : past(i) = k
    BY <1>4, <2>1
  <2>3. t[i] = c
    BY <1>2, <2>1, <2>2
  <2> QED  BY <2>3 DEF Members
<1>8. ASSUME NEW i \in 1..Len(t), NEW j \in 1..Len(t), i < j
      PROVE  \E k, l \in 1..Len(s) : k < l /\ s[k] = t[i] /\ s[l] = t[j]
  BY <1>2, <1>3, <1>8
<1> QED
  BY <1>5, <1>6, <1>7, <1>8 DEF LeftOf, t

\* What is left of a sequence without its first n members.
LEMMA SuffixLeaves ==
  ASSUME NEW S, NEW s \in Seq(S), Distinct(s), NEW n \in 0..Len(s)
  PROVE  LET t == SubSeq(s, n + 1, Len(s)) IN
         /\ t \in Seq(S) /\ Len(t) = Len(s) - n /\ Distinct(t)
         /\ \A i \in 1..Len(t) : t[i] = s[n + i]
         /\ Members(t) = Members(s) \ {s[i] : i \in 1..n}
<1> DEFINE t == SubSeq(s, n + 1, Len(s))
<1>1. t \in Seq(S) /\ Len(t) = Len(s) - n /\ \A i \in 1..Len(t) : t[i] = s[n + i]
  OBVIOUS
<1> HIDE DEF t
<1>2. Distinct(t)
  <2>1. ASSUME NEW i \in 1..Len(t), NEW j \in 1..Len(t), t[i] = t[j] PROVE i = j
    <3>1. n + i \in 1..Len(s) /\ n + j \in 1..Len(s)
      BY <1>1
    <3>2. s[n + i] = s[n + j]
      BY <1>1, <2>1
    <3>3. n + i = n + j
      BY <3>1, <3>2 DEF Distinct
    <3> QED  BY <3>3
  <2> QED  BY <2>1 DEF Distinct
<1>3. ASSUME NEW c \in Members(t) PROVE c \in Members(s) \ {s[i] : i \in 1..n}
  <2>1. PICK i \in 1..Len(t) : c = t[i]
    BY <1>3 DEF Members
  <2>2. n + i \in 1..Len(s) /\ c = s[n + i]
    BY <1>1, <2>1
  <2> QED  BY <2>2 DEF Members, Distinct
<1>4. ASSUME NEW c \in Members(s) \ {s[i] : i \in 1..n} PROVE c \in Members(t)
  <2>1. PICK i \in 1..Len(s) : c = s[i] /\ i > n
    BY <1>4 DEF Members
  <2>2. i - n \in 1..Len(t) /\ n + (i - n) = i
    BY <1>1, <2>1
  <2>3. t[i - n] = c
    BY <1>1, <2>1, <2>2
  <2> QED  BY <2>2, <2>3 DEF Members
<1> QED
  BY <1>1, <1>2, <1>3, <1>4 DEF t

\* A set of naturals has a least member.
LEMMA LeastMember ==
  ASSUME NEW T, T \subseteq Nat, T # {}
  PROVE  \E m \in T : \A k \in T : m <= k
<1>1. PICK m \in T : \A k \in T : ~(<<k, m>> \in OpToRel(<, Nat))
  BY NatLessThanWellFounded, WFMin
<1>2. ASSUME NEW k \in T PROVE m <= k
  <2>1. ~(k < m)
    BY <1>1 DEF OpToRel
  <2> QED  BY <2>1
<1> QED
  BY <1>2

\* The members of a finite queue are finitely many.
LEMMA MembersFinite ==
  ASSUME NEW S, NEW s \in Seq(S)
  PROVE  IsFiniteSet(Members(s)) /\ Members(s) \subseteq S
<1>1. [i \in 1..Len(s) |-> s[i]] \in Surjection(1..Len(s), Members(s))
  BY DEF Surjection, Members
<1>2. IsFiniteSet(1..Len(s))
  BY FS_Interval
<1>3. IsFiniteSet(Members(s))
  BY <1>1, <1>2, FS_Surjection
<1> QED
  BY <1>3 DEF Members

\* shift() on a sequence without repetitions.
LEMMA TailLeaves ==
  ASSUME NEW S, NEW s \in Seq(S), Distinct(s), s # <<>>
  PROVE  /\ Head(s) \in Members(s) /\ Tail(s) \in Seq(S) /\ Len(Tail(s)) = Len(s) - 1
         /\ Distinct(Tail(s)) /\ Members(Tail(s)) = Members(s) \ {Head(s)}
         /\ <<Head(s)>> \o Tail(s) = s
<1> DEFINE t == SubSeq(s, 2, Len(s))
<1>1. Len(s) \in Nat /\ Len(s) >= 1 /\ 1 \in 0..Len(s) /\ 1 \in 1..Len(s)
  OBVIOUS
<1>2. Head(s) = s[1] /\ Tail(s) = t
  BY <1>1
<1>3. /\ t \in Seq(S) /\ Len(t) = Len(s) - 1 /\ Distinct(t)
      /\ Members(t) = Members(s) \ {s[i] : i \in 1..1}
  <2>1. LET u == SubSeq(s, 1 + 1, Len(s)) IN
        /\ u \in Seq(S) /\ Len(u) = Len(s) - 1 /\ Distinct(u)
        /\ Members(u) = Members(s) \ {s[i] : i \in 1..1}
    <3>1. \A n \in 0..Len(s) : LET u == SubSeq(s, n + 1, Len(s)) IN
            /\ u \in Seq(S) /\ Len(u) = Len(s) - n /\ Distinct(u)
            /\ Members(u) = Members(s) \ {s[i] : i \in 1..n}
      BY SuffixLeaves, ZenonT(60)
    <3> QED  BY <1>1, <3>1, Zenon
  <2>2. 1 + 1 = 2
    OBVIOUS
  <2> QED  BY <2>1, <2>2
<1> HIDE DEF t
<1>4. {s[i] : i \in 1..1} = {s[1]}
  OBVIOUS
<1>5. s[1] \in Members(s)
  BY <1>1 DEF Members
<1>6. <<Head(s)>> \o Tail(s) = s
  OBVIOUS
<1> QED
  BY <1>2, <1>3, <1>4, <1>5, <1>6

LEMMA NoMembers ==
  ASSUME NEW S, NEW s \in Seq(S)
  PROVE  Members(s) = {} <=> s = <<>>
<1>1. ASSUME s # <<>> PROVE s[1] \in Members(s)
  <2>1. Len(s) \in Nat /\ Len(s) # 0
    BY <1>1
  <2>2. 1 \in 1..Len(s)
    BY <2>1
  <2> QED  BY <2>2 DEF Members
<1>2. ASSUME s = <<>> PROVE Members(s) = {}
  BY <1>2 DEF Members
<1> QED
  BY <1>1, <1>2

\* push() on a queue, and shift() off it, place by place.
LEMMA AppendPlaces ==
  ASSUME NEW S, NEW s \in Seq(S), NEW c \in S
  PROVE  /\ Append(s, c) \in Seq(S) /\ Len(Append(s, c)) = Len(s) + 1
         /\ \A i \in 1..Len(s) : Append(s, c)[i] = s[i]
         /\ Append(s, c)[Len(s) + 1] = c
         /\ \A i \in 1..(Len(s) + 1) : i \in 1..Len(s) \/ i = Len(s) + 1
OBVIOUS

LEMMA TailPlaces ==
  ASSUME NEW S, NEW s \in Seq(S), s # <<>>
  PROVE  /\ Tail(s) \in Seq(S) /\ Len(Tail(s)) = Len(s) - 1 /\ Head(s) = s[1]
         /\ \A i \in 1..Len(Tail(s)) : Tail(s)[i] = s[i + 1]
         /\ \A i \in 1..Len(Tail(s)) : i + 1 \in 1..Len(s)
         /\ 1 \in 1..Len(s)
OBVIOUS

\* A function on the first n numbers is a sequence.
LEMMA FunctionIsSeq ==
  ASSUME NEW S, NEW n \in Nat, NEW f \in [1..n -> S]
  PROVE  f \in Seq(S) /\ Len(f) = n
OBVIOUS

\* A finite set of numbers that is not empty has a greatest member.
LEMMA GreatestMember ==
  ASSUME NEW S, S \subseteq Nat, S # {}, IsFiniteSet(S)
  PROVE  \E m \in S : \A k \in S : k <= m
<1> DEFINE Topped(X) == \E m \in X : \A k \in X : k <= m
           Bad == {X \in SUBSET S : X # {} /\ ~Topped(X)}
           T == {Cardinality(X) : X \in Bad}
<1> SUFFICES ASSUME S \in Bad PROVE FALSE
  OBVIOUS
<1>1. \A X \in SUBSET S : IsFiniteSet(X) /\ Cardinality(X) \in Nat
  BY FS_Subset, FS_CardinalityType
<1>2. T \subseteq Nat /\ T # {}
  BY <1>1
<1>3. PICK m \in T : \A k \in T : m <= k
  <2> HIDE DEF T
  <2> QED  BY <1>2, LeastMember
<1>4. PICK X \in Bad : m = Cardinality(X)
  OBVIOUS
<1>5. PICK x \in X : TRUE
  OBVIOUS
<1>6. Cardinality(X \ {x}) = Cardinality(X) - 1
  BY <1>1, <1>5, FS_RemoveElement
<1>7. ~(X \ {x} \in Bad)
  <2>1. X \ {x} \in Bad => Cardinality(X \ {x}) \in T
    OBVIOUS
  <2>2. Cardinality(X) \in Nat /\ Cardinality(X \ {x}) \in Nat
    BY <1>1
  <2> HIDE DEF T, Bad
  <2> QED  BY <1>3, <1>4, <1>6, <2>1, <2>2
<1>8. X \ {x} = {} \/ Topped(X \ {x})
  BY <1>7
<1>9. Topped(X)
  <2>0. X \subseteq Nat
    OBVIOUS
  <2>1. CASE X \ {x} = {}
    BY <1>5, <2>0, <2>1
  <2>2. CASE Topped(X \ {x})
    <3>1. PICK y \in X \ {x} : \A k \in X \ {x} : k <= y
      BY <2>2
    <3>2. CASE x <= y
      BY <2>0, <3>1, <3>2
    <3>3. CASE ~(x <= y)
      <4>1. \A k \in X : k <= x
        BY <2>0, <3>1, <3>3
      <4> QED  BY <1>5, <4>1
    <3> QED  BY <3>2, <3>3
  <2> QED  BY <1>8, <2>1, <2>2
<1> QED
  BY <1>9

-----------------------------------------------------------------------------
(* What the members of a sequence at some places are (Picked) *)

LEMMA PlacesFinite ==
  ASSUME NEW n \in Nat, NEW P, P \subseteq 1..n
  PROVE  IsFiniteSet(P) /\ Cardinality(P) \in Nat
<1>1. IsFiniteSet(1..n)
  BY FS_Interval
<1>2. IsFiniteSet(P)
  BY <1>1, FS_Subset
<1> QED
  BY <1>2, FS_CardinalityType

\* Counting the places from the first on meets every number up to their count.
LEMMA NthPlace ==
  ASSUME NEW n \in Nat, NEW P, P \subseteq 1..n, NEW i \in 1..Cardinality(P)
  PROVE  /\ IsFiniteSet(P) /\ Cardinality(P) \in Nat /\ Nth(P, i) \in P
         /\ Cardinality({q \in P : q <= Nth(P, i)}) = i
<1> DEFINE U(m) == {q \in P : q <= m}
           T == {m \in 0..n : Cardinality(U(m)) >= i}
<1>0. \A q \in P : q \in Nat /\ 1 <= q /\ q <= n
  OBVIOUS
<1>1. IsFiniteSet(P) /\ Cardinality(P) \in Nat
  BY PlacesFinite
<1>2. ASSUME NEW m \in 0..n PROVE IsFiniteSet(U(m)) /\ Cardinality(U(m)) \in Nat
  BY <1>1, FS_Subset, FS_CardinalityType
<1>3. U(n) = P
  BY <1>0
<1>4. n \in T
  BY <1>1, <1>3
<1>5. PICK m \in T : \A k \in T : m <= k
  <2>1. T \subseteq Nat
    OBVIOUS
  <2> HIDE DEF T
  <2> QED  BY <1>4, <2>1, LeastMember
<1>6. m \in 0..n /\ Cardinality(U(m)) >= i
  OBVIOUS
<1>7. m # 0
  <2>0. \A q \in P : ~(q <= 0)
    BY <1>0
  <2>1. U(0) = {}
    BY <2>0
  <2>2. Cardinality(U(0)) = 0
    BY <2>1, FS_EmptySet
  <2> QED  BY <1>1, <1>6, <2>2
<1>8. m - 1 \in 0..n /\ m - 1 \notin T
  <2>1. m - 1 \in 0..n /\ ~(m <= m - 1)
    BY <1>6, <1>7
  <2> HIDE DEF T
  <2> QED  BY <1>5, <2>1
<1>9. Cardinality(U(m - 1)) < i /\ Cardinality(U(m - 1)) \in Nat /\ IsFiniteSet(U(m - 1))
  <2> DEFINE u == Cardinality(U(m - 1))
  <2>1. IsFiniteSet(U(m - 1)) /\ u \in Nat
    BY <1>2, <1>8
  <2>2. ~(u >= i)
    BY <1>8
  <2> HIDE DEF u
  <2>3. u < i
    BY <1>1, <2>1, <2>2
  <2> QED  BY <2>1, <2>3 DEF u
<1>10. m \in P /\ U(m) = U(m - 1) \cup {m} /\ m \notin U(m - 1)
  <2>1. ASSUME NEW q \in P, q # m PROVE q <= m <=> q <= m - 1
    BY <1>0, <1>6, <2>1
  <2>2. m \notin P => U(m) = U(m - 1)
    BY <2>1
  <2>3. m \in P
    BY <1>1, <1>6, <1>9, <2>2
  <2>4. m <= m /\ ~(m <= m - 1)
    BY <1>6
  <2> QED  BY <2>1, <2>3, <2>4
<1>11. Cardinality(U(m)) = Cardinality(U(m - 1)) + 1
  BY <1>9, <1>10, FS_AddElement
<1>12. Cardinality(U(m)) = i
  BY <1>1, <1>6, <1>9, <1>11
<1>13. \E p \in P : Cardinality({q \in P : q <= p}) = i
  BY <1>10, <1>12
<1> QED
  BY <1>1, <1>13 DEF Nth

\* The places of a set are met once each.
LEMMA NthMeetsAll ==
  ASSUME NEW n \in Nat, NEW P, P \subseteq 1..n
  PROVE  /\ IsFiniteSet(P) /\ Cardinality(P) \in Nat
         /\ \A i \in 1..Cardinality(P) : Nth(P, i) \in P
         /\ \A i, j \in 1..Cardinality(P) : Nth(P, i) = Nth(P, j) => i = j
         /\ \A p \in P : \E i \in 1..Cardinality(P) : Nth(P, i) = p
<1> DEFINE m == Cardinality(P)
           h == [i \in 1..m |-> Nth(P, i)]
<1>1. IsFiniteSet(P) /\ m \in Nat
  BY PlacesFinite
<1>2. \A i \in 1..m : Nth(P, i) \in P
  BY NthPlace
<1>3. ASSUME NEW i \in 1..m PROVE Cardinality({q \in P : q <= Nth(P, i)}) = i
  BY NthPlace
<1>4. \A i, j \in 1..m : Nth(P, i) = Nth(P, j) => i = j
  BY <1>3
<1> HIDE DEF m
<1>5. h \in [1..m -> P] /\ \A i, j \in 1..m : h[i] = h[j] => i = j
  BY <1>2, <1>4
<1>6. Cardinality(1..m) = m /\ IsFiniteSet(1..m)
  BY <1>1, FS_Interval
<1> HIDE DEF h
<1>7. h \in Injection(1..m, P)
  BY <1>5, Fun_IsInj
<1>8. h \in Surjection(1..m, P)
  BY <1>1, <1>6, <1>7, FS_Injection DEF m
<1>9. \A p \in P : \E i \in 1..m : h[i] = p
  BY <1>8 DEF Surjection
<1> QED
  BY <1>1, <1>2, <1>4, <1>9 DEF h, m

\* What is picked of s are members of s, from the places that were asked for.
LEMMA PickedPlaces ==
  ASSUME NEW S, NEW s \in Seq(S), NEW P, P \subseteq DOMAIN s
  PROVE  /\ Picked(s, P) \in Seq(S) /\ (Picked(s, P) = <<>> => P = {})
         /\ \A i \in DOMAIN Picked(s, P) : \E p \in P : Picked(s, P)[i] = s[p]
<1> DEFINE n == Len(s)
<1>1. n \in Nat /\ P \subseteq 1..n /\ \A p \in P : s[p] \in S
  OBVIOUS
<1> HIDE DEF n
<1>2. Cardinality(P) \in Nat /\ IsFiniteSet(P)
  BY <1>1, PlacesFinite
<1>3. \A i \in 1..Cardinality(P) : Nth(P, i) \in P
  BY <1>1, NthPlace
<1>4. Picked(s, P) \in [1..Cardinality(P) -> S]
  BY <1>1, <1>3 DEF Picked
<1>5. Picked(s, P) \in Seq(S) /\ Len(Picked(s, P)) = Cardinality(P)
  BY <1>2, <1>4, FunctionIsSeq
<1>6. Picked(s, P) = <<>> => P = {}
  <2>1. Picked(s, P) = <<>> => Cardinality(P) = 0
    BY <1>5
  <2> QED  BY <1>2, <2>1, FS_EmptySet
<1>7. \A i \in DOMAIN Picked(s, P) : \E p \in P : Picked(s, P)[i] = s[p]
  BY <1>3 DEF Picked
<1> QED
  BY <1>5, <1>6, <1>7

-----------------------------------------------------------------------------
(* Sums over finite sets (Total): what they do when holders come and go *)

\* What one holder has, counted, is its share.
LEMMA TotalOfOne ==
  ASSUME NEW f, NEW c, f[c] \in Nat
  PROVE  Total(f, {c}) = f[c]
<1>1. Units(f, {c}) = {c} \X (1..f[c])
  BY DEF Units
<1>2. IsFiniteSet(1..f[c]) /\ Cardinality(1..f[c]) = f[c]
  BY FS_Interval, SMTT(60)
<1>3. IsFiniteSet({c}) /\ Cardinality({c}) = 1
  BY FS_Singleton
<1>4. Cardinality({c} \X (1..f[c])) = 1 * f[c]
  BY <1>2, <1>3, FS_Product, ZenonT(60)
<1>5. 1 * f[c] = f[c]
  OBVIOUS
<1> QED
  BY <1>1, <1>4, <1>5 DEF Total

\* A finite set of holders has finitely many bytes.
LEMMA TotalType ==
  ASSUME NEW f, NEW S, IsFiniteSet(S), \A c \in S : f[c] \in Nat
  PROVE  IsFiniteSet(Units(f, S)) /\ Total(f, S) \in Nat
<1> DEFINE U == {{c} \X (1..f[c]) : c \in S}
           g == [c \in S |-> {c} \X (1..f[c])]
<1>1. g \in Surjection(S, U)
  BY DEF Surjection
<1>2. IsFiniteSet(U)
  <2> HIDE DEF U, g
  <2> QED  BY <1>1, FS_Surjection
<1>3. ASSUME NEW T \in U PROVE IsFiniteSet(T)
  <2>1. PICK c \in S : T = {c} \X (1..f[c])
    OBVIOUS
  <2>2. IsFiniteSet({c})
    BY FS_Singleton
  <2>3. 1 \in Int /\ f[c] \in Int
    OBVIOUS
  <2>4. IsFiniteSet(1..f[c])
    BY <2>3, FS_Interval
  <2> QED  BY <2>1, <2>2, <2>4, FS_Product
<1>4. IsFiniteSet(UNION U)
  <2> HIDE DEF U
  <2> QED  BY <1>2, <1>3, FS_UNION
<1> QED
  BY <1>4, FS_CardinalityType DEF Units, Total

\* Nobody has nothing.
LEMMA TotalOfNone ==
  ASSUME NEW f
  PROVE  Total(f, {}) = 0
<1>1. Units(f, {}) = {}
  BY DEF Units
<1> QED
  BY <1>1, FS_EmptySet DEF Total

\* What two sets without a common member hold adds up.
LEMMA TotalOfUnion ==
  ASSUME NEW f, NEW S, NEW T, IsFiniteSet(S), IsFiniteSet(T), S \cap T = {},
         \A c \in S \cup T : f[c] \in Nat
  PROVE  Total(f, S \cup T) = Total(f, S) + Total(f, T)
<1>1. Units(f, S \cup T) = Units(f, S) \cup Units(f, T)
  BY DEF Units
<1>2. Units(f, S) \cap Units(f, T) = {}
  BY DEF Units
<1>3. IsFiniteSet(Units(f, S)) /\ Total(f, S) \in Nat
  BY TotalType
<1>4. IsFiniteSet(Units(f, T)) /\ Total(f, T) \in Nat
  BY TotalType
<1>5. Cardinality(Units(f, S) \cap Units(f, T)) = 0
  BY <1>2, FS_EmptySet
<1>6. Cardinality(Units(f, S) \cup Units(f, T)) =
        Cardinality(Units(f, S)) + Cardinality(Units(f, T)) - 0
  BY <1>3, <1>4, <1>5, FS_Union
<1>7. Total(f, S \cup T) = Total(f, S) + Total(f, T) - 0
  BY <1>1, <1>6, Zenon DEF Total
<1> QED
  BY <1>3, <1>4, <1>7

\* One more holder adds its share.
LEMMA TotalAdd ==
  ASSUME NEW f, NEW S, IsFiniteSet(S), \A x \in S : f[x] \in Nat,
         NEW c, c \notin S, f[c] \in Nat
  PROVE  Total(f, S \cup {c}) = Total(f, S) + f[c]
<1>1. IsFiniteSet({c}) /\ S \cap {c} = {} /\ \A x \in S \cup {c} : f[x] \in Nat
  BY FS_Singleton
<1>2. Total(f, S \cup {c}) = Total(f, S) + Total(f, {c})
  BY <1>1, TotalOfUnion
<1> QED
  BY <1>2, TotalOfOne

\* Holders that leave take their share with them.
LEMMA TotalLess ==
  ASSUME NEW f, NEW S, IsFiniteSet(S), \A x \in S : f[x] \in Nat,
         NEW T, T \subseteq S
  PROVE  /\ Total(f, S \ T) = Total(f, S) - Total(f, T)
         /\ Total(f, T) \in Nat /\ Total(f, S \ T) \in Nat
<1>1. IsFiniteSet(T) /\ IsFiniteSet(S \ T)
  BY FS_Subset
<1>2. S = (S \ T) \cup T /\ (S \ T) \cap T = {}
  OBVIOUS
<1>3. Total(f, S) = Total(f, S \ T) + Total(f, T)
  <2>1. Total(f, (S \ T) \cup T) = Total(f, S \ T) + Total(f, T)
    BY <1>1, <1>2, TotalOfUnion
  <2> QED  BY <2>1, <1>2
<1>4. Total(f, S \ T) \in Nat /\ Total(f, T) \in Nat
  BY <1>1, TotalType
<1> QED
  BY <1>3, <1>4

\* A holder that leaves takes its share with it.
LEMMA TotalRemove ==
  ASSUME NEW f, NEW S, IsFiniteSet(S), \A x \in S : f[x] \in Nat, NEW c \in S
  PROVE  Total(f, S \ {c}) = Total(f, S) - f[c] /\ Total(f, S \ {c}) \in Nat
<1>1. /\ Total(f, S \ {c}) = Total(f, S) - Total(f, {c})
      /\ Total(f, S \ {c}) \in Nat
  BY TotalLess
<1> QED
  BY <1>1, TotalOfOne

\* The sum depends on the shares alone.
LEMMA TotalSame ==
  ASSUME NEW f, NEW g, NEW S, \A x \in S : f[x] = g[x]
  PROVE  Total(f, S) = Total(g, S)
<1>1. Units(f, S) = Units(g, S)
  BY DEF Units
<1> QED
  BY <1>1 DEF Total

OneToOne(h, S, T) ==
  /\ h \in [S -> T] /\ \A x, y \in S : h[x] = h[y] => x = y
  /\ \A y \in T : \E x \in S : h[x] = y

\* It does not depend on what the holders are called.
LEMMA TotalReindex ==
  ASSUME NEW S, NEW T, NEW h, OneToOne(h, S, T), IsFiniteSet(S),
         NEW f, NEW g, \A x \in S : f[x] = g[h[x]] /\ f[x] \in Nat
  PROVE  Total(f, S) = Total(g, T)
<1> USE DEF OneToOne
<1> DEFINE b == [u \in Units(f, S) |-> <<h[u[1]], u[2]>>]
<1>0. \A u : u \in Units(f, S) <=> \E x \in S : \E n \in 1..f[x] : u = <<x, n>>
  BY DEF Units
<1>00. \A u : u \in Units(g, T) <=> \E x \in T : \E n \in 1..g[x] : u = <<x, n>>
  BY DEF Units
<1>1. b \in [Units(f, S) -> Units(g, T)]
  BY <1>0, <1>00
<1>2. ASSUME NEW u \in Units(f, S), NEW v \in Units(f, S), b[u] = b[v] PROVE u = v
  <2>1. PICK x \in S : \E n \in 1..f[x] : u = <<x, n>>
    BY <1>0
  <2>2. PICK y \in S : \E m \in 1..f[y] : v = <<y, m>>
    BY <1>0
  <2>4. PICK n \in 1..f[x] : u = <<x, n>>
    BY <2>1
  <2>5. PICK m \in 1..f[y] : v = <<y, m>>
    BY <2>2
  <2>3. b[u] = <<h[x], n>> /\ b[v] = <<h[y], m>>
    BY <2>4, <2>5
  <2> HIDE DEF b
  <2>6. <<h[x], n>> = <<h[y], m>>
    BY <1>2, <2>3
  <2>7. h[x] = h[y] /\ n = m
    BY <2>6
  <2>8. x = y
    BY <2>7
  <2> QED  BY <2>4, <2>5, <2>7, <2>8
<1>3. ASSUME NEW w \in Units(g, T) PROVE \E u \in Units(f, S) : b[u] = w
  <2>0. PICK y \in T : \E n \in 1..g[y] : w = <<y, n>>
    BY <1>00
  <2>1. PICK n \in 1..g[y] : w = <<y, n>>
    BY <2>0
  <2>2. PICK x \in S : h[x] = y
    OBVIOUS
  <2>3. <<x, n>> \in Units(f, S)
    BY <1>0, <2>1, <2>2
  <2>4. b[<<x, n>>] = w
    BY <2>1, <2>2, <2>3
  <2> QED  BY <2>3, <2>4
<1> HIDE DEF b
<1>4. b \in Bijection(Units(f, S), Units(g, T))
  BY <1>1, <1>2, <1>3, Fun_IsBij
<1>5. ExistsBijection(Units(f, S), Units(g, T))
  BY <1>4, Fun_ExistsBij
<1>6. IsFiniteSet(Units(f, S))
  BY TotalType
<1> QED
  BY <1>5, <1>6, FS_Bijection DEF Total

\* One holder's share changes.
LEMMA TotalChanged ==
  ASSUME NEW S, IsFiniteSet(S), NEW f \in [S -> Nat], NEW c \in S, NEW n \in Nat
  PROVE  /\ Total([f EXCEPT ![c] = n], S) = Total(f, S) - f[c] + n
         /\ f[c] <= Total(f, S) /\ Total(f, S) \in Nat
<1> DEFINE g == [f EXCEPT ![c] = n]
           R == S \ {c}
<1>0. g \in [S -> Nat] /\ g[c] = n /\ \A x \in R : g[x] = f[x]
  OBVIOUS
<1> HIDE DEF g
<1>1. Total(f, R) = Total(f, S) - f[c] /\ Total(f, R) \in Nat /\ Total(f, S) \in Nat
  BY TotalRemove, TotalType
<1>2. Total(g, R) = Total(g, S) - n /\ Total(g, S) \in Nat
  BY <1>0, TotalRemove, TotalType
<1>3. Total(g, R) = Total(f, R)
  BY <1>0, TotalSame
<1> QED
  BY <1>1, <1>2, <1>3 DEF g
=============================================================================

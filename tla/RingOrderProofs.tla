-------------------------- MODULE RingOrderProofs ---------------------------
(***************************************************************************)
(* What InOrder makes of a set of distances when one is added behind the   *)
(* others, when the nearest is taken away, and when the reader moves.      *)
(***************************************************************************)
EXTENDS RingOrder, Sequences, FiniteSetTheorems, FunctionTheorems, SequenceTheorems, TLAPS

-----------------------------------------------------------------------------
(* The distances in S up to x.                                             *)
UpTo(S, x) == {y \in S : y <= x}

(* Counted from the nearest, the members of S are numbered from 1 up, each *)
(* with a number of its own.                                               *)
LEMMA Numbering ==
    ASSUME NEW S, IsFiniteSet(S), S \subseteq Int
    PROVE  /\ Cardinality(S) \in Nat
           /\ \A x \in S : IsFiniteSet(UpTo(S, x)) /\ Cardinality(UpTo(S, x)) \in 1 .. Cardinality(S)
           /\ \A x \in S : Nth(S, Cardinality(UpTo(S, x))) = x
           /\ \A i \in 1 .. Cardinality(S) : Nth(S, i) \in S /\ Cardinality(UpTo(S, Nth(S, i))) = i
<1>. DEFINE n == Cardinality(S)
            rank == [x \in S |-> Cardinality(UpTo(S, x))]
<1>1. n \in Nat
  BY FS_CardinalityType
<1>2. ASSUME NEW x \in S
      PROVE  IsFiniteSet(UpTo(S, x)) /\ Cardinality(UpTo(S, x)) \in 1 .. n
  <2>1. UpTo(S, x) \in SUBSET S /\ x \in UpTo(S, x)
    BY <1>2 DEF UpTo
  <2>2. IsFiniteSet(UpTo(S, x)) /\ Cardinality(UpTo(S, x)) <= n
    BY <2>1, FS_Subset
  <2>3. Cardinality(UpTo(S, x)) \in Nat /\ Cardinality(UpTo(S, x)) # 0
    BY <2>1, <2>2, FS_CardinalityType, FS_EmptySet
  <2>. QED  BY <1>1, <2>2, <2>3
<1>3. ASSUME NEW x \in S, NEW y \in S, x < y
      PROVE  Cardinality(UpTo(S, x)) # Cardinality(UpTo(S, y))
  <2>1. x \in Int /\ y \in Int /\ \A w \in S : w \in Int
    BY <1>3
  <2>2. y \in UpTo(S, y) /\ y \notin UpTo(S, x)
    BY <1>3, <2>1 DEF UpTo
  <2>3. UpTo(S, x) \in SUBSET UpTo(S, y)
    <3>1. \A w \in S : w <= x => w <= y
      BY <1>3, <2>1
    <3>. QED  BY <3>1 DEF UpTo
  <2>. QED  BY <1>2, <2>2, <2>3, FS_Subset
<1>4. ASSUME NEW x \in S, NEW y \in S, Cardinality(UpTo(S, x)) = Cardinality(UpTo(S, y))
      PROVE  x = y
  <2>1. x < y \/ y < x \/ x = y
    OBVIOUS
  <2>. QED  BY <1>3, <1>4, <2>1
<1>5. rank \in Injection(S, 1 .. n)
  BY <1>2, <1>4, Fun_IsInj
<1>6. IsFiniteSet(1 .. n) /\ Cardinality(1 .. n) = n
  BY <1>1, FS_Interval
<1>7. rank \in Surjection(S, 1 .. n)
  BY <1>5, <1>6, FS_Injection
<1>8. ASSUME NEW i \in 1 .. n PROVE \E x \in S : Cardinality(UpTo(S, x)) = i
  <2>. HIDE DEF rank, n
  <2>1. \E x \in S : rank[x] = i
    BY <1>7 DEF Surjection
  <2>. QED  BY <2>1 DEF rank
<1>9. \A i \in 1 .. n : Nth(S, i) \in S /\ Cardinality(UpTo(S, Nth(S, i))) = i
  BY <1>8 DEF Nth, UpTo
<1>10. ASSUME NEW x \in S PROVE Nth(S, Cardinality(UpTo(S, x))) = x
  BY <1>2, <1>4, <1>9
<1>. QED  BY <1>1, <1>2, <1>9, <1>10

(* Only what is at the members of S counts.                                *)
LEMMA SameContents ==
    ASSUME NEW S, IsFiniteSet(S), S \subseteq Int, NEW b, NEW c, \A x \in S : b[x] = c[x]
    PROVE  InOrder(S, b) = InOrder(S, c)
<1>1. \A i \in 1 .. Cardinality(S) : Nth(S, i) \in S
  BY Numbering
<1>. QED  BY <1>1 DEF InOrder

(* The sequence is one, of the contents.                                   *)
LEMMA InOrderType ==
    ASSUME NEW S, IsFiniteSet(S), S \subseteq Int, NEW c, NEW V, \A x \in S : c[x] \in V
    PROVE  /\ InOrder(S, c) \in Seq(V) /\ Len(InOrder(S, c)) = Cardinality(S)
           /\ \A i \in 1 .. Cardinality(S) : InOrder(S, c)[i] = c[Nth(S, i)]
<1>1. Cardinality(S) \in Nat /\ \A i \in 1 .. Cardinality(S) : Nth(S, i) \in S
  BY Numbering
<1>2. InOrder(S, c) \in [1 .. Cardinality(S) -> V]
  BY <1>1 DEF InOrder
<1>3. \A i \in 1 .. Cardinality(S) : InOrder(S, c)[i] = c[Nth(S, i)]
  BY DEF InOrder
<1>. QED  BY <1>1, <1>2, <1>3

(* What is behind all the others is the last of the sequence.              *)
LEMMA OrderAppend ==
    ASSUME NEW S, IsFiniteSet(S), S \subseteq Int, NEW z \in Int, \A x \in S : x < z, NEW c
    PROVE  InOrder(S \cup {z}, c) = Append(InOrder(S, c), c[z])
<1>. DEFINE T == S \cup {z}
            n == Cardinality(S)
<1>1. IsFiniteSet(T) /\ Cardinality(T) = n + 1 /\ n \in Nat /\ T \subseteq Int /\ z \in T
  BY FS_AddElement, FS_CardinalityType
<1>2. \A x \in S : UpTo(T, x) = UpTo(S, x)
  BY DEF UpTo
<1>3. UpTo(T, z) = T
  <2>1. \A x \in T : x <= z
    BY <1>1
  <2>. QED  BY <2>1 DEF UpTo
<1>4. ASSUME NEW i \in 1 .. n PROVE Nth(T, i) = Nth(S, i)
  <2>1. Nth(S, i) \in S /\ Cardinality(UpTo(S, Nth(S, i))) = i
    BY Numbering
  <2>2. Cardinality(UpTo(T, Nth(S, i))) = i
    BY <1>2, <2>1
  <2>. QED  BY <1>1, <2>1, <2>2, Numbering
<1>5. Nth(T, n + 1) = z
  <2>1. Cardinality(UpTo(T, z)) = n + 1
    BY <1>1, <1>3
  <2>. QED  BY <1>1, <2>1, Numbering
<1>6. \E U : Len(InOrder(S, c)) = n /\ InOrder(S, c) \in Seq(U)
  <2>1. PICK U : \A x \in S : c[x] \in U
    <3>1. \A x \in S : c[x] \in {c[y] : y \in S}
      OBVIOUS
    <3>. QED  BY <3>1
  <2>. QED  BY <2>1, InOrderType
<1>. HIDE DEF T, n
<1>7. InOrder(T, c) = [i \in 1 .. n + 1 |-> IF i = n + 1 THEN c[z] ELSE InOrder(S, c)[i]]
  <2>1. ASSUME NEW i \in 1 .. n + 1
        PROVE  c[Nth(T, i)] = IF i = n + 1 THEN c[z] ELSE InOrder(S, c)[i]
    <3>1. CASE i = n + 1
      BY <1>5, <3>1
    <3>2. CASE i # n + 1
      <4>1. i \in 1 .. n
        BY <1>1, <3>2
      <4>2. InOrder(S, c)[i] = c[Nth(S, i)]
        BY <4>1 DEF InOrder, n
      <4>. QED  BY <1>4, <3>2, <4>1, <4>2
    <3>. QED  BY <3>1, <3>2
  <2>. QED  BY <1>1, <2>1 DEF InOrder
<1>8. Append(InOrder(S, c), c[z]) = [i \in 1 .. n + 1 |-> IF i = n + 1 THEN c[z] ELSE InOrder(S, c)[i]]
  BY <1>1, <1>6
<1>. QED  BY <1>7, <1>8 DEF T

(* T is S seen from n slots further on, and c is b.                        *)
Shifted(S, b, T, c, n) ==
    /\ IsFiniteSet(S) /\ S \subseteq Int /\ n \in Int
    /\ T = {x - n : x \in S}
    /\ \A x \in S : b[x] = c[x - n]

(* The same at other distances, in the same order.                         *)
LEMMA OrderShift ==
    ASSUME NEW S, NEW b, NEW T, NEW c, NEW n, Shifted(S, b, T, c, n)
    PROVE  InOrder(T, c) = InOrder(S, b)
<1>. SUFFICES ASSUME IsFiniteSet(S), S \subseteq Int, n \in Int,
                     T = {x - n : x \in S}, \A x \in S : b[x] = c[x - n]
              PROVE  InOrder(T, c) = InOrder(S, b)
  BY DEF Shifted
<1>1. ASSUME NEW A \in SUBSET S, NEW B, B = {x - n : x \in A}
      PROVE  IsFiniteSet(B) /\ Cardinality(B) = Cardinality(A)
  <2>. DEFINE f == [x \in A |-> x - n]
  <2>1. f \in Injection(A, B)
    <3>1. f \in [A -> B]
      BY <1>1
    <3>2. \A x, y \in A : f[x] = f[y] => x = y
      BY <1>1
    <3>. QED  BY <3>1, <3>2, Fun_IsInj
  <2>2. f \in Surjection(A, B)
    <3>1. f \in [A -> B] /\ \A y \in B : \E x \in A : f[x] = y
      BY <1>1
    <3>. QED  BY <3>1, Fun_IsSurj
  <2>3. IsFiniteSet(A)
    BY FS_Subset
  <2>. HIDE DEF f
  <2>4. IsFiniteSet(B)
    BY <2>2, <2>3, FS_Surjection
  <2>. QED  BY <2>1, <2>2, <2>4, FS_Injection
<1>2. IsFiniteSet(T) /\ Cardinality(T) = Cardinality(S) /\ T \subseteq Int
  BY <1>1
<1>3. ASSUME NEW x \in S PROVE Cardinality(UpTo(T, x - n)) = Cardinality(UpTo(S, x))
  <2>1. ASSUME NEW y \in S PROVE y - n <= x - n <=> y <= x
    <3>1. x \in Int /\ y \in Int
      BY <1>3, <2>1
    <3>. QED  BY <3>1
  <2>2. UpTo(T, x - n) = {y - n : y \in UpTo(S, x)}
    BY <2>1 DEF UpTo
  <2>3. UpTo(S, x) \in SUBSET S
    BY DEF UpTo
  <2>. QED  BY <1>1, <2>2, <2>3
<1>4. ASSUME NEW i \in 1 .. Cardinality(S) PROVE b[Nth(S, i)] = c[Nth(T, i)]
  <2>1. Nth(S, i) \in S /\ Cardinality(UpTo(S, Nth(S, i))) = i
    BY Numbering
  <2>2. Nth(S, i) - n \in T /\ Cardinality(UpTo(T, Nth(S, i) - n)) = i
    BY <1>3, <2>1
  <2>3. Nth(T, i) = Nth(S, i) - n
    BY <1>2, <2>2, Numbering
  <2>. QED  BY <2>1, <2>3
<1>. QED  BY <1>2, <1>4 DEF InOrder

(* T is S and z in front of it.                                            *)
Preceded(S, z, T) ==
    IsFiniteSet(S) /\ S \subseteq Int /\ z \in Int /\ (\A x \in S : z < x) /\ T = S \cup {z}

(* Without what is in front of all the others the sequence is its tail.    *)
LEMMA OrderTail ==
    ASSUME NEW S, NEW z, NEW P, NEW c, Preceded(S, z, P)
    PROVE  InOrder(P, c) # <<>> /\ InOrder(S, c) = Tail(InOrder(P, c))
<1>. SUFFICES ASSUME IsFiniteSet(S), S \subseteq Int, z \in Int, \A x \in S : z < x
              PROVE  InOrder(S \cup {z}, c) # <<>> /\ InOrder(S, c) = Tail(InOrder(S \cup {z}, c))
  BY DEF Preceded
<1>. DEFINE T == S \cup {z}
            n == Cardinality(S)
            Q == InOrder(T, c)
<1>0. PICK U : \A x \in T : c[x] \in U
  <2>1. \A x \in T : c[x] \in {c[y] : y \in T}
    OBVIOUS
  <2>. QED  BY <2>1
<1>1. IsFiniteSet(T) /\ Cardinality(T) = n + 1 /\ n \in Nat /\ T \subseteq Int
  BY FS_AddElement, FS_CardinalityType
<1>2. ASSUME NEW x \in S PROVE Cardinality(UpTo(T, x)) = Cardinality(UpTo(S, x)) + 1
  <2>1. UpTo(T, x) = UpTo(S, x) \cup {z} /\ z \notin UpTo(S, x)
    BY DEF UpTo
  <2>2. IsFiniteSet(UpTo(S, x))
    BY Numbering
  <2>. QED  BY <2>1, <2>2, FS_AddElement
<1>3. ASSUME NEW i \in 1 .. n PROVE Nth(T, i + 1) = Nth(S, i)
  <2>1. Nth(S, i) \in S /\ Cardinality(UpTo(S, Nth(S, i))) = i
    BY Numbering
  <2>2. Cardinality(UpTo(T, Nth(S, i))) = i + 1 /\ Nth(S, i) \in T
    BY <1>2, <2>1
  <2>. QED  BY <1>1, <2>1, <2>2, Numbering
<1>4. /\ Q \in Seq(U) /\ Len(Q) = n + 1
      /\ \A i \in 1 .. n + 1 : Q[i] = c[Nth(T, i)]
  BY <1>0, <1>1, InOrderType
<1>. HIDE DEF T, n, Q
<1>5. Q # <<>> /\ Len(Q) - 1 = n
  BY <1>1, <1>4
<1>6. PICK t : t = Tail(Q)
  OBVIOUS
<1>7. t \in Seq(U) /\ Len(t) = n /\ \A i \in 1 .. n : t[i] = Q[i + 1]
  BY <1>4, <1>5, <1>6, HeadTailProperties, Zenon
<1>8. t \in [1 .. n -> U]
  BY <1>7
<1>9. ASSUME NEW i \in 1 .. n PROVE t[i] = c[Nth(S, i)]
  <2>1. i + 1 \in 1 .. n + 1
    BY <1>1
  <2>. QED  BY <1>3, <1>4, <1>7, <2>1
<1>10. InOrder(S, c) = t
  BY <1>8, <1>9 DEF InOrder, n
<1>. QED  BY <1>5, <1>6, <1>10 DEF Q, T

=============================================================================

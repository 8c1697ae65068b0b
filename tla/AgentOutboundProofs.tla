------------------------ MODULE AgentOutboundProofs ------------------------
(***************************************************************************)
(* Proofs about AgentOutbound, for any loads and limits: no message or     *)
(* image is forgotten or doubled, a message is overtaken only through the  *)
(* buffer, a chunk stays on its connection, and the end of a turn is given *)
(* up only where nothing else could be.                                    *)
(***************************************************************************)
EXTENDS AgentOutbound, SequenceTheorems, FiniteSetTheorems, WellFoundedInduction, TLAPS

(* Sequences of whatever they hold *)

Sequence(s) == s \in Seq({s[i] : i \in DOMAIN s})

LEMMA SequenceOf ==
    ASSUME NEW S, NEW s \in Seq(S)
    PROVE  Sequence(s)
<1>1. s \in [1..Len(s) -> S] /\ Len(s) \in Nat /\ DOMAIN s = 1..Len(s)
  BY LenProperties
<1>2. s \in [1..Len(s) -> {s[i] : i \in DOMAIN s}]
  BY <1>1
<1>. QED
  BY <1>1, <1>2, SeqDef DEF Sequence

LEMMA SequenceShape ==
    ASSUME NEW s, Sequence(s)
    PROVE  Len(s) \in Nat /\ DOMAIN s = 1..Len(s) /\ (s = <<>> <=> Len(s) = 0)
BY LenProperties, EmptySeq DEF Sequence

LEMMA EmptyShape == Sequence(<<>>) /\ Len(<<>>) = 0 /\ DOMAIN <<>> = {}
<1>1. <<>> \in Seq({}) /\ Len(<<>>) = 0
  BY EmptySeq
<1>2. Sequence(<<>>)
  BY <1>1, SequenceOf
<1>3. 1..0 = {}
  OBVIOUS
<1>. QED
  BY <1>1, <1>2, <1>3, SequenceShape

LEMMA AppendShape ==
    ASSUME NEW s, Sequence(s), NEW e
    PROVE  /\ Sequence(Append(s, e)) /\ Len(Append(s, e)) = Len(s) + 1
           /\ \A i \in 1..Len(s) : Append(s, e)[i] = s[i]
           /\ Append(s, e)[Len(s) + 1] = e
<1>. DEFINE S == {s[i] : i \in DOMAIN s} \cup {e}
<1>1. s \in Seq(S)
  BY SeqMonotonic DEF Sequence
<1>. HIDE DEF S
<1>2. e \in S
  BY DEF S
<1>3. /\ Append(s, e) \in Seq(S) /\ Len(Append(s, e)) = Len(s) + 1
      /\ \A i \in 1..Len(s) : Append(s, e)[i] = s[i]
      /\ Append(s, e)[Len(s) + 1] = e
  BY <1>1, <1>2, AppendProperties
<1>4. Sequence(Append(s, e))
  BY <1>3, SequenceOf
<1>. QED
  BY <1>3, <1>4

LEMMA RemoveShape ==
    ASSUME NEW s, Sequence(s), NEW i \in 1..Len(s)
    PROVE  /\ Sequence(RemoveAt(s, i)) /\ Len(RemoveAt(s, i)) = Len(s) - 1
           /\ \A j \in 1..(Len(s) - 1) : RemoveAt(s, i)[j] = s[IF j < i THEN j ELSE j + 1]
<1>s. PICK S : S = {s[k] : k \in DOMAIN s}
  OBVIOUS
<1>1. s \in Seq(S) /\ Len(s) \in Nat /\ \A k \in 1..Len(s) : s[k] \in S
  BY <1>s, SequenceShape DEF Sequence
<1>n. PICK n \in Nat : n = Len(s)
  BY <1>1
<1>a. PICK a : a = SubSeq(s, 1, i - 1)
  OBVIOUS
<1>b. PICK b : b = SubSeq(s, i + 1, n)
  OBVIOUS
<1>c. PICK c : c = a \o b
  OBVIOUS
<1>2. a \in Seq(S) /\ Len(a) = i - 1 /\ \A k \in 1..(i - 1) : a[k] = s[k]
  <2>1. \A k \in 1..(i - 1) : s[k] \in S
    BY <1>1, <1>n
  <2>. QED
    BY <1>a, <1>n, <2>1, SubSeqProperties
<1>3. b \in Seq(S) /\ Len(b) = n - i /\ \A k \in 1..(n - i) : b[k] = s[i + k]
  <2>1. \A k \in (i + 1)..n : s[k] \in S
    BY <1>1, <1>n
  <2>. QED
    BY <1>b, <1>n, <2>1, SubSeqProperties
<1>4. RemoveAt(s, i) = c
  BY <1>a, <1>b, <1>c, <1>n DEF RemoveAt
<1>5. /\ c \in Seq(S) /\ Len(c) = Len(a) + Len(b)
      /\ \A j \in 1..(Len(a) + Len(b)) : c[j] = IF j <= Len(a) THEN a[j] ELSE b[j - Len(a)]
  BY <1>2, <1>3, <1>c, ConcatProperties
<1>6. i \in 1..n
  BY <1>n
<1>7. ASSUME NEW j \in 1..(n - 1) PROVE c[j] = s[IF j < i THEN j ELSE j + 1]
  <2>1. c[j] = IF j <= i - 1 THEN a[j] ELSE b[j - (i - 1)]
    <3>1. j \in 1..(Len(a) + Len(b))
      BY <1>2, <1>3, <1>6
    <3>. QED
      BY <1>2, <1>5, <3>1
  <2>2. CASE j < i
    BY <1>2, <1>6, <2>1, <2>2
  <2>3. CASE ~(j < i)
    <3>1. j - (i - 1) \in 1..(n - i) /\ i + (j - (i - 1)) = j + 1 /\ ~(j <= i - 1)
      BY <1>6, <2>3
    <3>2. b[j - (i - 1)] = s[i + (j - (i - 1))]
      BY <1>3, <3>1
    <3>. QED
      BY <2>1, <2>3, <3>1, <3>2
  <2>. QED
    BY <2>2, <2>3
<1>8. Len(c) = n - 1
  BY <1>2, <1>3, <1>5, <1>6
<1>9. Sequence(c)
  BY <1>5, SequenceOf
<1>. QED
  BY <1>n, <1>4, <1>7, <1>8, <1>9

LEMMA TailShape ==
    ASSUME NEW s, Sequence(s), s # <<>>
    PROVE  /\ Sequence(Tail(s)) /\ Len(Tail(s)) = Len(s) - 1 /\ Len(s) >= 1
           /\ Head(s) = s[1]
           /\ \A j \in 1..(Len(s) - 1) : Tail(s)[j] = s[j + 1]
           /\ Tail(s) = RemoveAt(s, 1)
<1>. PICK S : S = {s[k] : k \in DOMAIN s}
  OBVIOUS
<1>1. s \in Seq(S) /\ Len(s) \in Nat /\ Len(s) # 0
  BY SequenceShape DEF Sequence
<1>2. /\ Tail(s) \in Seq(S) /\ Len(Tail(s)) = Len(s) - 1
      /\ \A j \in 1..Len(Tail(s)) : Tail(s)[j] = s[j + 1]
  BY <1>1, HeadTailProperties
<1>3. Head(s) = s[1]
  BY <1>1
<1>4. Tail(s) = RemoveAt(s, 1)
  <2>. PICK r : r = RemoveAt(s, 1)
    OBVIOUS
  <2>1. /\ Sequence(r) /\ Len(r) = Len(s) - 1
        /\ \A j \in 1..(Len(s) - 1) : r[j] = s[j + 1]
    <3>1. 1 \in 1..Len(s) /\ Len(s) \in Nat
      BY <1>1
    <3>2. Sequence(r) /\ Len(r) = Len(s) - 1
      BY <3>1, RemoveShape
    <3>3. \A j \in 1..(Len(s) - 1) : r[j] = s[IF j < 1 THEN j ELSE j + 1]
      BY <3>1, RemoveShape
    <3>. QED
      BY <3>1, <3>2, <3>3
  <2>2. \A j \in 1..Len(r) : r[j] \in S
    BY <1>1, <2>1
  <2>3. r \in Seq(S)
    <3>1. Len(r) \in Nat /\ DOMAIN r = 1..Len(r)
      BY <2>1, SequenceShape
    <3>2. r \in Seq({r[i] : i \in DOMAIN r})
      BY <2>1 DEF Sequence
    <3>3. {r[i] : i \in DOMAIN r} \subseteq S
      BY <2>2, <3>1
    <3>. QED
      BY <3>2, <3>3, SeqMonotonic
  <2>. QED
    BY <1>2, <2>1, <2>3, SeqEqual
<1>5. Sequence(Tail(s))
  BY <1>2, SequenceOf
<1>. QED
  BY <1>1, <1>2, <1>3, <1>4, <1>5

LEMMA UpdateShape ==
    ASSUME NEW s, Sequence(s), NEW i \in 1..Len(s), NEW e
    PROVE  /\ Sequence([s EXCEPT ![i] = e]) /\ Len([s EXCEPT ![i] = e]) = Len(s)
           /\ \A j \in 1..Len(s) : [s EXCEPT ![i] = e][j] = IF j = i THEN e ELSE s[j]
<1>. DEFINE S == {s[k] : k \in DOMAIN s} \cup {e}
<1>1. s \in Seq(S)
  BY SeqMonotonic DEF Sequence
<1>. HIDE DEF S
<1>2. e \in S
  BY DEF S
<1>3. /\ [s EXCEPT ![i] = e] \in Seq(S) /\ Len([s EXCEPT ![i] = e]) = Len(s)
      /\ \A j \in 1..Len(s) : [s EXCEPT ![i] = e][j] = IF j = i THEN e ELSE s[j]
  BY <1>1, <1>2, ExceptSeq
<1>4. Sequence([s EXCEPT ![i] = e])
  BY <1>3, SequenceOf
<1>. QED
  BY <1>3, <1>4

\* The first element of a sequence that is in a set, if there is one.
LEMMA LeastNatural ==
    ASSUME NEW T, T \subseteq Nat, T # {}
    PROVE  \E m \in T : \A k \in T : m <= k
<1>. DEFINE R == {p \in Nat \X Nat : p[1] < p[2]}
<1>1. IsWellFoundedOn(R, Nat)
  <2>1. R = OpToRel(<, Nat)
    BY DEF OpToRel
  <2>. QED
    BY <2>1, NatLessThanWellFounded
<1>2. PICK m \in T : \A k \in T : ~(<<k, m>> \in R)
  BY <1>1, WFMin
<1>3. \A k \in T : m <= k
  <2>. SUFFICES ASSUME NEW k \in T, k < m PROVE FALSE
    OBVIOUS
  <2>1. <<k, m>> \in Nat \X Nat /\ <<k, m>>[1] < <<k, m>>[2]
    OBVIOUS
  <2>. QED
    BY <1>2, <2>1
<1>. QED
  BY <1>3

LEMMA MinIsLeast ==
    ASSUME NEW T, T \subseteq Nat, T # {}
    PROVE  Min(T) \in T /\ \A k \in T : Min(T) <= k
BY LeastNatural DEF Min

-----------------------------------------------------------------------------
(* How often a sequence holds elements of a set *)

Places(s, M) == {i \in DOMAIN s : s[i] \in M}
One(e, M) == IF e \in M THEN 1 ELSE 0

\* The same for the rests of the flushes: pairs of a flush and a place in it.
Pairs(fl, M) == {p \in (DOMAIN fl) \X (1..BufferSize) :
    p[2] \in DOMAIN fl[p[1]].rest /\ fl[p[1]].rest[p[2]] \in M}

LEMMA SameSize ==
    ASSUME NEW S, NEW T, IsFiniteSet(S), NEW f \in [S -> T],
           \A x, y \in S : f[x] = f[y] => x = y,
           \A t \in T : \E x \in S : f[x] = t
    PROVE  IsFiniteSet(T) /\ Cardinality(T) = Cardinality(S)
<1>1. f \in Bijection(S, T)
  BY DEF Bijection, Injection, Surjection, IsInjective
<1>. QED
  BY <1>1, FS_Bijection DEF ExistsBijection

LEMMA PlacesAreFinite ==
    ASSUME NEW s, Sequence(s), NEW M
    PROVE  IsFiniteSet(Places(s, M)) /\ Cardinality(Places(s, M)) \in Nat
<1>1. Len(s) \in Nat /\ Places(s, M) \in SUBSET (1..Len(s))
  BY SequenceShape DEF Places
<1>2. IsFiniteSet(1..Len(s))
  BY <1>1, FS_Interval
<1>. QED
  BY <1>1, <1>2, FS_Subset, FS_CardinalityType

LEMMA NoPlaces ==
    ASSUME NEW M
    PROVE  Places(<<>>, M) = {} /\ Cardinality(Places(<<>>, M)) = 0
BY EmptyShape, FS_EmptySet DEF Places

LEMMA PlacesAppend ==
    ASSUME NEW s, Sequence(s), NEW e, NEW M
    PROVE  Cardinality(Places(Append(s, e), M)) = Cardinality(Places(s, M)) + One(e, M)
<1>n. PICK n \in Nat : n = Len(s)
  BY SequenceShape
<1>t. PICK t : t = Append(s, e)
  OBVIOUS
<1>1. /\ DOMAIN s = 1..n /\ DOMAIN t = 1..(n + 1)
      /\ \A i \in 1..n : t[i] = s[i]
      /\ t[n + 1] = e
  BY <1>n, <1>t, AppendShape, SequenceShape
<1>2. IsFiniteSet(Places(s, M)) /\ Cardinality(Places(s, M)) \in Nat
  BY PlacesAreFinite
<1>3. CASE e \in M
  <2>1. Places(t, M) = Places(s, M) \cup {n + 1} /\ n + 1 \notin Places(s, M)
    BY <1>1, <1>3 DEF Places
  <2>2. Cardinality(Places(s, M) \cup {n + 1}) = Cardinality(Places(s, M)) + 1
    BY <1>2, <2>1, FS_AddElement
  <2>. QED
    BY <1>t, <1>3, <2>1, <2>2 DEF One
<1>4. CASE e \notin M
  <2>1. Places(t, M) = Places(s, M)
    BY <1>1, <1>4 DEF Places
  <2>. QED
    BY <1>t, <1>2, <1>4, <2>1 DEF One
<1>. QED
  BY <1>3, <1>4

LEMMA PlacesRemove ==
    ASSUME NEW s, Sequence(s), NEW i \in 1..Len(s), NEW M
    PROVE  Cardinality(Places(RemoveAt(s, i), M)) = Cardinality(Places(s, M)) - One(s[i], M)
<1>n. PICK n \in Nat : n = Len(s)
  BY SequenceShape
<1>t. PICK t : t = RemoveAt(s, i)
  OBVIOUS
<1>1. i \in 1..n /\ DOMAIN s = 1..n
  BY <1>n, SequenceShape
<1>2. /\ DOMAIN t = 1..(n - 1)
      /\ \A j \in 1..(n - 1) : t[j] = s[IF j < i THEN j ELSE j + 1]
  BY <1>n, <1>t, RemoveShape, SequenceShape
<1>3. IsFiniteSet(Places(s, M)) /\ Cardinality(Places(s, M)) \in Nat
  BY PlacesAreFinite
<1>4. IsFiniteSet(Places(t, M)) /\ Cardinality(Places(t, M)) \in Nat
  BY <1>t, RemoveShape, PlacesAreFinite
<1>f. PICK f : f = [j \in Places(t, M) |-> IF j < i THEN j ELSE j + 1]
  OBVIOUS
<1>5. f \in [Places(t, M) -> Places(s, M) \ {i}]
  BY <1>f, <1>1, <1>2 DEF Places
<1>6. \A j, k \in Places(t, M) : f[j] = f[k] => j = k
  BY <1>f, <1>1, <1>2 DEF Places
<1>7. ASSUME NEW k \in Places(s, M) \ {i} PROVE \E j \in Places(t, M) : f[j] = k
  <2>1. k \in 1..n /\ s[k] \in M /\ k # i
    BY <1>1, <1>7 DEF Places
  <2>2. CASE k < i
    <3>1. k \in Places(t, M)
      BY <1>1, <1>2, <2>1, <2>2 DEF Places
    <3>. QED
      BY <1>f, <2>2, <3>1
  <2>3. CASE k > i
    <3>1. k - 1 \in 1..(n - 1) /\ ~(k - 1 < i) /\ (k - 1) + 1 = k
      BY <1>1, <2>1, <2>3
    <3>2. k - 1 \in Places(t, M)
      BY <1>2, <2>1, <3>1 DEF Places
    <3>. QED
      BY <1>f, <3>1, <3>2
  <2>. QED
    BY <1>1, <2>1, <2>2, <2>3
<1>8. Cardinality(Places(s, M) \ {i}) = Cardinality(Places(t, M))
  BY <1>4, <1>5, <1>6, <1>7, SameSize
<1>9. Cardinality(Places(s, M) \ {i}) = Cardinality(Places(s, M)) - One(s[i], M)
  <2>1. i \in Places(s, M) <=> s[i] \in M
    BY <1>1 DEF Places
  <2>p. PICK P : P = Places(s, M)
    OBVIOUS
  <2>2. Cardinality(P \ {i}) = IF i \in P THEN Cardinality(P) - 1 ELSE Cardinality(P)
    BY <1>3, <2>p, FS_RemoveElement
  <2>. QED
    BY <1>3, <2>p, <2>1, <2>2 DEF One
<1>. QED
  BY <1>t, <1>8, <1>9

LEMMA PlacesTail ==
    ASSUME NEW s, Sequence(s), s # <<>>, NEW M
    PROVE  Cardinality(Places(Tail(s), M)) = Cardinality(Places(s, M)) - One(Head(s), M)
<1>1. Len(s) \in Nat /\ 1 \in 1..Len(s) /\ Tail(s) = RemoveAt(s, 1) /\ Head(s) = s[1]
  BY SequenceShape, TailShape
<1>2. Cardinality(Places(RemoveAt(s, 1), M)) = Cardinality(Places(s, M)) - One(s[1], M)
  BY <1>1, PlacesRemove
<1>. QED
  BY <1>1, <1>2

Flushes(fl) ==
    /\ Sequence(fl)
    /\ \A i \in DOMAIN fl : Sequence(fl[i].rest) /\ Len(fl[i].rest) <= BufferSize

LEMMA PairsAreFinite ==
    ASSUME NEW fl, Flushes(fl), NEW M
    PROVE  IsFiniteSet(Pairs(fl, M)) /\ Cardinality(Pairs(fl, M)) \in Nat
<1>1. Len(fl) \in Nat /\ DOMAIN fl = 1..Len(fl) /\ BufferSize \in Nat
  BY SequenceShape, OutboundAssumption DEF Flushes
<1>2. IsFiniteSet(1..Len(fl)) /\ IsFiniteSet(1..BufferSize)
  BY <1>1, FS_Interval
<1>3. IsFiniteSet((1..Len(fl)) \X (1..BufferSize))
  BY <1>2, FS_Product
<1>4. Pairs(fl, M) \in SUBSET ((1..Len(fl)) \X (1..BufferSize))
  BY <1>1 DEF Pairs
<1>. QED
  BY <1>3, <1>4, FS_Subset, FS_CardinalityType

LEMMA NoPairs ==
    ASSUME NEW M
    PROVE  Pairs(<<>>, M) = {} /\ Cardinality(Pairs(<<>>, M)) = 0 /\ Flushes(<<>>)
BY EmptyShape, FS_EmptySet DEF Pairs, Flushes

\* Places of a flush, one pair for each.
LEMMA PairsIn ==
    ASSUME NEW fl, NEW i \in DOMAIN fl, NEW j, NEW M,
           Sequence(fl[i].rest), Len(fl[i].rest) <= BufferSize
    PROVE  <<i, j>> \in Pairs(fl, M) <=> j \in Places(fl[i].rest, M)
<1>1. Len(fl[i].rest) \in Nat /\ DOMAIN fl[i].rest = 1..Len(fl[i].rest) /\ BufferSize \in Nat
  BY SequenceShape, OutboundAssumption
<1>2. j \in 1..Len(fl[i].rest) => j \in 1..BufferSize
  BY <1>1
<1>3. <<i, j>>[1] = i /\ <<i, j>>[2] = j
  OBVIOUS
<1>. QED
  BY <1>1, <1>2, <1>3 DEF Pairs, Places

LEMMA PairsAre ==
    ASSUME NEW fl, NEW M, NEW p \in Pairs(fl, M)
    PROVE  /\ p = <<p[1], p[2]>> /\ p[1] \in DOMAIN fl
           /\ p[2] \in Places(fl[p[1]].rest, M)
BY DEF Pairs, Places

LEMMA PairsAppend ==
    ASSUME NEW fl, Flushes(fl), NEW e, Sequence(e.rest), Len(e.rest) <= BufferSize, NEW M
    PROVE  /\ Flushes(Append(fl, e))
           /\ Cardinality(Pairs(Append(fl, e), M))
                = Cardinality(Pairs(fl, M)) + Cardinality(Places(e.rest, M))
<1>n. PICK n \in Nat : n = Len(fl)
  BY SequenceShape DEF Flushes
<1>g. PICK g : g = Append(fl, e)
  OBVIOUS
<1>1. /\ DOMAIN fl = 1..n /\ DOMAIN g = 1..(n + 1) /\ Sequence(g)
      /\ \A i \in 1..n : g[i] = fl[i]
      /\ g[n + 1] = e
  BY <1>n, <1>g, AppendShape, SequenceShape DEF Flushes
<1>2. Flushes(g)
  BY <1>1 DEF Flushes
<1>p. PICK P : P = Pairs(fl, M)
  OBVIOUS
<1>r. PICK R : R = Places(e.rest, M)
  OBVIOUS
<1>b. PICK B : B = {<<n + 1, j>> : j \in R}
  OBVIOUS
<1>3. IsFiniteSet(P) /\ Cardinality(P) \in Nat
  BY <1>p, PairsAreFinite
<1>4. IsFiniteSet(R) /\ Cardinality(R) \in Nat
  BY <1>r, PlacesAreFinite
<1>5. IsFiniteSet(B) /\ Cardinality(B) = Cardinality(R)
  <2>f. PICK f : f = [j \in R |-> <<n + 1, j>>]
    OBVIOUS
  <2>1. f \in [R -> B]
    BY <1>b, <2>f
  <2>2. \A j, k \in R : f[j] = f[k] => j = k
    BY <2>f
  <2>3. \A b \in B : \E j \in R : f[j] = b
    BY <1>b, <2>f
  <2>. QED
    BY <1>4, <2>1, <2>2, <2>3, SameSize
<1>6. Pairs(g, M) = P \cup B
  <2>1. ASSUME NEW p \in Pairs(g, M) PROVE p \in P \cup B
    <3>1. /\ p = <<p[1], p[2]>> /\ p[1] \in 1..(n + 1)
          /\ p[2] \in Places(g[p[1]].rest, M)
      BY <1>1, <2>1, PairsAre
    <3>2. CASE p[1] = n + 1
      BY <1>1, <1>r, <1>b, <3>1, <3>2
    <3>3. CASE p[1] \in 1..n
      <4>1. p[1] \in DOMAIN fl /\ g[p[1]] = fl[p[1]]
        BY <1>1, <3>3
      <4>2. Sequence(fl[p[1]].rest) /\ Len(fl[p[1]].rest) <= BufferSize
        BY <4>1 DEF Flushes
      <4>3. <<p[1], p[2]>> \in P <=> p[2] \in Places(fl[p[1]].rest, M)
        BY <1>p, <4>1, <4>2, PairsIn
      <4>. QED
        BY <3>1, <4>1, <4>3
    <3>. QED
      BY <3>1, <3>2, <3>3
  <2>2. ASSUME NEW p \in P PROVE p \in Pairs(g, M)
    <3>1. p = <<p[1], p[2]>> /\ p[1] \in 1..n /\ p[2] \in Places(fl[p[1]].rest, M)
      BY <1>1, <1>p, <2>2, PairsAre
    <3>2. p[1] \in DOMAIN g /\ g[p[1]] = fl[p[1]]
      BY <1>1, <3>1
    <3>3. <<p[1], p[2]>> \in Pairs(g, M)
      BY <1>2, <3>1, <3>2, PairsIn DEF Flushes
    <3>. QED
      BY <3>1, <3>3
  <2>3. ASSUME NEW j \in R PROVE <<n + 1, j>> \in Pairs(g, M)
    <3>1. n + 1 \in DOMAIN g
      BY <1>1
    <3>. QED
      BY <1>1, <1>r, <2>3, <3>1, PairsIn
  <2>. QED
    BY <1>b, <2>1, <2>2, <2>3
<1>7. P \cap B = {}
  <2>1. \A p \in P : p[1] # n + 1
    BY <1>1, <1>p DEF Pairs
  <2>2. \A p \in B : p[1] = n + 1
    BY <1>b
  <2>. QED
    BY <2>1, <2>2
<1>8. Cardinality(P \cup B) = Cardinality(P) + Cardinality(B)
  <2>1. Cardinality(P \cup B) = Cardinality(P) + Cardinality(B) - Cardinality(P \cap B)
    BY <1>3, <1>5, FS_Union
  <2>2. Cardinality(P \cap B) = 0
    BY <1>7, FS_EmptySet
  <2>3. Cardinality(P) \in Nat /\ Cardinality(B) \in Nat
    BY <1>3, <1>4, <1>5
  <2>. QED
    BY <2>1, <2>2, <2>3
<1>. QED
  BY <1>2, <1>5, <1>6, <1>8, <1>g, <1>p, <1>r

\* The first message of a flush is taken out of it.
LEMMA PairsTake ==
    ASSUME NEW fl, Flushes(fl), NEW i \in DOMAIN fl, fl[i].rest # <<>>,
           NEW e, e.rest = Tail(fl[i].rest), NEW M
    PROVE  /\ Flushes([fl EXCEPT ![i] = e])
           /\ Cardinality(Pairs([fl EXCEPT ![i] = e], M))
                = Cardinality(Pairs(fl, M)) - One(Head(fl[i].rest), M)
<1>n. PICK n \in Nat : n = Len(fl) /\ DOMAIN fl = 1..n
  BY SequenceShape DEF Flushes
<1>g. PICK g : g = [fl EXCEPT ![i] = e]
  OBVIOUS
<1>s. PICK s : s = fl[i].rest
  OBVIOUS
<1>1. /\ Sequence(s) /\ Len(s) <= BufferSize /\ s # <<>> /\ Len(s) \in Nat /\ DOMAIN s = 1..Len(s)
  BY <1>s, SequenceShape DEF Flushes
<1>2. /\ Sequence(e.rest) /\ Len(e.rest) = Len(s) - 1 /\ Head(s) = s[1] /\ Len(s) >= 1
      /\ DOMAIN e.rest = 1..(Len(s) - 1)
      /\ \A j \in 1..(Len(s) - 1) : e.rest[j] = s[j + 1]
  BY <1>1, <1>s, TailShape, SequenceShape
<1>3. /\ DOMAIN g = 1..n /\ Sequence(g) /\ g[i] = e
      /\ \A k \in 1..n : k # i => g[k] = fl[k]
  BY <1>n, <1>g, UpdateShape, SequenceShape DEF Flushes
<1>4. Flushes(g)
  <2>1. Len(e.rest) <= BufferSize
    BY <1>1, <1>2, OutboundAssumption
  <2>. QED
    BY <1>2, <1>3, <1>n, <2>1 DEF Flushes
<1>p. PICK P : P = Pairs(fl, M)
  OBVIOUS
<1>q. PICK Q : Q = Pairs(g, M)
  OBVIOUS
<1>5. IsFiniteSet(P) /\ Cardinality(P) \in Nat /\ IsFiniteSet(Q) /\ Cardinality(Q) \in Nat
  BY <1>p, <1>q, <1>4, PairsAreFinite
<1>6. \A j : <<i, j>> \in P <=> j \in Places(s, M)
  BY <1>1, <1>p, <1>s, PairsIn
<1>7. \A j : <<i, j>> \in Q <=> j \in Places(e.rest, M)
  BY <1>q, <1>3, <1>4, <1>n, PairsIn DEF Flushes
<1>8. \A k \in 1..n : \A j : k # i => (<<k, j>> \in P <=> <<k, j>> \in Q)
  <2>. SUFFICES ASSUME NEW k \in 1..n, NEW j, k # i PROVE <<k, j>> \in P <=> <<k, j>> \in Q
    OBVIOUS
  <2>1. <<k, j>> \in P <=> j \in Places(fl[k].rest, M)
    BY <1>p, <1>n, PairsIn DEF Flushes
  <2>2. <<k, j>> \in Q <=> j \in Places(g[k].rest, M)
    BY <1>q, <1>3, <1>4, PairsIn DEF Flushes
  <2>. QED
    BY <1>3, <2>1, <2>2
<1>9. \A j : j \in Places(e.rest, M) <=> (j + 1 \in Places(s, M) /\ j \in 1..(Len(s) - 1))
  BY <1>1, <1>2 DEF Places
<1>f. PICK f : f = [p \in Q |-> IF p[1] = i THEN <<i, p[2] + 1>> ELSE p]
  OBVIOUS
<1>10. ASSUME NEW p \in Q
       PROVE  /\ p = <<p[1], p[2]>> /\ p[1] \in 1..n /\ p[2] \in Nat /\ p[2] >= 1
              /\ f[p] \in P \ {<<i, 1>>} /\ (p[1] = i <=> f[p][1] = i)
  <2>1. p = <<p[1], p[2]>> /\ p[1] \in 1..n /\ p[2] \in 1..BufferSize /\ BufferSize \in Nat
    BY <1>q, <1>3, <1>10, OutboundAssumption DEF Pairs
  <2>2. CASE p[1] = i
    <3>1. p[2] \in Places(e.rest, M)
      BY <1>7, <1>10, <2>1, <2>2
    <3>2. <<i, p[2] + 1>> \in P
      BY <1>6, <1>9, <3>1
    <3>3. f[p] = <<i, p[2] + 1>> /\ p[2] + 1 # 1
      BY <1>f, <1>10, <2>1, <2>2
    <3>4. <<i, p[2] + 1>> # <<i, 1>> /\ <<i, p[2] + 1>>[1] = i
      BY <3>3
    <3>. QED
      BY <2>1, <2>2, <3>2, <3>3, <3>4
  <2>3. CASE p[1] # i
    <3>1. f[p] = p /\ p # <<i, 1>>
      BY <1>f, <1>10, <2>3
    <3>2. p \in P
      BY <1>8, <1>10, <2>1, <2>3
    <3>. QED
      BY <2>1, <2>3, <3>1, <3>2
  <2>. QED
    BY <2>2, <2>3
<1>11. f \in [Q -> P \ {<<i, 1>>}]
  BY <1>f, <1>10
<1>12. \A p, q \in Q : f[p] = f[q] => p = q
  <2>. SUFFICES ASSUME NEW p \in Q, NEW q \in Q, f[p] = f[q] PROVE p = q
    OBVIOUS
  <2>1. CASE p[1] = i
    <3>1. q[1] = i
      BY <1>10, <2>1
    <3>2. <<i, p[2] + 1>> = <<i, q[2] + 1>>
      BY <1>f, <2>1, <3>1
    <3>3. p[2] + 1 = q[2] + 1
      BY <3>2
    <3>4. p[2] = q[2]
      BY <1>10, <3>3
    <3>. QED
      BY <1>10, <2>1, <3>1, <3>4
  <2>2. CASE p[1] # i
    <3>1. q[1] # i
      BY <1>10, <2>2
    <3>. QED
      BY <1>f, <2>2, <3>1
  <2>. QED
    BY <2>1, <2>2
<1>13. ASSUME NEW p \in P \ {<<i, 1>>} PROVE \E q \in Q : f[q] = p
  <2>1. p = <<p[1], p[2]>> /\ p[1] \in 1..n /\ p[2] \in 1..BufferSize /\ BufferSize \in Nat
    BY <1>p, <1>n, <1>13, OutboundAssumption DEF Pairs
  <2>2. CASE p[1] = i
    <3>1. p[2] \in Places(s, M) /\ p[2] # 1 /\ p[2] - 1 \in Nat /\ (p[2] - 1) + 1 = p[2]
      BY <1>6, <1>13, <2>1, <2>2
    <3>2. p[2] - 1 \in Places(e.rest, M)
      <4>1. p[2] \in 1..Len(s)
        BY <1>1, <3>1 DEF Places
      <4>2. p[2] - 1 \in 1..(Len(s) - 1)
        BY <1>1, <3>1, <4>1
      <4>. QED
        BY <1>9, <3>1, <4>2
    <3>3. <<i, p[2] - 1>> \in Q
      BY <1>7, <3>2
    <3>4. f[<<i, p[2] - 1>>] = <<i, (p[2] - 1) + 1>>
      BY <1>f, <3>3
    <3>. QED
      BY <2>1, <2>2, <3>1, <3>3, <3>4
  <2>3. CASE p[1] # i
    <3>1. p \in Q
      BY <1>8, <1>13, <2>1, <2>3
    <3>. QED
      BY <1>f, <2>3, <3>1
  <2>. QED
    BY <2>2, <2>3
<1>14. Cardinality(P \ {<<i, 1>>}) = Cardinality(Q)
  BY <1>5, <1>11, <1>12, <1>13, SameSize
<1>15. Cardinality(P \ {<<i, 1>>}) = Cardinality(P) - One(s[1], M)
  <2>1. <<i, 1>> \in P <=> s[1] \in M
    BY <1>1, <1>2, <1>6 DEF Places
  <2>2. Cardinality(P \ {<<i, 1>>}) = IF <<i, 1>> \in P THEN Cardinality(P) - 1 ELSE Cardinality(P)
    BY <1>5, FS_RemoveElement
  <2>. QED
    BY <1>5, <2>1, <2>2 DEF One
<1>. QED
  BY <1>2, <1>4, <1>14, <1>15, <1>g, <1>p, <1>q, <1>s

\* A flush that has nothing left goes.
LEMMA PairsRemove ==
    ASSUME NEW fl, Flushes(fl), NEW i \in DOMAIN fl, fl[i].rest = <<>>, NEW M
    PROVE  /\ Flushes(RemoveAt(fl, i))
           /\ Cardinality(Pairs(RemoveAt(fl, i), M)) = Cardinality(Pairs(fl, M))
<1>n. PICK n \in Nat : n = Len(fl) /\ DOMAIN fl = 1..n
  BY SequenceShape DEF Flushes
<1>g. PICK g : g = RemoveAt(fl, i)
  OBVIOUS
<1>1. i \in 1..n
  BY <1>n
<1>2. /\ Sequence(g) /\ DOMAIN g = 1..(n - 1)
      /\ \A k \in 1..(n - 1) : g[k] = fl[IF k < i THEN k ELSE k + 1]
  BY <1>n, <1>g, RemoveShape, SequenceShape DEF Flushes
<1>3. \A k \in 1..(n - 1) : (IF k < i THEN k ELSE k + 1) \in 1..n
  BY <1>1
<1>4. Flushes(g)
  BY <1>2, <1>3, <1>n DEF Flushes
<1>p. PICK P : P = Pairs(fl, M)
  OBVIOUS
<1>q. PICK Q : Q = Pairs(g, M)
  OBVIOUS
<1>5. IsFiniteSet(P) /\ Cardinality(P) \in Nat /\ IsFiniteSet(Q) /\ Cardinality(Q) \in Nat
  BY <1>p, <1>q, <1>4, PairsAreFinite
<1>6. \A k \in 1..n : \A j : <<k, j>> \in P <=> j \in Places(fl[k].rest, M)
  BY <1>p, <1>n, PairsIn DEF Flushes
<1>7. \A k \in 1..(n - 1) : \A j : <<k, j>> \in Q <=> j \in Places(g[k].rest, M)
  BY <1>q, <1>2, <1>4, PairsIn DEF Flushes
<1>f. PICK f : f = [p \in Q |-> <<IF p[1] < i THEN p[1] ELSE p[1] + 1, p[2]>>]
  OBVIOUS
<1>8. ASSUME NEW p \in Q
      PROVE  p = <<p[1], p[2]>> /\ p[1] \in 1..(n - 1) /\ f[p] \in P
  <2>1. p = <<p[1], p[2]>> /\ p[1] \in 1..(n - 1)
    BY <1>q, <1>2, <1>8 DEF Pairs
  <2>2. p[2] \in Places(g[p[1]].rest, M)
    BY <1>7, <1>8, <2>1
  <2>. QED
    BY <1>f, <1>2, <1>3, <1>6, <1>8, <2>1, <2>2
<1>9. f \in [Q -> P]
  BY <1>f, <1>8
<1>10. \A p, q \in Q : f[p] = f[q] => p = q
  <2>. SUFFICES ASSUME NEW p \in Q, NEW q \in Q, f[p] = f[q] PROVE p = q
    OBVIOUS
  <2>1. /\ (IF p[1] < i THEN p[1] ELSE p[1] + 1) = (IF q[1] < i THEN q[1] ELSE q[1] + 1)
        /\ p[2] = q[2]
    BY <1>f
  <2>2. p[1] = q[1]
    BY <1>1, <1>8, <2>1
  <2>. QED
    BY <1>8, <2>1, <2>2
<1>11. ASSUME NEW p \in P PROVE \E q \in Q : f[q] = p
  <2>1. p = <<p[1], p[2]>> /\ p[1] \in 1..n /\ p[2] \in Places(fl[p[1]].rest, M)
    BY <1>p, <1>n, <1>11, PairsAre
  <2>2. p[1] # i
    BY <2>1, NoPlaces
  <2>k. PICK k : k = IF p[1] < i THEN p[1] ELSE p[1] - 1
    OBVIOUS
  <2>3. k \in 1..(n - 1) /\ (IF k < i THEN k ELSE k + 1) = p[1]
    BY <1>1, <2>k, <2>1, <2>2
  <2>4. <<k, p[2]>> \in Q
    BY <1>2, <1>7, <2>1, <2>3
  <2>5. f[<<k, p[2]>>] = <<IF k < i THEN k ELSE k + 1, p[2]>>
    BY <1>f, <2>4
  <2>. QED
    BY <2>1, <2>3, <2>4, <2>5
<1>12. Cardinality(P) = Cardinality(Q)
  BY <1>5, <1>9, <1>10, <1>11, SameSize
<1>. QED
  BY <1>4, <1>12, <1>g, <1>p, <1>q

-----------------------------------------------------------------------------
(* The inductive invariant *)

\* The memory is looked at together with the messages born so far (B) and the
\* message that a step has taken from one place and not yet put into another
\* (hand), so that the operators of AgentOutbound can be put together.

Fields == {"queue", "sending", "buffer", "flushes", "drain", "timer", "parked", "lost", "written"}

Births(B) == Sequence(B) /\ \A id \in DOMAIN B : B[id].kind \in Kinds
Msg(B, id) == [id |-> id, kind |-> B[id].kind]
Items(B, id) == {[msg |-> Msg(B, id), socket |-> k] : k \in Sockets}
Writes(id) == {[id |-> id, socket |-> k] : k \in Sockets}

\* A message that was born, or an image; what belongs to a connection is on its own.
IsKnown(B, msg) == msg.kind = "asset" \/ (msg.id \in DOMAIN B /\ msg = Msg(B, msg.id))
OnOwn(B, msg, k) == msg.kind = "chunk" => k = B[msg.id].socket
IsParkable(B, P, msg) ==
    /\ msg.id \in DOMAIN B /\ msg = Msg(B, msg.id)
    /\ msg.kind \in Bufferable /\ msg.id \in P
IsQueued(B, item) ==
    /\ item = [msg |-> item.msg, socket |-> item.socket] /\ item.socket \in Sockets
    /\ IsKnown(B, item.msg) /\ OnOwn(B, item.msg, item.socket)
IsWritten(B, w) ==
    /\ w = [id |-> w.id, socket |-> w.socket] /\ w.socket \in Sockets
    /\ w.id \in DOMAIN B /\ OnOwn(B, Msg(B, w.id), w.socket)
IsSent(B, m, s) ==
    /\ s.socket \in Sockets /\ IsKnown(B, s.msg) /\ OnOwn(B, s.msg, s.socket)
    /\ \/ s.step = "encrypting"
       \/ s.step = "leaving" /\ s.msg.kind = "chunk" /\ Places(m.written, Writes(s.msg.id)) # {}

Shape(B, m) ==
    /\ DOMAIN m = Fields
    /\ Sequence(m.queue) /\ Len(m.queue) <= QueueSize
    /\ \A i \in DOMAIN m.queue : IsQueued(B, m.queue[i])
    /\ Sequence(m.buffer) /\ Len(m.buffer) <= BufferSize
    /\ \A i \in DOMAIN m.buffer : IsParkable(B, m.parked, m.buffer[i])
    /\ Flushes(m.flushes)
    /\ \A i \in DOMAIN m.flushes : \A j \in DOMAIN m.flushes[i].rest :
         IsParkable(B, m.parked, m.flushes[i].rest[j])
    /\ Sequence(m.written) /\ \A i \in DOMAIN m.written : IsWritten(B, m.written[i])
    /\ m.sending = {} \/ \E s \in m.sending : m.sending = {s}
    /\ \A s \in m.sending : IsSent(B, m, s)
    /\ DOMAIN m.drain = {"active", "answer", "rest"} /\ m.timer \in BOOLEAN
    /\ m.drain.answer \in {"none", "sent", "dropped"}
    /\ m.lost \subseteq DOMAIN B

\* b comes after a: it is the younger one, or was overtaken in the buffer.
InOrder(P, a, b) == b < a => b \in P
AfterWritten(m, b) == \A i \in DOMAIN m.written : InOrder(m.parked, m.written[i].id, b)
BeforeQueue(m, a) ==
    \A j \in DOMAIN m.queue : m.queue[j].msg.kind # "asset" =>
        InOrder(m.parked, a, m.queue[j].msg.id)

\* What is written, being encrypted and queued is in order.
Ordered(m) ==
    /\ \A i, j \in DOMAIN m.written : i < j => InOrder(m.parked, m.written[i].id, m.written[j].id)
    /\ \A s \in m.sending : s.step = "encrypting" /\ s.msg.kind # "asset" =>
         AfterWritten(m, s.msg.id) /\ BeforeQueue(m, s.msg.id)
    /\ \A j \in DOMAIN m.queue : m.queue[j].msg.kind # "asset" => AfterWritten(m, m.queue[j].msg.id)
    /\ \A i, j \in DOMAIN m.queue :
         i < j /\ m.queue[i].msg.kind # "asset" /\ m.queue[j].msg.kind # "asset" =>
           InOrder(m.parked, m.queue[i].msg.id, m.queue[j].msg.id)

\* How often a message is in each place.
Queued(B, m, id) == Cardinality(Places(m.queue, Items(B, id)))
InFlush(B, m, id) == Cardinality(Pairs(m.flushes, {Msg(B, id)}))
Parked(B, m, id) == Cardinality(Places(m.buffer, {Msg(B, id)}))
Encrypting(B, m, id) ==
    Cardinality({s \in m.sending : s.msg = Msg(B, id) /\ s.step = "encrypting"})
Writings(m, id) == Cardinality(Places(m.written, Writes(id)))
Held(B, hand, id) == One(hand, {Msg(B, id)})

Total(B, m, id) ==
    Queued(B, m, id) + InFlush(B, m, id) + Parked(B, m, id) + Encrypting(B, m, id)
        + Writings(m, id)

Balanced(B, m, hand) ==
    \A id \in DOMAIN B :
        Total(B, m, id) + Held(B, hand, id)
          = IF id \in m.lost /\ Writings(m, id) = 0 THEN 0 ELSE 1

Good(B, m, hand) == Shape(B, m) /\ Ordered(m) /\ Balanced(B, m, hand)

\* Verdicts for good say what the store did.
AcksAreTrue ==
    \A ack \in acks : ack.verdict # "failed" => ack.id \in shelf.stored \cup shelf.refused

Records ==
    /\ up \in BOOLEAN /\ images \in Nat /\ load \in Loads /\ faults \in 0..load.faults
    /\ conn \in [n : Sockets, state : {"closed", "open", "authenticating", "registered"}]
    /\ server \in {0} \cup Sockets
    /\ outbox \subseteq Assets /\ IsFiniteSet(outbox) /\ Cardinality(outbox) <= load.items
    /\ DOMAIN shelf = {"stored", "refused", "gone"}
    /\ Births(born) /\ Len(born) <= load.messages

IInv == Records /\ AcksAreTrue /\ ImageIsKept /\ Good(born, mem, Nobody)

-----------------------------------------------------------------------------
(* Counts *)

LEMMA MessageOf ==
    ASSUME NEW B, Births(B), NEW id \in DOMAIN B
    PROVE  /\ Msg(B, id).id = id /\ Msg(B, id).kind \in Kinds /\ Msg(B, id).kind # "asset"
           /\ DOMAIN B = 1..Len(B) /\ Len(B) \in Nat /\ id \in Nat
BY SequenceShape DEF Births, Msg, Kinds

LEMMA EncryptingIs ==
    ASSUME NEW B, NEW id, NEW m
    PROVE  /\ m.sending = {} => Encrypting(B, m, id) = 0
           /\ \A s : m.sending = {s} =>
                Encrypting(B, m, id) = IF s.step = "encrypting" THEN One(s.msg, {Msg(B, id)}) ELSE 0
<1>c. PICK C : C = {s \in m.sending : s.msg = Msg(B, id) /\ s.step = "encrypting"}
  OBVIOUS
<1>0. Cardinality(C) = Encrypting(B, m, id)
  BY <1>c DEF Encrypting
<1>1. m.sending = {} => C = {}
  BY <1>c
<1>2. ASSUME NEW s, m.sending = {s}
      PROVE  C = IF s.msg = Msg(B, id) /\ s.step = "encrypting" THEN {s} ELSE {}
  BY <1>c, <1>2
<1>3. Cardinality({}) = 0 /\ \A s : Cardinality({s}) = 1
  BY FS_EmptySet, FS_Singleton
<1>4. ASSUME NEW s, m.sending = {s}
      PROVE  Encrypting(B, m, id) = IF s.step = "encrypting" THEN One(s.msg, {Msg(B, id)}) ELSE 0
  BY <1>0, <1>2, <1>3, <1>4 DEF One
<1>. QED
  BY <1>0, <1>1, <1>3, <1>4

LEMMA CountsAreNatural ==
    ASSUME NEW B, NEW m, Shape(B, m), NEW id
    PROVE  /\ Queued(B, m, id) \in Nat /\ InFlush(B, m, id) \in Nat /\ Parked(B, m, id) \in Nat
           /\ Encrypting(B, m, id) \in Nat /\ Writings(m, id) \in Nat
           /\ Writings(m, id) = 0 <=> Places(m.written, Writes(id)) = {}
<1>1. Sequence(m.queue) /\ Sequence(m.buffer) /\ Sequence(m.written) /\ Flushes(m.flushes)
  BY DEF Shape
<1>2. Queued(B, m, id) \in Nat
  BY <1>1, PlacesAreFinite DEF Queued
<1>3. Parked(B, m, id) \in Nat
  BY <1>1, PlacesAreFinite DEF Parked
<1>4. InFlush(B, m, id) \in Nat
  BY <1>1, PairsAreFinite DEF InFlush
<1>5. Encrypting(B, m, id) \in Nat
  BY EncryptingIs DEF Shape, One
<1>w. PICK W : W = Places(m.written, Writes(id))
  OBVIOUS
<1>6. IsFiniteSet(W) /\ Cardinality(W) \in Nat
  BY <1>1, <1>w, PlacesAreFinite
<1>7. Cardinality(W) = 0 <=> W = {}
  BY <1>6, FS_EmptySet
<1>. QED
  BY <1>2, <1>3, <1>4, <1>5, <1>6, <1>7, <1>w DEF Writings

LEMMA HandIsCounted ==
    ASSUME NEW B, Births(B), NEW id \in DOMAIN B
    PROVE  /\ Held(B, Nobody, id) = 0
           /\ \A x : x.kind = "asset" => Held(B, x, id) = 0
           /\ \A x : Held(B, x, id) \in {0, 1} /\ (Held(B, x, id) = 1 <=> x = Msg(B, id))
           /\ \A x : \A k \in Sockets :
                One([msg |-> x, socket |-> k], Items(B, id)) = Held(B, x, id)
           /\ \A j : \A k \in Sockets :
                One([id |-> j, socket |-> k], Writes(id)) = IF j = id THEN 1 ELSE 0
<1>1. Msg(B, id).kind # "asset" /\ Msg(B, id).kind # "none"
  BY MessageOf DEF Kinds
<1>2. Held(B, Nobody, id) = 0 /\ \A x : x.kind = "asset" => Held(B, x, id) = 0
  BY <1>1 DEF Held, One, Nobody
<1>3. \A x : Held(B, x, id) \in {0, 1} /\ (Held(B, x, id) = 1 <=> x = Msg(B, id))
  BY DEF Held, One
<1>4. ASSUME NEW x, NEW k \in Sockets
      PROVE  [msg |-> x, socket |-> k] \in Items(B, id) <=> x = Msg(B, id)
  BY <1>4 DEF Items
<1>5. ASSUME NEW j, NEW k \in Sockets
      PROVE  [id |-> j, socket |-> k] \in Writes(id) <=> j = id
  BY <1>5 DEF Writes
<1>. QED
  BY <1>2, <1>3, <1>4, <1>5 DEF One, Held

-----------------------------------------------------------------------------
(* What the pieces of a step do to the memory *)

\* All of it but some fields stays as it was.
Same(m, n, changed) == DOMAIN n = Fields /\ \A f \in Fields \ changed : n[f] = m[f]

\* A message leaves the queue.
LEMMA QueueLoses ==
    ASSUME NEW B, Births(B), NEW m, Shape(B, m), Ordered(m), NEW i \in DOMAIN m.queue,
           NEW n, Same(m, n, {"queue"}), n.queue = RemoveAt(m.queue, i)
    PROVE  /\ Shape(B, n) /\ Ordered(n) /\ Len(n.queue) < QueueSize
           /\ \A j \in DOMAIN n.queue : \E k \in DOMAIN m.queue : n.queue[j] = m.queue[k]
           /\ \A id \in DOMAIN B :
                /\ Total(B, n, id) = Total(B, m, id) - Held(B, m.queue[i].msg, id)
                /\ Writings(n, id) = Writings(m, id)
<1>0. /\ n.sending = m.sending /\ n.buffer = m.buffer /\ n.flushes = m.flushes
      /\ n.drain = m.drain /\ n.timer = m.timer /\ n.parked = m.parked
      /\ n.lost = m.lost /\ n.written = m.written /\ DOMAIN n = Fields
  BY DEF Same, Fields
<1>q. PICK q : q = m.queue
  OBVIOUS
<1>n. PICK l \in Nat : l = Len(q) /\ DOMAIN q = 1..l /\ Sequence(q)
  BY <1>q, SequenceShape DEF Shape
<1>r. PICK r : r = RemoveAt(q, i) /\ n.queue = r
  BY <1>q
<1>1. /\ i \in 1..l /\ Sequence(r) /\ Len(r) = l - 1 /\ DOMAIN r = 1..(l - 1)
      /\ \A j \in 1..(l - 1) : r[j] = q[IF j < i THEN j ELSE j + 1]
  <2>1. i \in 1..l
    BY <1>q, <1>n
  <2>2. /\ Sequence(r) /\ Len(r) = l - 1
        /\ \A j \in 1..(l - 1) : r[j] = q[IF j < i THEN j ELSE j + 1]
    BY <1>n, <1>r, <2>1, RemoveShape
  <2>. QED
    BY <2>1, <2>2, SequenceShape
<1>2. \A j \in 1..(l - 1) : (IF j < i THEN j ELSE j + 1) \in 1..l
  BY <1>1
<1>3. \A j \in 1..(l - 1) : \E k \in 1..l : r[j] = q[k]
  BY <1>1, <1>2
<1>4. Len(r) < QueueSize
  <2>1. l <= QueueSize /\ QueueSize \in Nat
    BY <1>q, <1>n, OutboundAssumption DEF Shape
  <2>. QED
    BY <1>1, <2>1
<1>5. Shape(B, n)
  <2>1. ASSUME NEW j \in DOMAIN r PROVE IsQueued(B, r[j])
    <3>1. PICK k \in 1..l : r[j] = q[k]
      BY <1>1, <1>3
    <3>. QED
      BY <1>q, <1>n, <3>1 DEF Shape
  <2>2. Len(r) <= QueueSize
    BY <1>1, <1>4, OutboundAssumption
  <2>. QED
    BY <1>0, <1>r, <1>1, <2>1, <2>2 DEF Shape, IsSent
<1>6. Ordered(n)
  <2>1. ASSUME NEW a, BeforeQueue(m, a) PROVE BeforeQueue(n, a)
    <3>1. ASSUME NEW j \in DOMAIN r, r[j].msg.kind # "asset"
          PROVE  InOrder(m.parked, a, r[j].msg.id)
      <4>1. PICK k \in 1..l : r[j] = q[k]
        BY <1>1, <1>3, <3>1
      <4>. QED
        BY <1>q, <1>n, <2>1, <3>1, <4>1 DEF BeforeQueue
    <3>. QED
      BY <1>0, <1>r, <3>1 DEF BeforeQueue
  <2>2. \A b : AfterWritten(m, b) => AfterWritten(n, b)
    BY <1>0 DEF AfterWritten
  <2>3. ASSUME NEW j \in DOMAIN r, r[j].msg.kind # "asset" PROVE AfterWritten(n, r[j].msg.id)
    <3>1. PICK k \in 1..l : r[j] = q[k]
      BY <1>1, <1>3, <2>3
    <3>. QED
      BY <1>q, <1>n, <2>2, <2>3, <3>1 DEF Ordered
  <2>4. ASSUME NEW j \in DOMAIN r, NEW k \in DOMAIN r, j < k,
               r[j].msg.kind # "asset", r[k].msg.kind # "asset"
        PROVE  InOrder(n.parked, r[j].msg.id, r[k].msg.id)
    <3>j. PICK jj \in 1..l : jj = IF j < i THEN j ELSE j + 1
      BY <1>1, <1>2
    <3>k. PICK kk \in 1..l : kk = IF k < i THEN k ELSE k + 1
      BY <1>1, <1>2
    <3>1. jj < kk /\ r[j] = q[jj] /\ r[k] = q[kk]
      BY <1>1, <2>4, <3>j, <3>k
    <3>2. InOrder(m.parked, q[jj].msg.id, q[kk].msg.id)
      BY <1>q, <1>n, <2>4, <3>1 DEF Ordered
    <3>. QED
      BY <1>0, <3>1, <3>2
  <2>. QED
    BY <1>0, <1>r, <2>1, <2>2, <2>3, <2>4 DEF Ordered
<1>7. ASSUME NEW id \in DOMAIN B
      PROVE  /\ Total(B, n, id) = Total(B, m, id) - Held(B, m.queue[i].msg, id)
             /\ Writings(n, id) = Writings(m, id)
  <2>1. Queued(B, n, id) = Queued(B, m, id) - One(q[i], Items(B, id))
    <3>1. Cardinality(Places(RemoveAt(q, i), Items(B, id)))
            = Cardinality(Places(q, Items(B, id))) - One(q[i], Items(B, id))
      BY <1>n, <1>1, PlacesRemove
    <3>. QED
      BY <3>1, <1>q, <1>r DEF Queued
  <2>2. One(q[i], Items(B, id)) = Held(B, q[i].msg, id)
    <3>1. q[i] = [msg |-> q[i].msg, socket |-> q[i].socket] /\ q[i].socket \in Sockets
      BY <1>q, <1>n, <1>1 DEF Shape, IsQueued
    <3>2. \A x : \A k \in Sockets : One([msg |-> x, socket |-> k], Items(B, id)) = Held(B, x, id)
      BY HandIsCounted
    <3>. QED
      BY <3>1, <3>2
  <2>3. /\ InFlush(B, n, id) = InFlush(B, m, id) /\ Parked(B, n, id) = Parked(B, m, id)
        /\ Encrypting(B, n, id) = Encrypting(B, m, id) /\ Writings(n, id) = Writings(m, id)
    BY <1>0 DEF InFlush, Parked, Encrypting, Writings
  <2>4. Held(B, q[i].msg, id) \in Nat
    BY DEF Held, One
  <2>5. /\ Queued(B, m, id) \in Nat /\ InFlush(B, m, id) \in Nat /\ Parked(B, m, id) \in Nat
        /\ Encrypting(B, m, id) \in Nat /\ Writings(m, id) \in Nat
    BY CountsAreNatural
  <2>. QED
    BY <1>q, <2>1, <2>2, <2>3, <2>4, <2>5 DEF Total
<1>8. Len(n.queue) < QueueSize /\ \A j \in DOMAIN n.queue : \E k \in DOMAIN m.queue : n.queue[j] = m.queue[k]
  <2>1. \A j \in DOMAIN r : \E k \in DOMAIN q : r[j] = q[k]
    <3>1. DOMAIN q = 1..l /\ DOMAIN r = 1..(l - 1)
      BY <1>n, <1>1
    <3>. QED
      BY <3>1, <1>3
  <2>2. n.queue = r /\ m.queue = q
    BY <1>q, <1>r
  <2>. QED
    BY <1>4, <2>1, <2>2, Zenon
<1>9. \A id \in DOMAIN B :
        /\ Total(B, n, id) = Total(B, m, id) - Held(B, m.queue[i].msg, id)
        /\ Writings(n, id) = Writings(m, id)
  BY <1>7
<1>. QED
  BY <1>5, <1>6, <1>8, <1>9

\* A message is younger than all that are written, encrypted or queued, or was
\* overtaken in the buffer.
IsLast(m, msg) ==
    msg.kind # "asset" =>
      /\ AfterWritten(m, msg.id)
      /\ \A s \in m.sending : s.step = "encrypting" /\ s.msg.kind # "asset" =>
           InOrder(m.parked, s.msg.id, msg.id)
      /\ \A j \in DOMAIN m.queue : m.queue[j].msg.kind # "asset" =>
           InOrder(m.parked, m.queue[j].msg.id, msg.id)

\* A message is queued.
LEMMA QueueGains ==
    ASSUME NEW B, Births(B), NEW m, Shape(B, m), Ordered(m),
           NEW msg, NEW k \in Sockets, IsKnown(B, msg), OnOwn(B, msg, k), IsLast(m, msg),
           Len(m.queue) < QueueSize,
           NEW n, Same(m, n, {"queue"}),
           n.queue = Append(m.queue, [msg |-> msg, socket |-> k])
    PROVE  /\ Shape(B, n) /\ Ordered(n)
           /\ \A id \in DOMAIN B :
                /\ Total(B, n, id) = Total(B, m, id) + Held(B, msg, id)
                /\ Writings(n, id) = Writings(m, id)
<1>0. /\ n.sending = m.sending /\ n.buffer = m.buffer /\ n.flushes = m.flushes
      /\ n.drain = m.drain /\ n.timer = m.timer /\ n.parked = m.parked
      /\ n.lost = m.lost /\ n.written = m.written /\ DOMAIN n = Fields
  BY DEF Same, Fields
<1>q. PICK q : q = m.queue
  OBVIOUS
<1>e. PICK e : e = [msg |-> msg, socket |-> k]
  OBVIOUS
<1>n. PICK l \in Nat : l = Len(q) /\ DOMAIN q = 1..l /\ Sequence(q) /\ l < QueueSize
  BY <1>q, SequenceShape DEF Shape
<1>r. PICK r : r = Append(q, e) /\ n.queue = r
  BY <1>q, <1>e
<1>1. /\ Sequence(r) /\ Len(r) = l + 1 /\ DOMAIN r = 1..(l + 1)
      /\ \A j \in 1..l : r[j] = q[j]
      /\ r[l + 1] = e
  <2>1. /\ Sequence(r) /\ Len(r) = l + 1 /\ r[l + 1] = e
        /\ \A j \in 1..l : r[j] = q[j]
    BY <1>n, <1>r, AppendShape
  <2>. QED
    BY <2>1, SequenceShape
<1>2. ASSUME NEW j \in DOMAIN r, j # l + 1 PROVE j \in 1..l /\ r[j] = q[j]
  BY <1>1, <1>2
<1>3. e.msg = msg /\ e.socket = k
  BY <1>e
<1>4. Shape(B, n)
  <2>1. ASSUME NEW j \in DOMAIN r PROVE IsQueued(B, r[j])
    <3>1. CASE j = l + 1
      BY <1>1, <1>e, <1>3, <3>1 DEF IsQueued
    <3>2. CASE j # l + 1
      BY <1>q, <1>n, <1>2, <3>2 DEF Shape
    <3>. QED
      BY <3>1, <3>2
  <2>2. Len(r) <= QueueSize
    BY <1>n, <1>1, OutboundAssumption
  <2>. QED
    BY <1>0, <1>r, <1>1, <2>1, <2>2 DEF Shape, IsSent
<1>5. Ordered(n)
  <2>1. ASSUME NEW s \in m.sending, s.step = "encrypting", s.msg.kind # "asset"
        PROVE  AfterWritten(n, s.msg.id) /\ BeforeQueue(n, s.msg.id)
    <3>1. AfterWritten(m, s.msg.id) /\ BeforeQueue(m, s.msg.id)
      BY <2>1 DEF Ordered
    <3>2. ASSUME NEW j \in DOMAIN r, r[j].msg.kind # "asset"
          PROVE  InOrder(m.parked, s.msg.id, r[j].msg.id)
      <4>1. CASE j = l + 1
        BY <1>1, <1>3, <2>1, <3>2, <4>1 DEF IsLast
      <4>2. CASE j # l + 1
        BY <1>q, <1>n, <1>2, <3>1, <3>2, <4>2 DEF BeforeQueue
      <4>. QED
        BY <4>1, <4>2
    <3>. QED
      BY <1>0, <1>r, <3>1, <3>2 DEF BeforeQueue, AfterWritten
  <2>2. ASSUME NEW j \in DOMAIN r, r[j].msg.kind # "asset" PROVE AfterWritten(n, r[j].msg.id)
    <3>1. CASE j = l + 1
      BY <1>0, <1>1, <1>3, <2>2, <3>1 DEF IsLast, AfterWritten
    <3>2. CASE j # l + 1
      <4>1. AfterWritten(m, r[j].msg.id)
        BY <1>q, <1>n, <1>2, <2>2, <3>2 DEF Ordered
      <4>. QED
        BY <1>0, <4>1 DEF AfterWritten
    <3>. QED
      BY <3>1, <3>2
  <2>3. ASSUME NEW i \in DOMAIN r, NEW j \in DOMAIN r, i < j,
               r[i].msg.kind # "asset", r[j].msg.kind # "asset"
        PROVE  InOrder(m.parked, r[i].msg.id, r[j].msg.id)
    <3>1. i \in 1..l /\ r[i] = q[i]
      BY <1>1, <2>3
    <3>2. CASE j = l + 1
      <4>1. InOrder(m.parked, q[i].msg.id, msg.id)
        BY <1>1, <1>3, <1>q, <1>n, <2>3, <3>1, <3>2 DEF IsLast
      <4>. QED
        BY <1>1, <1>3, <3>1, <3>2, <4>1
    <3>3. CASE j # l + 1
      BY <1>q, <1>n, <1>2, <2>3, <3>1, <3>3 DEF Ordered
    <3>. QED
      BY <3>2, <3>3
  <2>. QED
    BY <1>0, <1>r, <2>1, <2>2, <2>3 DEF Ordered
<1>6. ASSUME NEW id \in DOMAIN B
      PROVE  /\ Total(B, n, id) = Total(B, m, id) + Held(B, msg, id)
             /\ Writings(n, id) = Writings(m, id)
  <2>1. Queued(B, n, id) = Queued(B, m, id) + One(e, Items(B, id))
    <3>1. Cardinality(Places(Append(q, e), Items(B, id)))
            = Cardinality(Places(q, Items(B, id))) + One(e, Items(B, id))
      BY <1>n, PlacesAppend
    <3>. QED
      BY <3>1, <1>q, <1>r DEF Queued
  <2>2. One(e, Items(B, id)) = Held(B, msg, id)
    BY <1>e, HandIsCounted
  <2>3. /\ InFlush(B, n, id) = InFlush(B, m, id) /\ Parked(B, n, id) = Parked(B, m, id)
        /\ Encrypting(B, n, id) = Encrypting(B, m, id) /\ Writings(n, id) = Writings(m, id)
    BY <1>0 DEF InFlush, Parked, Encrypting, Writings
  <2>4. Held(B, msg, id) \in Nat
    BY DEF Held, One
  <2>5. /\ Queued(B, m, id) \in Nat /\ InFlush(B, m, id) \in Nat /\ Parked(B, m, id) \in Nat
        /\ Encrypting(B, m, id) \in Nat /\ Writings(m, id) \in Nat
    BY CountsAreNatural
  <2>. QED
    BY <2>1, <2>2, <2>3, <2>4, <2>5 DEF Total
<1>. QED
  BY <1>4, <1>5, <1>6

\* A message leaves the buffer.
LEMMA BufferLoses ==
    ASSUME NEW B, Births(B), NEW m, Shape(B, m), Ordered(m), NEW i \in DOMAIN m.buffer,
           NEW n, Same(m, n, {"buffer"}), n.buffer = RemoveAt(m.buffer, i)
    PROVE  /\ Shape(B, n) /\ Ordered(n) /\ Len(n.buffer) < BufferSize
           /\ \A id \in DOMAIN B :
                /\ Total(B, n, id) = Total(B, m, id) - Held(B, m.buffer[i], id)
                /\ Writings(n, id) = Writings(m, id)
<1>0. /\ n.sending = m.sending /\ n.queue = m.queue /\ n.flushes = m.flushes
      /\ n.drain = m.drain /\ n.timer = m.timer /\ n.parked = m.parked
      /\ n.lost = m.lost /\ n.written = m.written /\ DOMAIN n = Fields
  BY DEF Same, Fields
<1>q. PICK q : q = m.buffer
  OBVIOUS
<1>n. PICK l \in Nat : l = Len(q) /\ DOMAIN q = 1..l /\ Sequence(q)
  BY <1>q, SequenceShape DEF Shape
<1>r. PICK r : r = RemoveAt(q, i) /\ n.buffer = r
  BY <1>q
<1>1. /\ i \in 1..l /\ Sequence(r) /\ Len(r) = l - 1 /\ DOMAIN r = 1..(l - 1)
      /\ \A j \in 1..(l - 1) : r[j] = q[IF j < i THEN j ELSE j + 1]
  <2>1. i \in 1..l
    BY <1>q, <1>n
  <2>2. /\ Sequence(r) /\ Len(r) = l - 1
        /\ \A j \in 1..(l - 1) : r[j] = q[IF j < i THEN j ELSE j + 1]
    BY <1>n, <1>r, <2>1, RemoveShape
  <2>. QED
    BY <2>1, <2>2, SequenceShape
<1>2. \A j \in 1..(l - 1) : (IF j < i THEN j ELSE j + 1) \in 1..l
  BY <1>1
<1>3. \A j \in 1..(l - 1) : \E k \in 1..l : r[j] = q[k]
  BY <1>1, <1>2
<1>4. Len(r) < BufferSize
  <2>1. l <= BufferSize /\ BufferSize \in Nat
    BY <1>q, <1>n, OutboundAssumption DEF Shape
  <2>. QED
    BY <1>1, <2>1
<1>5. Shape(B, n)
  <2>1. ASSUME NEW j \in DOMAIN r PROVE IsParkable(B, n.parked, r[j])
    <3>1. PICK k \in 1..l : r[j] = q[k]
      BY <1>1, <1>3
    <3>. QED
      BY <1>0, <1>q, <1>n, <3>1 DEF Shape
  <2>2. Len(r) <= BufferSize
    BY <1>1, <1>4, OutboundAssumption
  <2>. QED
    BY <1>0, <1>r, <1>1, <2>1, <2>2 DEF Shape, IsSent
<1>6. Ordered(n)
  BY <1>0 DEF Ordered, AfterWritten, BeforeQueue
<1>7. ASSUME NEW id \in DOMAIN B
      PROVE  /\ Total(B, n, id) = Total(B, m, id) - Held(B, m.buffer[i], id)
             /\ Writings(n, id) = Writings(m, id)
  <2>1. Parked(B, n, id) = Parked(B, m, id) - Held(B, q[i], id)
    <3>1. Cardinality(Places(RemoveAt(q, i), {Msg(B, id)}))
            = Cardinality(Places(q, {Msg(B, id)})) - One(q[i], {Msg(B, id)})
      BY <1>n, <1>1, PlacesRemove
    <3>. QED
      BY <3>1, <1>q, <1>r DEF Parked, Held
  <2>3. /\ InFlush(B, n, id) = InFlush(B, m, id) /\ Queued(B, n, id) = Queued(B, m, id)
        /\ Encrypting(B, n, id) = Encrypting(B, m, id) /\ Writings(n, id) = Writings(m, id)
    BY <1>0 DEF InFlush, Queued, Encrypting, Writings
  <2>4. Held(B, q[i], id) \in Nat
    BY DEF Held, One
  <2>5. /\ Queued(B, m, id) \in Nat /\ InFlush(B, m, id) \in Nat /\ Parked(B, m, id) \in Nat
        /\ Encrypting(B, m, id) \in Nat /\ Writings(m, id) \in Nat
    BY CountsAreNatural
  <2>. QED
    BY <1>q, <2>1, <2>3, <2>4, <2>5 DEF Total
<1>. QED
  BY <1>r, <1>4, <1>5, <1>6, <1>7

\* A message is buffered.
LEMMA BufferGains ==
    ASSUME NEW B, Births(B), NEW m, Shape(B, m), Ordered(m),
           NEW msg, msg.id \in DOMAIN B, msg = Msg(B, msg.id), msg.kind \in Bufferable,
           Len(m.buffer) < BufferSize,
           NEW n, Same(m, n, {"buffer", "parked"}),
           n.buffer = Append(m.buffer, msg), n.parked = m.parked \cup {msg.id}
    PROVE  /\ Shape(B, n) /\ Ordered(n)
           /\ \A id \in DOMAIN B :
                /\ Total(B, n, id) = Total(B, m, id) + Held(B, msg, id)
                /\ Writings(n, id) = Writings(m, id)
<1>0. /\ n.sending = m.sending /\ n.queue = m.queue /\ n.flushes = m.flushes
      /\ n.drain = m.drain /\ n.timer = m.timer
      /\ n.lost = m.lost /\ n.written = m.written /\ DOMAIN n = Fields
  BY DEF Same, Fields
<1>q. PICK q : q = m.buffer
  OBVIOUS
<1>n. PICK l \in Nat : l = Len(q) /\ DOMAIN q = 1..l /\ Sequence(q) /\ l < BufferSize
  BY <1>q, SequenceShape DEF Shape
<1>r. PICK r : r = Append(q, msg) /\ n.buffer = r
  BY <1>q
<1>1. /\ Sequence(r) /\ Len(r) = l + 1 /\ DOMAIN r = 1..(l + 1)
      /\ \A j \in 1..l : r[j] = q[j]
      /\ r[l + 1] = msg
  <2>1. /\ Sequence(r) /\ Len(r) = l + 1 /\ r[l + 1] = msg
        /\ \A j \in 1..l : r[j] = q[j]
    BY <1>n, <1>r, AppendShape
  <2>. QED
    BY <2>1, SequenceShape
<1>2. \A x : IsParkable(B, m.parked, x) => IsParkable(B, n.parked, x)
  BY DEF IsParkable
<1>3. \A a, b : InOrder(m.parked, a, b) => InOrder(n.parked, a, b)
  BY DEF InOrder
<1>4. Shape(B, n)
  <2>1. ASSUME NEW j \in DOMAIN r PROVE IsParkable(B, n.parked, r[j])
    <3>1. CASE j = l + 1
      BY <1>1, <3>1 DEF IsParkable
    <3>2. CASE j # l + 1
      <4>1. j \in 1..l /\ r[j] = q[j]
        BY <1>1, <3>2
      <4>. QED
        BY <1>2, <1>q, <1>n, <4>1 DEF Shape
    <3>. QED
      BY <3>1, <3>2
  <2>2. Len(r) <= BufferSize
    BY <1>n, <1>1, OutboundAssumption
  <2>. QED
    BY <1>0, <1>2, <1>r, <1>1, <2>1, <2>2 DEF Shape, IsSent
<1>5. Ordered(n)
  BY <1>0, <1>3 DEF Ordered, AfterWritten, BeforeQueue
<1>6. ASSUME NEW id \in DOMAIN B
      PROVE  /\ Total(B, n, id) = Total(B, m, id) + Held(B, msg, id)
             /\ Writings(n, id) = Writings(m, id)
  <2>1. Parked(B, n, id) = Parked(B, m, id) + Held(B, msg, id)
    <3>1. Cardinality(Places(Append(q, msg), {Msg(B, id)}))
            = Cardinality(Places(q, {Msg(B, id)})) + One(msg, {Msg(B, id)})
      BY <1>n, PlacesAppend
    <3>. QED
      BY <3>1, <1>q, <1>r DEF Parked, Held
  <2>3. /\ InFlush(B, n, id) = InFlush(B, m, id) /\ Queued(B, n, id) = Queued(B, m, id)
        /\ Encrypting(B, n, id) = Encrypting(B, m, id) /\ Writings(n, id) = Writings(m, id)
    BY <1>0 DEF InFlush, Queued, Encrypting, Writings
  <2>4. Held(B, msg, id) \in Nat
    BY DEF Held, One
  <2>5. /\ Queued(B, m, id) \in Nat /\ InFlush(B, m, id) \in Nat /\ Parked(B, m, id) \in Nat
        /\ Encrypting(B, m, id) \in Nat /\ Writings(m, id) \in Nat
    BY CountsAreNatural
  <2>. QED
    BY <2>1, <2>3, <2>4, <2>5 DEF Total
<1>. QED
  BY <1>4, <1>5, <1>6

\* The drain, the timer and the record of what was given up hold no message.
LEMMA NothingMoves ==
    ASSUME NEW B, Births(B), NEW m, Shape(B, m), Ordered(m),
           NEW n, Same(m, n, {"drain", "timer", "lost"}),
           DOMAIN n.drain = {"active", "answer", "rest"}, n.timer \in BOOLEAN,
           n.drain.answer \in {"none", "sent", "dropped"}, n.lost \subseteq DOMAIN B
    PROVE  /\ Shape(B, n) /\ Ordered(n)
           /\ \A id \in DOMAIN B :
                Total(B, n, id) = Total(B, m, id) /\ Writings(n, id) = Writings(m, id)
<1>0. /\ n.sending = m.sending /\ n.queue = m.queue /\ n.flushes = m.flushes
      /\ n.buffer = m.buffer /\ n.parked = m.parked /\ n.written = m.written /\ DOMAIN n = Fields
  BY DEF Same, Fields
<1>1. Shape(B, n)
  BY <1>0 DEF Shape, IsSent
<1>2. Ordered(n)
  BY <1>0 DEF Ordered, AfterWritten, BeforeQueue
<1>3. ASSUME NEW id \in DOMAIN B
      PROVE  Total(B, n, id) = Total(B, m, id) /\ Writings(n, id) = Writings(m, id)
  BY <1>0 DEF Total, InFlush, Parked, Queued, Encrypting, Writings
<1>. QED
  BY <1>1, <1>2, <1>3

\* A flush takes its next message.
LEMMA FlushTakes ==
    ASSUME NEW B, Births(B), NEW m, Shape(B, m), Ordered(m), NEW i \in DOMAIN m.flushes,
           m.flushes[i].rest # <<>>,
           NEW e, e.rest = Tail(m.flushes[i].rest),
           NEW n, Same(m, n, {"flushes"}), n.flushes = [m.flushes EXCEPT ![i] = e]
    PROVE  /\ Shape(B, n) /\ Ordered(n) /\ IsParkable(B, m.parked, Head(m.flushes[i].rest))
           /\ \A id \in DOMAIN B :
                /\ Total(B, n, id) = Total(B, m, id) - Held(B, Head(m.flushes[i].rest), id)
                /\ Writings(n, id) = Writings(m, id)
<1>0. /\ n.sending = m.sending /\ n.queue = m.queue /\ n.buffer = m.buffer
      /\ n.drain = m.drain /\ n.timer = m.timer /\ n.parked = m.parked
      /\ n.lost = m.lost /\ n.written = m.written /\ DOMAIN n = Fields
  BY DEF Same, Fields
<1>f. PICK fl : fl = m.flushes
  OBVIOUS
<1>g. PICK g : g = [fl EXCEPT ![i] = e] /\ n.flushes = g
  BY <1>f
<1>s. PICK s : s = fl[i].rest
  OBVIOUS
<1>1. Flushes(fl) /\ i \in DOMAIN fl /\ s # <<>> /\ e.rest = Tail(s)
  BY <1>f, <1>s DEF Shape
<1>2. Sequence(s) /\ Len(s) \in Nat /\ DOMAIN s = 1..Len(s)
  BY <1>1, <1>s, SequenceShape DEF Flushes
<1>3. /\ Len(s) >= 1 /\ Head(s) = s[1] /\ DOMAIN e.rest = 1..(Len(s) - 1)
      /\ \A j \in 1..(Len(s) - 1) : e.rest[j] = s[j + 1]
  <2>1. /\ Sequence(Tail(s)) /\ Len(Tail(s)) = Len(s) - 1 /\ Len(s) >= 1 /\ Head(s) = s[1]
        /\ \A j \in 1..(Len(s) - 1) : Tail(s)[j] = s[j + 1]
    BY <1>1, <1>2, TailShape
  <2>. QED
    BY <1>1, <2>1, SequenceShape
<1>4. \A j \in 1..Len(s) : IsParkable(B, m.parked, s[j])
  BY <1>f, <1>s, <1>1, <1>2 DEF Shape
<1>5. DOMAIN g = DOMAIN fl /\ g[i] = e /\ \A k \in DOMAIN fl : k # i => g[k] = fl[k]
  BY <1>1, <1>g
<1>6. ASSUME NEW M
      PROVE  Flushes(g) /\ Cardinality(Pairs(g, M)) = Cardinality(Pairs(fl, M)) - One(Head(s), M)
  <2>1. fl[i].rest # <<>> /\ e.rest = Tail(fl[i].rest)
    BY <1>1, <1>s
  <2>2. /\ Flushes([fl EXCEPT ![i] = e])
        /\ Cardinality(Pairs([fl EXCEPT ![i] = e], M))
             = Cardinality(Pairs(fl, M)) - One(Head(fl[i].rest), M)
    BY <1>1, <2>1, PairsTake
  <2>. QED
    BY <1>g, <1>s, <2>2
<1>7. Shape(B, n)
  <2>1. ASSUME NEW k \in DOMAIN g, NEW j \in DOMAIN g[k].rest
        PROVE  IsParkable(B, m.parked, g[k].rest[j])
    <3>1. CASE k = i
      <4>1. g[k] = e
        BY <1>5, <3>1
      <4>2. j \in DOMAIN e.rest
        BY <2>1, <4>1
      <4>3. j \in 1..(Len(s) - 1) /\ e.rest[j] = s[j + 1]
        BY <1>3, <4>2
      <4>4. j + 1 \in 1..Len(s)
        BY <1>2, <1>3, <4>3
      <4>. QED
        BY <1>4, <4>1, <4>3, <4>4
    <3>2. CASE k # i
      <4>1. k \in DOMAIN m.flushes /\ g[k] = m.flushes[k]
        BY <1>5, <1>f, <2>1, <3>2
      <4>. QED
        BY <2>1, <4>1 DEF Shape
    <3>. QED
      BY <3>1, <3>2
  <2>2. Flushes(g)
    BY <1>6
  <2>. QED
    BY <1>0, <1>g, <2>1, <2>2 DEF Shape, IsSent
<1>8. Ordered(n)
  BY <1>0 DEF Ordered, AfterWritten, BeforeQueue
<1>9. ASSUME NEW id \in DOMAIN B
      PROVE  /\ Total(B, n, id) = Total(B, m, id) - Held(B, Head(s), id)
             /\ Writings(n, id) = Writings(m, id)
  <2>1. InFlush(B, n, id) = InFlush(B, m, id) - Held(B, Head(s), id)
    BY <1>6, <1>f, <1>g DEF InFlush, Held
  <2>3. /\ Parked(B, n, id) = Parked(B, m, id) /\ Queued(B, n, id) = Queued(B, m, id)
        /\ Encrypting(B, n, id) = Encrypting(B, m, id) /\ Writings(n, id) = Writings(m, id)
    BY <1>0 DEF Parked, Queued, Encrypting, Writings
  <2>4. Held(B, Head(s), id) \in Nat
    BY DEF Held, One
  <2>5. /\ Queued(B, m, id) \in Nat /\ InFlush(B, m, id) \in Nat /\ Parked(B, m, id) \in Nat
        /\ Encrypting(B, m, id) \in Nat /\ Writings(m, id) \in Nat
    BY CountsAreNatural
  <2>. QED
    BY <2>1, <2>3, <2>4, <2>5 DEF Total
<1>10. IsParkable(B, m.parked, Head(s))
  BY <1>2, <1>3, <1>4
<1>. QED
  BY <1>f, <1>s, <1>7, <1>8, <1>9, <1>10

\* A flush that has nothing left ends.
LEMMA FlushEnds ==
    ASSUME NEW B, Births(B), NEW m, Shape(B, m), Ordered(m), NEW i \in DOMAIN m.flushes,
           m.flushes[i].rest = <<>>,
           NEW n, Same(m, n, {"flushes"}), n.flushes = RemoveAt(m.flushes, i)
    PROVE  /\ Shape(B, n) /\ Ordered(n)
           /\ \A id \in DOMAIN B :
                Total(B, n, id) = Total(B, m, id) /\ Writings(n, id) = Writings(m, id)
<1>0. /\ n.sending = m.sending /\ n.queue = m.queue /\ n.buffer = m.buffer
      /\ n.drain = m.drain /\ n.timer = m.timer /\ n.parked = m.parked
      /\ n.lost = m.lost /\ n.written = m.written /\ DOMAIN n = Fields
  BY DEF Same, Fields
<1>f. PICK fl : fl = m.flushes
  OBVIOUS
<1>g. PICK g : g = RemoveAt(fl, i) /\ n.flushes = g
  BY <1>f
<1>n. PICK l \in Nat : l = Len(fl) /\ DOMAIN fl = 1..l /\ Sequence(fl)
  BY <1>f, SequenceShape DEF Shape, Flushes
<1>1. Flushes(fl) /\ i \in DOMAIN fl /\ fl[i].rest = <<>> /\ i \in 1..l
  BY <1>f, <1>n DEF Shape
<1>2. DOMAIN g = 1..(l - 1) /\ \A j \in 1..(l - 1) : g[j] = fl[IF j < i THEN j ELSE j + 1]
  <2>1. /\ Sequence(g) /\ Len(g) = l - 1
        /\ \A j \in 1..(l - 1) : g[j] = fl[IF j < i THEN j ELSE j + 1]
    BY <1>n, <1>g, <1>1, RemoveShape
  <2>. QED
    BY <2>1, SequenceShape
<1>3. ASSUME NEW M
      PROVE  Flushes(g) /\ Cardinality(Pairs(g, M)) = Cardinality(Pairs(fl, M))
  BY <1>1, <1>g, PairsRemove
<1>4. Shape(B, n)
  <2>1. ASSUME NEW k \in DOMAIN g, NEW j \in DOMAIN g[k].rest
        PROVE  IsParkable(B, m.parked, g[k].rest[j])
    <3>h. PICK h : h = IF k < i THEN k ELSE k + 1
      OBVIOUS
    <3>1. h \in DOMAIN fl /\ g[k] = fl[h]
      BY <1>1, <1>2, <1>n, <2>1, <3>h
    <3>. QED
      BY <1>f, <2>1, <3>1 DEF Shape
  <2>2. Flushes(g)
    BY <1>3
  <2>. QED
    BY <1>0, <1>g, <2>1, <2>2 DEF Shape, IsSent
<1>5. Ordered(n)
  BY <1>0 DEF Ordered, AfterWritten, BeforeQueue
<1>6. ASSUME NEW id \in DOMAIN B
      PROVE  Total(B, n, id) = Total(B, m, id) /\ Writings(n, id) = Writings(m, id)
  <2>1. InFlush(B, n, id) = InFlush(B, m, id)
    BY <1>3, <1>f, <1>g DEF InFlush
  <2>. QED
    BY <1>0, <2>1 DEF Total, Parked, Queued, Encrypting, Writings
<1>. QED
  BY <1>4, <1>5, <1>6

\* A flush takes the whole buffer.
LEMMA BufferSplices ==
    ASSUME NEW B, Births(B), NEW m, Shape(B, m), Ordered(m), NEW e, e.rest = m.buffer,
           NEW n, Same(m, n, {"buffer", "flushes"}),
           n.buffer = <<>>, n.flushes = Append(m.flushes, e)
    PROVE  /\ Shape(B, n) /\ Ordered(n)
           /\ Len(m.flushes) + 1 \in DOMAIN n.flushes /\ n.flushes[Len(m.flushes) + 1] = e
           /\ \A id \in DOMAIN B :
                Total(B, n, id) = Total(B, m, id) /\ Writings(n, id) = Writings(m, id)
<1>0. /\ n.sending = m.sending /\ n.queue = m.queue
      /\ n.drain = m.drain /\ n.timer = m.timer /\ n.parked = m.parked
      /\ n.lost = m.lost /\ n.written = m.written /\ DOMAIN n = Fields
  BY DEF Same, Fields
<1>f. PICK fl : fl = m.flushes
  OBVIOUS
<1>g. PICK g : g = Append(fl, e) /\ n.flushes = g
  BY <1>f
<1>n. PICK l \in Nat : l = Len(fl) /\ DOMAIN fl = 1..l /\ Sequence(fl)
  BY <1>f, SequenceShape DEF Shape, Flushes
<1>1. Flushes(fl) /\ Sequence(e.rest) /\ Len(e.rest) <= BufferSize
  BY <1>f DEF Shape
<1>2. DOMAIN g = 1..(l + 1) /\ g[l + 1] = e /\ \A j \in 1..l : g[j] = fl[j]
  <2>1. /\ Sequence(g) /\ Len(g) = l + 1 /\ g[l + 1] = e
        /\ \A j \in 1..l : g[j] = fl[j]
    BY <1>n, <1>g, AppendShape
  <2>. QED
    BY <2>1, SequenceShape
<1>3. ASSUME NEW M
      PROVE  /\ Flushes(g)
             /\ Cardinality(Pairs(g, M)) = Cardinality(Pairs(fl, M)) + Cardinality(Places(e.rest, M))
  BY <1>1, <1>g, PairsAppend
<1>4. Shape(B, n)
  <2>1. ASSUME NEW k \in DOMAIN g, NEW j \in DOMAIN g[k].rest
        PROVE  IsParkable(B, m.parked, g[k].rest[j])
    <3>1. CASE k = l + 1
      BY <1>2, <2>1, <3>1 DEF Shape
    <3>2. CASE k # l + 1
      <4>1. k \in DOMAIN m.flushes /\ g[k] = m.flushes[k]
        BY <1>2, <1>f, <1>n, <2>1, <3>2
      <4>. QED
        BY <2>1, <4>1 DEF Shape
    <3>. QED
      BY <3>1, <3>2
  <2>2. Flushes(g)
    BY <1>3
  <2>3. Sequence(n.buffer) /\ Len(n.buffer) <= BufferSize /\ DOMAIN n.buffer = {}
    BY EmptyShape, OutboundAssumption
  <2>. QED
    BY <1>0, <1>g, <2>1, <2>2, <2>3 DEF Shape, IsSent
<1>5. Ordered(n)
  BY <1>0 DEF Ordered, AfterWritten, BeforeQueue
<1>6. ASSUME NEW id \in DOMAIN B
      PROVE  Total(B, n, id) = Total(B, m, id) /\ Writings(n, id) = Writings(m, id)
  <2>1. InFlush(B, n, id) = InFlush(B, m, id) + Parked(B, m, id)
    BY <1>3, <1>f, <1>g DEF InFlush, Parked
  <2>2. Parked(B, n, id) = 0
    BY NoPlaces DEF Parked
  <2>3. /\ Queued(B, n, id) = Queued(B, m, id)
        /\ Encrypting(B, n, id) = Encrypting(B, m, id) /\ Writings(n, id) = Writings(m, id)
    BY <1>0 DEF Queued, Encrypting, Writings
  <2>5. /\ Queued(B, m, id) \in Nat /\ InFlush(B, m, id) \in Nat /\ Parked(B, m, id) \in Nat
        /\ Encrypting(B, m, id) \in Nat /\ Writings(m, id) \in Nat
    BY CountsAreNatural
  <2>. QED
    BY <2>1, <2>2, <2>3, <2>5 DEF Total
<1>. QED
  BY <1>f, <1>g, <1>n, <1>2, <1>4, <1>5, <1>6

\* The loop ends with the message it was sending.
LEMMA SendingEnds ==
    ASSUME NEW B, Births(B), NEW m, Shape(B, m), Ordered(m), NEW s \in m.sending,
           NEW n, Same(m, n, {"sending"}), n.sending = m.sending \ {s}
    PROVE  /\ Shape(B, n) /\ Ordered(n) /\ n.sending = {}
           /\ \A id \in DOMAIN B :
                /\ Total(B, n, id) = Total(B, m, id)
                     - (IF s.step = "encrypting" THEN Held(B, s.msg, id) ELSE 0)
                /\ Writings(n, id) = Writings(m, id)
<1>0. /\ n.flushes = m.flushes /\ n.queue = m.queue /\ n.buffer = m.buffer
      /\ n.drain = m.drain /\ n.timer = m.timer /\ n.parked = m.parked
      /\ n.lost = m.lost /\ n.written = m.written /\ DOMAIN n = Fields
  BY DEF Same, Fields
<1>1. m.sending = {s} /\ n.sending = {}
  BY DEF Shape
<1>2. Shape(B, n)
  BY <1>0, <1>1 DEF Shape
<1>3. Ordered(n)
  BY <1>0, <1>1 DEF Ordered, AfterWritten, BeforeQueue
<1>4. ASSUME NEW id \in DOMAIN B
      PROVE  /\ Total(B, n, id) = Total(B, m, id)
                  - (IF s.step = "encrypting" THEN Held(B, s.msg, id) ELSE 0)
             /\ Writings(n, id) = Writings(m, id)
  <2>h. PICK h : h = IF s.step = "encrypting" THEN Held(B, s.msg, id) ELSE 0
    OBVIOUS
  <2>1. Encrypting(B, n, id) = 0 /\ Encrypting(B, m, id) = h /\ h \in Nat
    BY <1>1, <2>h, EncryptingIs DEF Held, One
  <2>3. /\ Queued(B, n, id) = Queued(B, m, id) /\ InFlush(B, n, id) = InFlush(B, m, id)
        /\ Parked(B, n, id) = Parked(B, m, id) /\ Writings(n, id) = Writings(m, id)
    BY <1>0 DEF Queued, InFlush, Parked, Writings
  <2>5. /\ Queued(B, m, id) \in Nat /\ InFlush(B, m, id) \in Nat /\ Parked(B, m, id) \in Nat
        /\ Writings(m, id) \in Nat
    BY CountsAreNatural
  <2>. QED
    BY <2>h, <2>1, <2>3, <2>5 DEF Total
<1>. QED
  BY <1>1, <1>2, <1>3, <1>4

\* The loop begins to encrypt a message, or to await that a chunk has left.
LEMMA SendingBegins ==
    ASSUME NEW B, Births(B), NEW m, Shape(B, m), Ordered(m), m.sending = {},
           NEW s, IsSent(B, m, s),
           s.step = "encrypting" /\ s.msg.kind # "asset" =>
             AfterWritten(m, s.msg.id) /\ BeforeQueue(m, s.msg.id),
           NEW n, Same(m, n, {"sending"}), n.sending = m.sending \cup {s}
    PROVE  /\ Shape(B, n) /\ Ordered(n)
           /\ \A id \in DOMAIN B :
                /\ Total(B, n, id) = Total(B, m, id)
                     + (IF s.step = "encrypting" THEN Held(B, s.msg, id) ELSE 0)
                /\ Writings(n, id) = Writings(m, id)
<1>0. /\ n.flushes = m.flushes /\ n.queue = m.queue /\ n.buffer = m.buffer
      /\ n.drain = m.drain /\ n.timer = m.timer /\ n.parked = m.parked
      /\ n.lost = m.lost /\ n.written = m.written /\ DOMAIN n = Fields
  BY DEF Same, Fields
<1>1. n.sending = {s}
  OBVIOUS
<1>2. Shape(B, n)
  BY <1>0, <1>1 DEF Shape, IsSent
<1>3. Ordered(n)
  BY <1>0, <1>1 DEF Ordered, AfterWritten, BeforeQueue
<1>4. ASSUME NEW id \in DOMAIN B
      PROVE  /\ Total(B, n, id) = Total(B, m, id)
                  + (IF s.step = "encrypting" THEN Held(B, s.msg, id) ELSE 0)
             /\ Writings(n, id) = Writings(m, id)
  <2>h. PICK h : h = IF s.step = "encrypting" THEN Held(B, s.msg, id) ELSE 0
    OBVIOUS
  <2>1. Encrypting(B, m, id) = 0 /\ Encrypting(B, n, id) = h /\ h \in Nat
    BY <1>1, <2>h, EncryptingIs DEF Held, One
  <2>3. /\ Queued(B, n, id) = Queued(B, m, id) /\ InFlush(B, n, id) = InFlush(B, m, id)
        /\ Parked(B, n, id) = Parked(B, m, id) /\ Writings(n, id) = Writings(m, id)
    BY <1>0 DEF Queued, InFlush, Parked, Writings
  <2>5. /\ Queued(B, m, id) \in Nat /\ InFlush(B, m, id) \in Nat /\ Parked(B, m, id) \in Nat
        /\ Writings(m, id) \in Nat
    BY CountsAreNatural
  <2>. QED
    BY <2>h, <2>1, <2>3, <2>5 DEF Total
<1>. QED
  BY <1>2, <1>3, <1>4

\* A message is written.
LEMMA WrittenGains ==
    ASSUME NEW B, Births(B), NEW m, Shape(B, m), Ordered(m), m.sending = {},
           NEW msg, msg.id \in DOMAIN B, msg = Msg(B, msg.id),
           NEW k \in Sockets, OnOwn(B, msg, k),
           AfterWritten(m, msg.id), BeforeQueue(m, msg.id),
           NEW n, Same(m, n, {"written"}),
           n.written = Append(m.written, [id |-> msg.id, socket |-> k])
    PROVE  /\ Shape(B, n) /\ Ordered(n)
           /\ \A id \in DOMAIN B :
                /\ Total(B, n, id) = Total(B, m, id) + Held(B, msg, id)
                /\ Writings(n, id) = Writings(m, id) + Held(B, msg, id)
<1>0. /\ n.flushes = m.flushes /\ n.queue = m.queue /\ n.buffer = m.buffer
      /\ n.drain = m.drain /\ n.timer = m.timer /\ n.parked = m.parked
      /\ n.lost = m.lost /\ n.sending = {} /\ DOMAIN n = Fields
  BY DEF Same, Fields
<1>q. PICK q : q = m.written
  OBVIOUS
<1>e. PICK e : e = [id |-> msg.id, socket |-> k]
  OBVIOUS
<1>n. PICK l \in Nat : l = Len(q) /\ DOMAIN q = 1..l /\ Sequence(q)
  BY <1>q, SequenceShape DEF Shape
<1>r. PICK r : r = Append(q, e) /\ n.written = r
  BY <1>q, <1>e
<1>1. /\ Sequence(r) /\ Len(r) = l + 1 /\ DOMAIN r = 1..(l + 1)
      /\ \A j \in 1..l : r[j] = q[j]
      /\ r[l + 1] = e
  <2>1. /\ Sequence(r) /\ Len(r) = l + 1 /\ r[l + 1] = e
        /\ \A j \in 1..l : r[j] = q[j]
    BY <1>n, <1>r, AppendShape
  <2>. QED
    BY <2>1, SequenceShape
<1>2. ASSUME NEW j \in DOMAIN r, j # l + 1 PROVE j \in 1..l /\ r[j] = q[j]
  BY <1>1, <1>2
<1>3. e.id = msg.id /\ e.socket = k
  BY <1>e
<1>4. Shape(B, n)
  <2>1. ASSUME NEW j \in DOMAIN r PROVE IsWritten(B, r[j])
    <3>1. CASE j = l + 1
      BY <1>1, <1>e, <1>3, <3>1 DEF IsWritten
    <3>2. CASE j # l + 1
      BY <1>q, <1>n, <1>2, <3>2 DEF Shape
    <3>. QED
      BY <3>1, <3>2
  <2>. QED
    BY <1>0, <1>r, <1>1, <2>1 DEF Shape
<1>5. Ordered(n)
  <2>1. ASSUME NEW b, AfterWritten(m, b), InOrder(m.parked, msg.id, b)
        PROVE  AfterWritten(n, b)
    <3>1. ASSUME NEW j \in DOMAIN r PROVE InOrder(m.parked, r[j].id, b)
      <4>1. CASE j = l + 1
        BY <1>1, <1>3, <2>1, <4>1
      <4>2. CASE j # l + 1
        BY <1>q, <1>n, <1>2, <2>1, <4>2 DEF AfterWritten
      <4>. QED
        BY <4>1, <4>2
    <3>. QED
      BY <1>0, <1>r, <3>1 DEF AfterWritten
  <2>2. ASSUME NEW j \in DOMAIN n.queue, n.queue[j].msg.kind # "asset"
        PROVE  AfterWritten(n, n.queue[j].msg.id)
    <3>1. AfterWritten(m, n.queue[j].msg.id) /\ InOrder(m.parked, msg.id, n.queue[j].msg.id)
      BY <1>0, <2>2 DEF Ordered, BeforeQueue
    <3>. QED
      BY <2>1, <3>1
  <2>3. ASSUME NEW i \in DOMAIN r, NEW j \in DOMAIN r, i < j
        PROVE  InOrder(m.parked, r[i].id, r[j].id)
    <3>1. i \in 1..l /\ r[i] = q[i]
      BY <1>1, <2>3
    <3>2. CASE j = l + 1
      BY <1>1, <1>3, <1>q, <1>n, <3>1, <3>2 DEF AfterWritten
    <3>3. CASE j # l + 1
      BY <1>q, <1>n, <1>2, <2>3, <3>1, <3>3 DEF Ordered
    <3>. QED
      BY <3>2, <3>3
  <2>4. \A i, j \in DOMAIN n.queue :
          i < j /\ n.queue[i].msg.kind # "asset" /\ n.queue[j].msg.kind # "asset" =>
            InOrder(n.parked, n.queue[i].msg.id, n.queue[j].msg.id)
    BY <1>0 DEF Ordered
  <2>. QED
    BY <1>0, <1>r, <2>2, <2>3, <2>4 DEF Ordered
<1>6. ASSUME NEW id \in DOMAIN B
      PROVE  /\ Total(B, n, id) = Total(B, m, id) + Held(B, msg, id)
             /\ Writings(n, id) = Writings(m, id) + Held(B, msg, id)
  <2>1. Writings(n, id) = Writings(m, id) + One(e, Writes(id))
    <3>1. Cardinality(Places(Append(q, e), Writes(id)))
            = Cardinality(Places(q, Writes(id))) + One(e, Writes(id))
      BY <1>n, PlacesAppend
    <3>. QED
      BY <3>1, <1>q, <1>r DEF Writings
  <2>2. One(e, Writes(id)) = Held(B, msg, id)
    <3>1. One(e, Writes(id)) = IF msg.id = id THEN 1 ELSE 0
      BY <1>e, HandIsCounted
    <3>2. msg.id = id <=> msg = Msg(B, id)
      BY MessageOf
    <3>. QED
      BY <3>1, <3>2 DEF Held, One
  <2>3. /\ InFlush(B, n, id) = InFlush(B, m, id) /\ Parked(B, n, id) = Parked(B, m, id)
        /\ Encrypting(B, n, id) = Encrypting(B, m, id) /\ Queued(B, n, id) = Queued(B, m, id)
    BY <1>0 DEF InFlush, Parked, Encrypting, Queued
  <2>4. Held(B, msg, id) \in Nat
    BY DEF Held, One
  <2>5. /\ Queued(B, m, id) \in Nat /\ InFlush(B, m, id) \in Nat /\ Parked(B, m, id) \in Nat
        /\ Encrypting(B, m, id) \in Nat /\ Writings(m, id) \in Nat
    BY CountsAreNatural
  <2>. QED
    BY <2>1, <2>2, <2>3, <2>4, <2>5 DEF Total
<1>. QED
  BY <1>4, <1>5, <1>6

-----------------------------------------------------------------------------
(* What that does to the balance *)

LEMMA TotalIsNatural ==
    ASSUME NEW B, NEW m, Shape(B, m), NEW id
    PROVE  Total(B, m, id) \in Nat /\ Writings(m, id) \in Nat /\ Writings(m, id) <= Total(B, m, id)
BY CountsAreNatural DEF Total

\* A message is taken from one place and put into another.
LEMMA BalanceMoves ==
    ASSUME NEW B, Births(B), NEW m, NEW n, n.lost = m.lost, NEW h, NEW g, Balanced(B, m, h),
           \A id \in DOMAIN B : /\ Total(B, n, id) + Held(B, g, id) = Total(B, m, id) + Held(B, h, id)
                                /\ Writings(n, id) = Writings(m, id)
    PROVE  Balanced(B, n, g)
BY DEF Balanced

\* A message is taken from its place.
LEMMA BalanceTakes ==
    ASSUME NEW B, Births(B), NEW m, Shape(B, m), NEW n, n.lost = m.lost, NEW h,
           Balanced(B, m, Nobody),
           \A id \in DOMAIN B : /\ Total(B, n, id) = Total(B, m, id) - Held(B, h, id)
                                /\ Writings(n, id) = Writings(m, id)
    PROVE  Balanced(B, n, h)
<1>. SUFFICES ASSUME NEW id \in DOMAIN B
              PROVE  Total(B, n, id) + Held(B, h, id)
                       = IF id \in n.lost /\ Writings(n, id) = 0 THEN 0 ELSE 1
  BY DEF Balanced
<1>1. Total(B, m, id) \in Nat /\ Held(B, Nobody, id) = 0 /\ Held(B, h, id) \in {0, 1}
  BY HandIsCounted, TotalIsNatural
<1>2. Total(B, m, id) + Held(B, Nobody, id) = IF id \in m.lost /\ Writings(m, id) = 0 THEN 0 ELSE 1
  BY DEF Balanced
<1>3. Total(B, n, id) = Total(B, m, id) - Held(B, h, id) /\ Writings(n, id) = Writings(m, id)
  OBVIOUS
<1>4. Total(B, n, id) + Held(B, h, id) = Total(B, m, id)
  BY <1>1, <1>3
<1>. QED
  BY <1>1, <1>2, <1>3, <1>4

\* A message is given up.
LEMMA BalanceAbandons ==
    ASSUME NEW B, Births(B), NEW m, Shape(B, m), NEW n, Shape(B, n), NEW h, Balanced(B, m, h),
           NEW x, IsKnown(B, x),
           n.lost = m.lost \cup (IF x.kind = "asset" THEN {} ELSE {x.id}),
           \A id \in DOMAIN B : /\ Total(B, n, id) = Total(B, m, id) - Held(B, x, id)
                                /\ Writings(n, id) = Writings(m, id)
    PROVE  Balanced(B, n, h)
<1>. SUFFICES ASSUME NEW id \in DOMAIN B
              PROVE  Total(B, n, id) + Held(B, h, id)
                       = IF id \in n.lost /\ Writings(n, id) = 0 THEN 0 ELSE 1
  BY DEF Balanced
<1>1. /\ Total(B, m, id) \in Nat /\ Total(B, n, id) \in Nat /\ Writings(n, id) \in Nat
      /\ Writings(n, id) <= Total(B, n, id)
  BY TotalIsNatural
<1>2. Held(B, h, id) \in {0, 1} /\ Held(B, x, id) \in {0, 1} /\ (Held(B, x, id) = 1 <=> x = Msg(B, id))
  BY HandIsCounted
<1>3. Total(B, m, id) + Held(B, h, id) = IF id \in m.lost /\ Writings(m, id) = 0 THEN 0 ELSE 1
  BY DEF Balanced
<1>4. Total(B, n, id) = Total(B, m, id) - Held(B, x, id) /\ Writings(n, id) = Writings(m, id)
  OBVIOUS
<1>5. CASE Held(B, x, id) = 1
  <2>1. x.kind # "asset" /\ x.id = id
    BY <1>2, <1>5, MessageOf
  <2>2. id \in n.lost
    BY <2>1
  <2>3. Total(B, n, id) = 0 /\ Held(B, h, id) = 0 /\ Writings(n, id) = 0
    BY <1>1, <1>2, <1>3, <1>4, <1>5
  <2>. QED
    BY <2>2, <2>3
<1>6. CASE Held(B, x, id) = 0
  <2>1. id \in n.lost <=> id \in m.lost
    BY <1>2, <1>6 DEF IsKnown
  <2>. QED
    BY <1>1, <1>2, <1>3, <1>4, <1>6, <2>1
<1>. QED
  BY <1>2, <1>5, <1>6

\* The message in hand is given up.
LEMMA BalanceDrops ==
    ASSUME NEW B, Births(B), NEW m, Shape(B, m), NEW n, NEW h, Balanced(B, m, h), IsKnown(B, h),
           n.lost = m.lost \cup (IF h.kind = "asset" THEN {} ELSE {h.id}),
           \A id \in DOMAIN B : Total(B, n, id) = Total(B, m, id) /\ Writings(n, id) = Writings(m, id)
    PROVE  Balanced(B, n, Nobody)
<1>. SUFFICES ASSUME NEW id \in DOMAIN B
              PROVE  Total(B, n, id) + Held(B, Nobody, id)
                       = IF id \in n.lost /\ Writings(n, id) = 0 THEN 0 ELSE 1
  BY DEF Balanced
<1>1. /\ Total(B, m, id) \in Nat /\ Writings(m, id) \in Nat
      /\ Writings(m, id) <= Total(B, m, id)
  BY TotalIsNatural
<1>2. /\ Held(B, Nobody, id) = 0
      /\ Held(B, h, id) \in {0, 1} /\ (Held(B, h, id) = 1 <=> h = Msg(B, id))
  BY HandIsCounted
<1>3. Total(B, m, id) + Held(B, h, id) = IF id \in m.lost /\ Writings(m, id) = 0 THEN 0 ELSE 1
  BY DEF Balanced
<1>4. Total(B, n, id) = Total(B, m, id) /\ Writings(n, id) = Writings(m, id)
  OBVIOUS
<1>5. CASE Held(B, h, id) = 1
  <2>1. h.kind # "asset" /\ h.id = id
    BY <1>2, <1>5, MessageOf
  <2>2. id \in n.lost
    BY <2>1
  <2>3. Total(B, m, id) = 0 /\ Writings(m, id) = 0
    BY <1>1, <1>3, <1>5
  <2>. QED
    BY <1>2, <1>4, <2>2, <2>3
<1>6. CASE Held(B, h, id) = 0
  <2>1. id \in n.lost <=> id \in m.lost
    BY <1>2, <1>6 DEF IsKnown
  <2>. QED
    BY <1>1, <1>2, <1>3, <1>4, <1>6, <2>1
<1>. QED
  BY <1>2, <1>5, <1>6

\* The message in hand is written.
LEMMA BalanceWrites ==
    ASSUME NEW B, Births(B), NEW m, Shape(B, m), NEW n, NEW h, Balanced(B, m, h), n.lost = m.lost,
           \A id \in DOMAIN B : /\ Total(B, n, id) = Total(B, m, id) + Held(B, h, id)
                                /\ Writings(n, id) = Writings(m, id) + Held(B, h, id)
    PROVE  Balanced(B, n, Nobody)
<1>. SUFFICES ASSUME NEW id \in DOMAIN B
              PROVE  Total(B, n, id) + Held(B, Nobody, id)
                       = IF id \in n.lost /\ Writings(n, id) = 0 THEN 0 ELSE 1
  BY DEF Balanced
<1>1. Total(B, m, id) \in Nat /\ Writings(m, id) \in Nat
  BY TotalIsNatural
<1>2. Held(B, Nobody, id) = 0 /\ Held(B, h, id) \in {0, 1}
  BY HandIsCounted
<1>3. Total(B, m, id) + Held(B, h, id) = IF id \in m.lost /\ Writings(m, id) = 0 THEN 0 ELSE 1
  BY DEF Balanced
<1>4. /\ Total(B, n, id) = Total(B, m, id) + Held(B, h, id)
      /\ Writings(n, id) = Writings(m, id) + Held(B, h, id)
  OBVIOUS
<1>5. CASE Held(B, h, id) = 1
  BY <1>1, <1>2, <1>3, <1>4, <1>5
<1>6. CASE Held(B, h, id) = 0
  BY <1>1, <1>2, <1>3, <1>4, <1>6
<1>. QED
  BY <1>2, <1>5, <1>6

-----------------------------------------------------------------------------
(* The operators of AgentOutbound *)

\* All that a full queue or a full buffer keeps are ends of turns.
KeepsTerminals(n) ==
    \/ Len(n.queue) = QueueSize /\ \A i \in DOMAIN n.queue : n.queue[i].msg.kind = "terminal"
    \/ Len(n.buffer) = BufferSize /\ \A i \in DOMAIN n.buffer : n.buffer[i].kind = "terminal"

\* What TerminalsOutlive says of a step.
Outlives(B, m, n) ==
    \A id \in n.lost \ m.lost : B[id].kind = "terminal" => KeepsTerminals(n)

LEMMA EvictedIs ==
    ASSUME NEW b, Sequence(b)
    PROVE  \/ Evicted(b) = 0 /\ \A i \in DOMAIN b : b[i].kind = "terminal"
           \/ Evicted(b) > 0 /\ Evicted(b) \in DOMAIN b /\ b[Evicted(b)].kind # "terminal"
<1>i. PICK I : I = {i \in 1..Len(b) : b[i].kind # "terminal"}
  OBVIOUS
<1>1. Evicted(b) = IF I # {} THEN Min(I) ELSE 0
  BY <1>i DEF Evicted, SelectInSeq, Dispensable
<1>2. Len(b) \in Nat /\ DOMAIN b = 1..Len(b)
  BY SequenceShape
<1>3. I # {} => Min(I) \in I
  <2>1. I \subseteq Nat
    BY <1>i, <1>2
  <2>. QED
    BY <2>1, MinIsLeast
<1>. QED
  BY <1>i, <1>1, <1>2, <1>3

LEMMA QueueEvictedIs ==
    ASSUME NEW q, Sequence(q)
    PROVE  LET old == SelectInSeq(q, LAMBDA item : Dispensable(item.msg)) IN
           \/ old = 0 /\ \A i \in DOMAIN q : q[i].msg.kind = "terminal"
           \/ old > 0 /\ old \in DOMAIN q /\ q[old].msg.kind # "terminal"
<1>i. PICK I : I = {i \in 1..Len(q) : q[i].msg.kind # "terminal"}
  OBVIOUS
<1>1. SelectInSeq(q, LAMBDA item : Dispensable(item.msg)) = IF I # {} THEN Min(I) ELSE 0
  BY <1>i DEF SelectInSeq, Dispensable
<1>2. Len(q) \in Nat /\ DOMAIN q = 1..Len(q)
  BY SequenceShape
<1>3. I # {} => Min(I) \in I
  <2>1. I \subseteq Nat
    BY <1>i, <1>2
  <2>. QED
    BY <2>1, MinIsLeast
<1>. QED
  BY <1>i, <1>1, <1>2, <1>3

LEMMA AnsweredIs ==
    ASSUME NEW B, NEW m, Shape(B, m), NEW msg, IsKnown(B, msg), NEW outcome \in {"sent", "dropped"},
           NEW n, n = Answered(m, msg, outcome)
    PROVE  /\ Same(m, n, {"lost", "drain"})
           /\ DOMAIN n.drain = {"active", "answer", "rest"}
           /\ n.drain.answer \in {"none", "sent", "dropped"} /\ n.timer \in BOOLEAN
           /\ n.lost = IF outcome = "dropped"
                       THEN m.lost \cup (IF msg.kind = "asset" THEN {} ELSE {msg.id}) ELSE m.lost
           /\ n.lost \subseteq DOMAIN B
<1>0. /\ DOMAIN m = Fields /\ DOMAIN m.drain = {"active", "answer", "rest"}
      /\ m.drain.answer \in {"none", "sent", "dropped"} /\ m.timer \in BOOLEAN
      /\ m.lost \subseteq DOMAIN B
  BY DEF Shape
<1>1. CASE msg.kind = "asset"
  <2>1. n = [m EXCEPT !.drain.answer = outcome]
    BY <1>1 DEF Answered
  <2>. QED
    BY <1>0, <1>1, <2>1 DEF Same, Fields
<1>2. CASE msg.kind # "asset" /\ outcome = "dropped"
  <2>1. n = [m EXCEPT !.lost = @ \cup {msg.id}]
    BY <1>2 DEF Answered
  <2>2. msg.id \in DOMAIN B
    BY <1>2 DEF IsKnown
  <2>. QED
    BY <1>0, <1>2, <2>1, <2>2 DEF Same, Fields
<1>3. CASE msg.kind # "asset" /\ outcome = "sent"
  <2>1. n = m
    BY <1>3 DEF Answered
  <2>. QED
    BY <1>0, <1>3, <2>1 DEF Same, Fields
<1>. QED
  BY <1>1, <1>2, <1>3

LEMMA HandIsDropped ==
    ASSUME NEW B, Births(B), NEW m, NEW h, Good(B, m, h), IsKnown(B, h),
           NEW n, n = Answered(m, h, "dropped"),
           h.kind = "terminal" => KeepsTerminals(m)
    PROVE  Good(B, n, Nobody) /\ Outlives(B, m, n) /\ Same(m, n, {"lost", "drain"})
<1>0. Shape(B, m) /\ Ordered(m) /\ Balanced(B, m, h)
  BY DEF Good
<1>1. /\ Same(m, n, {"lost", "drain"})
      /\ DOMAIN n.drain = {"active", "answer", "rest"}
      /\ n.drain.answer \in {"none", "sent", "dropped"} /\ n.timer \in BOOLEAN
      /\ n.lost = m.lost \cup (IF h.kind = "asset" THEN {} ELSE {h.id})
      /\ n.lost \subseteq DOMAIN B
  BY <1>0, AnsweredIs
<1>2. Same(m, n, {"drain", "timer", "lost"})
  BY <1>1 DEF Same
<1>3. /\ Shape(B, n) /\ Ordered(n)
      /\ \A id \in DOMAIN B : Total(B, n, id) = Total(B, m, id) /\ Writings(n, id) = Writings(m, id)
  BY <1>0, <1>1, <1>2, NothingMoves
<1>4. Balanced(B, n, Nobody)
  BY <1>0, <1>1, <1>3, BalanceDrops
<1>5. Outlives(B, m, n)
  <2>1. n.queue = m.queue /\ n.buffer = m.buffer
    BY <1>1 DEF Same, Fields
  <2>2. \A id \in n.lost \ m.lost : B[id].kind = "terminal" => h.kind = "terminal"
    BY <1>1 DEF IsKnown, Msg
  <2>3. KeepsTerminals(m) => KeepsTerminals(n)
    BY <2>1 DEF KeepsTerminals
  <2>. QED
    BY <2>2, <2>3 DEF Outlives
<1>. QED
  BY <1>1, <1>3, <1>4, <1>5 DEF Good

LEMMA BufferedIsGood ==
    ASSUME NEW B, Births(B), NEW m, NEW h, Good(B, m, h), IsKnown(B, h),
           NEW n, n = Buffered(m, h)
    PROVE  Good(B, n, Nobody) /\ Outlives(B, m, n) /\ n.written = m.written
<1>0. Shape(B, m) /\ Ordered(m) /\ Balanced(B, m, h) /\ DOMAIN m = Fields /\ Sequence(m.buffer)
  BY DEF Good, Shape
<1>o. PICK old : old = Evicted(m.buffer)
  OBVIOUS
<1>1. \/ old = 0 /\ \A i \in DOMAIN m.buffer : m.buffer[i].kind = "terminal"
      \/ old > 0 /\ old \in DOMAIN m.buffer /\ m.buffer[old].kind # "terminal"
  BY <1>0, <1>o, EvictedIs
<1>2. CASE h.kind \notin Bufferable
  <2>1. n = Answered(m, h, "dropped") /\ h.kind # "terminal"
    BY <1>2 DEF Buffered, Bufferable
  <2>. QED
    BY <2>1, HandIsDropped DEF Same, Fields
<1>i. ASSUME NEW r, Good(B, r, h), r.written = m.written, Len(r.buffer) < BufferSize,
             h.kind \in Bufferable, n = [r EXCEPT !.buffer = Append(@, h), !.parked = @ \cup {h.id}]
      PROVE  Good(B, n, Nobody) /\ n.written = m.written /\ n.lost = r.lost
  <2>1. Shape(B, r) /\ Ordered(r) /\ Balanced(B, r, h) /\ DOMAIN r = Fields
    BY <1>i DEF Good, Shape
  <2>2. /\ Same(r, n, {"buffer", "parked"}) /\ n.buffer = Append(r.buffer, h)
        /\ n.parked = r.parked \cup {h.id} /\ n.lost = r.lost /\ n.written = r.written
    BY <1>i, <2>1 DEF Same, Fields
  <2>3. h.id \in DOMAIN B /\ h = Msg(B, h.id)
    BY <1>i DEF IsKnown, Bufferable
  <2>4. /\ Shape(B, n) /\ Ordered(n)
        /\ \A id \in DOMAIN B :
             /\ Total(B, n, id) = Total(B, r, id) + Held(B, h, id)
             /\ Writings(n, id) = Writings(r, id)
    <3>1. Len(r.buffer) < BufferSize /\ h.kind \in Bufferable
      BY <1>i
    <3>. QED
      BY <2>1, <2>2, <2>3, <3>1, BufferGains
  <2>5. \A id \in DOMAIN B : /\ Total(B, n, id) + Held(B, Nobody, id) = Total(B, r, id) + Held(B, h, id)
                             /\ Writings(n, id) = Writings(r, id)
    <3>1. \A id \in DOMAIN B : Held(B, Nobody, id) = 0 /\ Held(B, h, id) \in Nat /\ Total(B, r, id) \in Nat
      BY <2>1, HandIsCounted, TotalIsNatural DEF Held, One
    <3>. QED
      BY <2>4, <3>1
  <2>6. Balanced(B, n, Nobody)
    BY <2>1, <2>2, <2>5, BalanceMoves
  <2>. QED
    BY <1>i, <2>2, <2>4, <2>6 DEF Good
<1>3. CASE h.kind \in Bufferable /\ ~(Len(m.buffer) >= BufferSize)
  <2>1. n = [m EXCEPT !.buffer = Append(@, h), !.parked = @ \cup {h.id}]
    BY <1>3 DEF Buffered
  <2>2. Len(m.buffer) < BufferSize
    BY <1>0, <1>3, SequenceShape, OutboundAssumption
  <2>3. Good(B, n, Nobody) /\ n.written = m.written /\ n.lost = m.lost
    BY <1>i, <1>3, <2>1, <2>2
  <2>. QED
    BY <2>3 DEF Outlives
<1>4. CASE h.kind \in Bufferable /\ Len(m.buffer) >= BufferSize /\ old > 0
  <2>r. PICK r : r = [m EXCEPT !.buffer = RemoveAt(@, old), !.lost = @ \cup {m.buffer[old].id}]
    OBVIOUS
  <2>1. n = [r EXCEPT !.buffer = Append(@, h), !.parked = @ \cup {h.id}]
    BY <1>4, <1>o, <2>r DEF Buffered
  <2>x. PICK x : x = m.buffer[old]
    OBVIOUS
  <2>2. old \in DOMAIN m.buffer /\ x.kind # "terminal" /\ IsKnown(B, x) /\ x.kind # "asset"
        /\ x.id \in DOMAIN B /\ x = Msg(B, x.id)
    BY <1>0, <1>1, <1>4, <2>x DEF Shape, IsParkable, IsKnown, Bufferable
  <2>s. PICK s : s = [m EXCEPT !.buffer = RemoveAt(@, old)]
    OBVIOUS
  <2>3. Same(m, s, {"buffer"}) /\ s.buffer = RemoveAt(m.buffer, old)
    BY <1>0, <2>s DEF Same, Fields
  <2>4. /\ Shape(B, s) /\ Ordered(s) /\ Len(s.buffer) < BufferSize
        /\ \A id \in DOMAIN B :
             /\ Total(B, s, id) = Total(B, m, id) - Held(B, x, id)
             /\ Writings(s, id) = Writings(m, id)
    BY <1>0, <2>2, <2>3, <2>x, BufferLoses
  <2>5. /\ Same(s, r, {"lost"}) /\ r.lost = m.lost \cup {x.id} /\ r.buffer = s.buffer
        /\ r.drain = m.drain /\ r.timer = m.timer /\ r.written = m.written
    BY <1>0, <2>s, <2>r, <2>x DEF Same, Fields
  <2>6. /\ Same(s, r, {"drain", "timer", "lost"}) /\ r.lost \subseteq DOMAIN B
        /\ DOMAIN r.drain = {"active", "answer", "rest"} /\ r.timer \in BOOLEAN
        /\ r.drain.answer \in {"none", "sent", "dropped"}
    BY <1>0, <2>2, <2>5 DEF Same, Shape
  <2>7. /\ Shape(B, r) /\ Ordered(r)
        /\ \A id \in DOMAIN B : Total(B, r, id) = Total(B, s, id) /\ Writings(r, id) = Writings(s, id)
    BY <2>4, <2>6, NothingMoves
  <2>8. Balanced(B, r, h)
    <3>1. r.lost = m.lost \cup (IF x.kind = "asset" THEN {} ELSE {x.id})
      BY <2>2, <2>5
    <3>2. \A id \in DOMAIN B : /\ Total(B, r, id) = Total(B, m, id) - Held(B, x, id)
                               /\ Writings(r, id) = Writings(m, id)
      BY <2>4, <2>7
    <3>. QED
      BY <1>0, <2>2, <2>7, <3>1, <3>2, BalanceAbandons
  <2>9. Good(B, n, Nobody) /\ n.written = m.written /\ n.lost = r.lost
    BY <1>i, <1>4, <2>1, <2>4, <2>5, <2>7, <2>8 DEF Good
  <2>10. B[x.id].kind # "terminal"
    BY <2>2 DEF Msg
  <2>. QED
    BY <2>5, <2>9, <2>10 DEF Outlives
<1>5. CASE h.kind \in Bufferable /\ Len(m.buffer) >= BufferSize /\ ~(old > 0)
  <2>1. n = Answered(m, h, "dropped")
    BY <1>5, <1>o DEF Buffered
  <2>2. Len(m.buffer) = BufferSize
    BY <1>0, <1>5, SequenceShape, OutboundAssumption DEF Shape
  <2>3. KeepsTerminals(m)
    BY <1>1, <1>5, <2>2 DEF KeepsTerminals
  <2>. QED
    BY <2>1, <2>3, HandIsDropped DEF Same, Fields
<1>. QED
  BY <1>2, <1>3, <1>4, <1>5

LEMMA SentIsGood ==
    ASSUME NEW B, Births(B), NEW m, NEW h, Good(B, m, h), IsKnown(B, h),
           conn.n \in Sockets, Open => OnOwn(B, h, conn.n), IsLast(m, h),
           NEW n, n = Sent(m, h)
    PROVE  Good(B, n, Nobody) /\ Outlives(B, m, n) /\ n.written = m.written
<1>0. Shape(B, m) /\ Ordered(m) /\ Balanced(B, m, h) /\ DOMAIN m = Fields /\ Sequence(m.queue)
  BY DEF Good, Shape
<1>o. PICK old : old = SelectInSeq(m.queue, LAMBDA item : Dispensable(item.msg))
  OBVIOUS
<1>1. \/ old = 0 /\ \A i \in DOMAIN m.queue : m.queue[i].msg.kind = "terminal"
      \/ old > 0 /\ old \in DOMAIN m.queue /\ m.queue[old].msg.kind # "terminal"
  BY <1>0, <1>o, QueueEvictedIs
<1>e. PICK e : e = [msg |-> h, socket |-> conn.n]
  OBVIOUS
<1>2. CASE ~Open
  <2>1. n = Buffered(m, h)
    BY <1>2 DEF Sent
  <2>. QED
    BY <2>1, BufferedIsGood
<1>i. ASSUME NEW r, Good(B, r, h), r.written = m.written, Len(r.queue) < QueueSize,
             IsLast(r, h), Open, n = [r EXCEPT !.queue = Append(@, e)]
      PROVE  Good(B, n, Nobody) /\ n.written = m.written /\ n.lost = r.lost
  <2>1. Shape(B, r) /\ Ordered(r) /\ Balanced(B, r, h) /\ DOMAIN r = Fields
    BY <1>i DEF Good, Shape
  <2>2. /\ Same(r, n, {"queue"}) /\ n.queue = Append(r.queue, [msg |-> h, socket |-> conn.n])
        /\ n.lost = r.lost /\ n.written = r.written
    BY <1>e, <1>i, <2>1 DEF Same, Fields
  <2>4. /\ Shape(B, n) /\ Ordered(n)
        /\ \A id \in DOMAIN B :
             /\ Total(B, n, id) = Total(B, r, id) + Held(B, h, id)
             /\ Writings(n, id) = Writings(r, id)
    <3>1. Len(r.queue) < QueueSize /\ IsLast(r, h) /\ OnOwn(B, h, conn.n)
      BY <1>i
    <3>. QED
      BY <2>1, <2>2, <3>1, QueueGains
  <2>5. \A id \in DOMAIN B : /\ Total(B, n, id) + Held(B, Nobody, id) = Total(B, r, id) + Held(B, h, id)
                             /\ Writings(n, id) = Writings(r, id)
    <3>1. \A id \in DOMAIN B : Held(B, Nobody, id) = 0 /\ Held(B, h, id) \in Nat /\ Total(B, r, id) \in Nat
      BY <2>1, HandIsCounted, TotalIsNatural DEF Held, One
    <3>. QED
      BY <2>4, <3>1
  <2>6. Balanced(B, n, Nobody)
    BY <2>1, <2>2, <2>5, BalanceMoves
  <2>. QED
    BY <1>i, <2>2, <2>4, <2>6 DEF Good
<1>3. CASE Open /\ ~(Len(m.queue) >= QueueSize)
  <2>1. n = [m EXCEPT !.queue = Append(@, e)]
    BY <1>3, <1>e DEF Sent
  <2>2. Len(m.queue) < QueueSize
    BY <1>0, <1>3, SequenceShape, OutboundAssumption
  <2>3. Good(B, n, Nobody) /\ n.written = m.written /\ n.lost = m.lost
    BY <1>i, <1>3, <2>1, <2>2
  <2>. QED
    BY <2>3 DEF Outlives
<1>4. CASE Open /\ Len(m.queue) >= QueueSize /\ h.kind = "terminal" /\ old > 0
  <2>x. PICK x : x = m.queue[old].msg
    OBVIOUS
  <2>s. PICK s : s = [m EXCEPT !.queue = RemoveAt(@, old)]
    OBVIOUS
  <2>r. PICK r : r = Answered(s, x, "dropped")
    OBVIOUS
  <2>1. n = [r EXCEPT !.queue = Append(@, e)]
    BY <1>4, <1>o, <1>e, <2>r, <2>s, <2>x DEF Sent
  <2>2. old \in DOMAIN m.queue /\ x.kind # "terminal" /\ IsKnown(B, x)
    <3>1. old \in DOMAIN m.queue /\ x.kind # "terminal"
      BY <1>1, <1>4, <2>x
    <3>2. IsQueued(B, m.queue[old])
      BY <1>0, <3>1 DEF Shape
    <3>. QED
      BY <2>x, <3>1, <3>2 DEF IsQueued
  <2>3. /\ Same(m, s, {"queue"}) /\ s.queue = RemoveAt(m.queue, old)
        /\ s.lost = m.lost /\ s.written = m.written /\ s.sending = m.sending /\ s.parked = m.parked
    BY <1>0, <2>s DEF Same, Fields
  <2>4. /\ Shape(B, s) /\ Ordered(s) /\ Len(s.queue) < QueueSize
        /\ \A j \in DOMAIN s.queue : \E k \in DOMAIN m.queue : s.queue[j] = m.queue[k]
        /\ \A id \in DOMAIN B :
             /\ Total(B, s, id) = Total(B, m, id) - Held(B, x, id)
             /\ Writings(s, id) = Writings(m, id)
    BY <1>0, <2>2, <2>3, <2>x, QueueLoses
  <2>5. /\ Same(s, r, {"lost", "drain"})
        /\ DOMAIN r.drain = {"active", "answer", "rest"}
        /\ r.drain.answer \in {"none", "sent", "dropped"} /\ r.timer \in BOOLEAN
        /\ r.lost = m.lost \cup (IF x.kind = "asset" THEN {} ELSE {x.id})
        /\ r.lost \subseteq DOMAIN B
    BY <2>2, <2>3, <2>4, <2>r, AnsweredIs
  <2>6. /\ Same(s, r, {"drain", "timer", "lost"}) /\ r.queue = s.queue /\ r.sending = m.sending
        /\ r.written = m.written /\ r.parked = m.parked
    BY <2>3, <2>5 DEF Same, Fields
  <2>7. /\ Shape(B, r) /\ Ordered(r)
        /\ \A id \in DOMAIN B : Total(B, r, id) = Total(B, s, id) /\ Writings(r, id) = Writings(s, id)
    BY <2>4, <2>5, <2>6, NothingMoves
  <2>8. Balanced(B, r, h)
    <3>1. \A id \in DOMAIN B : /\ Total(B, r, id) = Total(B, m, id) - Held(B, x, id)
                               /\ Writings(r, id) = Writings(m, id)
      BY <2>4, <2>7
    <3>. QED
      BY <1>0, <2>2, <2>5, <2>7, <3>1, BalanceAbandons
  <2>9. IsLast(r, h)
    <3>1. ASSUME NEW j \in DOMAIN r.queue, h.kind # "asset", r.queue[j].msg.kind # "asset"
          PROVE  InOrder(r.parked, r.queue[j].msg.id, h.id)
      <4>1. PICK k \in DOMAIN m.queue : r.queue[j] = m.queue[k]
        BY <2>4, <2>6, <3>1
      <4>. QED
        BY <2>6, <3>1, <4>1 DEF IsLast
    <3>. QED
      BY <2>6, <3>1 DEF IsLast, AfterWritten
  <2>10. Good(B, n, Nobody) /\ n.written = m.written /\ n.lost = r.lost
    BY <1>i, <1>4, <2>1, <2>4, <2>6, <2>7, <2>8, <2>9 DEF Good
  <2>11. \A id \in n.lost \ m.lost : B[id].kind # "terminal"
    BY <2>2, <2>5, <2>10 DEF IsKnown, Msg
  <2>. QED
    BY <2>10, <2>11 DEF Outlives
<1>5. CASE Open /\ Len(m.queue) >= QueueSize /\ ~(h.kind = "terminal" /\ old > 0)
  <2>1. n = Answered(m, h, "dropped")
    BY <1>5, <1>o DEF Sent
  <2>2. Len(m.queue) = QueueSize
    BY <1>0, <1>5, SequenceShape, OutboundAssumption DEF Shape
  <2>3. h.kind = "terminal" => KeepsTerminals(m)
    BY <1>1, <1>5, <2>2 DEF KeepsTerminals
  <2>. QED
    BY <2>1, <2>3, HandIsDropped DEF Same, Fields
<1>. QED
  BY <1>2, <1>3, <1>4, <1>5

LEMMA ImageIsLast ==
    ASSUME NEW B, NEW m, NEW a, NEW k
    PROVE  /\ IsKnown(B, Image(a)) /\ OnOwn(B, Image(a), k) /\ IsLast(m, Image(a))
           /\ Image(a).kind = "asset"
BY DEF IsKnown, OnOwn, IsLast, Image

\* The drain and its timer change.
LEMMA DrainIsGood ==
    ASSUME NEW B, Births(B), NEW m, NEW h, Good(B, m, h),
           NEW n, Same(m, n, {"drain", "timer"}),
           DOMAIN n.drain = {"active", "answer", "rest"}, n.timer \in BOOLEAN,
           n.drain.answer \in {"none", "sent", "dropped"}
    PROVE  Good(B, n, h) /\ n.lost = m.lost /\ n.written = m.written
<1>0. Shape(B, m) /\ Ordered(m) /\ Balanced(B, m, h)
  BY DEF Good
<1>1. n.lost = m.lost /\ n.written = m.written /\ n.lost \subseteq DOMAIN B
  BY <1>0 DEF Same, Fields, Shape
<1>2. Same(m, n, {"drain", "timer", "lost"})
  BY <1>1 DEF Same
<1>3. /\ Shape(B, n) /\ Ordered(n)
      /\ \A id \in DOMAIN B : Total(B, n, id) = Total(B, m, id) /\ Writings(n, id) = Writings(m, id)
  BY <1>0, <1>1, <1>2, NothingMoves
<1>4. Balanced(B, n, h)
  BY <1>0, <1>1, <1>3 DEF Balanced
<1>. QED
  BY <1>1, <1>3, <1>4 DEF Good

LEMMA FinishedIsGood ==
    ASSUME NEW B, Births(B), NEW m, Good(B, m, Nobody), NEW box, NEW n, n = Finished(m, box)
    PROVE  Good(B, n, Nobody) /\ n.lost = m.lost /\ n.written = m.written
<1>1. DOMAIN m = Fields
  BY DEF Good, Shape
<1>2. Same(m, n, {"drain", "timer"}) /\ n.drain = Idle /\ n.timer \in BOOLEAN
  BY <1>1 DEF Finished, Same, Fields
<1>3. DOMAIN n.drain = {"active", "answer", "rest"} /\ n.drain.answer \in {"none", "sent", "dropped"}
  BY <1>2 DEF Idle
<1>. QED
  BY <1>2, <1>3, DrainIsGood

LEMMA AdvancedIsGood ==
    ASSUME NEW B, Births(B), NEW m, Good(B, m, Nobody), conn.n \in Sockets,
           NEW box, NEW n, n = Advanced(m, box)
    PROVE  Good(B, n, Nobody) /\ Outlives(B, m, n) /\ n.written = m.written
<1>l. PICK left : left = SelectSeq(m.drain.rest, LAMBDA a : a \in box)
  OBVIOUS
<1>d. PICK d : d = [active |-> TRUE, answer |-> "none", rest |-> Tail(left)]
  OBVIOUS
<1>r. PICK r : r = [m EXCEPT !.drain = d]
  OBVIOUS
<1>a. PICK h : h = Image(Head(left))
  OBVIOUS
<1>0. DOMAIN m = Fields /\ m.timer \in BOOLEAN
  BY DEF Good, Shape
<1>1. CASE left = <<>>
  <2>1. n = Finished(m, box)
    BY <1>1, <1>l DEF Advanced
  <2>. QED
    BY <2>1, FinishedIsGood DEF Outlives
<1>2. CASE left # <<>>
  <2>1. n = Sent(r, h)
    BY <1>2, <1>l, <1>d, <1>r, <1>a DEF Advanced
  <2>2. Same(m, r, {"drain", "timer"}) /\ r.drain = d /\ r.timer \in BOOLEAN
    BY <1>0, <1>r DEF Same, Fields
  <2>3. DOMAIN r.drain = {"active", "answer", "rest"} /\ r.drain.answer \in {"none", "sent", "dropped"}
    BY <1>d, <2>2
  <2>4. Good(B, r, Nobody) /\ r.lost = m.lost /\ r.written = m.written
    BY <2>2, <2>3, DrainIsGood
  <2>5. IsKnown(B, h) /\ OnOwn(B, h, conn.n) /\ IsLast(r, h) /\ h.kind = "asset"
    BY <1>a, ImageIsLast
  <2>6. Good(B, r, h)
    <3>1. \A id \in DOMAIN B : Held(B, h, id) = Held(B, Nobody, id)
      BY <2>5, HandIsCounted
    <3>. QED
      BY <2>4, <3>1 DEF Good, Balanced
  <2>7. Good(B, n, Nobody) /\ Outlives(B, r, n) /\ n.written = r.written
    BY <2>1, <2>5, <2>6, SentIsGood
  <2>. QED
    BY <2>4, <2>7 DEF Outlives
<1>. QED
  BY <1>1, <1>2

LEMMA DrainedIsGood ==
    ASSUME NEW B, Births(B), NEW m, Good(B, m, Nobody), conn.n \in Sockets,
           NEW box, NEW n, n = Drained(m, box)
    PROVE  Good(B, n, Nobody) /\ Outlives(B, m, n) /\ n.written = m.written
<1>0. /\ DOMAIN m = Fields /\ DOMAIN m.drain = {"active", "answer", "rest"}
      /\ m.drain.answer \in {"none", "sent", "dropped"}
  BY DEF Good, Shape
<1>r. PICK r : r = [m EXCEPT !.timer = FALSE, !.drain.rest = SetToSortSeq(box, <)]
  OBVIOUS
<1>1. CASE m.drain.active
  BY <1>1 DEF Drained, Outlives
<1>2. CASE ~m.drain.active
  <2>1. n = Advanced(r, box)
    BY <1>2, <1>r DEF Drained
  <2>2. /\ Same(m, r, {"drain", "timer"}) /\ r.timer \in BOOLEAN
        /\ DOMAIN r.drain = {"active", "answer", "rest"} /\ r.drain.answer = m.drain.answer
    BY <1>0, <1>r DEF Same, Fields
  <2>3. Good(B, r, Nobody) /\ r.lost = m.lost /\ r.written = m.written
    BY <1>0, <2>2, DrainIsGood
  <2>4. Good(B, n, Nobody) /\ Outlives(B, r, n) /\ n.written = r.written
    BY <2>1, <2>3, AdvancedIsGood
  <2>. QED
    BY <2>3, <2>4 DEF Outlives
<1>. QED
  BY <1>1, <1>2

\* What was buffered may come after anything.
LEMMA ParkedIsLast ==
    ASSUME NEW B, NEW m, NEW h, IsParkable(B, m.parked, h), NEW k
    PROVE  IsLast(m, h) /\ IsKnown(B, h) /\ OnOwn(B, h, k)
BY DEF IsParkable, IsLast, IsKnown, OnOwn, AfterWritten, InOrder, Bufferable

LEMMA FlushedIsGood ==
    ASSUME NEW B, Births(B), NEW m, Good(B, m, Nobody), conn.n \in Sockets,
           NEW i \in DOMAIN m.flushes, m.flushes[i].rest # <<>>,
           NEW n, n = Flushed(m, i)
    PROVE  Good(B, n, Nobody) /\ Outlives(B, m, n) /\ n.written = m.written
<1>h. PICK h : h = Head(m.flushes[i].rest)
  OBVIOUS
<1>e. PICK e : e = [at |-> h, rest |-> Tail(m.flushes[i].rest)]
  OBVIOUS
<1>r. PICK r : r = [m EXCEPT !.flushes[i] = e]
  OBVIOUS
<1>0. DOMAIN m = Fields /\ Shape(B, m) /\ Ordered(m) /\ Balanced(B, m, Nobody)
  BY DEF Good, Shape
<1>1. n = Sent(r, h)
  BY <1>h, <1>e, <1>r DEF Flushed
<1>2. /\ Same(m, r, {"flushes"}) /\ r.flushes = [m.flushes EXCEPT ![i] = e]
      /\ r.lost = m.lost /\ r.written = m.written /\ r.parked = m.parked
  BY <1>0, <1>r DEF Same, Fields
<1>3. e.rest = Tail(m.flushes[i].rest)
  BY <1>e
<1>4. /\ Shape(B, r) /\ Ordered(r) /\ IsParkable(B, m.parked, h)
      /\ \A id \in DOMAIN B :
           /\ Total(B, r, id) = Total(B, m, id) - Held(B, h, id)
           /\ Writings(r, id) = Writings(m, id)
  BY <1>0, <1>2, <1>3, <1>h, FlushTakes
<1>5. Balanced(B, r, h)
  <2>1. \A id \in DOMAIN B : Held(B, Nobody, id) = 0 /\ Held(B, h, id) \in Nat /\ Total(B, m, id) \in Nat
    BY <1>0, HandIsCounted, TotalIsNatural DEF Held, One
  <2>2. \A id \in DOMAIN B : /\ Total(B, r, id) + Held(B, h, id) = Total(B, m, id) + Held(B, Nobody, id)
                             /\ Writings(r, id) = Writings(m, id)
    BY <1>4, <2>1
  <2>. QED
    BY <1>0, <1>2, <2>2, BalanceMoves
<1>6. IsLast(r, h) /\ IsKnown(B, h) /\ OnOwn(B, h, conn.n)
  BY <1>2, <1>4, ParkedIsLast
<1>7. Good(B, r, h)
  BY <1>4, <1>5 DEF Good
<1>8. Good(B, n, Nobody) /\ Outlives(B, r, n) /\ n.written = r.written
  BY <1>1, <1>6, <1>7, SentIsGood
<1>. QED
  BY <1>2, <1>8 DEF Outlives

\* The first message of the queue is taken out of it.
LEMMA HeadIsTaken ==
    ASSUME NEW B, Births(B), NEW m, Good(B, m, Nobody), m.queue # <<>>,
           NEW n, Same(m, n, {"queue"}), n.queue = Tail(m.queue), NEW item, item = Head(m.queue)
    PROVE  /\ Good(B, n, item.msg) /\ IsQueued(B, item)
           /\ n.lost = m.lost /\ n.sending = m.sending /\ n.written = m.written
           /\ item.msg.kind # "asset" => AfterWritten(n, item.msg.id) /\ BeforeQueue(n, item.msg.id)
<1>0. DOMAIN m = Fields /\ Shape(B, m) /\ Ordered(m) /\ Balanced(B, m, Nobody) /\ Sequence(m.queue)
  BY DEF Good, Shape
<1>q. PICK q : q = m.queue
  OBVIOUS
<1>1. /\ Sequence(q) /\ q # <<>> /\ Len(q) \in Nat /\ DOMAIN q = 1..Len(q)
  BY <1>0, <1>q, SequenceShape
<1>2. /\ Sequence(Tail(q)) /\ Len(Tail(q)) = Len(q) - 1 /\ Len(q) >= 1 /\ Head(q) = q[1]
      /\ \A j \in 1..(Len(q) - 1) : Tail(q)[j] = q[j + 1]
      /\ Tail(q) = RemoveAt(q, 1)
  BY <1>1, TailShape
<1>3. item = q[1] /\ 1 \in DOMAIN q
  BY <1>q, <1>1, <1>2
<1>4. /\ Same(m, n, {"queue"}) /\ n.queue = RemoveAt(m.queue, 1) /\ n.queue = Tail(q)
      /\ n.lost = m.lost /\ n.sending = m.sending /\ n.written = m.written /\ n.parked = m.parked
  BY <1>0, <1>2, <1>q DEF Same, Fields
<1>5. 1 \in DOMAIN m.queue /\ item = m.queue[1]
  BY <1>3, <1>q
<1>6. /\ Shape(B, n) /\ Ordered(n)
      /\ \A id \in DOMAIN B :
           /\ Total(B, n, id) = Total(B, m, id) - Held(B, item.msg, id)
           /\ Writings(n, id) = Writings(m, id)
  <2>1. Shape(B, m) /\ Ordered(m)
    BY <1>0
  <2>2. Same(m, n, {"queue"}) /\ n.queue = RemoveAt(m.queue, 1)
    BY <1>4
  <2>3. /\ Shape(B, n) /\ Ordered(n)
        /\ \A id \in DOMAIN B :
             /\ Total(B, n, id) = Total(B, m, id) - Held(B, m.queue[1].msg, id)
             /\ Writings(n, id) = Writings(m, id)
    BY <2>1, <2>2, <1>5, QueueLoses
  <2>. QED
    BY <1>5, <2>3
<1>7. Balanced(B, n, item.msg)
  <2>1. Shape(B, m) /\ Balanced(B, m, Nobody) /\ n.lost = m.lost
    BY <1>0, <1>4
  <2>2. \A id \in DOMAIN B : /\ Total(B, n, id) = Total(B, m, id) - Held(B, item.msg, id)
                             /\ Writings(n, id) = Writings(m, id)
    BY <1>6
  <2>. QED
    BY <2>1, <2>2, BalanceTakes
<1>8. IsQueued(B, item)
  BY <1>0, <1>5 DEF Shape
<1>9. ASSUME item.msg.kind # "asset"
      PROVE  AfterWritten(n, item.msg.id) /\ BeforeQueue(n, item.msg.id)
  <2>1. AfterWritten(m, item.msg.id)
    BY <1>0, <1>5, <1>9 DEF Ordered
  <2>2. ASSUME NEW j \in DOMAIN n.queue, n.queue[j].msg.kind # "asset"
        PROVE  InOrder(n.parked, item.msg.id, n.queue[j].msg.id)
    <3>1. j \in 1..(Len(q) - 1)
      BY <1>1, <1>2, <1>4, <2>2, SequenceShape
    <3>2. n.queue[j] = q[j + 1] /\ j + 1 \in DOMAIN q /\ 1 < j + 1
      <4>1. Tail(q)[j] = q[j + 1]
        BY <1>2, <3>1
      <4>2. n.queue = Tail(q) /\ DOMAIN q = 1..Len(q) /\ Len(q) \in Nat
        BY <1>1, <1>4
      <4>3. j + 1 \in 1..Len(q) /\ 1 < j + 1
        BY <3>1, <4>2
      <4>. QED
        BY <4>1, <4>2, <4>3
    <3>3. InOrder(m.parked, q[1].msg.id, q[j + 1].msg.id)
      BY <1>0, <1>3, <1>9, <1>q, <2>2, <3>2 DEF Ordered
    <3>. QED
      BY <1>3, <1>4, <3>2, <3>3
  <2>. QED
    BY <1>4, <2>1, <2>2 DEF AfterWritten, BeforeQueue
<1>. QED
  BY <1>4, <1>6, <1>7, <1>8, <1>9 DEF Good

\* The message that was being encrypted is taken from the loop.
LEMMA SendingIsTaken ==
    ASSUME NEW B, Births(B), NEW m, Good(B, m, Nobody), NEW s \in m.sending,
           NEW n, Same(m, n, {"sending"}), n.sending = m.sending \ {s}
    PROVE  /\ IsSent(B, m, s)
           /\ n.lost = m.lost /\ n.sending = {} /\ n.written = m.written
           /\ s.step = "encrypting" =>
                /\ Good(B, n, s.msg)
                /\ s.msg.kind # "asset" => AfterWritten(n, s.msg.id) /\ BeforeQueue(n, s.msg.id)
           /\ s.step = "leaving" => Good(B, n, Nobody)
<1>0. DOMAIN m = Fields /\ Shape(B, m) /\ Ordered(m) /\ Balanced(B, m, Nobody) /\ IsSent(B, m, s)
  BY DEF Good, Shape
<1>1. /\ Same(m, n, {"sending"}) /\ n.sending = m.sending \ {s}
      /\ n.lost = m.lost /\ n.written = m.written /\ n.parked = m.parked /\ n.queue = m.queue
  BY <1>0 DEF Same, Fields
<1>2. /\ Shape(B, n) /\ Ordered(n) /\ n.sending = {}
      /\ \A id \in DOMAIN B :
           /\ Total(B, n, id) = Total(B, m, id)
                - (IF s.step = "encrypting" THEN Held(B, s.msg, id) ELSE 0)
           /\ Writings(n, id) = Writings(m, id)
  <2>1. Shape(B, m) /\ Ordered(m)
    BY <1>0
  <2>2. Same(m, n, {"sending"}) /\ n.sending = m.sending \ {s}
    BY <1>1
  <2>. QED
    BY <2>1, <2>2, SendingEnds
<1>3. Shape(B, m) /\ Balanced(B, m, Nobody) /\ n.lost = m.lost
  BY <1>0, <1>1
<1>4. ASSUME s.step = "encrypting"
      PROVE  /\ Good(B, n, s.msg)
             /\ s.msg.kind # "asset" => AfterWritten(n, s.msg.id) /\ BeforeQueue(n, s.msg.id)
  <2>1. \A id \in DOMAIN B : /\ Total(B, n, id) = Total(B, m, id) - Held(B, s.msg, id)
                             /\ Writings(n, id) = Writings(m, id)
    BY <1>2, <1>4
  <2>2. Balanced(B, n, s.msg)
    BY <1>3, <2>1, BalanceTakes
  <2>3. s.msg.kind # "asset" => AfterWritten(m, s.msg.id) /\ BeforeQueue(m, s.msg.id)
    BY <1>0, <1>4 DEF Ordered
  <2>. QED
    BY <1>1, <1>2, <2>2, <2>3 DEF Good, AfterWritten, BeforeQueue
<1>5. ASSUME s.step = "leaving" PROVE Good(B, n, Nobody)
  <2>0. ~(s.step = "encrypting")
    BY <1>5
  <2>1. \A id \in DOMAIN B : Total(B, n, id) = Total(B, m, id) - 0 /\ Writings(n, id) = Writings(m, id)
    BY <1>2, <2>0
  <2>2. \A id \in DOMAIN B : Held(B, Nobody, id) = 0
    BY HandIsCounted
  <2>3. \A id \in DOMAIN B : /\ Total(B, n, id) = Total(B, m, id) - Held(B, Nobody, id)
                             /\ Writings(n, id) = Writings(m, id)
    BY <2>1, <2>2
  <2>4. Balanced(B, n, Nobody)
    BY <1>3, <2>3, BalanceTakes
  <2>. QED
    BY <1>2, <2>4 DEF Good
<1>. QED
  BY <1>0, <1>1, <1>2, <1>4, <1>5

\* A chunk that was written is answered, or given up though it may have arrived.
LEMMA ChunkIsAnswered ==
    ASSUME NEW B, Births(B), NEW m, Good(B, m, Nobody), NEW msg, IsKnown(B, msg), msg.kind = "chunk",
           Places(m.written, Writes(msg.id)) # {}, NEW outcome \in {"sent", "dropped"},
           NEW n, n = Answered(m, msg, outcome)
    PROVE  Good(B, n, Nobody) /\ Outlives(B, m, n)
<1>0. Shape(B, m) /\ Ordered(m) /\ Balanced(B, m, Nobody)
  BY DEF Good
<1>1. /\ Same(m, n, {"lost", "drain"})
      /\ DOMAIN n.drain = {"active", "answer", "rest"}
      /\ n.drain.answer \in {"none", "sent", "dropped"} /\ n.timer \in BOOLEAN
      /\ n.lost \subseteq DOMAIN B
      /\ n.lost \in {m.lost, m.lost \cup {msg.id}}
  <2>1. CASE outcome = "dropped"
    <3>1. /\ Same(m, n, {"lost", "drain"})
          /\ DOMAIN n.drain = {"active", "answer", "rest"}
          /\ n.drain.answer \in {"none", "sent", "dropped"} /\ n.timer \in BOOLEAN
          /\ n.lost = m.lost \cup (IF msg.kind = "asset" THEN {} ELSE {msg.id})
          /\ n.lost \subseteq DOMAIN B
      <4>1. n = Answered(m, msg, "dropped")
        BY <2>1
      <4>. QED
        BY <1>0, <4>1, AnsweredIs
    <3>. QED
      BY <3>1
  <2>2. CASE outcome = "sent"
    <3>1. n = m
      BY <2>2 DEF Answered
    <3>. QED
      BY <1>0, <3>1 DEF Shape, Same
  <2>. QED
    BY <2>1, <2>2
<1>2. Same(m, n, {"drain", "timer", "lost"})
  BY <1>1 DEF Same
<1>3. /\ Shape(B, n) /\ Ordered(n)
      /\ \A id \in DOMAIN B : Total(B, n, id) = Total(B, m, id) /\ Writings(n, id) = Writings(m, id)
  BY <1>0, <1>1, <1>2, NothingMoves
<1>4. Writings(m, msg.id) # 0
  BY <1>0, CountsAreNatural
<1>5. \A id \in DOMAIN B : (id \in n.lost /\ Writings(n, id) = 0) <=> (id \in m.lost /\ Writings(m, id) = 0)
  BY <1>1, <1>3, <1>4
<1>6. Balanced(B, n, Nobody)
  BY <1>0, <1>3, <1>5 DEF Balanced
<1>7. Outlives(B, m, n)
  BY <1>1 DEF Outlives, IsKnown, Msg
<1>. QED
  BY <1>3, <1>6, <1>7 DEF Good

LEMMA WriteIsGood ==
    ASSUME NEW B, Births(B), NEW m, NEW msg, Good(B, m, msg), IsKnown(B, msg), m.sending = {},
           conn.n \in Sockets, OnOwn(B, msg, conn.n),
           msg.kind # "asset" => AfterWritten(m, msg.id) /\ BeforeQueue(m, msg.id),
           Write(m, msg)
    PROVE  Good(B, mem', Nobody) /\ mem'.lost = m.lost
<1>0. Shape(B, m) /\ Ordered(m) /\ Balanced(B, m, msg) /\ DOMAIN m = Fields
  BY DEF Good, Shape
<1>x. PICK x : x = mem'
  OBVIOUS
<1>1. CASE msg.kind = "asset"
  <2>1. x = Answered(m, msg, "sent")
    BY <1>1, <1>x DEF Write
  <2>2. /\ Same(m, x, {"lost", "drain"})
        /\ DOMAIN x.drain = {"active", "answer", "rest"}
        /\ x.drain.answer \in {"none", "sent", "dropped"} /\ x.timer \in BOOLEAN
        /\ x.lost = m.lost
    <3>1. /\ Same(m, x, {"lost", "drain"})
          /\ DOMAIN x.drain = {"active", "answer", "rest"}
          /\ x.drain.answer \in {"none", "sent", "dropped"} /\ x.timer \in BOOLEAN
          /\ x.lost = IF "sent" = "dropped"
                      THEN m.lost \cup (IF msg.kind = "asset" THEN {} ELSE {msg.id}) ELSE m.lost
      BY <1>0, <2>1, AnsweredIs
    <3>. QED
      BY <3>1
  <2>3. Same(m, x, {"drain", "timer"})
    BY <2>2 DEF Same
  <2>4. Good(B, m, Nobody)
    <3>1. \A id \in DOMAIN B : Held(B, msg, id) = Held(B, Nobody, id)
      BY <1>1, HandIsCounted
    <3>. QED
      BY <1>0, <3>1 DEF Good, Balanced
  <2>. QED
    BY <1>x, <2>2, <2>3, <2>4, DrainIsGood
<1>2. CASE msg.kind # "asset"
  <2>n. PICK n : n = [m EXCEPT !.written = Append(@, [id |-> msg.id, socket |-> conn.n])]
    OBVIOUS
  <2>1. msg.id \in DOMAIN B /\ msg = Msg(B, msg.id) /\ AfterWritten(m, msg.id) /\ BeforeQueue(m, msg.id)
    BY <1>2 DEF IsKnown
  <2>2. /\ Same(m, n, {"written"}) /\ n.lost = m.lost /\ n.sending = {}
        /\ n.written = Append(m.written, [id |-> msg.id, socket |-> conn.n])
    BY <1>0, <2>n DEF Same, Fields
  <2>3. /\ Shape(B, n) /\ Ordered(n)
        /\ \A id \in DOMAIN B :
             /\ Total(B, n, id) = Total(B, m, id) + Held(B, msg, id)
             /\ Writings(n, id) = Writings(m, id) + Held(B, msg, id)
    BY <1>0, <2>1, <2>2, WrittenGains
  <2>4. Balanced(B, n, Nobody)
    BY <1>0, <2>2, <2>3, BalanceWrites
  <2>5. CASE msg.kind # "chunk"
    <3>1. x = n
      BY <1>2, <1>x, <2>n, <2>5 DEF Write, Answered
    <3>. QED
      BY <1>x, <2>2, <2>3, <2>4, <3>1 DEF Good
  <2>6. CASE msg.kind = "chunk"
    <3>s. PICK s : s = [msg |-> msg, socket |-> conn.n, step |-> "leaving"]
      OBVIOUS
    <3>1. x = [n EXCEPT !.sending = @ \cup {s}]
      BY <1>2, <1>x, <2>n, <2>6, <3>s DEF Write
    <3>2. DOMAIN n = Fields
      BY <2>3 DEF Shape
    <3>3. Same(n, x, {"sending"}) /\ x.sending = n.sending \cup {s} /\ x.lost = n.lost
      BY <3>1, <3>2 DEF Same, Fields
    <3>4. s.msg = msg /\ s.socket = conn.n /\ s.step = "leaving"
      BY <3>s
    <3>5. Places(n.written, Writes(msg.id)) # {}
      <4>1. Held(B, msg, msg.id) = 1
        BY <2>1, HandIsCounted
      <4>2. Writings(m, msg.id) \in Nat
        BY <1>0, TotalIsNatural
      <4>3. Writings(n, msg.id) # 0
        BY <2>1, <2>3, <4>1, <4>2
      <4>. QED
        BY <2>3, <4>3, CountsAreNatural
    <3>6. IsSent(B, n, s)
      BY <2>6, <3>4, <3>5 DEF IsSent
    <3>7. s.step # "encrypting"
      BY <3>4
    <3>8. /\ Shape(B, x) /\ Ordered(x)
          /\ \A id \in DOMAIN B :
               /\ Total(B, x, id) = Total(B, n, id)
                    + (IF s.step = "encrypting" THEN Held(B, s.msg, id) ELSE 0)
               /\ Writings(x, id) = Writings(n, id)
      BY <2>2, <2>3, <3>3, <3>6, <3>7, SendingBegins
    <3>9. \A id \in DOMAIN B : Total(B, x, id) = Total(B, n, id)
      <4>1. \A id \in DOMAIN B : Total(B, n, id) \in Nat
        BY <2>3, TotalIsNatural
      <4>. QED
        BY <3>7, <3>8, <4>1
    <3>10. Balanced(B, x, Nobody)
      BY <2>4, <3>3, <3>8, <3>9 DEF Balanced
    <3>. QED
      BY <1>x, <2>2, <3>3, <3>8, <3>10 DEF Good
  <2>. QED
    BY <2>5, <2>6
<1>. QED
  BY <1>1, <1>2

-----------------------------------------------------------------------------
(* The steps *)

Connection == [n : Sockets, state : {"closed", "open", "authenticating", "registered"}]

LEMMA TakeIsGood ==
    ASSUME Births(born), Good(born, mem, Nobody), conn \in Connection, Take
    PROVE  Good(born, mem', Nobody) /\ Outlives(born, mem, mem')
<1>b. PICK B : B = born
  OBVIOUS
<1>m. PICK m : m = [mem EXCEPT !.queue = Tail(@)]
  OBVIOUS
<1>i. PICK item : item = Head(mem.queue)
  OBVIOUS
<1>x. PICK x : x = mem'
  OBVIOUS
<1>k. conn.n \in Sockets
  BY DEF Connection
<1>0. mem.queue # <<>> /\ mem.sending = {} /\ DOMAIN mem = Fields /\ Births(B) /\ Good(B, mem, Nobody)
  BY <1>b DEF Take, MayTake, Good, Shape
<1>1. Same(mem, m, {"queue"}) /\ m.queue = Tail(mem.queue)
  BY <1>0, <1>m DEF Same, Fields
<1>2. /\ Good(B, m, item.msg) /\ IsQueued(B, item)
      /\ m.lost = mem.lost /\ m.sending = {}
      /\ item.msg.kind # "asset" => AfterWritten(m, item.msg.id) /\ BeforeQueue(m, item.msg.id)
  BY <1>0, <1>1, <1>i, HeadIsTaken
<1>3. IsKnown(B, item.msg) /\ OnOwn(B, item.msg, item.socket)
  BY <1>2 DEF IsQueued
<1>4. ~Misplaced(item) => OnOwn(B, item.msg, conn.n)
  BY <1>3 DEF Misplaced, OnOwn
<1>c. \/ x = Buffered(m, item.msg)
      \/ Misplaced(item) /\ x = Answered(m, item.msg, "dropped")
      \/ ~Misplaced(item) /\ Write(m, item.msg)
      \/ /\ ~Misplaced(item)
         /\ x = [m EXCEPT !.sending = @ \cup
                   {[msg |-> item.msg, socket |-> conn.n, step |-> "encrypting"]}]
  BY <1>m, <1>i, <1>x DEF Take
<1>5. CASE x = Buffered(m, item.msg)
  <2>1. Good(B, x, Nobody) /\ Outlives(B, m, x)
    BY <1>0, <1>2, <1>3, <1>5, BufferedIsGood
  <2>. QED
    BY <1>2, <1>b, <1>x, <2>1 DEF Outlives
<1>6. CASE Misplaced(item) /\ x = Answered(m, item.msg, "dropped")
  <2>1. item.msg.kind = "terminal" => KeepsTerminals(m)
    BY <1>6 DEF Misplaced
  <2>2. x = Answered(m, item.msg, "dropped")
    BY <1>6
  <2>3. Good(B, x, Nobody) /\ Outlives(B, m, x)
    BY <1>0, <1>2, <1>3, <2>1, <2>2, HandIsDropped
  <2>. QED
    BY <1>2, <1>b, <1>x, <2>3 DEF Outlives
<1>7. CASE ~Misplaced(item) /\ Write(m, item.msg)
  <2>1. Good(B, mem', Nobody) /\ mem'.lost = m.lost
    <3>1. OnOwn(B, item.msg, conn.n) /\ Write(m, item.msg)
      BY <1>4, <1>7
    <3>. QED
      BY <1>0, <1>2, <1>3, <1>k, <3>1, WriteIsGood
  <2>. QED
    BY <1>2, <1>b, <2>1 DEF Outlives
<1>8. CASE /\ ~Misplaced(item)
           /\ x = [m EXCEPT !.sending = @ \cup
                     {[msg |-> item.msg, socket |-> conn.n, step |-> "encrypting"]}]
  <2>s. PICK s : s = [msg |-> item.msg, socket |-> conn.n, step |-> "encrypting"]
    OBVIOUS
  <2>1. s.msg = item.msg /\ s.socket = conn.n /\ s.step = "encrypting"
    BY <2>s
  <2>2. Shape(B, m) /\ Ordered(m) /\ Balanced(B, m, item.msg) /\ DOMAIN m = Fields
    BY <1>2 DEF Good, Shape
  <2>3. Same(m, x, {"sending"}) /\ x.sending = m.sending \cup {s} /\ x.lost = m.lost
    BY <1>8, <2>s, <2>2 DEF Same, Fields
  <2>4. IsSent(B, m, s)
    BY <1>3, <1>4, <1>8, <1>k, <2>1 DEF IsSent
  <2>5. s.step = "encrypting" /\ s.msg.kind # "asset" =>
          AfterWritten(m, s.msg.id) /\ BeforeQueue(m, s.msg.id)
    BY <1>2, <2>1
  <2>6. /\ Shape(B, x) /\ Ordered(x)
        /\ \A id \in DOMAIN B :
             /\ Total(B, x, id) = Total(B, m, id)
                  + (IF s.step = "encrypting" THEN Held(B, s.msg, id) ELSE 0)
             /\ Writings(x, id) = Writings(m, id)
    BY <1>0, <1>2, <2>2, <2>3, <2>4, <2>5, SendingBegins
  <2>7. Balanced(B, x, Nobody)
    <3>1. \A id \in DOMAIN B : Held(B, Nobody, id) = 0 /\ Held(B, item.msg, id) \in Nat /\ Total(B, m, id) \in Nat
      BY <1>0, <2>2, HandIsCounted, TotalIsNatural DEF Held, One
    <3>2. \A id \in DOMAIN B :
            /\ Total(B, x, id) = Total(B, m, id) + Held(B, item.msg, id)
            /\ Writings(x, id) = Writings(m, id)
      BY <2>1, <2>6
    <3>3. \A id \in DOMAIN B :
            /\ Total(B, x, id) + Held(B, Nobody, id) = Total(B, m, id) + Held(B, item.msg, id)
            /\ Writings(x, id) = Writings(m, id)
      BY <3>1, <3>2
    <3>. QED
      BY <1>0, <2>2, <2>3, <3>3, BalanceMoves
  <2>. QED
    BY <1>2, <1>b, <1>x, <2>3, <2>6, <2>7 DEF Good, Outlives
<1>. QED
  BY <1>c, <1>5, <1>6, <1>7, <1>8

\* The three steps after an encryption or a write.
LEMMA SendingIsGood ==
    ASSUME Births(born), Good(born, mem, Nobody), conn \in Connection,
           NEW s \in mem.sending, Encrypts(s) \/ SendFails(s) \/ ChunkEnds(s)
    PROVE  Good(born, mem', Nobody) /\ Outlives(born, mem, mem')
<1>b. PICK B : B = born
  OBVIOUS
<1>m. PICK m : m = [mem EXCEPT !.sending = @ \ {s}]
  OBVIOUS
<1>x. PICK x : x = mem'
  OBVIOUS
<1>k. conn.n \in Sockets
  BY DEF Connection
<1>0. DOMAIN mem = Fields /\ Births(B) /\ Good(B, mem, Nobody)
  BY <1>b DEF Good, Shape
<1>1. Same(mem, m, {"sending"}) /\ m.sending = mem.sending \ {s}
  BY <1>0, <1>m DEF Same, Fields
<1>2. /\ IsSent(B, mem, s)
      /\ m.lost = mem.lost /\ m.sending = {} /\ m.written = mem.written
      /\ s.step = "encrypting" =>
           /\ Good(B, m, s.msg)
           /\ s.msg.kind # "asset" => AfterWritten(m, s.msg.id) /\ BeforeQueue(m, s.msg.id)
      /\ s.step = "leaving" => Good(B, m, Nobody)
  BY <1>0, <1>1, SendingIsTaken
<1>3. IsKnown(B, s.msg) /\ OnOwn(B, s.msg, s.socket)
  BY <1>2 DEF IsSent
<1>c. \/ s.step = "encrypting" /\ Current(s) /\ Write(m, s.msg)
      \/ s.step = "encrypting" /\ x = Buffered(m, s.msg)
      \/ s.step = "leaving" /\ x = Answered(m, s.msg, "sent")
      \/ s.step = "leaving" /\ x = Buffered(m, s.msg)
  BY <1>m, <1>x DEF Encrypts, SendFails, ChunkEnds
<1>4. CASE s.step = "encrypting" /\ Current(s) /\ Write(m, s.msg)
  <2>1. /\ Good(B, m, s.msg) /\ OnOwn(B, s.msg, conn.n) /\ Write(m, s.msg)
        /\ s.msg.kind # "asset" => AfterWritten(m, s.msg.id) /\ BeforeQueue(m, s.msg.id)
    BY <1>2, <1>3, <1>4 DEF Current
  <2>2. Good(B, mem', Nobody) /\ mem'.lost = m.lost
    BY <1>0, <1>2, <1>3, <1>k, <2>1, WriteIsGood
  <2>. QED
    BY <1>2, <1>b, <2>2 DEF Outlives
<1>5. CASE s.step = "encrypting" /\ x = Buffered(m, s.msg)
  <2>1. Good(B, m, s.msg) /\ x = Buffered(m, s.msg)
    BY <1>2, <1>5
  <2>2. Good(B, x, Nobody) /\ Outlives(B, m, x)
    BY <1>0, <1>3, <2>1, BufferedIsGood
  <2>. QED
    BY <1>2, <1>b, <1>x, <2>2 DEF Outlives
<1>6. ASSUME s.step = "leaving", NEW outcome \in {"sent", "dropped"}, x = Answered(m, s.msg, outcome)
      PROVE  Good(B, mem', Nobody) /\ Outlives(B, mem, mem')
  <2>1. Good(B, m, Nobody) /\ s.msg.kind = "chunk" /\ Places(m.written, Writes(s.msg.id)) # {}
    BY <1>2, <1>6 DEF IsSent
  <2>2. Good(B, x, Nobody) /\ Outlives(B, m, x)
    BY <1>0, <1>3, <1>6, <2>1, ChunkIsAnswered
  <2>. QED
    BY <1>2, <1>x, <2>2 DEF Outlives
<1>7. CASE s.step = "leaving" /\ x = Answered(m, s.msg, "sent")
  BY <1>6, <1>7, <1>b
<1>8. CASE s.step = "leaving" /\ x = Buffered(m, s.msg)
  <2>1. x = Answered(m, s.msg, "dropped")
    BY <1>2, <1>8 DEF Buffered, IsSent, Bufferable
  <2>. QED
    BY <1>6, <1>8, <1>b, <2>1
<1>. QED
  BY <1>c, <1>4, <1>5, <1>7, <1>8

\* The flushes, the drains and the `registered` frame.
LEMMA FlushIsGood ==
    ASSUME Births(born), Good(born, mem, Nobody), conn \in Connection,
           NEW i \in DOMAIN mem.flushes, FlushStep(i)
    PROVE  Good(born, mem', Nobody) /\ Outlives(born, mem, mem')
<1>b. PICK B : B = born
  OBVIOUS
<1>m. PICK m : m = [mem EXCEPT !.flushes = RemoveAt(@, i)]
  OBVIOUS
<1>x. PICK x : x = mem'
  OBVIOUS
<1>k. conn.n \in Sockets
  BY DEF Connection
<1>0. /\ DOMAIN mem = Fields /\ Births(B) /\ Good(B, mem, Nobody)
      /\ Shape(B, mem) /\ Ordered(mem) /\ Balanced(B, mem, Nobody)
  BY <1>b DEF Good, Shape
<1>1. CASE mem.flushes[i].rest # <<>>
  <2>1. x = Flushed(mem, i)
    BY <1>1, <1>x DEF FlushStep
  <2>2. Good(B, x, Nobody) /\ Outlives(B, mem, x)
    BY <1>0, <1>1, <1>k, <2>1, FlushedIsGood
  <2>. QED
    BY <1>b, <1>x, <2>2
<1>2. CASE mem.flushes[i].rest = <<>>
  <2>1. x = Drained(m, outbox)
    BY <1>2, <1>m, <1>x DEF FlushStep
  <2>2. Same(mem, m, {"flushes"}) /\ m.flushes = RemoveAt(mem.flushes, i) /\ m.lost = mem.lost
    BY <1>0, <1>m DEF Same, Fields
  <2>3. /\ Shape(B, m) /\ Ordered(m)
        /\ \A id \in DOMAIN B :
             Total(B, m, id) = Total(B, mem, id) /\ Writings(m, id) = Writings(mem, id)
    BY <1>0, <1>2, <2>2, FlushEnds
  <2>4. Good(B, m, Nobody)
    BY <1>0, <2>2, <2>3 DEF Good, Balanced
  <2>5. Good(B, x, Nobody) /\ Outlives(B, m, x)
    BY <1>0, <1>k, <2>1, <2>4, DrainedIsGood
  <2>. QED
    BY <1>b, <1>x, <2>2, <2>5 DEF Outlives
<1>. QED
  BY <1>1, <1>2

LEMMA RegisterIsGood ==
    ASSUME Births(born), Good(born, mem, Nobody), conn \in Connection, Register
    PROVE  Good(born, mem', Nobody) /\ Outlives(born, mem, mem')
<1>b. PICK B : B = born
  OBVIOUS
<1>e. PICK e : e = [at |-> Nobody, rest |-> mem.buffer]
  OBVIOUS
<1>m. PICK m : m = [mem EXCEPT !.buffer = <<>>, !.flushes = Append(@, e)]
  OBVIOUS
<1>x. PICK x : x = mem'
  OBVIOUS
<1>k. conn.n \in Sockets
  BY DEF Connection
<1>0. /\ DOMAIN mem = Fields /\ Births(B) /\ Good(B, mem, Nobody)
      /\ Shape(B, mem) /\ Ordered(mem) /\ Balanced(B, mem, Nobody)
  BY <1>b DEF Good, Shape
<1>1. CASE mem.buffer = <<>>
  <2>1. x = Drained(mem, outbox)
    BY <1>1, <1>x DEF Register
  <2>2. Good(B, x, Nobody) /\ Outlives(B, mem, x)
    BY <1>0, <1>k, <2>1, DrainedIsGood
  <2>. QED
    BY <1>b, <1>x, <2>2
<1>2. CASE mem.buffer # <<>>
  <2>1. x = Flushed(m, Len(mem.flushes) + 1)
    BY <1>2, <1>e, <1>m, <1>x DEF Register, Spliced
  <2>2. /\ Same(mem, m, {"buffer", "flushes"}) /\ m.lost = mem.lost
        /\ m.buffer = <<>> /\ m.flushes = Append(mem.flushes, e) /\ e.rest = mem.buffer
    BY <1>0, <1>e, <1>m DEF Same, Fields
  <2>3. /\ Shape(B, m) /\ Ordered(m)
        /\ Len(mem.flushes) + 1 \in DOMAIN m.flushes /\ m.flushes[Len(mem.flushes) + 1] = e
        /\ \A id \in DOMAIN B :
             Total(B, m, id) = Total(B, mem, id) /\ Writings(m, id) = Writings(mem, id)
    BY <1>0, <2>2, BufferSplices
  <2>4. Good(B, m, Nobody)
    BY <1>0, <2>2, <2>3 DEF Good, Balanced
  <2>i. PICK i \in DOMAIN m.flushes : i = Len(mem.flushes) + 1
    BY <2>3
  <2>5. m.flushes[i].rest # <<>> /\ x = Flushed(m, i)
    BY <1>2, <2>1, <2>2, <2>3, <2>i
  <2>6. Good(B, x, Nobody) /\ Outlives(B, m, x)
    BY <1>0, <1>k, <2>4, <2>5, FlushedIsGood
  <2>. QED
    BY <1>b, <1>x, <2>2, <2>6 DEF Outlives
<1>. QED
  BY <1>1, <1>2

LEMMA DrainStepIsGood ==
    ASSUME Births(born), Good(born, mem, Nobody), conn \in Connection, DrainStep \/ RetryFires
    PROVE  Good(born, mem', Nobody) /\ Outlives(born, mem, mem')
<1>b. PICK B : B = born
  OBVIOUS
<1>m. PICK m : m = [mem EXCEPT !.timer = FALSE]
  OBVIOUS
<1>x. PICK x : x = mem'
  OBVIOUS
<1>k. conn.n \in Sockets
  BY DEF Connection
<1>0. /\ DOMAIN mem = Fields /\ Births(B) /\ Good(B, mem, Nobody)
      /\ DOMAIN mem.drain = {"active", "answer", "rest"} /\ mem.drain.answer \in {"none", "sent", "dropped"}
  BY <1>b DEF Good, Shape
<1>c. x = Advanced(mem, outbox) \/ x = Finished(mem, outbox) \/ x = Drained(m, outbox)
  BY <1>m, <1>x DEF DrainStep, RetryFires
<1>1. CASE x = Advanced(mem, outbox)
  <2>1. Good(B, x, Nobody) /\ Outlives(B, mem, x)
    BY <1>0, <1>k, <1>1, AdvancedIsGood
  <2>. QED
    BY <1>b, <1>x, <2>1
<1>2. CASE x = Finished(mem, outbox)
  <2>1. Good(B, x, Nobody) /\ x.lost = mem.lost
    BY <1>0, <1>2, FinishedIsGood
  <2>. QED
    BY <1>b, <1>x, <2>1 DEF Outlives
<1>3. CASE x = Drained(m, outbox)
  <2>1. /\ Same(mem, m, {"drain", "timer"})
        /\ DOMAIN m.drain = {"active", "answer", "rest"} /\ m.timer \in BOOLEAN
        /\ m.drain.answer \in {"none", "sent", "dropped"}
    BY <1>0, <1>m DEF Same, Fields
  <2>2. Good(B, m, Nobody) /\ m.lost = mem.lost
    BY <1>0, <2>1, DrainIsGood
  <2>3. Good(B, x, Nobody) /\ Outlives(B, m, x)
    BY <1>0, <1>k, <1>3, <2>2, DrainedIsGood
  <2>. QED
    BY <1>b, <1>x, <2>2, <2>3 DEF Outlives
<1>. QED
  BY <1>c, <1>1, <1>2, <1>3

\* A message is born: what there is stays as good as it was, with the new one
\* in hand.
LEMMA BirthIsGood ==
    ASSUME NEW B, Births(B), NEW m, Good(B, m, Nobody),
           NEW C, Births(C), Len(C) = Len(B) + 1, \A id \in DOMAIN B : C[id] = B[id],
           NEW h, h.id = Len(C), h = Msg(C, h.id)
    PROVE  Good(C, m, h) /\ IsKnown(C, h) /\ IsLast(m, h)
<1>0. Shape(B, m) /\ Ordered(m) /\ Balanced(B, m, Nobody)
  BY DEF Good
<1>n. PICK l \in Nat : l = Len(C)
  BY SequenceShape DEF Births
<1>1. l >= 1 /\ DOMAIN B = 1..(l - 1) /\ DOMAIN C = 1..l /\ \A id \in DOMAIN B : C[id] = B[id]
  <2>1. Len(B) \in Nat /\ DOMAIN B = 1..Len(B) /\ Len(C) \in Nat /\ DOMAIN C = 1..Len(C)
    BY SequenceShape DEF Births
  <2>. QED
    BY <1>n, <2>1
<1>2. h.kind \in Kinds
  BY <1>n, <1>1, MessageOf
<1>3. h.id = l /\ l \in DOMAIN C /\ l \notin DOMAIN B /\ h = Msg(C, l)
  BY <1>n, <1>1
<1>4. DOMAIN B \subseteq DOMAIN C /\ \A id \in DOMAIN B : id < l /\ Msg(C, id) = Msg(B, id)
  BY <1>1 DEF Msg
<1>5. /\ \A x : IsKnown(B, x) => IsKnown(C, x) /\ \A k : OnOwn(B, x, k) => OnOwn(C, x, k)
      /\ \A x : IsParkable(B, m.parked, x) => IsParkable(C, m.parked, x)
  BY <1>1, <1>4 DEF IsKnown, OnOwn, IsParkable
<1>6. /\ \A x : IsQueued(B, x) => IsQueued(C, x)
      /\ \A x : IsWritten(B, x) => IsWritten(C, x)
      /\ \A x : IsSent(B, m, x) => IsSent(C, m, x)
  <2>1. ASSUME NEW x, IsWritten(B, x) PROVE IsWritten(C, x)
    BY <1>1, <1>4, <2>1 DEF IsWritten, OnOwn, Msg
  <2>. QED
    BY <1>5, <2>1 DEF IsQueued, IsSent
<1>7. Shape(C, m)
  BY <1>0, <1>4, <1>5, <1>6 DEF Shape
<1>8. IsLast(m, h)
  <2>0. \A a \in DOMAIN B : \A P : InOrder(P, a, l)
    BY <1>1 DEF InOrder
  <2>1. \A i \in DOMAIN m.written : m.written[i].id \in DOMAIN B
    BY <1>0 DEF Shape, IsWritten
  <2>2. \A s \in m.sending : s.msg.kind # "asset" => s.msg.id \in DOMAIN B
    BY <1>0 DEF Shape, IsSent, IsKnown
  <2>3. \A j \in DOMAIN m.queue : m.queue[j].msg.kind # "asset" => m.queue[j].msg.id \in DOMAIN B
    BY <1>0 DEF Shape, IsQueued, IsKnown
  <2>. QED
    BY <1>3, <2>0, <2>1, <2>2, <2>3 DEF IsLast, AfterWritten
<1>9. ASSUME NEW id \in DOMAIN C
      PROVE  Total(C, m, id) + Held(C, h, id) = IF id \in m.lost /\ Writings(m, id) = 0 THEN 0 ELSE 1
  <2>1. CASE id \in DOMAIN B
    <3>1. Items(C, id) = Items(B, id) /\ Msg(C, id) = Msg(B, id)
      BY <1>4, <2>1 DEF Items
    <3>2. Total(C, m, id) = Total(B, m, id)
      BY <3>1 DEF Total, Queued, InFlush, Parked, Encrypting
    <3>3. Held(C, h, id) = 0 /\ Held(B, Nobody, id) = 0
      <4>1. h # Msg(C, id)
        BY <1>3, <1>4, <2>1 DEF Msg
      <4>. QED
        BY <2>1, <4>1, HandIsCounted DEF Held, One
    <3>. QED
      BY <1>0, <2>1, <3>2, <3>3 DEF Balanced
  <2>2. CASE id = l
    <3>0. Msg(C, id) = h /\ h.kind # "asset" /\ id \notin DOMAIN B
      BY <1>2, <1>3, <2>2 DEF Kinds
    <3>1. Queued(C, m, id) = 0
      <4>1. ASSUME NEW i \in DOMAIN m.queue, m.queue[i] \in Items(C, id) PROVE FALSE
        <5>1. m.queue[i].msg = h
          BY <3>0, <4>1 DEF Items
        <5>2. IsKnown(B, m.queue[i].msg)
          BY <1>0, <4>1 DEF Shape, IsQueued
        <5>. QED
          BY <1>3, <3>0, <5>1, <5>2, <2>2 DEF IsKnown
      <4>2. Places(m.queue, Items(C, id)) = {}
        BY <4>1 DEF Places
      <4>. QED
        BY <4>2, FS_EmptySet DEF Queued
    <3>2. Parked(C, m, id) = 0
      <4>1. Places(m.buffer, {Msg(C, id)}) = {}
        BY <1>0, <1>3, <3>0 DEF Places, Shape, IsParkable
      <4>. QED
        BY <4>1, FS_EmptySet DEF Parked
    <3>3. InFlush(C, m, id) = 0
      <4>1. Pairs(m.flushes, {Msg(C, id)}) = {}
        BY <1>0, <1>3, <3>0 DEF Pairs, Shape, IsParkable
      <4>. QED
        BY <4>1, FS_EmptySet DEF InFlush
    <3>4. Encrypting(C, m, id) = 0
      <4>1. {s \in m.sending : s.msg = Msg(C, id) /\ s.step = "encrypting"} = {}
        BY <1>0, <1>3, <3>0 DEF Shape, IsSent, IsKnown
      <4>. QED
        BY <4>1, FS_EmptySet DEF Encrypting
    <3>5. Writings(m, id) = 0
      <4>1. ASSUME NEW i \in DOMAIN m.written, m.written[i] \in Writes(id) PROVE FALSE
        <5>1. m.written[i].id = id
          BY <4>1 DEF Writes
        <5>2. m.written[i].id \in DOMAIN B
          BY <1>0, <4>1 DEF Shape, IsWritten
        <5>. QED
          BY <3>0, <5>1, <5>2
      <4>2. Places(m.written, Writes(id)) = {}
        BY <4>1 DEF Places
      <4>. QED
        BY <4>2, FS_EmptySet DEF Writings
    <3>6. Held(C, h, id) = 1 /\ id \notin m.lost
      BY <1>0, <3>0 DEF Held, One, Shape
    <3>. QED
      BY <3>1, <3>2, <3>3, <3>4, <3>5, <3>6 DEF Total
  <2>. QED
    BY <1>1, <2>1, <2>2
<1>10. Good(C, m, h)
  BY <1>0, <1>7, <1>9 DEF Good, Balanced
<1>11. IsKnown(C, h)
  BY <1>3 DEF IsKnown
<1>. QED
  BY <1>8, <1>10, <1>11

LEMMA ProduceIsGood ==
    ASSUME Births(born), Good(born, mem, Nobody), conn \in Connection,
           NEW kind \in Kinds, Produce(kind)
    PROVE  Births(born') /\ Good(born', mem', Nobody) /\ Outlives(born', mem, mem')
<1>b. PICK B : B = born
  OBVIOUS
<1>r. PICK r : r = [kind |-> kind, socket |-> IF Open THEN conn.n ELSE 0]
  OBVIOUS
<1>c. PICK C : C = Append(B, r)
  OBVIOUS
<1>h. PICK h : h = [id |-> Len(B) + 1, kind |-> r.kind]
  OBVIOUS
<1>x. PICK x : x = mem'
  OBVIOUS
<1>0. Births(B) /\ Good(B, mem, Nobody) /\ r.kind \in Kinds /\ conn.n \in Sockets
  BY <1>b, <1>r DEF Connection
<1>1. born' = C /\ x = Sent(mem, h)
  BY <1>b, <1>r, <1>c, <1>h, <1>x DEF Produce
<1>2. /\ Births(C) /\ Len(C) = Len(B) + 1 /\ C[Len(C)] = r /\ \A id \in DOMAIN B : C[id] = B[id]
  <2>1. Sequence(B) /\ Len(B) \in Nat /\ DOMAIN B = 1..Len(B)
    BY <1>0, SequenceShape DEF Births
  <2>2. /\ Sequence(C) /\ Len(C) = Len(B) + 1 /\ C[Len(B) + 1] = r
        /\ \A i \in 1..Len(B) : C[i] = B[i]
    BY <1>c, <2>1, AppendShape
  <2>3. DOMAIN C = 1..(Len(B) + 1)
    BY <2>2, SequenceShape
  <2>. QED
    BY <1>0, <2>1, <2>2, <2>3 DEF Births
<1>3. h.id = Len(C) /\ h = Msg(C, h.id)
  BY <1>h, <1>2 DEF Msg
<1>4. Good(C, mem, h) /\ IsKnown(C, h) /\ IsLast(mem, h)
  <2>1. Births(C) /\ Len(C) = Len(B) + 1 /\ \A id \in DOMAIN B : C[id] = B[id]
    BY <1>2
  <2>. QED
    BY <1>0, <1>3, <2>1, BirthIsGood
<1>5. Open => OnOwn(C, h, conn.n)
  BY <1>2, <1>3, <1>r DEF OnOwn
<1>6. Good(C, x, Nobody) /\ Outlives(C, mem, x)
  BY <1>0, <1>1, <1>2, <1>4, <1>5, SentIsGood
<1>. QED
  BY <1>1, <1>2, <1>6, <1>x

\* A crash leaves what was written, and the counts of it.
LEMMA CrashIsGood ==
    ASSUME Births(born), Good(born, mem, Nobody), Crash
    PROVE  Good(born, mem', Nobody)
<1>b. PICK B : B = born
  OBVIOUS
<1>m. PICK m : m = mem
  OBVIOUS
<1>x. PICK x : x = mem'
  OBVIOUS
<1>0. Births(B) /\ Shape(B, m) /\ Ordered(m) /\ Balanced(B, m, Nobody)
  BY <1>b, <1>m DEF Good
<1>1. x = [Fresh EXCEPT !.parked = m.parked, !.lost = 1..Len(B), !.written = m.written]
  BY <1>b, <1>m, <1>x DEF Crash
<1>2. DOMAIN B = 1..Len(B)
  BY <1>0, SequenceShape DEF Births
<1>3. /\ DOMAIN x = Fields /\ x.queue = <<>> /\ x.sending = {} /\ x.buffer = <<>>
      /\ x.flushes = <<>> /\ x.drain = Idle /\ x.timer = FALSE
      /\ x.parked = m.parked /\ x.lost = DOMAIN B /\ x.written = m.written
  BY <1>1, <1>2 DEF Fresh, Fields
<1>4. Shape(B, x)
  <2>1. Sequence(x.queue) /\ Len(x.queue) <= QueueSize /\ DOMAIN x.queue = {}
    BY <1>3, EmptyShape, OutboundAssumption
  <2>2. Sequence(x.buffer) /\ Len(x.buffer) <= BufferSize /\ DOMAIN x.buffer = {}
    BY <1>3, EmptyShape, OutboundAssumption
  <2>3. Flushes(x.flushes) /\ DOMAIN x.flushes = {}
    BY <1>3, EmptyShape DEF Flushes
  <2>4. Sequence(x.written) /\ \A i \in DOMAIN x.written : IsWritten(B, x.written[i])
    BY <1>0, <1>3 DEF Shape
  <2>5. /\ DOMAIN x.drain = {"active", "answer", "rest"} /\ x.timer \in BOOLEAN
        /\ x.drain.answer \in {"none", "sent", "dropped"}
    <3>1. DOMAIN Idle = {"active", "answer", "rest"} /\ Idle.answer = "none"
      BY DEF Idle
    <3>. QED
      BY <1>3, <3>1
  <2>. QED
    BY <1>3, <2>1, <2>2, <2>3, <2>4, <2>5 DEF Shape
<1>5. Ordered(x)
  <2>1. DOMAIN x.queue = {}
    BY <1>3, EmptyShape
  <2>. QED
    BY <1>0, <1>3, <2>1 DEF Ordered
<1>6. ASSUME NEW id \in DOMAIN B
      PROVE  Total(B, x, id) + Held(B, Nobody, id) = IF id \in x.lost /\ Writings(x, id) = 0 THEN 0 ELSE 1
  <2>1. Queued(B, x, id) = 0 /\ Parked(B, x, id) = 0 /\ InFlush(B, x, id) = 0
    BY <1>3, NoPlaces, NoPairs DEF Queued, Parked, InFlush
  <2>2. Encrypting(B, x, id) = 0
    BY <1>3, EncryptingIs
  <2>3. Writings(x, id) = Writings(m, id)
    BY <1>3 DEF Writings
  <2>4. Writings(m, id) \in Nat /\ Total(B, m, id) \in Nat /\ Writings(m, id) <= Total(B, m, id)
    BY <1>0, TotalIsNatural
  <2>5. Total(B, x, id) = Writings(m, id)
    BY <2>1, <2>2, <2>3, <2>4 DEF Total
  <2>6. Held(B, Nobody, id) = 0
    BY <1>0, HandIsCounted
  <2>7. Total(B, m, id) + 0 \in {0, 1}
    BY <1>0, <2>6 DEF Balanced
  <2>8. Writings(m, id) \in {0, 1}
    BY <2>4, <2>7
  <2>. QED
    BY <1>3, <2>3, <2>5, <2>6, <2>8
<1>. QED
  BY <1>b, <1>x, <1>4, <1>5, <1>6 DEF Good, Balanced

-----------------------------------------------------------------------------
(* The invariant is kept *)

LEMMA RecordsFollow ==
    ASSUME Records, UNCHANGED <<server, outbox, shelf, made>>,
           up' \in BOOLEAN, conn' \in Connection, UNCHANGED faults \/ Fault
    PROVE  Records'
<1>1. server' = server /\ outbox' = outbox /\ shelf' = shelf /\ born' = born /\ images' = images /\ load' = load
  BY DEF made
<1>2. faults' \in 0..load.faults
  <2>1. load.faults \in Nat
    BY OutboundAssumption DEF Records
  <2>2. faults \in 0..load.faults
    BY DEF Records
  <2>3. faults' = faults \/ (faults < load.faults /\ faults' = faults + 1)
    BY DEF Fault
  <2>. QED
    BY <2>1, <2>2, <2>3
<1>. QED
  BY <1>1, <1>2 DEF Records, Connection

LEMMA ImagesFollow ==
    ASSUME AcksAreTrue, ImageIsKept, acks' \subseteq acks, UNCHANGED <<outbox, shelf, images>>
    PROVE  AcksAreTrue' /\ ImageIsKept'
BY DEF AcksAreTrue, ImageIsKept

LEMMA EnqueueIsGood ==
    ASSUME IInv, NEW a \in Assets, Enqueue(a)
    PROVE  IInv' /\ Outlives(born, mem, mem')
<1>b. PICK B : B = born
  OBVIOUS
<1>m. PICK m : m = mem
  OBVIOUS
<1>o. PICK o : o = outbox'
  OBVIOUS
<1>x. PICK x : x = mem'
  OBVIOUS
<1>0. /\ Births(B) /\ Good(B, m, Nobody) /\ conn.n \in Sockets
      /\ Records /\ AcksAreTrue /\ ImageIsKept
  BY <1>b, <1>m DEF IInv, Records, Connection
<1>1. /\ images' = images + 1 /\ a = images + 1 /\ born' = born /\ load' = load /\ up' = up
      /\ conn' = conn /\ server' = server /\ acks' = acks /\ faults' = faults
  BY DEF Enqueue, peer
<1>2. CASE Cardinality(outbox) < load.items
  <2>1. outbox' = outbox \cup {a} /\ shelf' = shelf /\ x = Drained(m, o)
    BY <1>2, <1>m, <1>o, <1>x DEF Enqueue
  <2>2. Good(B, x, Nobody) /\ Outlives(B, m, x)
    BY <1>0, <2>1, DrainedIsGood
  <2>3. IsFiniteSet(outbox') /\ Cardinality(outbox') <= load.items
    <3>1. IsFiniteSet(outbox) /\ Cardinality(outbox) \in Nat /\ load.items \in Nat
      BY <1>0, FS_CardinalityType, OutboundAssumption DEF Records
    <3>2. /\ IsFiniteSet(outbox \cup {a})
          /\ Cardinality(outbox \cup {a}) = IF a \in outbox THEN Cardinality(outbox) ELSE Cardinality(outbox) + 1
      BY <3>1, FS_AddElement
    <3>. QED
      BY <1>2, <2>1, <3>1, <3>2
  <2>4. Records'
    BY <1>0, <1>1, <2>1, <2>3 DEF Records
  <2>5. AcksAreTrue'
    BY <1>0, <1>1, <2>1 DEF AcksAreTrue
  <2>6. ImageIsKept'
    <3>1. images \in Nat
      BY <1>0 DEF Records
    <3>2. \A b \in 1..images' : b \in 1..images \/ b = a
      BY <1>1, <3>1
    <3>. QED
      BY <1>0, <2>1, <3>2 DEF ImageIsKept
  <2>. QED
    BY <1>b, <1>m, <1>x, <1>1, <2>2, <2>4, <2>5, <2>6 DEF IInv
<1>3. CASE ~(Cardinality(outbox) < load.items)
  <2>1. /\ outbox' = outbox /\ mem' = mem /\ shelf' = [shelf EXCEPT !.gone = @ \cup {a}]
    BY <1>3 DEF Enqueue
  <2>2. /\ DOMAIN shelf' = {"stored", "refused", "gone"} /\ shelf'.stored = shelf.stored
        /\ shelf'.refused = shelf.refused /\ shelf'.gone = shelf.gone \cup {a}
    BY <1>0, <2>1 DEF Records
  <2>4. Records'
    BY <1>0, <1>1, <2>1, <2>2 DEF Records
  <2>5. AcksAreTrue'
    BY <1>0, <1>1, <2>2 DEF AcksAreTrue
  <2>6. ImageIsKept'
    <3>1. images \in Nat
      BY <1>0 DEF Records
    <3>2. \A b \in 1..images' : b \in 1..images \/ b = a
      BY <1>1, <3>1
    <3>. QED
      BY <1>0, <2>1, <2>2, <3>2 DEF ImageIsKept
  <2>. QED
    BY <1>b, <1>m, <1>0, <1>1, <2>1, <2>4, <2>5, <2>6 DEF IInv, Outlives
<1>. QED
  BY <1>2, <1>3

LEMMA RemoveSessionIsGood ==
    ASSUME IInv, NEW a \in Assets, RemoveSession(a)
    PROVE  IInv' /\ mem' = mem
<1>0. Records /\ AcksAreTrue /\ ImageIsKept /\ Good(born, mem, Nobody)
  BY DEF IInv
<1>1. /\ outbox' = outbox \ {a} /\ shelf' = [shelf EXCEPT !.gone = @ \cup {a}]
      /\ images' = images /\ born' = born /\ load' = load /\ up' = up /\ mem' = mem
      /\ conn' = conn /\ server' = server /\ acks' = acks /\ faults' = faults
  BY DEF RemoveSession, peer, made
<1>2. /\ DOMAIN shelf' = {"stored", "refused", "gone"} /\ shelf'.stored = shelf.stored
      /\ shelf'.refused = shelf.refused /\ shelf'.gone = shelf.gone \cup {a}
  BY <1>0, <1>1 DEF Records
<1>3. IsFiniteSet(outbox') /\ Cardinality(outbox') <= load.items
  <2>1. IsFiniteSet(outbox) /\ Cardinality(outbox) \in Nat /\ load.items \in Nat /\ Cardinality(outbox) <= load.items
    BY <1>0, FS_CardinalityType, OutboundAssumption DEF Records
  <2>2. outbox \ {a} \subseteq outbox
    OBVIOUS
  <2>3. /\ IsFiniteSet(outbox \ {a}) /\ Cardinality(outbox \ {a}) <= Cardinality(outbox)
        /\ Cardinality(outbox \ {a}) \in Nat
    BY <2>1, <2>2, FS_Subset, FS_CardinalityType
  <2>. QED
    BY <1>1, <2>1, <2>3
<1>4. Records'
  BY <1>0, <1>1, <1>2, <1>3 DEF Records
<1>5. AcksAreTrue' /\ ImageIsKept'
  BY <1>0, <1>1, <1>2 DEF AcksAreTrue, ImageIsKept
<1>. QED
  BY <1>0, <1>1, <1>4, <1>5 DEF IInv

LEMMA AckArrivesIsGood ==
    ASSUME IInv, AckArrives
    PROVE  IInv' /\ Outlives(born, mem, mem')
<1>b. PICK B : B = born
  OBVIOUS
<1>m. PICK m : m = mem
  OBVIOUS
<1>o. PICK o : o = outbox'
  OBVIOUS
<1>x. PICK x : x = mem'
  OBVIOUS
<1>0. /\ Births(B) /\ Good(B, m, Nobody) /\ conn.n \in Sockets
      /\ Records /\ AcksAreTrue /\ ImageIsKept
  BY <1>b, <1>m DEF IInv, Records, Connection
<1>a. PICK ack \in acks :
        /\ acks' = acks \ {ack}
        /\ IF Accepted(ack) /\ ack.id \in outbox
           THEN outbox' = outbox \ {ack.id} /\ mem' = Drained(mem, outbox')
           ELSE UNCHANGED <<outbox, mem>>
        /\ UNCHANGED <<up, conn, wire, server, shelf, made, faults>>
  BY DEF AckArrives
<1>1. /\ acks' \subseteq acks /\ shelf' = shelf
      /\ images' = images /\ born' = born /\ load' = load /\ up' = up
      /\ conn' = conn /\ server' = server /\ faults' = faults
  BY <1>a DEF made
<1>2. CASE Accepted(ack) /\ ack.id \in outbox
  <2>1. outbox' = outbox \ {ack.id} /\ x = Drained(m, o)
    BY <1>a, <1>2, <1>m, <1>o, <1>x
  <2>2. Good(B, x, Nobody) /\ Outlives(B, m, x)
    BY <1>0, <2>1, DrainedIsGood
  <2>3. IsFiniteSet(outbox') /\ Cardinality(outbox') <= load.items
    <3>1. IsFiniteSet(outbox) /\ Cardinality(outbox) \in Nat /\ load.items \in Nat /\ Cardinality(outbox) <= load.items
      BY <1>0, FS_CardinalityType, OutboundAssumption DEF Records
    <3>2. outbox \ {ack.id} \subseteq outbox
      OBVIOUS
    <3>3. /\ IsFiniteSet(outbox \ {ack.id}) /\ Cardinality(outbox \ {ack.id}) <= Cardinality(outbox)
          /\ Cardinality(outbox \ {ack.id}) \in Nat
      BY <3>1, <3>2, FS_Subset, FS_CardinalityType
    <3>. QED
      BY <2>1, <3>1, <3>3
  <2>4. Records'
    BY <1>0, <1>1, <2>1, <2>3 DEF Records
  <2>5. ack.id \in shelf.stored \cup shelf.refused
    BY <1>0, <1>2 DEF AcksAreTrue, Accepted
  <2>6. AcksAreTrue' /\ ImageIsKept'
    BY <1>0, <1>1, <2>1, <2>5 DEF AcksAreTrue, ImageIsKept
  <2>. QED
    BY <1>b, <1>m, <1>x, <1>1, <2>2, <2>4, <2>6 DEF IInv
<1>3. CASE ~(Accepted(ack) /\ ack.id \in outbox)
  <2>1. outbox' = outbox /\ mem' = mem
    BY <1>a, <1>3
  <2>2. Records'
    BY <1>0, <1>1, <2>1 DEF Records
  <2>3. AcksAreTrue' /\ ImageIsKept'
    BY <1>0, <1>1, <2>1, ImagesFollow
  <2>. QED
    BY <1>b, <1>m, <1>0, <1>1, <2>1, <2>2, <2>3 DEF IInv, Outlives
<1>. QED
  BY <1>2, <1>3

LEMMA DeliverIsGood ==
    ASSUME IInv, NEW s \in Sockets, Deliver(s)
    PROVE  IInv' /\ mem' = mem
<1>0. Records /\ AcksAreTrue /\ ImageIsKept /\ Good(born, mem, Nobody)
  BY DEF IInv
<1>1. /\ up' = up /\ conn' = conn /\ mem' = mem /\ outbox' = outbox
      /\ born' = born /\ images' = images /\ load' = load
  BY DEF Deliver, made
<1>m. PICK msg : msg = Head(wire[s])
  OBVIOUS
<1>c. \/ server' \in {s, server} /\ acks' = acks /\ shelf' = shelf /\ NoFault
      \/ Store(s, msg.id) /\ server' = server
  BY <1>m DEF Deliver, peer
<1>2. server' \in {0} \cup Sockets
  BY <1>0, <1>c DEF Records
<1>3. NoFault \/ Fault
  BY <1>c DEF Store
<1>4. faults' \in 0..load.faults
  <2>1. load.faults \in Nat
    BY <1>0, OutboundAssumption DEF Records
  <2>2. faults \in 0..load.faults
    BY <1>0 DEF Records
  <2>3. faults' = faults \/ (faults < load.faults /\ faults' = faults + 1)
    BY <1>3 DEF Fault, NoFault
  <2>. QED
    BY <2>1, <2>2, <2>3
<1>5. /\ DOMAIN shelf' = {"stored", "refused", "gone"} /\ shelf'.gone = shelf.gone
      /\ shelf.stored \subseteq shelf'.stored /\ shelf.refused \subseteq shelf'.refused
  BY <1>0, <1>c DEF Store, Records
<1>6. AcksAreTrue'
  <2>1. CASE acks' = acks
    BY <1>0, <1>5, <2>1 DEF AcksAreTrue
  <2>2. CASE Store(s, msg.id)
    <3>1. ASSUME NEW ack \in acks', ack.verdict # "failed"
          PROVE  ack.id \in shelf'.stored \cup shelf'.refused
      <4>1. CASE ack \in acks
        BY <1>0, <1>5, <3>1, <4>1 DEF AcksAreTrue
      <4>2. CASE /\ shelf' = [shelf EXCEPT !.stored = @ \cup {msg.id}]
                 /\ ack = [socket |-> s, id |-> msg.id, verdict |-> "ok"]
        BY <1>0, <4>2 DEF Records
      <4>3. CASE /\ shelf' = [shelf EXCEPT !.refused = @ \cup {msg.id}]
                 /\ ack = [socket |-> s, id |-> msg.id, verdict |-> "permanent"]
        BY <1>0, <4>3 DEF Records
      <4>. QED
        BY <2>2, <3>1, <4>1, <4>2, <4>3 DEF Store
    <3>. QED
      BY <3>1 DEF AcksAreTrue
  <2>. QED
    BY <1>c, <2>1, <2>2
<1>7. ImageIsKept'
  BY <1>0, <1>1, <1>5 DEF ImageIsKept
<1>8. Records'
  BY <1>0, <1>1, <1>2, <1>4, <1>5 DEF Records
<1>. QED
  BY <1>0, <1>1, <1>6, <1>7, <1>8 DEF IInv

\* The steps on the Agent that leave the outbox, the shelf and what is born
\* alone, and a crash.
LEMMA AgentStepIsGood ==
    ASSUME IInv,
           \/ Take \/ Sending \/ Fails \/ Flushing \/ DrainStep \/ RetryFires
           \/ Connect \/ Authenticate \/ Register \/ Close \/ Crash \/ Boot
    PROVE  IInv' /\ (up' => Outlives(born', mem, mem'))
<1>0. Records /\ AcksAreTrue /\ ImageIsKept /\ Good(born, mem, Nobody) /\ Births(born) /\ conn \in Connection
      /\ up \in BOOLEAN
  BY DEF IInv, Records, Connection
<1>f. ASSUME UNCHANGED <<server, outbox, shelf, made>>, up' \in BOOLEAN, conn' \in Connection,
             UNCHANGED faults \/ Fault, acks' \subseteq acks, Good(born', mem', Nobody)
      PROVE  IInv'
  <2>1. Records'
    BY <1>0, <1>f, RecordsFollow
  <2>2. UNCHANGED <<outbox, shelf, images>>
    BY <1>f DEF made
  <2>3. AcksAreTrue' /\ ImageIsKept'
    BY <1>0, <1>f, <2>2, ImagesFollow
  <2>. QED
    BY <1>f, <2>1, <2>3 DEF IInv
<1>1. CASE Take
  <2>1. Good(born, mem', Nobody) /\ Outlives(born, mem, mem')
    BY <1>0, <1>1, TakeIsGood
  <2>2. UNCHANGED <<up, conn, server, acks, outbox, shelf, made, faults, born>>
    BY <1>1 DEF Take, peer, made
  <2>. QED
    BY <1>0, <1>f, <2>1, <2>2
<1>2. CASE Sending \/ Fails
  <2>s. PICK s \in mem.sending : Encrypts(s) \/ SendFails(s) \/ ChunkEnds(s)
    BY <1>2 DEF Sending, Fails
  <2>1. Good(born, mem', Nobody) /\ Outlives(born, mem, mem')
    BY <1>0, <2>s, SendingIsGood
  <2>2. /\ UNCHANGED <<up, conn, server, acks, outbox, shelf, made, born>>
        /\ UNCHANGED faults \/ Fault
    BY <2>s DEF Encrypts, SendFails, ChunkEnds, peer, made, NoFault
  <2>. QED
    BY <1>0, <1>f, <2>1, <2>2
<1>3. CASE Flushing
  <2>i. PICK i \in DOMAIN mem.flushes : FlushStep(i)
    BY <1>3 DEF Flushing
  <2>1. Good(born, mem', Nobody) /\ Outlives(born, mem, mem')
    BY <1>0, <2>i, FlushIsGood
  <2>2. UNCHANGED <<up, conn, server, acks, outbox, shelf, made, faults, born>>
    BY <2>i DEF FlushStep, peer, made
  <2>. QED
    BY <1>0, <1>f, <2>1, <2>2
<1>4. CASE DrainStep \/ RetryFires
  <2>1. Good(born, mem', Nobody) /\ Outlives(born, mem, mem')
    BY <1>0, <1>4, DrainStepIsGood
  <2>2. UNCHANGED <<up, conn, server, acks, outbox, shelf, made, faults, born>>
    BY <1>4 DEF DrainStep, RetryFires, peer, made
  <2>. QED
    BY <1>0, <1>f, <2>1, <2>2
<1>5. CASE Register
  <2>1. Good(born, mem', Nobody) /\ Outlives(born, mem, mem')
    BY <1>0, <1>5, RegisterIsGood
  <2>2. UNCHANGED <<up, server, acks, outbox, shelf, made, faults, born>>
    BY <1>5 DEF Register, peer, made
  <2>3. conn' \in Connection
    BY <1>0, <1>5 DEF Register, Connection
  <2>. QED
    BY <1>0, <1>f, <2>1, <2>2, <2>3
<1>6. CASE Connect \/ Authenticate \/ Boot
  <2>1. /\ UNCHANGED <<mem, server, acks, outbox, shelf, made, faults, born>>
        /\ up' \in BOOLEAN
    BY <1>0, <1>6 DEF Connect, Authenticate, Boot, peer, made
  <2>2. conn' \in Connection
    BY <1>0, <1>6 DEF Connect, Authenticate, Boot, Connection
  <2>. QED
    BY <1>0, <1>f, <2>1, <2>2 DEF Outlives
<1>7. CASE Close
  <2>1. /\ UNCHANGED <<mem, up, server, outbox, shelf, made, born>>
        /\ Fault /\ acks' \subseteq acks
    BY <1>7 DEF Close, made
  <2>2. conn' \in Connection
    BY <1>0, <1>7 DEF Close, Connection
  <2>. QED
    BY <1>0, <1>f, <2>1, <2>2 DEF Outlives
<1>8. CASE Crash
  <2>1. /\ UNCHANGED <<server, outbox, shelf, made, born>>
        /\ Fault /\ acks' \subseteq acks /\ up' = FALSE
    BY <1>8 DEF Crash, made
  <2>2. conn' \in Connection
    BY <1>0, <1>8 DEF Crash, Connection
  <2>3. Good(born, mem', Nobody)
    BY <1>0, <1>8, CrashIsGood
  <2>. QED
    BY <1>0, <1>f, <2>1, <2>2, <2>3
<1>. QED
  BY <1>1, <1>2, <1>3, <1>4, <1>5, <1>6, <1>7, <1>8

\* A finite set of natural numbers has a greatest one: a smallest set without
\* one would have one as soon as an element is left out.
LEMMA MaxIsGreatest ==
    ASSUME NEW F, F \subseteq Nat, F # {}, IsFiniteSet(F)
    PROVE  Max(F) \in F /\ \A k \in F : k <= Max(F)
<1>. DEFINE HasMax(S) == \E k \in S : \A l \in S : l <= k
            Bad == {c \in Nat : \E S \in SUBSET Nat :
                      S # {} /\ IsFiniteSet(S) /\ Cardinality(S) = c /\ ~HasMax(S)}
<1>1. ASSUME Bad # {} PROVE FALSE
  <2>c. PICK c \in Bad : \A d \in Bad : c <= d
    BY <1>1, LeastNatural
  <2>s. PICK S \in SUBSET Nat : S # {} /\ IsFiniteSet(S) /\ Cardinality(S) = c /\ ~HasMax(S)
    BY <2>c
  <2>x. PICK x \in S : TRUE
    BY <2>s
  <2>t. PICK T : T = S \ {x}
    OBVIOUS
  <2>1. IsFiniteSet(T) /\ Cardinality(T) = c - 1 /\ Cardinality(T) \in Nat /\ c \in Nat
    BY <2>s, <2>t, FS_RemoveElement, FS_CardinalityType
  <2>2. T # {}
    <3>1. T = {} => \A l \in S : l <= x
      BY <2>t
    <3>. QED
      BY <2>s, <3>1
  <2>3. Cardinality(T) \notin Bad
    <3>1. ~(c <= c - 1)
      BY <2>1
    <3>. QED
      BY <2>c, <2>1, <3>1
  <2>4. HasMax(T)
    BY <2>1, <2>2, <2>3, <2>t
  <2>k. PICK k \in T : \A l \in T : l <= k
    BY <2>4
  <2>5. x \in Nat /\ k \in Nat /\ k \in S
    BY <2>t
  <2>6. CASE x <= k
    <3>1. \A l \in S : l <= k
      BY <2>t, <2>k, <2>6
    <3>. QED
      BY <2>s, <2>5, <3>1
  <2>7. CASE ~(x <= k)
    <3>1. \A l \in S : l <= x
      BY <2>t, <2>k, <2>5, <2>7
    <3>. QED
      BY <2>s, <3>1
  <2>. QED
    BY <2>6, <2>7
<1>2. HasMax(F)
  <2>1. Cardinality(F) \in Nat
    BY FS_CardinalityType
  <2>. QED
    BY <1>1, <2>1
<1>3. \E k \in F : \A l \in F : k >= l
  BY <1>2
<1>. HIDE DEF HasMax, Bad
<1>4. Max(F) \in F /\ \A l \in F : Max(F) >= l
  BY <1>3 DEF Max
<1>. QED
  BY <1>4

LEMMA FirstSocket == 1 \in Sockets
<1>f. PICK F : F = {l.faults : l \in Loads}
  OBVIOUS
<1>1. F \subseteq Nat /\ F # {}
  BY <1>f, OutboundAssumption
<1>2. IsFiniteSet(F)
  <2>g. PICK g : g = [l \in Loads |-> l.faults]
    OBVIOUS
  <2>1. g \in Surjection(Loads, F)
    BY <1>f, <2>g DEF Surjection
  <2>. QED
    BY <2>1, FS_Surjection, OutboundAssumption
<1>3. Max(F) \in Nat
  BY <1>1, <1>2, MaxIsGreatest
<1>4. 1 \in 1..(Max(F) + 1)
  BY <1>3
<1>. QED
  BY <1>f, <1>4 DEF Sockets

LEMMA InitIsGood ==
    ASSUME Init
    PROVE  IInv
<1>b. PICK B : B = born
  OBVIOUS
<1>m. PICK m : m = mem
  OBVIOUS
<1>0. /\ up = TRUE /\ conn = [n |-> 1, state |-> "open"] /\ mem = Fresh
      /\ server = 0 /\ acks = {} /\ outbox = {}
      /\ shelf = [stored |-> {}, refused |-> {}, gone |-> {}]
      /\ born = <<>> /\ images = 0 /\ faults = 0 /\ load \in Loads
  BY DEF Init
<1>1. /\ load.faults \in Nat /\ load.items \in Nat /\ load.messages \in Nat
  BY <1>0, OutboundAssumption
<1>2. Sequence(born) /\ Len(born) = 0 /\ DOMAIN born = {}
  BY <1>0, EmptyShape
<1>3. Records
  <2>1. IsFiniteSet(outbox) /\ Cardinality(outbox) = 0
    BY <1>0, FS_EmptySet
  <2>2. conn \in Connection
    BY <1>0, FirstSocket DEF Connection
  <2>3. Births(born) /\ Len(born) <= load.messages
    BY <1>1, <1>2 DEF Births
  <2>4. faults \in 0..load.faults /\ images \in Nat /\ Cardinality(outbox) <= load.items
    BY <1>0, <1>1, <2>1
  <2>5. DOMAIN shelf = {"stored", "refused", "gone"}
    BY <1>0
  <2>6. outbox \subseteq Assets /\ up \in BOOLEAN /\ server \in {0} \cup Sockets /\ load \in Loads
    BY <1>0
  <2>. QED
    BY <2>1, <2>2, <2>3, <2>4, <2>5, <2>6 DEF Records, Connection
<1>4. AcksAreTrue /\ ImageIsKept
  BY <1>0 DEF AcksAreTrue, ImageIsKept
<1>5. /\ DOMAIN m = Fields /\ m.queue = <<>> /\ m.sending = {} /\ m.buffer = <<>>
      /\ m.flushes = <<>> /\ m.drain = Idle /\ m.timer = FALSE
      /\ m.parked = {} /\ m.lost = {} /\ m.written = <<>>
  BY <1>0, <1>m DEF Fresh, Fields
<1>6. /\ Sequence(<<>>) /\ Len(<<>>) = 0 /\ DOMAIN <<>> = {} /\ Flushes(<<>>)
  BY EmptyShape, NoPairs
<1>7. DOMAIN Idle = {"active", "answer", "rest"} /\ Idle.answer = "none"
  BY DEF Idle
<1>8. 0 <= QueueSize /\ 0 <= BufferSize
  BY OutboundAssumption
<1>9. Shape(B, m)
  BY <1>5, <1>6, <1>7, <1>8 DEF Shape
<1>10. Ordered(m)
  BY <1>5, <1>6 DEF Ordered
<1>11. Good(B, m, Nobody)
  BY <1>2, <1>b, <1>9, <1>10 DEF Good, Balanced
<1>. QED
  BY <1>b, <1>m, <1>3, <1>4, <1>11 DEF IInv

LEMMA StepIsGood ==
    ASSUME IInv, [Next]_vars
    PROVE  IInv' /\ (up' => Outlives(born', mem, mem'))
<1>0. Good(born, mem, Nobody) /\ Births(born) /\ Records /\ AcksAreTrue /\ ImageIsKept /\ conn \in Connection
  BY DEF IInv, Records, Connection
<1>1. ASSUME NEW kind \in Kinds, Produce(kind) PROVE IInv' /\ Outlives(born', mem, mem')
  <2>1. Births(born') /\ Good(born', mem', Nobody) /\ Outlives(born', mem, mem')
    BY <1>0, <1>1, ProduceIsGood
  <2>2. /\ up' = up /\ conn' = conn /\ server' = server /\ acks' = acks /\ outbox' = outbox
        /\ shelf' = shelf /\ images' = images /\ load' = load /\ faults' = faults
        /\ Len(born) + 1 <= load.messages
        /\ born' = Append(born, [kind |-> kind, socket |-> IF Open THEN conn.n ELSE 0])
    BY <1>1 DEF Produce, peer
  <2>3. Len(born') <= load'.messages
    <3>1. Sequence(born)
      BY <1>0 DEF Births
    <3>2. Len(born') = Len(born) + 1
      BY <2>2, <3>1, AppendShape
    <3>. QED
      BY <2>2, <3>2
  <2>4. Records'
    BY <1>0, <2>1, <2>2, <2>3 DEF Records
  <2>5. AcksAreTrue' /\ ImageIsKept'
    BY <1>0, <2>2, ImagesFollow
  <2>. QED
    BY <2>1, <2>4, <2>5 DEF IInv
<1>2. ASSUME NEW a \in Assets, Enqueue(a) PROVE IInv' /\ Outlives(born', mem, mem')
  <2>1. born' = born
    BY <1>2 DEF Enqueue
  <2>. QED
    BY <1>2, <2>1, EnqueueIsGood
<1>3. ASSUME NEW a \in Assets, RemoveSession(a) PROVE IInv' /\ Outlives(born', mem, mem')
  BY <1>3, RemoveSessionIsGood DEF Outlives
<1>4. CASE AckArrives
  <2>1. born' = born
    BY <1>4 DEF AckArrives, made
  <2>. QED
    BY <1>4, <2>1, AckArrivesIsGood
<1>5. CASE Delivering
  BY <1>5, DeliverIsGood DEF Delivering, Outlives
<1>6. CASE \/ Take \/ Sending \/ Fails \/ Flushing \/ DrainStep \/ RetryFires
           \/ Connect \/ Authenticate \/ Register \/ Close \/ Crash \/ Boot
  BY <1>6, AgentStepIsGood
<1>7. CASE UNCHANGED vars
  <2>1. /\ up' = up /\ conn' = conn /\ mem' = mem /\ server' = server /\ acks' = acks
        /\ outbox' = outbox /\ shelf' = shelf /\ born' = born /\ images' = images
        /\ load' = load /\ faults' = faults
    BY <1>7 DEF vars
  <2>2. Records' /\ AcksAreTrue' /\ ImageIsKept' /\ Good(born', mem', Nobody)
    BY <1>0, <2>1 DEF Records, AcksAreTrue, ImageIsKept
  <2>. QED
    BY <2>1, <2>2 DEF IInv, Outlives
<1>. QED
  BY <1>1, <1>2, <1>3, <1>4, <1>5, <1>6, <1>7 DEF Next

-----------------------------------------------------------------------------
(* What the invariant says of the properties *)

\* A number in the memory of the model is a number in its counts.
LEMMA PlacesAreCounted ==
    ASSUME IInv, NEW id \in DOMAIN born
    PROVE  /\ Cardinality(InQueue(id)) = Queued(born, mem, id)
           /\ Cardinality(InFlushes(id)) = InFlush(born, mem, id)
           /\ Cardinality(InBuffer(id)) = Parked(born, mem, id)
           /\ Cardinality(BeingSent(id)) = Encrypting(born, mem, id)
           /\ Cardinality(Written(id)) = Writings(mem, id)
           /\ Written(id) = {} <=> Writings(mem, id) = 0
<1>0. Shape(born, mem)
  BY DEF IInv, Good
<1>1. Message(id) = Msg(born, id)
  BY DEF Message, Msg
<1>2. InQueue(id) = Places(mem.queue, Items(born, id))
  <2>1. ASSUME NEW i \in DOMAIN mem.queue
        PROVE  mem.queue[i].msg = Message(id) <=> mem.queue[i] \in Items(born, id)
    <3>0. IsQueued(born, mem.queue[i])
      BY <1>0, <2>1 DEF Shape
    <3>. QED
      BY <1>1, <3>0 DEF IsQueued, Items
  <2>. QED
    BY <2>1 DEF InQueue, Places
<1>3. InFlushes(id) = Pairs(mem.flushes, {Msg(born, id)})
  BY <1>1 DEF InFlushes, Pairs
<1>4. InBuffer(id) = Places(mem.buffer, {Msg(born, id)})
  BY <1>1 DEF InBuffer, Places
<1>5. BeingSent(id) = {s \in mem.sending : s.msg = Msg(born, id) /\ s.step = "encrypting"}
  BY <1>1 DEF BeingSent
<1>6. Written(id) = Places(mem.written, Writes(id))
  <2>1. ASSUME NEW i \in DOMAIN mem.written
        PROVE  mem.written[i].id = id <=> mem.written[i] \in Writes(id)
    <3>0. IsWritten(born, mem.written[i])
      BY <1>0, <2>1 DEF Shape
    <3>. QED
      BY <3>0 DEF IsWritten, Writes
  <2>. QED
    BY <2>1 DEF Written, Places
<1>7. Writings(mem, id) = 0 <=> Places(mem.written, Writes(id)) = {}
  BY <1>0, CountsAreNatural
<1>. QED
  BY <1>2, <1>3, <1>4, <1>5, <1>6, <1>7 DEF Queued, InFlush, Parked, Encrypting, Writings

LEMMA TypesFollow ==
    ASSUME IInv
    PROVE  TypeOK
<1>0. Shape(born, mem) /\ Records
  BY DEF IInv, Good
<1>1. Cardinality(mem.sending) <= 1
  <2>1. mem.sending = {} => Cardinality(mem.sending) = 0
    BY FS_EmptySet
  <2>2. (\E s : mem.sending = {s}) => Cardinality(mem.sending) = 1
    BY FS_Singleton
  <2>3. mem.sending = {} \/ \E s : mem.sending = {s}
    BY <1>0 DEF Shape
  <2>4. Cardinality(mem.sending) \in {0, 1}
    BY <2>1, <2>2, <2>3
  <2>. QED
    BY <2>4
<1>2. \A i \in DOMAIN mem.queue : mem.queue[i].socket \in Sockets
  BY <1>0 DEF Shape, IsQueued
<1>3. /\ Len(mem.queue) <= QueueSize /\ Len(mem.buffer) <= BufferSize
      /\ mem.drain.answer \in {"none", "sent", "dropped"} /\ mem.timer \in BOOLEAN
  BY <1>0 DEF Shape
<1>4. \A i \in DOMAIN born : born[i].kind \in Kinds
  BY <1>0 DEF Records, Births
<1>. QED
  BY <1>0, <1>1, <1>2, <1>3, <1>4 DEF TypeOK, Records

LEMMA OnePlaceFollows ==
    ASSUME IInv
    PROVE  InOnePlace
<1>. SUFFICES ASSUME NEW id \in DOMAIN born
              PROVE  Cardinality(InQueue(id)) + Cardinality(InFlushes(id)) + Cardinality(InBuffer(id))
                         + Cardinality(BeingSent(id)) + Cardinality(Written(id))
                       = IF id \in mem.lost /\ Written(id) = {} THEN 0 ELSE 1
  BY DEF InOnePlace
<1>0. Shape(born, mem) /\ Balanced(born, mem, Nobody) /\ Births(born)
  BY DEF IInv, Good, Records
<1>1. /\ Cardinality(InQueue(id)) = Queued(born, mem, id)
      /\ Cardinality(InFlushes(id)) = InFlush(born, mem, id)
      /\ Cardinality(InBuffer(id)) = Parked(born, mem, id)
      /\ Cardinality(BeingSent(id)) = Encrypting(born, mem, id)
      /\ Cardinality(Written(id)) = Writings(mem, id)
      /\ Written(id) = {} <=> Writings(mem, id) = 0
  BY PlacesAreCounted
<1>2. Total(born, mem, id) + Held(born, Nobody, id)
        = IF id \in mem.lost /\ Writings(mem, id) = 0 THEN 0 ELSE 1
  BY <1>0 DEF Balanced
<1>3. Held(born, Nobody, id) = 0 /\ Total(born, mem, id) \in Nat
  BY <1>0, HandIsCounted, TotalIsNatural
<1>4. Total(born, mem, id) = IF id \in mem.lost /\ Writings(mem, id) = 0 THEN 0 ELSE 1
  BY <1>2, <1>3
<1>. QED
  BY <1>1, <1>4 DEF Total

-----------------------------------------------------------------------------
(* Theorems *)

\* What there is of messages, images and acknowledgements is consistent and in
\* order in every state of the Agent and of its connections
\* (connection/buffer.js, asset-outbox.js).
THEOREM Inductive == Spec => []IInv
<1>1. Init => IInv
  BY InitIsGood
<1>2. IInv /\ [Next]_vars => IInv'
  BY StepIsGood
<1>. QED
  BY <1>1, <1>2, PTL DEF Spec

\* For any load and any limits the queue, the buffer and the outbox stay within
\* their limits, each message is in one place or given up, and each image is in
\* the outbox until it is settled (buffer.js:103-179, asset-outbox.js:43).
THEOREM NothingIsForgotten == Spec => []PlacesInv
<1>1. IInv => PlacesInv
  BY TypesFollow, OnePlaceFollows DEF PlacesInv, IInv
<1>. QED
  BY <1>1, Inductive, PTL

\* A message that was overtaken on its way out had been buffered, for any
\* interleaving of encryptions, flushes and reconnects (buffer.js:119-143).
THEOREM OrderOfProduction == Spec => []OvertakenWereBuffered
<1>1. IInv => OvertakenWereBuffered
  BY DEF IInv, Good, Ordered, InOrder, OvertakenWereBuffered
<1>. QED
  BY <1>1, Inductive, PTL

\* A chunk is written to the connection it was produced for or to none, however
\* many connections there are (buffer.js:106).
THEOREM ChunksStay == Spec => []ChunkStaysOnConnection
<1>1. IInv => ChunkStaysOnConnection
  <2>. SUFFICES ASSUME IInv, NEW i \in DOMAIN mem.written, born[mem.written[i].id].kind = "chunk"
                PROVE  mem.written[i].socket = born[mem.written[i].id].socket
    BY DEF ChunkStaysOnConnection
  <2>1. IsWritten(born, mem.written[i])
    BY DEF IInv, Good, Shape
  <2>. QED
    BY <2>1 DEF IsWritten, OnOwn, Msg
<1>. QED
  BY <1>1, Inductive, PTL

\* The end of a turn is given up by no step other than a crash, unless all that
\* the full queue or the full buffer keeps are such ends
\* (buffer.js:45-52, 152-161).
THEOREM TerminalsStay == Spec => TerminalsOutlive
<1>1. IInv /\ [Next]_vars =>
        [up' => \A id \in mem.lost' \ mem.lost :
           Message(id)'.kind = "terminal" =>
             \/ Len(mem'.queue) = QueueSize
                /\ \A i \in DOMAIN mem'.queue : mem'.queue[i].msg.kind = "terminal"
             \/ Len(mem'.buffer) = BufferSize
                /\ \A i \in DOMAIN mem'.buffer : mem'.buffer[i].kind = "terminal"]_vars
  <2>. SUFFICES ASSUME IInv, [Next]_vars, up', NEW id \in mem.lost' \ mem.lost,
                       Message(id)'.kind = "terminal"
                PROVE  \/ Len(mem'.queue) = QueueSize
                          /\ \A i \in DOMAIN mem'.queue : mem'.queue[i].msg.kind = "terminal"
                       \/ Len(mem'.buffer) = BufferSize
                          /\ \A i \in DOMAIN mem'.buffer : mem'.buffer[i].kind = "terminal"
    OBVIOUS
  <2>1. Outlives(born', mem, mem')
    BY StepIsGood
  <2>2. born'[id].kind = "terminal"
    BY DEF Message
  <2>3. KeepsTerminals(mem')
    BY <2>1, <2>2 DEF Outlives
  <2>. QED
    BY <2>3 DEF KeepsTerminals
<1>. QED
  BY <1>1, Inductive, PTL DEF Spec, TerminalsOutlive

=============================================================================

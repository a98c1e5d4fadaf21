------------------------- MODULE MessageMethodsProofs ------------------------
(* What the methods of one generated class do, for every class whose tables fit *)
(* the declaration of its messages and every object: proved from what is known  *)
(* of the classes of its fields, and so proved again, as Good and Expressed,    *)
(* for the class itself.  ObjectIn(c, v) says that v is an object of class c,   *)
(* the class of a field, and WordIn(c, w) that w is a message of its type.      *)
(* First come the wire format and the sequences that the writers flatten.       *)
EXTENDS MessageMethods, MessageRules, MessageTables, SumTheorems, SequenceTheorems,
        WellFoundedInduction

-----------------------------------------------------------------------------
(* Induction over numbers and over functions of numbers *)

\* A set that has 0 and the successor of each of its numbers has every number.
LEMMA NumberInduction ==
    ASSUME NEW S, 0 \in S, \A n \in Nat : n \in S => n + 1 \in S
    PROVE  \A n \in Nat : n \in S
<1> DEFINE B == {n \in Nat : n \notin S}
           R == OpToRel(<, Nat)
<1>1. ASSUME B # {} PROVE FALSE
    <2>1. PICK x \in B : \A y \in B : ~ (<<y, x>> \in R)
        <3>1. IsWellFoundedOn(R, Nat)
            BY NatLessThanWellFounded
        <3>2. B \subseteq Nat
            OBVIOUS
        <3> HIDE DEF B, R
        <3> QED
            BY <1>1, <3>1, <3>2, WFMin
    <2>2. \A y \in B : ~ (y < x)
        BY <2>1 DEF OpToRel
    <2>3. x \in Nat /\ x # 0
        OBVIOUS
    <2>4. x - 1 \in Nat /\ x - 1 < x
        BY <2>3
    <2>5. x - 1 \in S
        BY <2>2, <2>4
    <2>6. (x - 1) + 1 \in S
        BY <2>4, <2>5
    <2> QED
        BY <2>6, <2>3
<1> QED
    BY <1>1

(***************************************************************************)
(* Recursion: a function f on D is given by what G says of d when it knows *)
(* f on the smaller elements of D.                                         *)
(***************************************************************************)
Looks(D, size, V, G) ==
    /\ size \in [D -> Nat]
    /\ G \in [[D -> V] \X D -> V]
    /\ \A f, g \in [D -> V], d \in D :
         (\A e \in D : size[e] < size[d] => f[e] = g[e]) => G[<<f, d>>] = G[<<g, d>>]

\* f is right about the elements smaller than n.
Right(D, size, G, n, f) == \A d \in D : size[d] < n => f[d] = G[<<f, d>>]

LEMMA RightOnce ==
    ASSUME NEW D, NEW size, NEW V, NEW G, Looks(D, size, V, G)
    PROVE  \A n \in Nat : \A f, g \in [D -> V] :
             Right(D, size, G, n, f) /\ Right(D, size, G, n, g) =>
               \A d \in D : size[d] < n => f[d] = g[d]
<1> DEFINE S == {n \in Nat : \A f, g \in [D -> V] :
             Right(D, size, G, n, f) /\ Right(D, size, G, n, g) =>
               \A d \in D : size[d] < n => f[d] = g[d]}
<1>1. 0 \in S
    BY DEF Looks
<1>2. ASSUME NEW n \in Nat, n \in S PROVE n + 1 \in S
    <2> SUFFICES ASSUME NEW f \in [D -> V], NEW g \in [D -> V],
                        Right(D, size, G, n + 1, f), Right(D, size, G, n + 1, g),
                        NEW d \in D, size[d] < n + 1
                 PROVE  f[d] = g[d]
        OBVIOUS
    <2>1. \A e \in D : size[e] \in Nat
        BY DEF Looks
    <2>2. Right(D, size, G, n, f) /\ Right(D, size, G, n, g)
        BY <2>1 DEF Right
    <2>3. \A e \in D : size[e] < n => f[e] = g[e]
        BY <1>2, <2>2
    <2>4. \A e \in D : size[e] < size[d] => f[e] = g[e]
        BY <2>1, <2>3
    <2>5. G[<<f, d>>] = G[<<g, d>>]
        BY <2>4 DEF Looks
    <2> QED
        BY <2>5 DEF Right
<1> HIDE DEF S
<1>3. \A n \in Nat : n \in S
    BY <1>1, <1>2, NumberInduction
<1> QED
    BY <1>3 DEF S

LEMMA RightUpTo ==
    ASSUME NEW D, NEW size, NEW V, NEW G, Looks(D, size, V, G), V # {}
    PROVE  \A n \in Nat : \E f \in [D -> V] : Right(D, size, G, n, f)
<1> DEFINE S == {n \in Nat : \E f \in [D -> V] : Right(D, size, G, n, f)}
<1>0. \A d \in D : size[d] \in Nat
    BY DEF Looks
<1>1. 0 \in S
    <2>1. PICK v \in V : TRUE
        OBVIOUS
    <2>2. [d \in D |-> v] \in [D -> V]
        OBVIOUS
    <2>3. \A d \in D : ~ (size[d] < 0)
        BY <1>0
    <2> QED
        BY <2>2, <2>3 DEF Right
<1>2. ASSUME NEW n \in Nat, n \in S PROVE n + 1 \in S
    <2>1. PICK f \in [D -> V] : Right(D, size, G, n, f)
        BY <1>2
    <2> DEFINE h == [d \in D |-> IF size[d] < n THEN f[d] ELSE G[<<f, d>>]]
    <2>2. h \in [D -> V]
        BY DEF Looks
    <2>3. ASSUME NEW d \in D, size[d] < n + 1 PROVE h[d] = G[<<h, d>>]
        <3>1. \A e \in D : size[e] < size[d] => f[e] = h[e]
            BY <1>0, <2>3
        <3>2. G[<<f, d>>] = G[<<h, d>>]
            <4> HIDE DEF h
            <4> QED
                BY <2>2, <3>1 DEF Looks
        <3>3. h[d] = G[<<f, d>>]
            BY <2>1 DEF Right
        <3> QED
            BY <3>2, <3>3
    <2> HIDE DEF h
    <2> QED
        BY <2>2, <2>3 DEF Right
<1> HIDE DEF S
<1>3. \A n \in Nat : n \in S
    BY <1>1, <1>2, NumberInduction
<1> QED
    BY <1>3 DEF S

LEMMA Recursion ==
    ASSUME NEW D, NEW size, NEW V, NEW G, Looks(D, size, V, G), V # {}
    PROVE  \E f \in [D -> V] : \A d \in D : f[d] = G[<<f, d>>]
<1> DEFINE Part(n) == CHOOSE f \in [D -> V] : Right(D, size, G, n, f)
           h == [d \in D |-> Part(size[d] + 1)[d]]
<1>0. \A d \in D : size[d] \in Nat
    BY DEF Looks
<1>1. \A n \in Nat : Part(n) \in [D -> V] /\ Right(D, size, G, n, Part(n))
    BY RightUpTo
<1> HIDE DEF Part
<1>2. h \in [D -> V]
    BY <1>0, <1>1
<1>3. ASSUME NEW d \in D, NEW e \in D, size[e] <= size[d]
      PROVE  Part(size[d] + 1)[e] = h[e]
    <2>1. Right(D, size, G, size[e] + 1, Part(size[d] + 1))
        BY <1>0, <1>1, <1>3 DEF Right
    <2> QED
        BY <1>0, <1>1, <2>1, RightOnce
<1>4. ASSUME NEW d \in D PROVE h[d] = G[<<h, d>>]
    <2>1. \A e \in D : size[e] < size[d] => Part(size[d] + 1)[e] = h[e]
        BY <1>0, <1>3
    <2>2. G[<<Part(size[d] + 1), d>>] = G[<<h, d>>]
        <3>1. Part(size[d] + 1) \in [D -> V]
            BY <1>0, <1>1
        <3> DEFINE p == Part(size[d] + 1)
        <3> HIDE DEF h, p
        <3>2. G[<<p, d>>] = G[<<h, d>>]
            BY <1>2, <2>1, <3>1 DEF Looks, p
        <3> QED
            BY <3>2 DEF p
    <2>3. Part(size[d] + 1)[d] = G[<<Part(size[d] + 1), d>>]
        BY <1>0, <1>1 DEF Right
    <2> QED
        BY <2>2, <2>3
<1> QED
    BY <1>2, <1>4

\* Induction on the size of the elements of D
LEMMA SizeInduction ==
    ASSUME NEW D, NEW size \in [D -> Nat], NEW S,
           \A d \in D : (\A e \in D : size[e] < size[d] => e \in S) => d \in S
    PROVE  \A d \in D : d \in S
<1> DEFINE T == {n \in Nat : \A d \in D : size[d] < n => d \in S}
<1>1. 0 \in T
    OBVIOUS
<1>2. ASSUME NEW n \in Nat, n \in T PROVE n + 1 \in T
    <2>1. ASSUME NEW d \in D, size[d] < n + 1 PROVE d \in S
        <3>1. \A e \in D : size[e] < size[d] => size[e] < n
            BY <2>1
        <3> QED
            BY <1>2, <3>1
    <2> QED
        BY <2>1
<1> HIDE DEF T
<1>3. \A n \in Nat : n \in T
    BY <1>1, <1>2, NumberInduction
<1>4. ASSUME NEW d \in D PROVE d \in S
    <2>1. size[d] + 1 \in T
        BY <1>3
    <2> QED
        BY <2>1 DEF T
<1> QED
    BY <1>4

-----------------------------------------------------------------------------
(* The wire format *)

Byte == 0 .. 255

LEMMA DivLess == \A n \in Nat : n >= 128 => n \div 128 \in Nat /\ n \div 128 < n
OBVIOUS

LEMMA ModByte == \A n \in Nat : n % 128 \in 0 .. 127
OBVIOUS

LEMMA DivMod == \A n \in Nat : n = (n % 128) + 128 * (n \div 128)
OBVIOUS

\* f is the function that varint names.
IsVarint(f) ==
    f = [n \in Nat |-> IF n < 128 THEN <<n>> ELSE <<128 + (n % 128)>> \o f[n \div 128]]

LEMMA VarintExists == \E f \in [Nat -> Seq(Byte)] : IsVarint(f)
<1> DEFINE V == Seq(Byte)
           size == [n \in Nat |-> n]
           Body(f, n) == IF n < 128 THEN <<n>> ELSE <<128 + (n % 128)>> \o f[n \div 128]
           G == [p \in [Nat -> V] \X Nat |-> Body(p[1], p[2])]
<1>1. ASSUME NEW f \in [Nat -> V], NEW n \in Nat PROVE Body(f, n) \in V
    <2>1. CASE n < 128
        BY <2>1 DEF Byte
    <2>2. CASE n >= 128
        <3>1. f[n \div 128] \in V /\ 128 + (n % 128) \in Byte
            BY <2>2, DivLess, ModByte DEF Byte
        <3>2. <<128 + (n % 128)>> \in V
            BY <3>1
        <3> QED
            BY <2>2, <3>1, <3>2, ConcatProperties
    <2> QED
        BY <2>1, <2>2
<1>2. G \in [[Nat -> V] \X Nat -> V]
    BY <1>1, ZenonT(30)
<1>3. \A f \in [Nat -> V], n \in Nat : G[<<f, n>>] = Body(f, n)
    OBVIOUS
<1>4. ASSUME NEW f \in [Nat -> V], NEW g \in [Nat -> V], NEW n \in Nat,
             \A e \in Nat : size[e] < size[n] => f[e] = g[e]
      PROVE  Body(f, n) = Body(g, n)
    BY <1>4, DivLess
<1>5. Looks(Nat, size, V, G)
    <2> HIDE DEF G, Body, V
    <2>1. \A f, g \in [Nat -> V], n \in Nat :
            (\A e \in Nat : size[e] < size[n] => f[e] = g[e]) => G[<<f, n>>] = G[<<g, n>>]
        BY <1>3, <1>4
    <2>2. size \in [Nat -> Nat]
        OBVIOUS
    <2> HIDE DEF size
    <2> QED
        BY <1>2, <2>1, <2>2 DEF Looks
<1>6. V # {}
    BY EmptySeq
<1>7. PICK f \in [Nat -> V] : \A n \in Nat : f[n] = G[<<f, n>>]
    <2> HIDE DEF G, V, size
    <2> QED
        BY <1>5, <1>6, Recursion
<1>8. \A n \in Nat : f[n] = Body(f, n)
    <2> HIDE DEF Body
    <2> QED
        BY <1>3, <1>7
<1> QED
    BY <1>7, <1>8, ZenonT(30) DEF IsVarint

LEMMA VarintIs == IsVarint(varint)
<1>1. varint = CHOOSE f : IsVarint(f)
    BY DEF varint, IsVarint
<1> HIDE DEF IsVarint
<1> QED
    BY <1>1, VarintExists

LEMMA VarintLow == \A n \in Nat : n < 128 => Varint(n) = <<n>>
BY VarintIs DEF IsVarint, Varint

LEMMA VarintHigh ==
    \A n, d \in Nat : n >= 128 /\ d = n \div 128 => Varint(n) = <<128 + (n % 128)>> \o Varint(d)
<1> SUFFICES ASSUME NEW n \in Nat, NEW d \in Nat, n >= 128, d = n \div 128
             PROVE  varint[n] = <<128 + (n % 128)>> \o varint[d]
    BY DEF Varint
<1>1. varint[n] = IF n < 128 THEN <<n>> ELSE <<128 + (n % 128)>> \o varint[n \div 128]
    BY VarintIs, Zenon DEF IsVarint
<1>2. ~ (n < 128)
    OBVIOUS
<1>3. varint[n] = <<128 + (n % 128)>> \o varint[n \div 128]
    BY <1>1, <1>2, Zenon
<1> QED
    BY <1>3, Zenon

LEMMA VarintType == \A n \in Nat : Varint(n) \in Seq(Byte)
<1> DEFINE S == {n \in Nat : Varint(n) \in Seq(Byte)}
           size == [n \in Nat |-> n]
<1>1. ASSUME NEW n \in Nat, \A m \in Nat : size[m] < size[n] => m \in S
      PROVE  n \in S
    <2>1. CASE n < 128
        <3>1. <<n>> \in Seq(Byte)
            BY <2>1 DEF Byte
        <3> QED
            BY <2>1, <3>1, VarintLow, Zenon
    <2>2. CASE n >= 128
        <3>1. PICK d \in Nat : d = n \div 128 /\ d < n
            BY <2>2, DivLess
        <3>2. Varint(d) \in Seq(Byte)
            BY <1>1, <3>1
        <3>3. <<128 + (n % 128)>> \in Seq(Byte)
            BY ModByte DEF Byte
        <3>4. Varint(n) = <<128 + (n % 128)>> \o Varint(d)
            BY <2>2, <3>1, VarintHigh
        <3> QED
            BY <3>2, <3>3, <3>4, ConcatProperties
    <2> QED
        BY <2>1, <2>2
<1>2. \A n \in Nat : n \in S
    <2>1. size \in [Nat -> Nat]
        OBVIOUS
    <2> HIDE DEF S, size
    <2> QED
        BY <1>1, <2>1, SizeInduction
<1> QED
    BY <1>2

-----------------------------------------------------------------------------
(* VarintSize *)

IsVarintSize(f) == f = [n \in Nat |-> IF n < 128 THEN 1 ELSE 1 + f[n \div 128]]

LEMMA VarintSizeExists == \E f \in [Nat -> Nat] : IsVarintSize(f)
<1> DEFINE size == [n \in Nat |-> n]
           Body(f, n) == IF n < 128 THEN 1 ELSE 1 + f[n \div 128]
           G == [p \in [Nat -> Nat] \X Nat |-> Body(p[1], p[2])]
<1>1. ASSUME NEW f \in [Nat -> Nat], NEW n \in Nat PROVE Body(f, n) \in Nat
    BY DivLess
<1>2. G \in [[Nat -> Nat] \X Nat -> Nat]
    BY <1>1
<1>3. \A f \in [Nat -> Nat], n \in Nat : G[<<f, n>>] = Body(f, n)
    OBVIOUS
<1>4. ASSUME NEW f \in [Nat -> Nat], NEW g \in [Nat -> Nat], NEW n \in Nat,
             \A e \in Nat : size[e] < size[n] => f[e] = g[e]
      PROVE  Body(f, n) = Body(g, n)
    BY <1>4, DivLess
<1>5. Looks(Nat, size, Nat, G)
    <2> HIDE DEF G, Body
    <2>1. \A f, g \in [Nat -> Nat], n \in Nat :
            (\A e \in Nat : size[e] < size[n] => f[e] = g[e]) => G[<<f, n>>] = G[<<g, n>>]
        BY <1>3, <1>4
    <2>2. size \in [Nat -> Nat]
        OBVIOUS
    <2> HIDE DEF size
    <2> QED
        BY <1>2, <2>1, <2>2 DEF Looks
<1>6. PICK f \in [Nat -> Nat] : \A n \in Nat : f[n] = G[<<f, n>>]
    <2> HIDE DEF G, size
    <2>1. Nat # {}
        OBVIOUS
    <2> QED
        BY <1>5, <2>1, Recursion
<1>7. \A n \in Nat : f[n] = Body(f, n)
    <2> HIDE DEF Body
    <2> QED
        BY <1>3, <1>6
<1> QED
    BY <1>6, <1>7 DEF IsVarintSize

LEMMA VarintSizeIs == IsVarintSize(varintSize)
<1>1. varintSize = CHOOSE f : IsVarintSize(f)
    BY DEF varintSize, IsVarintSize
<1> HIDE DEF IsVarintSize
<1> QED
    BY <1>1, VarintSizeExists

LEMMA VarintSizeLow == \A n \in Nat : n < 128 => VarintSize(n) = 1
BY VarintSizeIs DEF IsVarintSize, VarintSize

LEMMA VarintSizeHigh ==
    \A n, d \in Nat : n >= 128 /\ d = n \div 128 => VarintSize(n) = 1 + VarintSize(d)
BY VarintSizeIs DEF IsVarintSize, VarintSize

\* Int32Size and its like give the number of bytes that are written, for every number.
THEOREM VarintSizeIsLength == \A n \in Nat : VarintSize(n) = Len(Varint(n))
<1> DEFINE S == {n \in Nat : VarintSize(n) = Len(Varint(n))}
           size == [n \in Nat |-> n]
<1>1. ASSUME NEW n \in Nat, \A m \in Nat : size[m] < size[n] => m \in S
      PROVE  n \in S
    <2>1. CASE n < 128
        <3>1. Varint(n) = <<n>> /\ VarintSize(n) = 1
            BY <2>1, VarintLow, VarintSizeLow
        <3> QED
            BY <3>1
    <2>2. CASE n >= 128
        <3>1. PICK d \in Nat : d = n \div 128 /\ d < n
            BY <2>2, DivLess
        <3>2. VarintSize(d) = Len(Varint(d))
            BY <1>1, <3>1
        <3>3. <<128 + (n % 128)>> \in Seq(Byte) /\ Varint(d) \in Seq(Byte)
            BY ModByte, VarintType DEF Byte
        <3>4. Varint(n) = <<128 + (n % 128)>> \o Varint(d)
            BY <2>2, <3>1, VarintHigh
        <3>5. Len(Varint(n)) = 1 + Len(Varint(d))
            BY <3>3, <3>4, ConcatProperties
        <3> QED
            BY <2>2, <3>1, <3>2, <3>5, VarintSizeHigh
    <2> QED
        BY <2>1, <2>2
<1>2. size \in [Nat -> Nat]
    OBVIOUS
<1>3. \A n \in Nat : n \in S
    <2> HIDE DEF S, size
    <2> QED
        BY <1>1, <1>2, SizeInduction
<1> QED
    BY <1>3

LEMMA VarintLength == \A n \in Nat : Len(Varint(n)) \in Nat \ {0}
<1> DEFINE S == {n \in Nat : Len(Varint(n)) \in Nat \ {0}}
<1>1. ASSUME NEW n \in Nat PROVE Len(Varint(n)) \in Nat \ {0}
    <2>1. CASE n < 128
        BY <2>1, VarintLow
    <2>2. CASE n >= 128
        <3>1. PICK d \in Nat : d = n \div 128 /\ d < n
            BY <2>2, DivLess
        <3>2. <<128 + (n % 128)>> \in Seq(Byte) /\ Varint(d) \in Seq(Byte)
            BY ModByte, VarintType DEF Byte
        <3>3. Varint(n) = <<128 + (n % 128)>> \o Varint(d)
            BY <2>2, <3>1, VarintHigh
        <3> QED
            BY <3>2, <3>3, ConcatProperties, LenProperties
    <2> QED
        BY <2>1, <2>2
<1> QED
    BY <1>1

\* Every byte but the last has the bit of continuation.
LEMMA VarintShape ==
    \A n \in Nat : \A i \in 1 .. Len(Varint(n)) : Varint(n)[i] < 128 <=> i = Len(Varint(n))
<1> DEFINE Shaped(v) == \A i \in 1 .. Len(v) : v[i] < 128 <=> i = Len(v)
           S == {n \in Nat : Shaped(Varint(n))}
           size == [n \in Nat |-> n]
<1>1. ASSUME NEW n \in Nat, \A m \in Nat : size[m] < size[n] => m \in S
      PROVE  n \in S
    <2>1. CASE n < 128
        <3>1. Varint(n) = <<n>>
            BY <2>1, VarintLow
        <3>2. Shaped(<<n>>)
            BY <2>1
        <3> QED
            BY <3>1, <3>2
    <2>2. CASE n >= 128
        <3>1. PICK d \in Nat : d = n \div 128 /\ d < n
            BY <2>2, DivLess
        <3>2. Shaped(Varint(d))
            BY <1>1, <3>1
        <3>3. <<128 + (n % 128)>> \in Seq(Byte) /\ Varint(d) \in Seq(Byte)
            BY ModByte, VarintType DEF Byte
        <3>4. Varint(n) = <<128 + (n % 128)>> \o Varint(d)
            BY <2>2, <3>1, VarintHigh
        <3>5. Len(Varint(d)) \in Nat \ {0}
            BY VarintLength
        <3> DEFINE v == Varint(n)
                   w == Varint(d)
                   x == 128 + (n % 128)
        <3>6. Len(v) = 1 + Len(w) /\ \A i \in 1 .. Len(v) : v[i] = IF i = 1 THEN x ELSE w[i - 1]
            BY <3>3, <3>4, <3>5, ConcatProperties
        <3>7. x \in Nat /\ x >= 128
            BY ModByte
        <3> HIDE DEF v, w, x
        <3>8. ASSUME NEW i \in 1 .. Len(v) PROVE v[i] < 128 <=> i = Len(v)
            <4>1. CASE i = 1
                BY <3>5, <3>6, <3>7, <4>1 DEF w
            <4>2. CASE i # 1
                <5>1. i - 1 \in 1 .. Len(w) /\ v[i] = w[i - 1]
                    BY <3>5, <3>6, <4>2 DEF w
                <5>2. w[i - 1] < 128 <=> i - 1 = Len(w)
                    BY <3>2, <5>1 DEF w
                <5> QED
                    BY <3>5, <3>6, <5>1, <5>2 DEF w
            <4> QED
                BY <4>1, <4>2
        <3> QED
            BY <3>8 DEF v
    <2> QED
        BY <2>1, <2>2
<1>2. \A n \in Nat : n \in S
    <2>1. size \in [Nat -> Nat]
        OBVIOUS
    <2> HIDE DEF S, size
    <2> QED
        BY <1>1, <2>1, SizeInduction
<1> QED
    BY <1>2

-----------------------------------------------------------------------------
(* Reading a varint *)

IsVarintValue(f) ==
    f = [b \in Bytes |->
          IF b = <<>> THEN 0
          ELSE (b[1] % 128) + IF b[1] < 128 THEN 0 ELSE 128 * f[Tail(b)]]

LEMMA TailOfBytes ==
    \A b \in Bytes : b # <<>> =>
      /\ b[1] \in Nat
      /\ Tail(b) \in Bytes
      /\ Len(Tail(b)) < Len(b)
BY HeadTailProperties, LenProperties DEF Bytes

LEMMA VarintValueExists == \E f \in [Bytes -> Nat] : IsVarintValue(f)
<1> DEFINE size == [b \in Bytes |-> Len(b)]
           Body(f, b) == IF b = <<>> THEN 0
                         ELSE (b[1] % 128) + IF b[1] < 128 THEN 0 ELSE 128 * f[Tail(b)]
           G == [p \in [Bytes -> Nat] \X Bytes |-> Body(p[1], p[2])]
<1>1. ASSUME NEW f \in [Bytes -> Nat], NEW b \in Bytes PROVE Body(f, b) \in Nat
    <2>1. CASE b # <<>>
        <3>1. b[1] % 128 \in Nat /\ f[Tail(b)] \in Nat
            BY <2>1, TailOfBytes
        <3> QED
            BY <2>1, <3>1
    <2> QED
        BY <2>1
<1>2. G \in [[Bytes -> Nat] \X Bytes -> Nat]
    BY <1>1
<1>3. \A f \in [Bytes -> Nat], b \in Bytes : G[<<f, b>>] = Body(f, b)
    OBVIOUS
<1>4. ASSUME NEW f \in [Bytes -> Nat], NEW g \in [Bytes -> Nat], NEW b \in Bytes,
             \A e \in Bytes : size[e] < size[b] => f[e] = g[e]
      PROVE  Body(f, b) = Body(g, b)
    <2>1. CASE b # <<>>
        <3>1. f[Tail(b)] = g[Tail(b)]
            BY <1>4, <2>1, TailOfBytes
        <3> QED
            BY <3>1
    <2> QED
        BY <2>1
<1>5. Looks(Bytes, size, Nat, G)
    <2> HIDE DEF G, Body, size
    <2>1. \A f, g \in [Bytes -> Nat], b \in Bytes :
            (\A e \in Bytes : size[e] < size[b] => f[e] = g[e]) => G[<<f, b>>] = G[<<g, b>>]
        BY <1>3, <1>4
    <2>2. size \in [Bytes -> Nat]
        BY LenProperties DEF Bytes, size
    <2> QED
        BY <1>2, <2>1, <2>2 DEF Looks
<1>6. PICK f \in [Bytes -> Nat] : \A b \in Bytes : f[b] = G[<<f, b>>]
    <2> HIDE DEF G, size
    <2>1. Nat # {}
        OBVIOUS
    <2> QED
        BY <1>5, <2>1, Recursion
<1>7. \A b \in Bytes : f[b] = Body(f, b)
    <2> HIDE DEF Body
    <2> QED
        BY <1>3, <1>6
<1> QED
    BY <1>6, <1>7 DEF IsVarintValue

LEMMA VarintValueIs == IsVarintValue(varintValue)
<1>1. varintValue = CHOOSE f : IsVarintValue(f)
    BY DEF varintValue, IsVarintValue
<1> HIDE DEF IsVarintValue
<1> QED
    BY <1>1, VarintValueExists

LEMMA VarintValueDef ==
    ASSUME NEW b \in Bytes, b # <<>>
    PROVE  VarintValue(b) = (b[1] % 128) + IF b[1] < 128 THEN 0 ELSE 128 * VarintValue(Tail(b))
<1>1. varintValue[b] = IF b = <<>> THEN 0
          ELSE (b[1] % 128) + IF b[1] < 128 THEN 0 ELSE 128 * varintValue[Tail(b)]
    BY VarintValueIs, Zenon DEF IsVarintValue
<1> QED
    BY <1>1, Zenon DEF VarintValue

LEMMA VarintValueEnd ==
    ASSUME NEW b \in Bytes, NEW x \in Nat, b # <<>>, b[1] = x, x < 128
    PROVE  VarintValue(b) = x % 128
<1>1. VarintValue(b) = (b[1] % 128) + IF b[1] < 128 THEN 0 ELSE 128 * VarintValue(Tail(b))
    BY VarintValueDef
<1> HIDE DEF VarintValue
<1>2. (b[1] % 128) + (IF b[1] < 128 THEN 0 ELSE 128 * VarintValue(Tail(b))) = (x % 128) + 0
    BY Zenon
<1> QED
    BY <1>1, <1>2

LEMMA VarintValueMore ==
    ASSUME NEW b \in Bytes, NEW x \in Nat, NEW t, b # <<>>, b[1] = x, Tail(b) = t, x >= 128
    PROVE  VarintValue(b) = (x % 128) + 128 * VarintValue(t)
<1>1. VarintValue(b) = (b[1] % 128) + IF b[1] < 128 THEN 0 ELSE 128 * VarintValue(Tail(b))
    BY VarintValueDef
<1>2. ~ (x < 128)
    OBVIOUS
<1>3. (b[1] % 128) + (IF b[1] < 128 THEN 0 ELSE 128 * VarintValue(Tail(b)))
        = (x % 128) + 128 * VarintValue(t)
    BY <1>2, Zenon
<1> QED
    BY <1>1, <1>3, Zenon

LEMMA VarintValueType == \A b \in Bytes : VarintValue(b) \in Nat
<1> DEFINE S == {b \in Bytes : VarintValue(b) \in Nat}
           size == [b \in Bytes |-> Len(b)]
<1>1. ASSUME NEW b \in Bytes, \A c \in Bytes : size[c] < size[b] => c \in S
      PROVE  b \in S
    <2>1. CASE b = <<>>
        <3>1. varintValue[b] = 0
            BY <2>1, VarintValueIs DEF IsVarintValue
        <3> QED
            BY <3>1 DEF VarintValue
    <2>2. CASE b # <<>>
        <3>1. b[1] \in Nat /\ VarintValue(Tail(b)) \in Nat
            BY <1>1, <2>2, TailOfBytes
        <3>2. VarintValue(b) = (b[1] % 128) + IF b[1] < 128 THEN 0 ELSE 128 * VarintValue(Tail(b))
            BY <2>2, VarintValueDef
        <3> QED
            BY <3>1, <3>2
    <2> QED
        BY <2>1, <2>2
<1>2. \A b \in Bytes : b \in S
    <2>1. size \in [Bytes -> Nat]
        BY LenProperties DEF Bytes
    <2> HIDE DEF S, size
    <2> QED
        BY <1>1, <2>1, SizeInduction
<1> QED
    BY <1>2

LEMMA VarintBytes == \A n \in Nat : Varint(n) \in Bytes
<1>1. ASSUME NEW s \in Seq(Byte) PROVE s \in Bytes
    <2>1. Byte \subseteq Nat
        BY DEF Byte
    <2> QED
        BY <2>1, SeqMonotonic DEF Bytes
<1> QED
    BY <1>1, VarintType

\* The value of a varint is the number that was written, whatever follows it.
LEMMA VarintValueOfVarint == \A n \in Nat : \A r \in Bytes : VarintValue(Varint(n) \o r) = n
<1> DEFINE S == {n \in Nat : \A r \in Bytes : VarintValue(Varint(n) \o r) = n}
           size == [n \in Nat |-> n]
<1>1. ASSUME NEW n \in Nat, \A m \in Nat : size[m] < size[n] => m \in S
      PROVE  n \in S
    <2> SUFFICES ASSUME NEW r \in Bytes PROVE VarintValue(Varint(n) \o r) = n
        OBVIOUS
    <2>1. CASE n < 128
        <3>1. Varint(n) = <<n>>
            BY <2>1, VarintLow
        <3>2. <<n>> \o r \in Bytes /\ <<n>> \o r # <<>> /\ (<<n>> \o r)[1] = n
            BY ConcatProperties, EmptySeq, LenProperties DEF Bytes
        <3>3. VarintValue(<<n>> \o r) = n % 128
            BY <2>1, <3>2, VarintValueEnd
        <3> QED
            BY <2>1, <3>1, <3>3
    <2>2. CASE n >= 128
        <3>1. PICK d \in Nat : d = n \div 128 /\ d < n
            BY <2>2, DivLess
        <3> DEFINE x == 128 + (n % 128)
                   c == Varint(d) \o r
        <3>2. Varint(n) = <<x>> \o Varint(d)
            BY <2>2, <3>1, VarintHigh
        <3>3. x \in Nat /\ x >= 128 /\ x % 128 = n % 128
            BY ModByte
        <3>4. c \in Bytes
            BY VarintBytes, ConcatProperties DEF Bytes
        <3>5. VarintValue(c) = d
            BY <1>1, <3>1
        <3> HIDE DEF x
        <3>6. <<x>> \in Bytes /\ Varint(d) \in Bytes
            BY <3>3, VarintBytes DEF Bytes
        <3>7. Varint(n) \o r = <<x>> \o c
            BY <3>2, <3>6, ConcatAssociative DEF Bytes
        <3> HIDE DEF c
        <3>8. /\ <<x>> \o c \in Bytes
              /\ <<x>> \o c # <<>>
              /\ (<<x>> \o c)[1] = x
              /\ Tail(<<x>> \o c) = c
            BY <3>4, <3>6, ConcatProperties, EmptySeq, LenProperties, HeadTailProperties, SeqEqual, SMTT(30)
               DEF Bytes
        <3>9. VarintValue(<<x>> \o c) = (x % 128) + 128 * VarintValue(c)
            <4> DEFINE b == <<x>> \o c
            <4> HIDE DEF b
            <4>1. b \in Bytes /\ b # <<>> /\ b[1] = x /\ Tail(b) = c
                BY <3>8 DEF b
            <4>2. VarintValue(b) = (x % 128) + 128 * VarintValue(c)
                BY <3>3, <4>1, VarintValueMore
            <4> QED
                BY <4>2 DEF b
        <3>10. n = (n % 128) + 128 * d
            BY <3>1, DivMod
        <3> QED
            BY <3>3, <3>5, <3>7, <3>9, <3>10
    <2> QED
        BY <2>1, <2>2
<1>2. \A n \in Nat : n \in S
    <2>1. size \in [Nat -> Nat]
        OBVIOUS
    <2> HIDE DEF S, size
    <2> QED
        BY <1>1, <2>1, SizeInduction
<1> QED
    BY <1>2

LEMMA DropConcat ==
    ASSUME NEW s \in Bytes, NEW r \in Bytes
    PROVE  Drop(s \o r, Len(s)) = r
<1>1. s \o r \in Bytes /\ Len(s \o r) = Len(s) + Len(r) /\ Len(s) \in Nat /\ Len(r) \in Nat
    BY ConcatProperties, LenProperties DEF Bytes
<1>2. \A i \in Len(s) + 1 .. Len(s \o r) : (s \o r)[i] = r[i - Len(s)] /\ (s \o r)[i] \in Nat
    BY <1>1, ConcatProperties, ElementOfSeq DEF Bytes
<1> DEFINE d == SubSeq(s \o r, Len(s) + 1, Len(s \o r))
<1>3. d \in Bytes /\ Len(d) = Len(r) /\ \A i \in 1 .. Len(r) : d[i] = r[i]
    BY <1>1, <1>2, SubSeqProperties DEF Bytes
<1> HIDE DEF d
<1>4. d = r
    BY <1>3, SeqEqual DEF Bytes
<1> QED
    BY <1>4 DEF Drop, d

\* Reading what was written gives the number back and leaves what follows, for every number.
THEOREM VarintRoundTrip ==
    \A n \in Nat, r \in Bytes : ReadVarint(Varint(n) \o r) = {[value |-> n, rest |-> r]}
<1> SUFFICES ASSUME NEW n \in Nat, NEW r \in Bytes
             PROVE  ReadVarint(Varint(n) \o r) = {[value |-> n, rest |-> r]}
    OBVIOUS
<1> DEFINE v == Varint(n)
           b == v \o r
<1>1. v \in Bytes /\ Len(v) \in Nat \ {0}
    BY VarintBytes, VarintLength
<1>2. \A i \in 1 .. Len(v) : v[i] < 128 <=> i = Len(v)
    BY VarintShape
<1>3. VarintValue(b) = n
    BY VarintValueOfVarint
<1>v. \A i \in 1 .. Len(v) : v[i] \in Nat
    BY <1>1, ElementOfSeq DEF Bytes
<1> HIDE DEF v
<1>4. /\ b \in Bytes
      /\ DOMAIN b = 1 .. Len(v) + Len(r)
      /\ \A i \in 1 .. Len(v) : b[i] = v[i]
      /\ Len(r) \in Nat
    BY <1>1, ConcatProperties, LenProperties DEF Bytes
<1>5. Drop(b, Len(v)) = r
    BY <1>1, DropConcat
<1> HIDE DEF b
<1>6. \A i \in DOMAIN b : EndsVarint(b, i) <=> i = Len(v)
    BY <1>1, <1>2, <1>4, <1>v DEF EndsVarint
<1>7. {j \in DOMAIN b : EndsVarint(b, j)} = {Len(v)}
    BY <1>1, <1>4, <1>6
<1>8. ReadVarint(b) = {[value |-> VarintValue(b), rest |-> Drop(b, Len(v))]}
    BY <1>7 DEF ReadVarint
<1> QED
    BY <1>3, <1>5, <1>8 DEF b, v

LEMMA DropType ==
    ASSUME NEW b \in Bytes, NEW n \in 0 .. Len(b)
    PROVE  Drop(b, n) \in Bytes /\ Len(Drop(b, n)) = Len(b) - n
<1>1. Len(b) \in Nat /\ \A i \in n + 1 .. Len(b) : b[i] \in Nat
    BY LenProperties, ElementOfSeq DEF Bytes
<1>2. n + 1 \in Int /\ n \in Int
    OBVIOUS
<1> QED
    BY <1>1, <1>2, SubSeqProperties DEF Drop, Bytes

LEMMA PrefixType ==
    ASSUME NEW b \in Bytes, NEW n \in 0 .. Len(b)
    PROVE  SubSeq(b, 1, n) \in Bytes /\ Len(SubSeq(b, 1, n)) = n
<1>1. Len(b) \in Nat /\ \A i \in 1 .. n : b[i] \in Nat
    BY LenProperties, ElementOfSeq DEF Bytes
<1> QED
    BY <1>1, SubSeqProperties DEF Bytes

LEMMA PrefixConcat ==
    ASSUME NEW s \in Bytes, NEW r \in Bytes
    PROVE  SubSeq(s \o r, 1, Len(s)) = s
<1>1. s \o r \in Bytes /\ Len(s \o r) = Len(s) + Len(r) /\ Len(s) \in Nat /\ Len(r) \in Nat
    BY ConcatProperties, LenProperties DEF Bytes
<1>2. \A i \in 1 .. Len(s) : (s \o r)[i] = s[i] /\ s[i] \in Nat
    BY <1>1, ConcatProperties, ElementOfSeq DEF Bytes
<1> DEFINE d == SubSeq(s \o r, 1, Len(s))
<1>3. d \in Bytes /\ Len(d) = Len(s) /\ \A i \in 1 .. Len(s) : d[i] = s[i]
    BY <1>1, <1>2, SubSeqProperties DEF Bytes
<1> HIDE DEF d
<1>4. d = s
    BY <1>3, SeqEqual DEF Bytes
<1> QED
    BY <1>4 DEF d

\* What ReadField can find
Payloads == [tag : Nat, value : Nat, bytes : Bytes, raw : Bytes, rest : Bytes]

LEMMA ReadVarintType ==
    ASSUME NEW b \in Bytes, NEW v \in ReadVarint(b)
    PROVE  v.value \in Nat /\ v.rest \in Bytes /\ Len(v.rest) < Len(b)
<1>1. PICK i \in DOMAIN b : v = [value |-> VarintValue(b), rest |-> Drop(b, i)]
    BY DEF ReadVarint
<1>2. Len(b) \in Nat /\ i \in 1 .. Len(b) /\ i \in 0 .. Len(b)
    BY LenProperties DEF Bytes
<1>3. Drop(b, i) \in Bytes /\ Len(Drop(b, i)) = Len(b) - i
    BY <1>2, DropType
<1> QED
    BY <1>1, <1>2, <1>3, VarintValueType

LEMMA PayloadFieldType ==
    ASSUME NEW tag \in Nat, NEW b \in Bytes, NEW v, v.value \in Nat, v.rest \in Bytes,
           Len(v.rest) < Len(b), NEW size \in Nat, size <= Len(v.rest)
    PROVE  /\ PayloadField(tag, b, v, size) \in Payloads
           /\ Len(PayloadField(tag, b, v, size).rest) < Len(b)
<1>1. Len(b) \in Nat /\ Len(v.rest) \in Nat
    BY LenProperties DEF Bytes
<1>2. SubSeq(v.rest, 1, size) \in Bytes
    BY <1>1, PrefixType
<1>3. SubSeq(b, 1, Len(b) - Len(v.rest) + size) \in Bytes
    <2>1. Len(b) - Len(v.rest) + size \in 0 .. Len(b)
        BY <1>1
    <2> QED
        BY <2>1, PrefixType
<1>4. Drop(v.rest, size) \in Bytes /\ Len(Drop(v.rest, size)) = Len(v.rest) - size
    <2>1. size \in 0 .. Len(v.rest)
        BY <1>1
    <2> QED
        BY <2>1, DropType
<1> DEFINE bytes == SubSeq(v.rest, 1, size)
           raw == SubSeq(b, 1, Len(b) - Len(v.rest) + size)
           rest == Drop(v.rest, size)
<1>5. PayloadField(tag, b, v, size)
        = [tag |-> tag, value |-> v.value, bytes |-> bytes, raw |-> raw, rest |-> rest]
    BY DEF PayloadField
<1>6. bytes \in Bytes /\ raw \in Bytes
    BY <1>2, <1>3
<1>7. rest \in Bytes /\ Len(rest) = Len(v.rest) - size
    BY <1>4
<1> HIDE DEF bytes, raw, rest
<1>8. Len(rest) < Len(b)
    BY <1>1, <1>7
<1> QED
    BY <1>5, <1>6, <1>7, <1>8 DEF Payloads

LEMMA ReadFieldType ==
    ASSUME NEW b \in Bytes, NEW p \in ReadField(b)
    PROVE  p \in Payloads /\ Len(p.rest) < Len(b)
<1>1. PICK t \in ReadVarint(b) : p \in ReadPayload(t.value, t.rest)
    BY DEF ReadField
<1>2. t.value \in Nat /\ t.rest \in Bytes /\ Len(t.rest) < Len(b)
    BY ReadVarintType
<1>3. PICK v \in ReadVarint(t.rest), size \in Nat :
        size <= Len(v.rest) /\ p = PayloadField(t.value, t.rest, v, size)
    <2> DEFINE Size(x) == IF t.value % 8 = 2 THEN x.value ELSE 0
    <2>1. PICK v \in ReadVarint(t.rest) :
            Size(v) <= Len(v.rest) /\ p = PayloadField(t.value, t.rest, v, Size(v))
        BY <1>1 DEF ReadPayload
    <2>2. Size(v) \in Nat
        BY <1>2, ReadVarintType
    <2> QED
        BY <2>1, <2>2
<1>4. v.value \in Nat /\ v.rest \in Bytes /\ Len(v.rest) < Len(t.rest)
    BY <1>2, ReadVarintType
<1>5. p \in Payloads /\ Len(p.rest) < Len(t.rest)
    BY <1>2, <1>3, <1>4, PayloadFieldType
<1>6. Len(b) \in Nat /\ Len(t.rest) \in Nat /\ Len(p.rest) \in Nat
    BY <1>2, <1>5, LenProperties DEF Bytes, Payloads
<1> QED
    BY <1>2, <1>5, <1>6

-----------------------------------------------------------------------------
(* The fields of a message *)

\* The sequences of S, each after p
After(p, S) == {<<p>> \o fields : fields \in S}

LEMMA AfterType ==
    ASSUME NEW p \in Payloads, NEW S \in SUBSET Seq(Payloads)
    PROVE  After(p, S) \in SUBSET Seq(Payloads)
<1> SUFFICES ASSUME NEW fields \in S PROVE <<p>> \o fields \in Seq(Payloads)
    BY DEF After
<1>1. <<p>> \in Seq(Payloads) /\ fields \in Seq(Payloads)
    OBVIOUS
<1> QED
    BY <1>1, ConcatProperties

\* What FieldsIn finds in b when f says it of shorter sequences
Found(f, b) == IF b = <<>> THEN {<<>>} ELSE UNION {After(p, f[p.rest]) : p \in ReadField(b)}

IsFieldsIn(f) == f = [b \in Bytes |-> Found(f, b)]

LEMMA FieldsInExists == \E f \in [Bytes -> SUBSET Seq(Payloads)] : IsFieldsIn(f)
<1> DEFINE V == SUBSET Seq(Payloads)
           size == [b \in Bytes |-> Len(b)]
           G == [p \in [Bytes -> V] \X Bytes |-> Found(p[1], p[2])]
<1>0. ASSUME NEW b \in Bytes, NEW p \in ReadField(b)
      PROVE  p \in Payloads /\ p.rest \in Bytes /\ Len(p.rest) < Len(b)
    BY ReadFieldType DEF Payloads
<1>1. ASSUME NEW f \in [Bytes -> V], NEW b \in Bytes PROVE Found(f, b) \in V
    <2>1. CASE b = <<>>
        BY <2>1, EmptySeq DEF Found
    <2>2. CASE b # <<>>
        <3>1. \A p \in ReadField(b) : After(p, f[p.rest]) \in V
            BY <1>0, AfterType
        <3>2. Found(f, b) = UNION {After(p, f[p.rest]) : p \in ReadField(b)}
            BY <2>2 DEF Found
        <3> QED
            BY <3>1, <3>2
    <2> QED
        BY <2>1, <2>2
<1>2. G \in [[Bytes -> V] \X Bytes -> V]
    <2> HIDE DEF V
    <2> QED
        BY <1>1
<1>3. \A f \in [Bytes -> V], b \in Bytes : G[<<f, b>>] = Found(f, b)
    <2> HIDE DEF V
    <2> QED
        OBVIOUS
<1>4. ASSUME NEW f \in [Bytes -> V], NEW g \in [Bytes -> V], NEW b \in Bytes,
             \A e \in Bytes : size[e] < size[b] => f[e] = g[e]
      PROVE  Found(f, b) = Found(g, b)
    <2>1. \A p \in ReadField(b) : f[p.rest] = g[p.rest]
        BY <1>0, <1>4
    <2>2. {After(p, f[p.rest]) : p \in ReadField(b)} = {After(p, g[p.rest]) : p \in ReadField(b)}
        BY <2>1
    <2> QED
        BY <2>2 DEF Found
<1>5. Looks(Bytes, size, V, G)
    <2> HIDE DEF G, size, V
    <2>1. \A f, g \in [Bytes -> V], b \in Bytes :
            (\A e \in Bytes : size[e] < size[b] => f[e] = g[e]) => G[<<f, b>>] = G[<<g, b>>]
        BY <1>3, <1>4
    <2>2. size \in [Bytes -> Nat]
        BY LenProperties DEF Bytes, size
    <2> QED
        BY <1>2, <2>1, <2>2 DEF Looks
<1>6. PICK f \in [Bytes -> V] : \A b \in Bytes : f[b] = G[<<f, b>>]
    <2>1. V # {}
        OBVIOUS
    <2> HIDE DEF G, size, V
    <2> QED
        BY <1>5, <2>1, Recursion
<1> HIDE DEF G, V
<1>7. f = [b \in Bytes |-> Found(f, b)]
    <2>1. \A b \in Bytes : f[b] = Found(f, b)
        BY <1>3, <1>6
    <2> QED
        BY <2>1
<1> QED
    BY <1>7 DEF IsFieldsIn, V

LEMMA FieldsInIs == IsFieldsIn(fieldsIn)
<1>1. fieldsIn = CHOOSE f : IsFieldsIn(f)
    BY DEF fieldsIn, IsFieldsIn, Found, After
<1> HIDE DEF IsFieldsIn
<1> QED
    BY <1>1, FieldsInExists

LEMMA FieldsInBytes == \A b \in Bytes : FieldsIn(b) = Found(fieldsIn, b)
BY FieldsInIs, Zenon DEF IsFieldsIn, FieldsIn

LEMMA FieldsInNothing == FieldsIn(<<>>) = {<<>>}
BY FieldsInBytes, EmptySeq DEF Bytes, Found

LEMMA FieldsInDef ==
    ASSUME NEW b \in Bytes, b # <<>>
    PROVE  FieldsIn(b) = UNION {After(p, FieldsIn(p.rest)) : p \in ReadField(b)}
BY FieldsInBytes, Zenon DEF Found, FieldsIn

LEMMA FieldsInType == \A b \in Bytes : FieldsIn(b) \in SUBSET Seq(Payloads)
<1> DEFINE S == {b \in Bytes : FieldsIn(b) \in SUBSET Seq(Payloads)}
           size == [b \in Bytes |-> Len(b)]
<1>1. ASSUME NEW b \in Bytes, \A c \in Bytes : size[c] < size[b] => c \in S
      PROVE  b \in S
    <2>1. CASE b = <<>>
        BY <2>1, FieldsInNothing, EmptySeq
    <2>2. CASE b # <<>>
        <3>1. ASSUME NEW p \in ReadField(b)
              PROVE  After(p, FieldsIn(p.rest)) \in SUBSET Seq(Payloads)
            <4>1. p \in Payloads /\ p.rest \in Bytes /\ Len(p.rest) < Len(b)
                BY ReadFieldType DEF Payloads
            <4>2. FieldsIn(p.rest) \in SUBSET Seq(Payloads)
                BY <1>1, <4>1
            <4> QED
                BY <4>1, <4>2, AfterType
        <3>2. FieldsIn(b) = UNION {After(p, FieldsIn(p.rest)) : p \in ReadField(b)}
            BY <2>2, FieldsInDef
        <3> QED
            BY <3>1, <3>2
    <2> QED
        BY <2>1, <2>2
<1>2. \A b \in Bytes : b \in S
    <2>1. size \in [Bytes -> Nat]
        BY LenProperties DEF Bytes
    <2> HIDE DEF S, size
    <2> QED
        BY <1>1, <2>1, SizeInduction
<1> QED
    BY <1>2

-----------------------------------------------------------------------------
(* What a field reads as *)

LEMMA ReadFieldAfterTag ==
    ASSUME NEW t \in Nat, NEW b \in Bytes
    PROVE  ReadField(Varint(t) \o b) = ReadPayload(t, b)
<1>1. ReadVarint(Varint(t) \o b) = {[value |-> t, rest |-> b]}
    BY VarintRoundTrip
<1> DEFINE F(x) == ReadPayload(x.value, x.rest)
           x == [value |-> t, rest |-> b]
<1>2. ReadField(Varint(t) \o b) = UNION {F(y) : y \in {x}}
    BY <1>1 DEF ReadField
<1>3. F(x) = ReadPayload(t, b)
    BY Zenon
<1> HIDE DEF F, x
<1>4. UNION {F(y) : y \in {x}} = F(x)
    OBVIOUS
<1> QED
    BY <1>2, <1>3, <1>4

\* A field with tag t and number v, or with the bytes s, before the bytes r
Number(t, v, r) == [tag |-> t, value |-> v, bytes |-> <<>>, raw |-> Varint(v), rest |-> r]
Chunk(t, s, r) ==
    [tag |-> t, value |-> Len(s), bytes |-> s, raw |-> Varint(Len(s)) \o s, rest |-> r]

LEMMA ReadNumber ==
    ASSUME NEW t \in Nat, t % 8 = 0, NEW v \in Nat, NEW r \in Bytes
    PROVE  ReadField(Varint(t) \o (Varint(v) \o r)) = {Number(t, v, r)}
<1> DEFINE b == Varint(v) \o r
           x == [value |-> v, rest |-> r]
<1>1. b \in Bytes /\ Varint(v) \in Bytes
    BY VarintBytes, ConcatProperties DEF Bytes
<1>3. ReadField(Varint(t) \o b) = ReadPayload(t, b)
    BY <1>1, ReadFieldAfterTag
<1>4. ReadVarint(b) = {x}
    BY VarintRoundTrip
<1>5. ReadPayload(t, b) = {PayloadField(t, b, x, 0)}
    <2>1. 0 <= Len(r)
        BY LenProperties DEF Bytes
    <2> HIDE DEF b
    <2> QED
        BY <1>4, <2>1 DEF ReadPayload
<1>6. SubSeq(r, 1, 0) = <<>> /\ Drop(r, 0) = r
    BY SubSeqEmpty, SubSeqFull DEF Drop, Bytes
<1>7. SubSeq(b, 1, Len(b) - Len(r) + 0) = Varint(v)
    <2>1. Len(b) - Len(r) + 0 = Len(Varint(v))
        BY <1>1, ConcatProperties, LenProperties DEF Bytes
    <2> QED
        BY <1>1, <2>1, PrefixConcat
<1> QED
    BY <1>3, <1>5, <1>6, <1>7 DEF PayloadField, Number

LEMMA ReadChunk ==
    ASSUME NEW t \in Nat, t % 8 = 2, NEW s \in Bytes, NEW r \in Bytes
    PROVE  ReadField(Varint(t) \o ((Varint(Len(s)) \o s) \o r)) = {Chunk(t, s, r)}
<1> DEFINE n == Len(s)
           c == s \o r
           b == Varint(n) \o c
           x == [value |-> n, rest |-> c]
<1>1. n \in Nat /\ Varint(n) \in Bytes /\ c \in Bytes /\ Len(c) = n + Len(r) /\ Len(r) \in Nat
    BY VarintBytes, ConcatProperties, LenProperties DEF Bytes
<1>a. b \in Bytes /\ (Varint(n) \o s) \o r = b /\ Len(b) = Len(Varint(n)) + Len(c)
    BY <1>1, ConcatProperties, ConcatAssociative, SMTT(30) DEF Bytes
<1>3. ReadField(Varint(t) \o b) = ReadPayload(t, b)
    BY <1>a, ReadFieldAfterTag
<1>4. ReadVarint(b) = {x}
    BY <1>1, VarintRoundTrip
<1>5. ReadPayload(t, b) = {PayloadField(t, b, x, n)}
    <2>1. n <= Len(c)
        BY <1>1
    <2> HIDE DEF b, n, c
    <2> QED
        BY <1>4, <2>1 DEF ReadPayload
<1>6. SubSeq(c, 1, n) = s /\ Drop(c, n) = r
    BY PrefixConcat, DropConcat
<1>7. SubSeq(b, 1, Len(b) - Len(c) + n) = Varint(n) \o s
    <2>1. Len(Varint(n) \o s) = Len(Varint(n)) + n /\ Varint(n) \o s \in Bytes
        BY <1>1, ConcatProperties DEF Bytes
    <2>2. Len(b) - Len(c) + n = Len(Varint(n) \o s)
        BY <1>1, <1>a, <2>1, LenProperties DEF Bytes
    <2>3. SubSeq((Varint(n) \o s) \o r, 1, Len(Varint(n) \o s)) = Varint(n) \o s
        BY <2>1, PrefixConcat
    <2> QED
        BY <1>a, <2>2, <2>3
<1> QED
    BY <1>3, <1>5, <1>6, <1>7, <1>a DEF PayloadField, Chunk

LEMMA FieldsAfter ==
    ASSUME NEW b \in Bytes, b # <<>>, NEW p, ReadField(b) = {p}
    PROVE  FieldsIn(b) = After(p, FieldsIn(p.rest))
<1>1. FieldsIn(b) = UNION {After(q, FieldsIn(q.rest)) : q \in {p}}
    BY FieldsInDef
<1> QED
    BY <1>1

-----------------------------------------------------------------------------
(* Sequences *)

\* A set of sequences that has the empty one, and each of its members with one element
\* more, has every sequence.
LEMMA AppendInduction ==
    ASSUME NEW T, NEW S, <<>> \in S,
           \A s \in Seq(T), x \in T : s \in S => Append(s, x) \in S
    PROVE  \A s \in Seq(T) : s \in S
<1> DEFINE N == {n \in Nat : \A s \in Seq(T) : Len(s) = n => s \in S}
<1>1. 0 \in N
    BY EmptySeq
<1>2. ASSUME NEW n \in Nat, n \in N PROVE n + 1 \in N
    <2> SUFFICES ASSUME NEW s \in Seq(T), Len(s) = n + 1 PROVE s \in S
        OBVIOUS
    <2> DEFINE front == SubSeq(s, 1, n)
    <2>1. s[n + 1] \in T /\ \A i \in 1 .. n : s[i] \in T
        BY ElementOfSeq
    <2>2. front \in Seq(T) /\ Len(front) = n /\ \A i \in 1 .. n : front[i] = s[i]
        BY <2>1, SubSeqProperties
    <2> HIDE DEF front
    <2>3. Append(front, s[n + 1]) = s
        <3>1. Append(front, s[n + 1]) \in Seq(T) /\ Len(Append(front, s[n + 1])) = n + 1
            BY <2>1, <2>2
        <3>2. \A i \in 1 .. n + 1 : Append(front, s[n + 1])[i] = s[i]
            BY <2>2
        <3> QED
            BY <3>1, <3>2, SeqEqual
    <2>4. front \in S
        BY <1>2, <2>2
    <2> QED
        BY <2>1, <2>2, <2>3, <2>4
<1> HIDE DEF N
<1>3. \A n \in Nat : n \in N
    BY <1>1, <1>2, NumberInduction
<1> QED
    BY <1>3, LenProperties DEF N

\* f is the function that FlattenSeq computes for s.
IsFlatten(s, f) == f = [i \in 1 .. Len(s) |-> IF i = 1 THEN s[i] ELSE f[i - 1] \o s[i]]

LEMMA FlattenExists ==
    ASSUME NEW T, NEW s \in Seq(Seq(T)) PROVE \E f \in [1 .. Len(s) -> Seq(T)] : IsFlatten(s, f)
<1> DEFINE D == 1 .. Len(s)
           V == Seq(T)
           size == [i \in D |-> i]
           Body(f, i) == IF i = 1 THEN s[i] ELSE f[i - 1] \o s[i]
           G == [p \in [D -> V] \X D |-> Body(p[1], p[2])]
<1>0. Len(s) \in Nat /\ \A i \in D : s[i] \in V
    BY LenProperties, ElementOfSeq
<1>1. ASSUME NEW f \in [D -> V], NEW i \in D PROVE Body(f, i) \in V
    <2>1. CASE i = 1
        BY <1>0, <2>1
    <2>2. CASE i # 1
        <3>1. f[i - 1] \in V /\ s[i] \in V
            <4>1. i - 1 \in D
                BY <1>0, <2>2
            <4> QED
                BY <1>0, <4>1
        <3> QED
            BY <2>2, <3>1, ConcatProperties
    <2> QED
        BY <2>1, <2>2
<1>2. G \in [[D -> V] \X D -> V]
    <2> HIDE DEF Body, V, D
    <2> QED
        BY <1>1
<1>3. \A f \in [D -> V], i \in D : G[<<f, i>>] = Body(f, i)
    <2> HIDE DEF Body, V, D
    <2> QED
        OBVIOUS
<1>4. ASSUME NEW f \in [D -> V], NEW g \in [D -> V], NEW i \in D,
             \A e \in D : size[e] < size[i] => f[e] = g[e]
      PROVE  Body(f, i) = Body(g, i)
    <2>1. CASE i = 1
        BY <2>1
    <2>2. CASE i # 1
        <3>1. i - 1 \in D /\ size[i - 1] < size[i]
            BY <1>0, <2>2
        <3>2. f[i - 1] = g[i - 1]
            BY <1>4, <3>1
        <3> QED
            BY <3>2
    <2> QED
        BY <2>1, <2>2
<1>5. Looks(D, size, V, G)
    <2>1. size \in [D -> Nat]
        BY <1>0
    <2> HIDE DEF G, Body, size, V, D
    <2>2. \A f, g \in [D -> V], i \in D :
            (\A e \in D : size[e] < size[i] => f[e] = g[e]) => G[<<f, i>>] = G[<<g, i>>]
        BY <1>3, <1>4
    <2> QED
        BY <1>2, <2>1, <2>2 DEF Looks
<1>6. PICK f \in [D -> V] : \A i \in D : f[i] = G[<<f, i>>]
    <2>1. V # {}
        BY EmptySeq
    <2> HIDE DEF G, size, V, D
    <2> QED
        BY <1>5, <2>1, Recursion
<1>7. f = [i \in D |-> Body(f, i)]
    <2> HIDE DEF Body, G, V, D
    <2>1. \A i \in D : f[i] = Body(f, i)
        BY <1>3, <1>6
    <2> QED
        BY <2>1
<1> QED
    BY <1>6, <1>7 DEF IsFlatten

LEMMA FlattenIs ==
    ASSUME NEW T, NEW s \in Seq(Seq(T)), s # <<>>
    PROVE  \E f \in [1 .. Len(s) -> Seq(T)] : IsFlatten(s, f) /\ FlattenSeq(s) = f[Len(s)]
<1> DEFINE f == CHOOSE g : IsFlatten(s, g)
<1>1. Len(s) # 0
    BY EmptySeq
<1>2. FlattenSeq(s) = f[Len(s)]
    BY <1>1 DEF FlattenSeq, IsFlatten
<1>3. PICK g \in [1 .. Len(s) -> Seq(T)] : IsFlatten(s, g)
    BY FlattenExists
<1>4. IsFlatten(s, f)
    BY <1>3
<1>5. f = g
    <2>1. DOMAIN f = 1 .. Len(s) /\ f = [i \in 1 .. Len(s) |-> f[i]]
        BY <1>4, ZenonT(30) DEF IsFlatten
    <2> DEFINE S == {n \in Nat : n \in 1 .. Len(s) => f[n] = g[n]}
    <2> HIDE DEF f
    <2>2. \A i \in 1 .. Len(s) : f[i] = IF i = 1 THEN s[i] ELSE f[i - 1] \o s[i]
        BY <1>4, Zenon DEF IsFlatten
    <2>3. \A i \in 1 .. Len(s) : g[i] = IF i = 1 THEN s[i] ELSE g[i - 1] \o s[i]
        BY <1>3, Zenon DEF IsFlatten
    <2>4. 0 \in S
        OBVIOUS
    <2>5. ASSUME NEW n \in Nat, n \in S PROVE n + 1 \in S
        <3> SUFFICES ASSUME n + 1 \in 1 .. Len(s) PROVE f[n + 1] = g[n + 1]
            OBVIOUS
        <3>1. CASE n = 0
            <4>1. n + 1 = 1
                BY <3>1
            <4>2. f[n + 1] = s[n + 1]
                BY <2>2, <4>1
            <4>3. g[n + 1] = s[n + 1]
                BY <2>3, <4>1
            <4> QED
                BY <4>2, <4>3
        <3>2. CASE n # 0
            <4>1. n \in 1 .. Len(s) /\ n + 1 # 1 /\ (n + 1) - 1 = n
                BY <3>2, LenProperties
            <4>2. f[n] = g[n]
                BY <2>5, <4>1
            <4>3. f[n + 1] = f[n] \o s[n + 1] /\ g[n + 1] = g[n] \o s[n + 1]
                BY <2>2, <2>3, <4>1
            <4> QED
                BY <4>2, <4>3
        <3> QED
            BY <3>1, <3>2
    <2> HIDE DEF S
    <2>6. \A n \in Nat : n \in S
        BY <2>4, <2>5, NumberInduction
    <2>7. \A i \in 1 .. Len(s) : f[i] = g[i]
        BY <2>6, LenProperties DEF S
    <2> QED
        BY <2>1, <2>7
<1> QED
    BY <1>2, <1>3, <1>5

LEMMA FlattenNothing == FlattenSeq(<<>>) = <<>>
BY EmptySeq DEF FlattenSeq

LEMMA FlattenType ==
    ASSUME NEW T, NEW s \in Seq(Seq(T)) PROVE FlattenSeq(s) \in Seq(T)
<1>1. CASE s = <<>>
    BY <1>1, FlattenNothing, EmptySeq
<1>2. CASE s # <<>>
    <2>1. Len(s) \in 1 .. Len(s)
        BY <1>2, EmptySeq
    <2>2. PICK g \in [1 .. Len(s) -> Seq(T)] : IsFlatten(s, g) /\ FlattenSeq(s) = g[Len(s)]
        BY <1>2, FlattenIs
    <2> QED
        BY <2>1, <2>2
<1> QED
    BY <1>1, <1>2

LEMMA FlattenAppend ==
    ASSUME NEW T, NEW s \in Seq(Seq(T)), NEW x \in Seq(T)
    PROVE  FlattenSeq(Append(s, x)) = FlattenSeq(s) \o x
<1> DEFINE t == Append(s, x)
           n == Len(s)
<1>1. t \in Seq(Seq(T)) /\ Len(t) = n + 1 /\ t # <<>> /\ t[n + 1] = x /\ n \in Nat
      /\ \A i \in 1 .. n : t[i] = s[i]
    <2>1. t \in Seq(Seq(T)) /\ Len(t) = n + 1 /\ n \in Nat
        BY LenProperties
    <2>2. t[n + 1] = x /\ \A i \in 1 .. n : t[i] = s[i]
        BY LenProperties
    <2>3. t # <<>>
        <3> HIDE DEF t
        <3> QED
            BY <2>1, EmptySeq
    <2> QED
        BY <2>1, <2>2, <2>3
<1> HIDE DEF t
<1>2. PICK g \in [1 .. Len(t) -> Seq(T)] : IsFlatten(t, g) /\ FlattenSeq(t) = g[Len(t)]
    BY <1>1, FlattenIs
<1>3. \A i \in 1 .. Len(t) : g[i] = IF i = 1 THEN t[i] ELSE g[i - 1] \o t[i]
    BY <1>2, Zenon DEF IsFlatten
<1>4. CASE s = <<>>
    <2>1. n = 0
        BY <1>4, EmptySeq
    <2>2. FlattenSeq(t) = x
        BY <1>1, <1>2, <1>3, <2>1
    <2>3. FlattenSeq(s) \o x = x
        BY <1>4, FlattenNothing, ConcatEmptySeq
    <2> QED
        BY <2>2, <2>3 DEF t
<1>5. CASE s # <<>>
    <2>1. PICK f \in [1 .. n -> Seq(T)] : IsFlatten(s, f) /\ FlattenSeq(s) = f[n]
        BY <1>5, FlattenIs
    <2>2. \A i \in 1 .. n : f[i] = IF i = 1 THEN s[i] ELSE f[i - 1] \o s[i]
        BY <2>1, Zenon DEF IsFlatten
    <2> DEFINE S == {i \in Nat : i \in 1 .. n => f[i] = g[i]}
    <2>3. 0 \in S
        OBVIOUS
    <2>4. ASSUME NEW i \in Nat, i \in S PROVE i + 1 \in S
        <3> SUFFICES ASSUME i + 1 \in 1 .. n PROVE f[i + 1] = g[i + 1]
            OBVIOUS
        <3>0. i + 1 \in 1 .. Len(t) /\ t[i + 1] = s[i + 1]
            BY <1>1
        <3>1. CASE i = 0
            <4>1. i + 1 = 1
                BY <3>1
            <4>2. f[i + 1] = s[i + 1]
                BY <2>2, <4>1
            <4>3. g[i + 1] = t[i + 1]
                BY <1>3, <3>0, <4>1
            <4> QED
                BY <3>0, <4>2, <4>3
        <3>2. CASE i # 0
            <4>1. i \in 1 .. n /\ i + 1 # 1 /\ (i + 1) - 1 = i
                BY <1>1, <3>2
            <4>2. f[i] = g[i]
                BY <2>4, <4>1
            <4>3. f[i + 1] = f[i] \o s[i + 1] /\ g[i + 1] = g[i] \o s[i + 1]
                BY <1>3, <2>2, <3>0, <4>1
            <4> QED
                BY <4>2, <4>3
        <3> QED
            BY <3>1, <3>2
    <2> HIDE DEF S
    <2>5. \A i \in Nat : i \in S
        BY <2>3, <2>4, NumberInduction
    <2>6. n \in 1 .. n /\ n + 1 \in 1 .. Len(t) /\ n + 1 # 1 /\ (n + 1) - 1 = n
        BY <1>1, <1>5, EmptySeq
    <2>7. f[n] = g[n]
        <3>1. n \in S
            BY <1>1, <2>5
        <3> QED
            BY <3>1, <2>6 DEF S
    <2>8. g[n + 1] = g[n] \o x
        BY <1>1, <1>3, <2>6
    <2> QED
        BY <1>1, <1>2, <2>1, <2>7, <2>8 DEF t
<1> QED
    BY <1>4, <1>5

\* What comes first and what follows can be flattened apart.
LEMMA FlattenFirst ==
    ASSUME NEW T, NEW x \in Seq(T), NEW s \in Seq(Seq(T))
    PROVE  FlattenSeq(<<x>> \o s) = x \o FlattenSeq(s)
<1> DEFINE S == {u \in Seq(Seq(T)) : FlattenSeq(<<x>> \o u) = x \o FlattenSeq(u)}
<1>1. <<>> \in S
    <2>1. <<x>> \o <<>> = Append(<<>>, x)
        OBVIOUS
    <2>2. FlattenSeq(Append(<<>>, x)) = <<>> \o x
        BY FlattenAppend, FlattenNothing, EmptySeq
    <2>3. <<>> \o x = x \o <<>>
        BY ConcatEmptySeq
    <2> QED
        BY <2>1, <2>2, <2>3, FlattenNothing, EmptySeq
<1>2. ASSUME NEW u \in Seq(Seq(T)), NEW y \in Seq(T), u \in S PROVE Append(u, y) \in S
    <2>1. <<x>> \in Seq(Seq(T)) /\ <<x>> \o u \in Seq(Seq(T))
        BY ConcatProperties
    <2>2. <<x>> \o Append(u, y) = Append(<<x>> \o u, y)
        BY <2>1
    <2>3. FlattenSeq(Append(<<x>> \o u, y)) = (x \o FlattenSeq(u)) \o y
        BY <1>2, <2>1, FlattenAppend
    <2>4. FlattenSeq(Append(u, y)) = FlattenSeq(u) \o y
        BY FlattenAppend
    <2>5. (x \o FlattenSeq(u)) \o y = x \o (FlattenSeq(u) \o y)
        BY FlattenType, ConcatAssociative
    <2>6. Append(u, y) \in Seq(Seq(T))
        OBVIOUS
    <2>7. FlattenSeq(<<x>> \o Append(u, y)) = x \o FlattenSeq(Append(u, y))
        BY <2>2, <2>3, <2>4, <2>5, Zenon
    <2> QED
        BY <2>6, <2>7, Zenon
<1> HIDE DEF S
<1>3. \A u \in Seq(Seq(T)) : u \in S
    BY <1>1, <1>2, AppendInduction
<1> QED
    BY <1>3 DEF S

-----------------------------------------------------------------------------
(* Parsing, one field after the other *)

IsAfter(f, k, m, fields) ==
    f = [i \in 0 .. Len(fields) |->
          IF i = 0 THEN {m} ELSE UNION {ReadInto(k, n, fields[i]) : n \in f[i - 1]}]

LEMMA AfterExists ==
    ASSUME NEW k, NEW m, NEW fields, Len(fields) \in Nat PROVE \E f : IsAfter(f, k, m, fields)
<1> DEFINE Upto(n, f) ==
             f = [i \in 0 .. n |->
                   IF i = 0 THEN {m} ELSE UNION {ReadInto(k, x, fields[i]) : x \in f[i - 1]}]
           S == {n \in Nat : \E f : Upto(n, f)}
<1>1. 0 \in S
    <2> DEFINE f == [i \in 0 .. 0 |-> {m}]
    <2>1. Upto(0, f)
        OBVIOUS
    <2> QED
        BY <2>1
<1>2. ASSUME NEW n \in Nat, n \in S PROVE n + 1 \in S
    <2>1. PICK f : Upto(n, f)
        BY <1>2
    <2> DEFINE Step(i, M) == UNION {ReadInto(k, x, fields[i]) : x \in M}
               h == [i \in 0 .. n + 1 |-> IF i <= n THEN f[i] ELSE Step(n + 1, f[n])]
    <2>a. \A i \in 0 .. n : f[i] = IF i = 0 THEN {m} ELSE Step(i, f[i - 1])
        BY <2>1
    <2> HIDE DEF Step
    <2>2. ASSUME NEW i \in 0 .. n + 1
          PROVE  h[i] = IF i = 0 THEN {m} ELSE Step(i, h[i - 1])
        <3>1. CASE i <= n
            <4>1. i \in 0 .. n /\ h[i] = f[i] /\ (i # 0 => i - 1 \in 0 .. n /\ h[i - 1] = f[i - 1])
                BY <3>1
            <4> QED
                BY <2>a, <4>1
        <3>2. CASE i = n + 1
            <4>1. i # 0 /\ i - 1 = n /\ ~ (i <= n)
                BY <3>2
            <4>2. h[i] = Step(n + 1, f[n]) /\ h[n] = f[n]
                BY <3>2
            <4> QED
                BY <3>2, <4>1, <4>2
        <3> QED
            BY <3>1, <3>2
    <2>3. h = [i \in 0 .. n + 1 |-> IF i = 0 THEN {m} ELSE Step(i, h[i - 1])]
        BY <2>2
    <2>4. Upto(n + 1, h)
        BY <2>3 DEF Step
    <2> HIDE DEF Upto, h
    <2> QED
        BY <2>4
<1> HIDE DEF S
<1>3. \A n \in Nat : n \in S
    BY <1>1, <1>2, NumberInduction
<1> QED
    BY <1>3 DEF S, IsAfter

\* What reading payload p makes of the objects in M
Reading(k, p, M) == UNION {ReadInto(k, o, p) : o \in M}

\* f[i] are the objects after i fields.
Steps(k, m, fields, f) ==
    f[0] = {m} /\ \A i \in 1 .. Len(fields) : f[i] = Reading(k, fields[i], f[i - 1])

LEMMA ReadAllIs ==
    ASSUME NEW k, NEW m, NEW fields, Len(fields) \in Nat
    PROVE  \E f : Steps(k, m, fields, f) /\ ReadAll(k, m, fields) = f[Len(fields)]
<1> DEFINE f == CHOOSE g : IsAfter(g, k, m, fields)
<1>1. ReadAll(k, m, fields) = f[Len(fields)]
    BY DEF ReadAll, IsAfter
<1>2. IsAfter(f, k, m, fields)
    BY AfterExists
<1>3. \A i \in 0 .. Len(fields) : f[i] = IF i = 0 THEN {m} ELSE Reading(k, fields[i], f[i - 1])
    <2>1. f = [i \in 0 .. Len(fields) |-> IF i = 0 THEN {m} ELSE Reading(k, fields[i], f[i - 1])]
        BY <1>2 DEF IsAfter, Reading
    <2> HIDE DEF f
    <2> QED
        BY <2>1, Zenon
<1> HIDE DEF f
<1>4. f[0] = {m} /\ \A i \in 1 .. Len(fields) : f[i] = Reading(k, fields[i], f[i - 1])
    BY <1>3
<1> QED
    BY <1>1, <1>4 DEF Steps

\* The first field decides what the others are read into.
LEMMA ReadAllStep ==
    ASSUME NEW k, NEW m, NEW p, NEW n, ReadInto(k, m, p) = {n},
           NEW T, p \in T, NEW fields \in Seq(T)
    PROVE  ReadAll(k, m, <<p>> \o fields) = ReadAll(k, n, fields)
<1> DEFINE all == <<p>> \o fields
           len == Len(fields)
<1>1. Len(all) = len + 1 /\ len \in Nat /\ all[1] = p
      /\ \A i \in 1 .. len : all[i + 1] = fields[i]
    <2>1. <<p>> \in Seq(T) /\ Len(<<p>>) = 1 /\ <<p>>[1] = p
        OBVIOUS
    <2> QED
        BY <2>1, ConcatProperties, LenProperties
<1> HIDE DEF all
<1>a. PICK f : Steps(k, m, all, f) /\ ReadAll(k, m, all) = f[Len(all)]
    <2>1. Len(all) \in Nat
        BY <1>1
    <2> QED
        BY <2>1, ReadAllIs
<1>2. /\ ReadAll(k, m, all) = f[len + 1] /\ f[0] = {m}
      /\ \A i \in 1 .. len + 1 : f[i] = Reading(k, all[i], f[i - 1])
    BY <1>1, <1>a DEF Steps
<1>b. PICK g : Steps(k, n, fields, g) /\ ReadAll(k, n, fields) = g[Len(fields)]
    BY <1>1, ReadAllIs
<1>3. /\ ReadAll(k, n, fields) = g[len] /\ g[0] = {n}
      /\ \A i \in 1 .. len : g[i] = Reading(k, fields[i], g[i - 1])
    BY <1>1, <1>b DEF Steps
<1>4. Reading(k, p, {m}) = {n}
    <2> DEFINE R(o) == ReadInto(k, o, p)
    <2>1. R(m) = {n}
        OBVIOUS
    <2> HIDE DEF R
    <2>2. UNION {R(o) : o \in {m}} = {n}
        BY <2>1
    <2> QED
        BY <2>2 DEF R, Reading
<1> DEFINE S == {i \in Nat : i <= len => f[i + 1] = g[i]}
<1>5. 0 \in S
    <2>1. 1 \in 1 .. len + 1 /\ 1 - 1 = 0 /\ 0 + 1 = 1
        BY <1>1
    <2>2. f[1] = Reading(k, p, {m})
        BY <1>1, <1>2, <2>1
    <2> QED
        BY <1>3, <1>4, <2>1, <2>2
<1>6. ASSUME NEW i \in Nat, i \in S PROVE i + 1 \in S
    <2> SUFFICES ASSUME i + 1 <= len PROVE f[(i + 1) + 1] = g[i + 1]
        OBVIOUS
    <2>1. f[i + 1] = g[i]
        BY <1>1, <1>6
    <2>2. i + 1 \in 1 .. len /\ (i + 1) + 1 \in 1 .. len + 1 /\ ((i + 1) + 1) - 1 = i + 1
          /\ (i + 1) - 1 = i
        BY <1>1
    <2>3. f[(i + 1) + 1] = Reading(k, all[(i + 1) + 1], f[i + 1])
        BY <1>2, <2>2
    <2>4. g[i + 1] = Reading(k, fields[i + 1], g[i])
        BY <1>3, <2>2
    <2>5. all[(i + 1) + 1] = fields[i + 1]
        BY <1>1, <2>2
    <2> QED
        BY <2>1, <2>3, <2>4, <2>5
<1> HIDE DEF S
<1>7. \A i \in Nat : i \in S
    BY <1>5, <1>6, NumberInduction
<1>8. f[len + 1] = g[len]
    BY <1>1, <1>7 DEF S
<1> QED
    BY <1>2, <1>3, <1>8 DEF all

\* Bytes that begin with a field: the field is read into the object, then the rest.
LEMMA ParseStep ==
    ASSUME NEW k, NEW m, NEW b \in Bytes, b # <<>>, NEW p, ReadField(b) = {p},
           NEW n, ReadInto(k, m, p) = {n}
    PROVE  Parse(k, m, b) = Parse(k, n, p.rest)
<1>1. p \in Payloads /\ p.rest \in Bytes
    BY ReadFieldType DEF Payloads
<1>2. FieldsIn(b) = After(p, FieldsIn(p.rest))
    BY FieldsAfter
<1>3. \A fields \in FieldsIn(p.rest) : ReadAll(k, m, <<p>> \o fields) = ReadAll(k, n, fields)
    BY <1>1, FieldsInType, ReadAllStep
<1>4. Parse(k, m, b) = UNION {ReadAll(k, m, <<p>> \o fields) : fields \in FieldsIn(p.rest)}
    BY <1>2 DEF Parse, After
<1> QED
    BY <1>3, <1>4 DEF Parse

LEMMA ParseNothing == ASSUME NEW k, NEW m PROVE Parse(k, m, <<>>) = {m}
<1>1. Len(<<>>) = 0
    OBVIOUS
<1>2. ReadAll(k, m, <<>>) = {m}
    <2>1. PICK f : Steps(k, m, <<>>, f) /\ ReadAll(k, m, <<>>) = f[Len(<<>>)]
        BY <1>1, ReadAllIs
    <2> QED
        BY <1>1, <2>1 DEF Steps
<1>3. Parse(k, m, <<>>) = UNION {ReadAll(k, m, fields) : fields \in {<<>>}}
    BY FieldsInNothing DEF Parse
<1> QED
    BY <1>2, <1>3

CONSTANTS ObjectIn(_, _),       \* what an object of the class of a field is
          WordIn(_, _)          \* and what a message of its type is

-----------------------------------------------------------------------------
(* Objects *)

\* A value of a field, or of an element of a repeated field
IsValue(type, v) ==
  CASE type = "bool" -> v \in BOOLEAN
    [] type = "string" -> v \in Seq(Byte)
    [] type \in VarintTypes \ {"bool"} -> v \in Nat
    [] OTHER -> ObjectIn(type, v)

\* v is a sequence.
IsSequence(v) == v \in Seq({v[i] : i \in DOMAIN v})

IsMember(k, f, v) ==
  IF IsList(k, f)
  THEN IsSequence(v) /\ \A i \in DOMAIN v : IsValue(TypeOf(k, f), v[i])
  ELSE IsValue(TypeOf(k, f), v)

\* A field with number 15, which no class knows
Stranger == Tag(15, "int32") \o <<7>>

Object(k, m) ==
  /\ m = [bits |-> m.bits, val |-> m.val, unknown |-> m.unknown]
  /\ m.bits \subseteq {Classes[k].has[f] : f \in DOMAIN Classes[k].has}
  /\ m.val = [f \in Members(k) |-> m.val[f]]
  /\ \A f \in Members(k) : IsMember(k, f, m.val[f])
  /\ \A f \in DOMAIN Classes[k].has : Classes[k].has[f] \notin m.bits => m.val[f] = Zero(k, f)
  /\ m.unknown \in {<<>>, Stranger}

Plain(k, m) == Object(k, m) /\ m.unknown = <<>>

\* What is known of the methods of a class that is the type of a field
GoodIn(c) ==
  /\ ObjectIn(c, NewIn(c))
  /\ \A m : ObjectIn(c, m) => /\ MergeFromIn(c, NewIn(c), m) = m
                              /\ CopyIn(c, m) = m
                              /\ ClearIn(c, m) = NewIn(c)
                              /\ SerializeIn(c, m) \in Seq(Byte)
                              /\ ByteSizeIn(c, m) = Len(SerializeIn(c, m))
                              /\ SerializeIn(c, m) = EncodeIn(c, MeaningIn(c, m))
                              /\ IsInitializedIn(c, m) <=> CompleteIn(c, MeaningIn(c, m))
  /\ \A m, n : ObjectIn(c, m) /\ ObjectIn(c, n) =>
       /\ ObjectIn(c, MergeFromIn(c, m, n))
       /\ ParseIn(c, m, SerializeIn(c, n)) = {MergeFromIn(c, m, n)}
       /\ MeaningIn(c, MergeFromIn(c, m, n)) = JoinIn(c, MeaningIn(c, m), MeaningIn(c, n))

\* and of the messages of its type
Expressible(c) ==
  /\ \A w : WordIn(c, w) => ObjectIn(c, BuildIn(c, w)) /\ MeaningIn(c, BuildIn(c, w)) = w
  /\ \A how : WordIn(c, FilledIn(c, how))
  /\ WordIn(c, LackingIn(c))

Sound(k) ==
  /\ Fits(Classes[k], Schemas[k])
  /\ \A f \in Members(k) : TypeOf(k, f) \notin Scalars =>
       GoodIn(TypeOf(k, f)) /\ Expressible(TypeOf(k, f))

-----------------------------------------------------------------------------
(* The constructors, MergeFrom and Clear *)

LEMMA MembersSplit ==
    ASSUME NEW k, Sound(k)
    PROVE  /\ \A f \in DOMAIN Classes[k].has : f \in Members(k) /\ ~ IsList(k, f)
           /\ \A f \in Members(k) : f \in DOMAIN Classes[k].has \/ IsList(k, f)
BY DEF Sound, Fits, FitsMembers, IsList, Members

LEMMA ZeroIsMember ==
    ASSUME NEW k, Sound(k), NEW f \in Members(k) PROVE IsMember(k, f, Zero(k, f))
<1>1. CASE IsList(k, f)
    <2>1. IsSequence(<<>>)
        BY EmptySeq DEF IsSequence
    <2> QED
        BY <1>1, <2>1 DEF IsMember, Zero
<1>2. CASE ~ IsList(k, f)
    <2>1. <<>> \in Seq(Byte)
        BY EmptySeq
    <2>2. TypeOf(k, f) \notin Scalars => ObjectIn(TypeOf(k, f), NewIn(TypeOf(k, f)))
        BY DEF Sound, GoodIn
    <2>3. IsValue(TypeOf(k, f), ZeroOf(TypeOf(k, f)))
        BY <2>1, <2>2 DEF IsValue, ZeroOf, Scalars, VarintTypes
    <2> QED
        BY <1>2, <2>3 DEF IsMember, Zero
<1> QED
    BY <1>1, <1>2

LEMMA NewIsPlain == ASSUME NEW k, Sound(k) PROVE Plain(k, New(k))
BY ZeroIsMember, MembersSplit DEF New, Plain, Object

\* Merging into one member
MergedMember(k, f, to, from) ==
  IF IsList(k, f) THEN MergedList(TypeOf(k, f), to.val[f], from.val[f])
  ELSE IF Has(k, from, f) THEN MergedValue(TypeOf(k, f), to.val[f], from.val[f])
  ELSE to.val[f]

LEMMA MergeFromIs ==
    ASSUME NEW k, Sound(k), NEW to, NEW from, Object(k, from)
    PROVE  MergeFrom(k, to, from) =
             [bits |-> to.bits \cup from.bits,
              val |-> [f \in Members(k) |-> MergedMember(k, f, to, from)],
              unknown |-> to.unknown \o from.unknown]
<1> DEFINE t == Classes[k].merge
           bits == {b \in from.bits : t.guard \cap from.bits # {}}
<1>1. bits = from.bits
    BY DEF Sound, Fits, FitsMerge, Object
<1>2. t.lists = Classes[k].lists /\ t.fields = Classes[k].has
    BY DEF Sound, Fits, FitsMerge
<1>3. \A f \in Members(k) : f \in DOMAIN Classes[k].has <=> ~ IsList(k, f)
    BY MembersSplit
<1>4. ASSUME NEW f \in Members(k)
      PROVE  (IF f \in t.lists THEN MergedList(TypeOf(k, f), to.val[f], from.val[f])
              ELSE IF f \notin DOMAIN t.fields \/ t.fields[f] \notin bits THEN to.val[f]
              ELSE MergedValue(TypeOf(k, f), to.val[f], from.val[f]))
             = MergedMember(k, f, to, from)
    BY <1>1, <1>2, <1>3 DEF MergedMember, Has, IsList
<1> HIDE DEF t
<1> QED
    BY <1>1, <1>4 DEF MergeFrom, MergeBy, t

\* Sequences of values

LEMMA ConcatIsSequence ==
    ASSUME NEW s, NEW t, IsSequence(s), IsSequence(t)
    PROVE  /\ IsSequence(s \o t)
           /\ DOMAIN s = 1 .. Len(s) /\ Len(s) \in Nat
           /\ DOMAIN t = 1 .. Len(t) /\ Len(t) \in Nat
           /\ DOMAIN (s \o t) = 1 .. Len(s) + Len(t)
           /\ \A i \in 1 .. Len(s) + Len(t) :
                (s \o t)[i] = IF i <= Len(s) THEN s[i] ELSE t[i - Len(s)]
<1> DEFINE V == {s[i] : i \in DOMAIN s} \cup {t[i] : i \in DOMAIN t}
           u == s \o t
<1>1. s \in Seq(V) /\ t \in Seq(V)
    BY SeqMonotonic DEF IsSequence
<1> HIDE DEF V
<1>2. u \in Seq(V) /\ Len(u) = Len(s) + Len(t)
      /\ \A i \in 1 .. Len(s) + Len(t) : u[i] = IF i <= Len(s) THEN s[i] ELSE t[i - Len(s)]
    BY <1>1, ConcatProperties
<1>3. DOMAIN s = 1 .. Len(s) /\ Len(s) \in Nat /\ DOMAIN t = 1 .. Len(t) /\ Len(t) \in Nat
      /\ DOMAIN u = 1 .. Len(u) /\ Len(u) \in Nat
    BY <1>1, <1>2, LenProperties
<1> HIDE DEF u
<1>4. u \in Seq({u[i] : i \in DOMAIN u})
    <2> DEFINE W == {u[i] : i \in DOMAIN u}
    <2>1. \A i \in 1 .. Len(u) : u[i] \in W
        BY <1>3
    <2>2. u \in [1 .. Len(u) -> W]
        <3>1. u = [i \in 1 .. Len(u) |-> u[i]]
            BY <1>2, LenProperties
        <3> HIDE DEF W
        <3> QED
            BY <2>1, <3>1
    <2> HIDE DEF W
    <2>3. u \in Seq(W)
        BY <1>3, <2>2, SeqDef
    <2> QED
        BY <2>3 DEF W
<1> QED
    BY <1>2, <1>3, <1>4 DEF u, IsSequence

LEMMA MergedListIs ==
    ASSUME NEW type, type \notin Scalars => GoodIn(type), NEW to, NEW from,
           IsSequence(to), IsSequence(from), \A i \in DOMAIN from : IsValue(type, from[i])
    PROVE  MergedList(type, to, from) = to \o from
<1>1. ASSUME NEW i \in DOMAIN from
      PROVE  (IF type \in Scalars THEN from[i] ELSE MergeFromIn(type, NewIn(type), from[i]))
             = from[i]
    <2>1. type \notin Scalars => ObjectIn(type, from[i])
        BY DEF IsValue, Scalars, VarintTypes
    <2> QED
        BY <2>1 DEF GoodIn
<1>2. from = [i \in DOMAIN from |-> from[i]]
    BY LenProperties DEF IsSequence
<1>3. [i \in DOMAIN from |->
         IF type \in Scalars THEN from[i] ELSE MergeFromIn(type, NewIn(type), from[i])] = from
    BY <1>1, <1>2
<1> QED
    BY <1>3 DEF MergedList

LEMMA MergedMemberIs ==
    ASSUME NEW k, Sound(k), NEW to, NEW from, Object(k, to), Object(k, from),
           NEW f \in Members(k)
    PROVE  /\ IsMember(k, f, MergedMember(k, f, to, from))
           /\ IsList(k, f) => MergedMember(k, f, to, from) = to.val[f] \o from.val[f]
<1>1. IsMember(k, f, to.val[f]) /\ IsMember(k, f, from.val[f])
    BY DEF Object
<1> DEFINE s == to.val[f]
           t == from.val[f]
           type == TypeOf(k, f)
<1>0. type \notin Scalars => GoodIn(type)
    BY DEF Sound
<1>2. CASE IsList(k, f)
    <2>1. IsSequence(s) /\ IsSequence(t)
          /\ (\A i \in DOMAIN s : IsValue(type, s[i])) /\ (\A i \in DOMAIN t : IsValue(type, t[i]))
        BY <1>1, <1>2 DEF IsMember
    <2> HIDE DEF s, t, type
    <2>2. MergedList(type, s, t) = s \o t
        BY <1>0, <2>1, MergedListIs
    <2>3. IsSequence(s \o t) /\ DOMAIN s = 1 .. Len(s) /\ Len(s) \in Nat
          /\ DOMAIN t = 1 .. Len(t) /\ Len(t) \in Nat
          /\ DOMAIN (s \o t) = 1 .. Len(s) + Len(t)
          /\ \A i \in 1 .. Len(s) + Len(t) :
                (s \o t)[i] = IF i <= Len(s) THEN s[i] ELSE t[i - Len(s)]
        BY <2>1, ConcatIsSequence
    <2>4. \A i \in DOMAIN (s \o t) : IsValue(type, (s \o t)[i])
        <3> SUFFICES ASSUME NEW i \in 1 .. Len(s) + Len(t) PROVE IsValue(type, (s \o t)[i])
            BY <2>3
        <3>1. CASE i <= Len(s)
            BY <2>1, <2>3, <3>1
        <3>2. CASE ~ (i <= Len(s))
            <4>1. i - Len(s) \in DOMAIN t
                BY <2>3, <3>2
            <4> QED
                BY <2>1, <2>3, <3>2, <4>1
        <3> QED
            BY <3>1, <3>2
    <2> QED
        BY <1>2, <2>2, <2>3, <2>4 DEF MergedMember, IsMember, s, t, type
<1>3. CASE ~ IsList(k, f)
    <2>1. IsValue(type, s) /\ IsValue(type, t)
        BY <1>1, <1>3 DEF IsMember
    <2>2. IsValue(type, MergedValue(type, s, t))
        <3>1. CASE type \in Scalars
            BY <2>1, <3>1 DEF MergedValue
        <3>2. CASE type \notin Scalars
            <4>1. ObjectIn(type, s) /\ ObjectIn(type, t)
                BY <2>1, <3>2 DEF IsValue, Scalars, VarintTypes
            <4>2. ObjectIn(type, MergeFromIn(type, s, t))
                BY <1>0, <3>2, <4>1 DEF GoodIn
            <4> QED
                BY <3>2, <4>2 DEF IsValue, MergedValue, Scalars, VarintTypes
        <3> QED
            BY <3>1, <3>2
    <2> QED
        BY <1>3, <2>1, <2>2 DEF MergedMember, IsMember
<1> QED
    BY <1>2, <1>3

LEMMA MergeIsObject ==
    ASSUME NEW k, Sound(k), NEW to, NEW from, Object(k, to), Object(k, from),
           to.unknown = <<>> \/ from.unknown = <<>>
    PROVE  Object(k, MergeFrom(k, to, from))
<1> DEFINE m == MergeFrom(k, to, from)
<1>1. m = [bits |-> to.bits \cup from.bits,
           val |-> [f \in Members(k) |-> MergedMember(k, f, to, from)],
           unknown |-> to.unknown \o from.unknown]
    BY MergeFromIs
<1> HIDE DEF m
<1>2. m.bits \subseteq {Classes[k].has[f] : f \in DOMAIN Classes[k].has}
    BY <1>1 DEF Object
<1>3. \A f \in Members(k) : IsMember(k, f, m.val[f])
    BY <1>1, MergedMemberIs
<1>4. ASSUME NEW f \in DOMAIN Classes[k].has, Classes[k].has[f] \notin m.bits
      PROVE  m.val[f] = Zero(k, f)
    <2>1. f \in Members(k) /\ ~ IsList(k, f) /\ ~ Has(k, from, f) /\ Classes[k].has[f] \notin to.bits
        BY <1>1, <1>4, MembersSplit DEF Has
    <2>2. m.val[f] = to.val[f]
        BY <1>1, <2>1 DEF MergedMember
    <2> QED
        BY <2>1, <2>2 DEF Object
<1>5. m.unknown \in {<<>>, Stranger}
    <2>1. Stranger \in Seq(Nat)
        BY VarintBytes, ConcatProperties DEF Stranger, Tag, WireType, VarintTypes, Bytes
    <2>2. to.unknown \in Seq(Nat) /\ from.unknown \in Seq(Nat)
        BY <2>1, EmptySeq DEF Object
    <2>3. m.unknown = to.unknown \o from.unknown
        BY <1>1
    <2>4. m.unknown \in {to.unknown, from.unknown}
        BY <2>2, <2>3, ConcatEmptySeq
    <2> QED
        BY <2>4 DEF Object
<1>6. m = [bits |-> m.bits, val |-> m.val, unknown |-> m.unknown]
      /\ m.val = [f \in Members(k) |-> m.val[f]]
    BY <1>1
<1> QED
    BY <1>2, <1>3, <1>4, <1>5, <1>6 DEF Object, m

LEMMA UnknownIsBytes ==
    ASSUME NEW k, NEW m, Object(k, m) PROVE m.unknown \in Seq(Byte)
<1>1. Stranger \in Seq(Byte)
    <2>1. Varint(120) \in Seq(Byte) /\ <<7>> \in Seq(Byte)
        BY VarintType DEF Byte
    <2>2. Stranger = Varint(120) \o <<7>>
        BY DEF Stranger, Tag, WireType, VarintTypes
    <2> QED
        BY <2>1, <2>2, ConcatProperties
<1> QED
    BY <1>1, EmptySeq DEF Object

\* Merging into a new object gives the object itself.
LEMMA MergeIntoNew ==
    ASSUME NEW k, Sound(k), NEW m, Object(k, m)
    PROVE  MergeFrom(k, New(k), m) = m
<1> DEFINE n == New(k)
<1>1. MergeFrom(k, n, m) = [bits |-> n.bits \cup m.bits,
           val |-> [f \in Members(k) |-> MergedMember(k, f, n, m)],
           unknown |-> n.unknown \o m.unknown]
    BY MergeFromIs
<1>2. n.bits = {} /\ n.unknown = <<>> /\ \A f \in Members(k) : n.val[f] = Zero(k, f)
    BY DEF New
<1>3. n.unknown \o m.unknown = m.unknown
    BY <1>2, UnknownIsBytes, ConcatEmptySeq
<1>4. Object(k, n)
    BY NewIsPlain DEF Plain
<1>5. ASSUME NEW f \in Members(k) PROVE MergedMember(k, f, n, m) = m.val[f]
    <2>0. IsMember(k, f, m.val[f])
        BY DEF Object
    <2>1. CASE IsList(k, f)
        <3>0. n.val[f] = <<>>
            BY <1>2, <2>1 DEF Zero
        <3>1. MergedMember(k, f, n, m) = <<>> \o m.val[f]
            <4> HIDE DEF n
            <4>1. IsList(k, f) => MergedMember(k, f, n, m) = n.val[f] \o m.val[f]
                BY <1>4, MergedMemberIs DEF MergedMember
            <4> QED
                BY <2>1, <3>0, <4>1, Zenon
        <3>2. <<>> \o m.val[f] = m.val[f]
            BY <2>0, <2>1, ConcatEmptySeq DEF IsMember, IsSequence
        <3> QED
            BY <3>1, <3>2
    <2>2. CASE ~ IsList(k, f) /\ ~ Has(k, m, f)
        <3>1. f \in DOMAIN Classes[k].has
            BY <2>2, MembersSplit
        <3> QED
            BY <1>2, <2>2, <3>1 DEF MergedMember, Object, Has
    <2>3. CASE ~ IsList(k, f) /\ Has(k, m, f)
        <3> DEFINE type == TypeOf(k, f)
        <3>1. MergedMember(k, f, n, m) = MergedValue(type, Zero(k, f), m.val[f])
            BY <1>2, <2>3 DEF MergedMember
        <3>2. CASE type \in Scalars
            BY <3>1, <3>2 DEF MergedValue
        <3>3. CASE type \notin Scalars
            <4>1. ObjectIn(type, m.val[f]) /\ Zero(k, f) = NewIn(type)
                BY <2>0, <2>3, <3>3 DEF IsMember, IsValue, Zero, ZeroOf, Scalars, VarintTypes
            <4>2. GoodIn(type)
                BY <3>3 DEF Sound
            <4> QED
                BY <3>1, <3>3, <4>1, <4>2 DEF MergedValue, GoodIn
        <3> QED
            BY <3>2, <3>3
    <2> QED
        BY <2>1, <2>2, <2>3
<1>6. [f \in Members(k) |-> MergedMember(k, f, n, m)] = m.val
    BY <1>5 DEF Object
<1>7. n.bits \cup m.bits = m.bits
    BY <1>2
<1> HIDE DEF n
<1> QED
    BY <1>1, <1>3, <1>6, <1>7 DEF Object, n

\* The copy constructor gives the object back, and so does a move.
LEMMA CopyIsSame ==
    ASSUME NEW k, Sound(k), NEW m, Object(k, m)
    PROVE  Copy(k, m) = m /\ Move(k, m) = m
<1> DEFINE t == Classes[k].copy
           Copied(f) == f \in t.plain \/ (f \in t.guarded /\ Has(k, m, f))
           Of(f, v) == IF IsList(k, f)
                       THEN [i \in DOMAIN v |-> CopiedValue(TypeOf(k, f), v[i])]
                       ELSE CopiedValue(TypeOf(k, f), v)
           val == [f \in Members(k) |-> IF Copied(f) THEN Of(f, m.val[f]) ELSE Zero(k, f)]
<1>1. ASSUME NEW f \in Members(k) PROVE Of(f, m.val[f]) = m.val[f]
    <2> DEFINE type == TypeOf(k, f)
    <2>1. ASSUME NEW v, IsValue(type, v) PROVE CopiedValue(type, v) = v
        <3>1. CASE type \in Scalars
            BY <3>1 DEF CopiedValue
        <3>2. CASE type \notin Scalars
            <4>1. ObjectIn(type, v)
                BY <2>1, <3>2 DEF IsValue, Scalars, VarintTypes
            <4> QED
                BY <3>2, <4>1 DEF CopiedValue, Sound, GoodIn
        <3> QED
            BY <3>1, <3>2
    <2>2. IsMember(k, f, m.val[f])
        BY DEF Object
    <2>3. CASE IsList(k, f)
        <3>1. \A i \in DOMAIN m.val[f] : CopiedValue(type, m.val[f][i]) = m.val[f][i]
            BY <2>1, <2>2, <2>3 DEF IsMember
        <3>2. m.val[f] = [i \in DOMAIN m.val[f] |-> m.val[f][i]]
            BY <2>2, <2>3, LenProperties DEF IsMember, IsSequence
        <3> QED
            BY <2>3, <3>1, <3>2
    <2>4. CASE ~ IsList(k, f)
        BY <2>1, <2>2, <2>4 DEF IsMember
    <2> QED
        BY <2>3, <2>4
<1>2. ASSUME NEW f \in Members(k), ~ Copied(f) PROVE m.val[f] = Zero(k, f)
    <2>1. f \in DOMAIN Classes[k].has /\ ~ Has(k, m, f)
        BY <1>2 DEF Sound, Fits, FitsCopy, Members
    <2> QED
        BY <2>1 DEF Object, Has
<1> HIDE DEF Copied, Of
<1>3. val = m.val
    <2>1. \A f \in Members(k) : (IF Copied(f) THEN Of(f, m.val[f]) ELSE Zero(k, f)) = m.val[f]
        BY <1>1, <1>2
    <2> QED
        BY <2>1 DEF Object
<1>4. Copy(k, m) = [m EXCEPT !.val = val]
    BY DEF Copy, CopyBy, Copied, Of
<1>5. Copy(k, m) = m
    <2> HIDE DEF val
    <2> QED
        BY <1>3, <1>4 DEF Object
<1>6. Move(k, m) = m
    <2> DEFINE moved == [f \in Members(k) |->
                          IF f \in Classes[k].swap THEN m.val[f] ELSE Zero(k, f)]
    <2>1. moved = m.val
        BY DEF Sound, Fits, FitsCopy, Members, Object
    <2>2. Move(k, m) = [m EXCEPT !.val = moved]
        BY DEF Move
    <2> HIDE DEF moved
    <2> QED
        BY <2>1, <2>2 DEF Object
<1> QED
    BY <1>5, <1>6

\* Clear leaves a new object.
LEMMA ClearIsNew ==
    ASSUME NEW k, Sound(k), NEW m, Object(k, m)
    PROVE  Clear(k, m) = New(k)
<1> DEFINE t == Classes[k].clear
           Reset(f) == f \in t.always \/ \E g \in t.guarded : f \in g[2] /\ g[1] \cap m.bits # {}
           Cleared(f) == IF HoldsMessage(k, f) /\ ~IsList(k, f)
                         THEN ClearIn(TypeOf(k, f), m.val[f]) ELSE Zero(k, f)
<1>1. ASSUME NEW f \in Members(k) PROVE Cleared(f) = Zero(k, f)
    <2>1. CASE HoldsMessage(k, f) /\ ~IsList(k, f)
        <3>1. ObjectIn(TypeOf(k, f), m.val[f]) /\ Zero(k, f) = NewIn(TypeOf(k, f))
            BY <2>1 DEF Object, IsMember, IsValue, HoldsMessage, Zero, ZeroOf, Scalars, VarintTypes
        <3> QED
            BY <2>1, <3>1 DEF Sound, GoodIn, HoldsMessage
    <2> QED
        BY <2>1
<1>2. ASSUME NEW f \in Members(k), ~ Reset(f) PROVE m.val[f] = Zero(k, f)
    <2>1. f \notin t.always /\ \A g \in t.guarded : f \in g[2] => g[1] \cap m.bits = {}
        BY <1>2
    <2>2. f \in DOMAIN Classes[k].has
        BY <2>1, MembersSplit DEF Sound, Fits, FitsClear, IsList
    <2>3. Classes[k].has[f] \notin m.bits
        <3>1. PICK g \in t.guarded : f \in g[2] /\ Classes[k].has[f] \in g[1]
            BY <2>1, <2>2 DEF Sound, Fits, FitsClear
        <3> QED
            BY <2>1, <3>1
    <2> QED
        BY <2>2, <2>3 DEF Object
<1> HIDE DEF Reset, Cleared
<1>3. [f \in Members(k) |-> IF Reset(f) THEN Cleared(f) ELSE m.val[f]]
      = [f \in Members(k) |-> Zero(k, f)]
    BY <1>1, <1>2
<1>4. Clear(k, m) = [bits |-> {}, unknown |-> <<>>,
        val |-> [f \in Members(k) |-> IF Reset(f) THEN Cleared(f) ELSE m.val[f]]]
    BY DEF Clear, ClearBy, Reset, Cleared
<1> QED
    BY <1>3, <1>4 DEF New

-----------------------------------------------------------------------------
(* The writers *)

\* Row i of the writers, and the field it is for
Rows(k) == DOMAIN Schemas[k]
Row(k, i) == Classes[k].serialize[i]
FieldOf(k, i) == Schemas[k][i]
NameOf(k, i) == FieldOf(k, i).name

\* What row t writes for a value
Piece(k, t, v) == Tag(t.number, t.type) \o WritePayload(t.type, TypeOf(k, t.field), v)

LEMMA BytesAreBytes == \A s \in Seq(Byte) : s \in Bytes
<1>1. Byte \subseteq Nat
    BY DEF Byte
<1> QED
    BY <1>1, SeqMonotonic DEF Bytes

LEMMA BytesConcat ==
    /\ \A s, t \in Bytes : s \o t \in Bytes /\ Len(s \o t) = Len(s) + Len(t)
    /\ \A s, t, u \in Bytes : (s \o t) \o u = s \o (t \o u)
<1>1. \A s, t \in Bytes : s \o t \in Bytes /\ Len(s \o t) = Len(s) + Len(t)
    BY ConcatProperties DEF Bytes
<1>2. \A s, t, u \in Bytes : (s \o t) \o u = s \o (t \o u)
    BY ConcatAssociative, SMTT(30) DEF Bytes
<1> QED
    BY <1>1, <1>2

\* What the tables say of row i.
LEMMA RowIs ==
    ASSUME NEW k, Sound(k), NEW i \in Rows(k)
    PROVE  /\ FitsRow(Classes[k], Row(k, i), FieldOf(k, i))
           /\ Row(k, i).field = NameOf(k, i)
           /\ NameOf(k, i) \in Members(k)
           /\ TypeOf(k, NameOf(k, i)) = FieldOf(k, i).type
<1>1. FitsRow(Classes[k], Row(k, i), FieldOf(k, i))
    BY DEF Sound, Fits, FitsRows, Rows, Row, FieldOf
<1>2. NameOf(k, i) \in Members(k)
    BY DEF Sound, Fits, FitsRows, Members, Rows, FieldOf, NameOf
<1> QED
    BY <1>1, <1>2 DEF FitsRow, TypeOf, NameOf

LEMMA ValueCases ==
    ASSUME NEW type, NEW v, IsValue(type, v)
    PROVE  /\ type = "bool" => v \in BOOLEAN
           /\ type = "string" => v \in Seq(Byte)
           /\ type \in VarintTypes /\ type # "bool" => v \in Nat
           /\ type \notin Scalars => ObjectIn(type, v)
BY DEF IsValue, Scalars, VarintTypes

LEMMA PayloadIsBytes ==
    ASSUME NEW k, Sound(k), NEW i \in Rows(k), NEW v,
           IsValue(FieldOf(k, i).type, v)
    PROVE  WritePayload(Row(k, i).type, TypeOf(k, NameOf(k, i)), v)
             \in Seq(Byte)
<1> DEFINE t == Row(k, i).type
           c == FieldOf(k, i).type
<1>1. TypeOf(k, NameOf(k, i)) = c /\ t = IF c \in Scalars THEN c ELSE "message"
    BY RowIs DEF FitsRow, NameOf
<1>2. c \notin Scalars => GoodIn(c)
    BY <1>1, RowIs DEF Sound
<1> HIDE DEF t, c
<1>3. CASE c = "bool"
    <2>1. <<1>> \in Seq(Byte) /\ <<0>> \in Seq(Byte)
        BY DEF Byte
    <2> QED
        BY <1>1, <1>3, <2>1 DEF WritePayload, Scalars, VarintTypes, t
<1>4. CASE c = "string"
    <2>1. v \in Seq(Byte) /\ Len(v) \in Nat
        BY <1>4, ValueCases, LenProperties DEF c
    <2>2. Varint(Len(v)) \o v \in Seq(Byte)
        BY <2>1, VarintType, ConcatProperties
    <2> QED
        BY <1>1, <1>4, <2>2 DEF WritePayload, Scalars, VarintTypes, t
<1>5. CASE c \in VarintTypes /\ c # "bool"
    <2>1. Varint(v) \in Seq(Byte)
        BY <1>5, ValueCases, VarintType DEF c
    <2> QED
        BY <1>1, <1>5, <2>1 DEF WritePayload, Scalars, VarintTypes, t
<1>6. CASE c \notin Scalars
    <2>1. SerializeIn(c, v) \in Seq(Byte) /\ ByteSizeIn(c, v) = Len(SerializeIn(c, v))
        BY <1>2, <1>6, ValueCases DEF GoodIn, c
    <2>2. Varint(ByteSizeIn(c, v)) \o SerializeIn(c, v) \in Seq(Byte)
        BY <2>1, VarintType, ConcatProperties, LenProperties
    <2> QED
        BY <1>1, <1>6, <2>2 DEF WritePayload, t
<1> QED
    BY <1>3, <1>4, <1>5, <1>6 DEF Scalars

LEMMA TagIs ==
    ASSUME NEW k, Sound(k), NEW i \in Rows(k)
    PROVE  LET t == Row(k, i)
               tag == 8 * FieldOf(k, i).number + WireType(t.type)
           IN  /\ tag \in Nat /\ tag < 128 /\ tag % 8 = WireType(t.type)
               /\ Tag(t.number, t.type) = Varint(tag)
               /\ Varint(tag) = <<tag>>
<1> DEFINE t == Row(k, i)
           tag == 8 * FieldOf(k, i).number + WireType(t.type)
           n == FieldOf(k, i).number
           w == WireType(t.type)
<1>1. n \in 1 .. 14 /\ t.number = n
    BY RowIs DEF FitsRow, NameOf
<1>2. w \in {0, 2}
    BY DEF WireType
<1>3. Tag(t.number, t.type) = Varint(tag)
    BY <1>1 DEF Tag
<1> HIDE DEF n, w
<1>4. 8 * n + w \in Nat /\ 8 * n + w < 128 /\ (8 * n + w) % 8 = w
    BY <1>1, <1>2
<1> QED
    BY <1>3, <1>4, VarintLow DEF n, w

LEMMA PieceIsBytes ==
    ASSUME NEW k, Sound(k), NEW i \in Rows(k), NEW v,
           IsValue(FieldOf(k, i).type, v)
    PROVE  Piece(k, Row(k, i), v) \in Seq(Byte)
<1> DEFINE t == Row(k, i)
<1>1. Tag(t.number, t.type) \in Seq(Byte)
    BY TagIs, VarintType
<1>2. WritePayload(t.type, TypeOf(k, t.field), v) \in Seq(Byte)
    BY RowIs, PayloadIsBytes
<1> QED
    BY <1>1, <1>2, ConcatProperties DEF Piece

-----------------------------------------------------------------------------
(* The parser, for one row *)

\* The fields of an object, one by one
Shaped(k, m) ==
  /\ m = [bits |-> m.bits, val |-> m.val, unknown |-> m.unknown]
  /\ m.val = [f \in Members(k) |-> m.val[f]]

With(k, val, f, v) == [g \in Members(k) |-> IF g = f THEN v ELSE val[g]]

LEMMA AddIs ==
    ASSUME NEW k, NEW m, Shaped(k, m), NEW f \in Members(k), NEW v
    PROVE  Add(m, f, v) = [bits |-> m.bits, unknown |-> m.unknown,
                           val |-> With(k, m.val, f, Append(m.val[f], v))]
<1> DEFINE a == m.bits
           b == m.val
           c == m.unknown
           u == Append(b[f], v)
<1>1. m = [bits |-> a, val |-> b, unknown |-> c] /\ b = [g \in Members(k) |-> b[g]]
    BY DEF Shaped
<1>2. Add(m, f, v) = [m EXCEPT !.val = [b EXCEPT ![f] = u]]
    BY DEF Add
<1> HIDE DEF a, b, c, u
<1>3. [b EXCEPT ![f] = u] = With(k, b, f, u)
    BY <1>1 DEF With
<1> QED
    BY <1>1, <1>2, <1>3 DEF a, b, c, u

LEMMA SetIs ==
    ASSUME NEW k, NEW m, Shaped(k, m), NEW f \in Members(k), NEW v
    PROVE  Set(k, m, f, v) = [bits |-> m.bits \cup {Classes[k].has[f]}, unknown |-> m.unknown,
                              val |-> With(k, m.val, f, v)]
<1> DEFINE a == m.bits
           b == m.val
           c == m.unknown
           d == a \cup {Classes[k].has[f]}
<1>1. m = [bits |-> a, val |-> b, unknown |-> c] /\ b = [g \in Members(k) |-> b[g]]
    BY DEF Shaped
<1>2. Set(k, m, f, v) = [m EXCEPT !.bits = d, !.val = [b EXCEPT ![f] = v]]
    BY DEF Set
<1> HIDE DEF a, b, c, d
<1>3. [b EXCEPT ![f] = v] = With(k, b, f, v)
    BY <1>1 DEF With
<1> QED
    BY <1>1, <1>2, <1>3 DEF a, b, c, d

\* What an object is after field f was read with value v
Taken(k, m, f, v) ==
  IF IsList(k, f) THEN Add(m, f, v)
  ELSE Set(k, m, f, MergedValue(TypeOf(k, f), m.val[f], v))

\* The switch has one case for the tag of row i.
LEMMA ReadIntoCase ==
    ASSUME NEW k, Sound(k), NEW i \in Rows(k), NEW tag,
           tag = 8 * FieldOf(k, i).number + WireType(Row(k, i).type),
           NEW m, NEW p, p.tag = tag
    PROVE  ReadInto(k, m, p)
             = ReadCase(k, m, Reads(tag, NameOf(k, i), Row(k, i).type), p)
<1> DEFINE q == Reads(tag, NameOf(k, i), Row(k, i).type)
           cases == {t \in Classes[k].parse : t.tag = p.tag}
           R(t) == ReadCase(k, m, t, p)
<1>1. cases = {q}
    BY RowIs DEF FitsRow, NameOf
<1>2. ReadInto(k, m, p) = IF cases = {} THEN {KeepUnknown(m, p)} ELSE UNION {R(t) : t \in cases}
    BY DEF ReadInto
<1> HIDE DEF cases, q, R
<1>3. UNION {R(t) : t \in cases} = R(q)
    BY <1>1
<1>4. ReadInto(k, m, p) = R(q)
    BY <1>1, <1>2, <1>3
<1> QED
    BY <1>4 DEF q, R

\* Member f of m can be read into.
Ready(k, m, f) == IsList(k, f) \/ IsValue(TypeOf(k, f), m.val[f])

\* The first field in b makes n of m, and r follows it.
ReadsAs(b, r, k, m, n) ==
  \E p : ReadField(b) = {p} /\ p.rest = r /\ ReadInto(k, m, p) = {n}

LEMMA ParseReads ==
    ASSUME NEW b \in Bytes, NEW r, NEW k, NEW m, NEW n, ReadsAs(b, r, k, m, n)
    PROVE  Parse(k, m, b) = Parse(k, n, r)
<1>1. PICK p : ReadField(b) = {p} /\ p.rest = r /\ ReadInto(k, m, p) = {n}
    BY DEF ReadsAs
<1>2. b # <<>>
    <2>1. ReadField(<<>>) = {}
        <3>1. DOMAIN <<>> = {}
            OBVIOUS
        <3> QED
            BY <3>1 DEF ReadField, ReadVarint
    <2> QED
        BY <1>1, <2>1
<1>3. Parse(k, m, b) = Parse(k, n, p.rest)
    BY <1>1, <1>2, ParseStep
<1> QED
    BY <1>1, <1>3

\* A value that was written is read back, whatever follows it.
LEMMA ReadPiece ==
    ASSUME NEW k, Sound(k), NEW i \in Rows(k), NEW f, f = NameOf(k, i),
           NEW m, Ready(k, m, f),
           NEW v, IsValue(TypeOf(k, f), v), NEW r \in Bytes
    PROVE  ReadsAs(Piece(k, Row(k, i), v) \o r, r, k, m, Taken(k, m, f, v))
<1> DEFINE t == Row(k, i)
           tag == 8 * FieldOf(k, i).number + WireType(t.type)
           q == Reads(tag, f, t.type)
           c == TypeOf(k, f)
           w == WritePayload(t.type, c, v)
           piece == Piece(k, t, v)
<1>1. /\ t.field = f /\ t.type = IF c \in Scalars THEN c ELSE "message"
      /\ tag \in Nat /\ tag % 8 = WireType(t.type)
      /\ piece = Varint(tag) \o w
      /\ w \in Bytes
    <2>1. t.field = f /\ c = FieldOf(k, i).type /\ t.type = IF c \in Scalars THEN c ELSE "message"
        BY RowIs DEF FitsRow, NameOf
    <2>2. w \in Bytes
        BY <2>1, PayloadIsBytes, BytesAreBytes
    <2>3. tag \in Nat /\ tag % 8 = WireType(t.type) /\ Tag(t.number, t.type) = Varint(tag)
        BY TagIs
    <2> QED
        BY <2>1, <2>2, <2>3 DEF Piece
<1>3. \A p : p.tag = tag => ReadInto(k, m, p) = ReadCase(k, m, q, p)
    BY ReadIntoCase
<1>4. q = [tag |-> tag, field |-> f, type |-> t.type]
    BY DEF Reads
<1>5. c \notin Scalars => GoodIn(c)
    BY RowIs DEF Sound
<1> HIDE DEF t, tag, q, w, piece, c
<1>2. piece \o r = Varint(tag) \o (w \o r)
    <2>1. Varint(tag) \in Bytes
        BY <1>1, VarintBytes
    <2>2. (Varint(tag) \o w) \o r = Varint(tag) \o (w \o r)
        BY <1>1, <2>1, BytesConcat, Zenon
    <2> QED
        BY <1>1, <2>2, Zenon
<1>6. CASE c \in VarintTypes
    <2> DEFINE n == IF c = "bool" THEN IF v THEN 1 ELSE 0 ELSE v
               p == Number(tag, n, r)
    <2>0. t.type = c
        BY <1>1, <1>6 DEF Scalars
    <2>1. n \in Nat
        BY <1>6, ValueCases DEF c
    <2>2. w = Varint(n)
        <3>1. CASE c = "bool"
            <4>1. v \in BOOLEAN
                BY <3>1, ValueCases DEF c
            <4>2. w = IF v THEN <<1>> ELSE <<0>>
                BY <2>0, <3>1 DEF w, WritePayload
            <4> QED
                BY <3>1, <4>1, <4>2, VarintLow
        <3>2. CASE c # "bool"
            BY <1>6, <2>0, <3>2 DEF w, WritePayload, VarintTypes
        <3> QED
            BY <3>1, <3>2
    <2> HIDE DEF n
    <2>3. tag % 8 = 0
        BY <1>1, <1>6, <2>0 DEF WireType
    <2>4. ReadField(piece \o r) = {p}
        BY <1>1, <1>2, <2>1, <2>2, <2>3, ReadNumber
    <2>5. p.tag = tag /\ p.value = n /\ p.rest = r
        BY DEF Number
    <2> HIDE DEF p
    <2>6. ReadCase(k, m, q, p) = {Store(k, m, f, v)}
        <3>1. CASE c = "bool"
            <4>1. (n # 0) = v
                BY <3>1, ValueCases DEF c, n
            <4>2. ReadCase(k, m, q, p) = {Store(k, m, f, n # 0)}
                BY <1>4, <2>0, <2>5, <3>1 DEF ReadCase
            <4> QED
                BY <4>1, <4>2
        <3>2. CASE c # "bool"
            <4>1. n = v
                BY <3>2 DEF n
            <4>2. ReadCase(k, m, q, p) = {Store(k, m, f, n)}
                BY <1>4, <1>6, <2>0, <2>5, <3>2 DEF ReadCase, VarintTypes
            <4> QED
                BY <4>1, <4>2
        <3> QED
            BY <3>1, <3>2
    <2>7. Store(k, m, f, v) = Taken(k, m, f, v)
        BY <1>6 DEF Store, Taken, MergedValue, Scalars, c
    <2> QED
        BY <1>3, <2>4, <2>5, <2>6, <2>7 DEF t, piece, ReadsAs
<1>7. CASE c = "string"
    <2> DEFINE p == Chunk(tag, v, r)
    <2>0. t.type = c
        BY <1>1, <1>7 DEF Scalars
    <2>1. v \in Bytes
        BY <1>7, ValueCases, BytesAreBytes DEF c
    <2>2. w = Varint(Len(v)) \o v
        BY <1>7, <2>0 DEF w, WritePayload
    <2>3. tag % 8 = 2
        BY <1>1, <1>7, <2>0 DEF WireType, VarintTypes
    <2>4. ReadField(piece \o r) = {p}
        BY <1>1, <1>2, <2>1, <2>2, <2>3, ReadChunk
    <2>5. p.tag = tag /\ p.bytes = v /\ p.rest = r
        BY DEF Chunk
    <2> HIDE DEF p
    <2>6. ReadCase(k, m, q, p) = {Store(k, m, f, v)}
        BY <1>4, <1>7, <2>0, <2>5 DEF ReadCase
    <2>7. Store(k, m, f, v) = Taken(k, m, f, v)
        BY <1>7 DEF Store, Taken, MergedValue, Scalars, c
    <2> QED
        BY <1>3, <2>4, <2>5, <2>6, <2>7 DEF t, piece, ReadsAs
<1>8. CASE c \notin Scalars
    <2> DEFINE s == SerializeIn(c, v)
               p == Chunk(tag, s, r)
               o == Target(k, m, f)
    <2>0. t.type = "message"
        BY <1>1, <1>8
    <2>1. ObjectIn(c, v) /\ ObjectIn(c, o)
        <3>1. ObjectIn(c, v)
            BY <1>8, ValueCases DEF c
        <3>2. IsList(k, f) => ObjectIn(c, o)
            BY <1>5, <1>8 DEF GoodIn, Target, c
        <3>3. ~ IsList(k, f) => ObjectIn(c, o)
            BY <1>8, ValueCases DEF Ready, Target, c
        <3> QED
            BY <3>1, <3>2, <3>3
    <2>2. s \in Bytes /\ w = Varint(Len(s)) \o s
        <3>1. s \in Seq(Byte) /\ ByteSizeIn(c, v) = Len(s)
            BY <1>5, <1>8, <2>1 DEF GoodIn
        <3>2. w = Varint(ByteSizeIn(c, v)) \o s
            BY <2>0 DEF w, WritePayload
        <3> QED
            BY <3>1, <3>2, BytesAreBytes
    <2>3. tag % 8 = 2
        BY <1>1, <2>0 DEF WireType, VarintTypes
    <2>4. ParseIn(c, o, s) = {MergeFromIn(c, o, v)}
        BY <1>5, <1>8, <2>1 DEF GoodIn
    <2>5. IsList(k, f) => MergeFromIn(c, o, v) = v
        BY <1>5, <1>8, <2>1 DEF GoodIn, Target, c
    <2> HIDE DEF s
    <2>6. ReadField(piece \o r) = {p}
        BY <1>1, <1>2, <2>2, <2>3, ReadChunk
    <2>7. p.tag = tag /\ p.bytes = s /\ p.rest = r
        BY DEF Chunk
    <2> HIDE DEF p
    <2>8. ReadCase(k, m, q, p) = {Store(k, m, f, u) : u \in ParseIn(c, o, s)}
        BY <1>4, <2>0, <2>7 DEF ReadCase, c
    <2>9. ReadCase(k, m, q, p) = {Store(k, m, f, MergeFromIn(c, o, v))}
        BY <2>4, <2>8
    <2>10. Store(k, m, f, MergeFromIn(c, o, v)) = Taken(k, m, f, v)
        BY <1>8, <2>5 DEF Store, Taken, MergedValue, Target, c
    <2> QED
        BY <1>3, <2>6, <2>7, <2>9, <2>10 DEF t, piece, ReadsAs
<1> QED
    BY <1>6, <1>7, <1>8 DEF Scalars, t, piece

LEMMA ParsePiece ==
    ASSUME NEW k, Sound(k), NEW i \in Rows(k), NEW f, f = NameOf(k, i),
           NEW m, Ready(k, m, f),
           NEW v, IsValue(TypeOf(k, f), v), NEW r \in Bytes
    PROVE  Parse(k, m, Piece(k, Row(k, i), v) \o r) = Parse(k, Taken(k, m, f, v), r)
<1> DEFINE piece == Piece(k, Row(k, i), v)
           b == piece \o r
           n == Taken(k, m, f, v)
<1>1. ReadsAs(b, r, k, m, n)
    BY ReadPiece
<1>2. piece \in Bytes
    BY RowIs, PieceIsBytes, BytesAreBytes
<1>3. b \in Bytes
    BY <1>2, BytesConcat
<1> HIDE DEF b, n
<1>4. Parse(k, m, b) = Parse(k, n, r)
    BY <1>1, <1>3, ParseReads
<1> QED
    BY <1>4 DEF b, n

LEMMA IsSeqOf ==
    ASSUME NEW S, NEW n \in Nat, NEW g \in [1 .. n -> S]
    PROVE  g \in Seq(S) /\ Len(g) = n
<1>1. g \in Seq(S)
    BY SeqDef
<1>2. DOMAIN g = 1 .. n /\ DOMAIN g = 1 .. Len(g) /\ Len(g) \in Nat
    BY <1>1, LenProperties
<1> QED
    BY <1>1, <1>2

LEMMA AppendOf ==
    ASSUME NEW S, NEW s \in Seq(S), NEW x \in S
    PROVE  /\ Append(s, x) \in Seq(S) /\ Len(Append(s, x)) = Len(s) + 1
           /\ \A i \in 1 .. Len(s) + 1 : Append(s, x)[i] = IF i = Len(s) + 1 THEN x ELSE s[i]
<1>1. Len(s) \in Nat
    OBVIOUS
<1> QED
    BY <1>1

LEMMA WriteAllIs ==
    ASSUME NEW k, NEW t, NEW T, \A v \in T : Piece(k, t, v) \in Seq(Byte)
    PROVE  /\ WriteAll(k, t, <<>>) = <<>>
           /\ \A s \in Seq(T) : WriteAll(k, t, s) \in Seq(Byte)
           /\ \A s \in Seq(T), v \in T :
                WriteAll(k, t, Append(s, v)) = WriteAll(k, t, s) \o Piece(k, t, v)
<1> DEFINE P(v) == Piece(k, t, v)
           Q(s) == [i \in DOMAIN s |-> P(s[i])]
<1>1. \A s : WriteAll(k, t, s) = FlattenSeq(Q(s))
    BY DEF WriteAll, Piece
<1> HIDE DEF P
<1>2. \A v \in T : P(v) \in Seq(Byte)
    BY DEF P
<1>3. ASSUME NEW s \in Seq(T) PROVE Q(s) \in Seq(Seq(Byte))
    <2>1. DOMAIN s = 1 .. Len(s) /\ Len(s) \in Nat /\ \A i \in 1 .. Len(s) : s[i] \in T
        BY LenProperties
    <2>2. Q(s) \in [1 .. Len(s) -> Seq(Byte)]
        BY <1>2, <2>1
    <2> HIDE DEF Q
    <2> QED
        BY <2>1, <2>2, IsSeqOf
<1>4. ASSUME NEW s \in Seq(T), NEW v \in T PROVE Q(Append(s, v)) = Append(Q(s), P(v))
    <2>1. DOMAIN s = 1 .. Len(s) /\ Len(s) \in Nat
        BY LenProperties
    <2>2. Append(s, v) \in Seq(T) /\ Len(Append(s, v)) = Len(s) + 1
          /\ DOMAIN Append(s, v) = 1 .. Len(s) + 1
          /\ (\A i \in 1 .. Len(s) : Append(s, v)[i] = s[i])
          /\ Append(s, v)[Len(s) + 1] = v
        BY <2>1
    <2>3. Q(Append(s, v)) \in Seq(Seq(Byte)) /\ Q(s) \in Seq(Seq(Byte)) /\ P(v) \in Seq(Byte)
        BY <1>2, <1>3, <2>2
    <2>4. Len(Q(Append(s, v))) = Len(s) + 1 /\ Len(Q(s)) = Len(s)
        <3>1. DOMAIN Q(Append(s, v)) = 1 .. Len(s) + 1 /\ DOMAIN Q(s) = 1 .. Len(s)
            BY <2>1, <2>2
        <3> HIDE DEF Q
        <3> QED
            BY <2>1, <2>3, <3>1, LenProperties
    <2>5. \A i \in 1 .. Len(s) + 1 :
            Q(Append(s, v))[i] = IF i = Len(s) + 1 THEN P(v) ELSE Q(s)[i]
        BY <2>1, <2>2
    <2> HIDE DEF Q
    <2>6. Append(Q(s), P(v)) \in Seq(Seq(Byte)) /\ Len(Append(Q(s), P(v))) = Len(s) + 1
          /\ \A i \in 1 .. Len(s) + 1 :
               Append(Q(s), P(v))[i] = IF i = Len(s) + 1 THEN P(v) ELSE Q(s)[i]
        BY <2>1, <2>3, <2>4, AppendOf
    <2> QED
        BY <2>3, <2>4, <2>5, <2>6, SeqEqual
<1>5. Q(<<>>) = <<>>
    BY DEF Q
<1> HIDE DEF Q
<1>6. WriteAll(k, t, <<>>) = <<>>
    BY <1>1, <1>5, FlattenNothing
<1>7. \A s \in Seq(T) : WriteAll(k, t, s) \in Seq(Byte)
    BY <1>1, <1>3, FlattenType
<1>8. ASSUME NEW s \in Seq(T), NEW v \in T
      PROVE  WriteAll(k, t, Append(s, v)) = WriteAll(k, t, s) \o P(v)
    <2>1. FlattenSeq(Append(Q(s), P(v))) = FlattenSeq(Q(s)) \o P(v)
        BY <1>2, <1>3, FlattenAppend
    <2> QED
        BY <1>1, <1>4, <2>1, Zenon
<1> QED
    BY <1>6, <1>7, <1>8 DEF P

LEMMA AppendConcat ==
    ASSUME NEW S, NEW s \in Seq(S), NEW t \in Seq(S), NEW x \in S
    PROVE  s \o Append(t, x) = Append(s \o t, x)
<1>1. s \o t \in Seq(S) /\ Append(t, x) \in Seq(S) /\ Len(s) \in Nat /\ Len(t) \in Nat
      /\ Len(s \o t) = Len(s) + Len(t) /\ Len(Append(t, x)) = Len(t) + 1
    BY ConcatProperties, AppendOf, LenProperties
<1> DEFINE a == Append(s \o t, x)
           b == s \o Append(t, x)
<1>2. a \in Seq(S) /\ Len(a) = Len(s) + Len(t) + 1
      /\ b \in Seq(S) /\ Len(b) = Len(s) + Len(t) + 1
    BY <1>1, ConcatProperties, AppendOf
<1>3. ASSUME NEW i \in 1 .. Len(s) + Len(t) + 1 PROVE a[i] = b[i]
    <2>1. CASE i <= Len(s)
        BY <1>1, <2>1, ConcatProperties, AppendOf
    <2>2. CASE ~ (i <= Len(s)) /\ i # Len(s) + Len(t) + 1
        BY <1>1, <2>2, ConcatProperties, AppendOf, SMTT(30)
    <2>3. CASE i = Len(s) + Len(t) + 1
        BY <1>1, <2>3, ConcatProperties, AppendOf
    <2> QED
        BY <2>1, <2>2, <2>3
<1> HIDE DEF a, b
<1>4. a = b
    BY <1>2, <1>3, SeqEqual
<1> QED
    BY <1>4 DEF a, b

\* Object m after the list was read into its field f
Grown(k, m, f, list) ==
  [bits |-> m.bits, unknown |-> m.unknown, val |-> With(k, m.val, f, m.val[f] \o list)]

LEMMA GrownIs ==
    ASSUME NEW k, NEW m, Shaped(k, m), NEW f \in Members(k), NEW T,
           NEW s \in Seq(T), m.val[f] \in Seq(T)
    PROVE  /\ Shaped(k, Grown(k, m, f, s))
           /\ Grown(k, m, f, <<>>) = m
           /\ \A v \in T : Add(Grown(k, m, f, s), f, v) = Grown(k, m, f, Append(s, v))
<1> DEFINE n == Grown(k, m, f, s)
           a == m.val[f]
<1>1. n = [bits |-> m.bits, unknown |-> m.unknown, val |-> With(k, m.val, f, a \o s)]
    BY DEF Grown
<1>2. Grown(k, m, f, <<>>) = m
    <2>1. a \o <<>> = a
        BY ConcatEmptySeq
    <2>2. With(k, m.val, f, a) = m.val
        BY DEF With, Shaped
    <2>3. Grown(k, m, f, <<>>) = [bits |-> m.bits, unknown |-> m.unknown, val |-> m.val]
        BY <2>1, <2>2 DEF Grown
    <2> QED
        BY <2>3 DEF Shaped
<1> HIDE DEF n
<1>3. Shaped(k, n)
    BY <1>1 DEF Shaped, With
<1>4. ASSUME NEW v \in T PROVE Add(n, f, v) = Grown(k, m, f, Append(s, v))
    <2>0. a \in Seq(T)
        OBVIOUS
    <2>1. a \o Append(s, v) = Append(a \o s, v)
        <3> HIDE DEF a
        <3> QED
            BY <2>0, AppendConcat
    <2>2. n.val = With(k, m.val, f, a \o s) /\ n.bits = m.bits /\ n.unknown = m.unknown
        BY <1>1
    <2> DEFINE u == a \o s
    <2>3. n.val[f] = u
        BY <2>2 DEF With
    <2>4. With(k, n.val, f, Append(n.val[f], v)) = With(k, m.val, f, Append(u, v))
        <3> HIDE DEF u
        <3> DEFINE x == Append(u, v)
        <3> HIDE DEF x
        <3>1. With(k, With(k, m.val, f, u), f, x) = With(k, m.val, f, x)
            BY DEF With
        <3>2. n.val = With(k, m.val, f, u)
            BY <2>2 DEF u
        <3> QED
            BY <2>3, <3>1, <3>2 DEF x
    <2>5. Add(n, f, v) = [bits |-> n.bits, unknown |-> n.unknown,
                          val |-> With(k, n.val, f, Append(n.val[f], v))]
        BY <1>3, AddIs
    <2> HIDE DEF a
    <2> QED
        BY <2>1, <2>2, <2>4, <2>5, Zenon DEF Grown, a
<1> QED
    BY <1>2, <1>3, <1>4 DEF n

LEMMA ParseList ==
    ASSUME NEW k, Sound(k), NEW i \in Rows(k), NEW f, f = NameOf(k, i),
           IsList(k, f), NEW m, Shaped(k, m), IsSequence(m.val[f]),
           NEW list, IsSequence(list), \A j \in DOMAIN list : IsValue(TypeOf(k, f), list[j])
    PROVE  \A r \in Bytes : Parse(k, m, WriteAll(k, Row(k, i), list) \o r)
                            = Parse(k, Grown(k, m, f, list), r)
<1> DEFINE t == Row(k, i)
           T == {list[j] : j \in DOMAIN list}
           U == T \cup {m.val[f][j] : j \in DOMAIN m.val[f]}
           W(s) == WriteAll(k, t, s)
           G(s) == Grown(k, m, f, s)
           S == {s \in Seq(T) : \A r \in Bytes : Parse(k, m, W(s) \o r) = Parse(k, G(s), r)}
<1>0. f \in Members(k) /\ TypeOf(k, f) = FieldOf(k, i).type
    BY RowIs
<1>1. \A v \in T : IsValue(TypeOf(k, f), v)
    OBVIOUS
<1>2. list \in Seq(T)
    BY DEF IsSequence
<1>3. \A v \in T : Piece(k, t, v) \in Seq(Byte)
    BY <1>0, <1>1, PieceIsBytes
<1>4. m.val[f] \in Seq(U) /\ \A s \in Seq(T) : s \in Seq(U)
    <2>1. T \subseteq U /\ {m.val[f][j] : j \in DOMAIN m.val[f]} \subseteq U
        OBVIOUS
    <2> HIDE DEF T, U
    <2> QED
        BY <2>1, SeqMonotonic DEF IsSequence
<1>5. T \subseteq U
    OBVIOUS
<1> HIDE DEF T, U
<1>6. /\ W(<<>>) = <<>>
      /\ \A s \in Seq(T) : W(s) \in Bytes
      /\ \A s \in Seq(T), v \in T : W(Append(s, v)) = W(s) \o Piece(k, t, v)
    BY <1>3, WriteAllIs, BytesAreBytes
<1>7. \A s \in Seq(T) :
        /\ Shaped(k, G(s)) /\ G(<<>>) = m
        /\ \A v \in T : Add(G(s), f, v) = G(Append(s, v))
    BY <1>0, <1>4, <1>5, GrownIs
<1>8. \A v \in T : Piece(k, t, v) \in Bytes
    BY <1>3, BytesAreBytes
<1> DEFINE P(v) == Piece(k, t, v)
<1>9. ASSUME NEW n, NEW v \in T, NEW r \in Bytes
      PROVE  Parse(k, n, P(v) \o r) = Parse(k, Add(n, f, v), r)
    <2>1. IsValue(TypeOf(k, f), v) /\ Ready(k, n, f) /\ Taken(k, n, f, v) = Add(n, f, v)
        BY <1>1 DEF Ready, Taken
    <2>2. Parse(k, n, Piece(k, t, v) \o r) = Parse(k, Taken(k, n, f, v), r)
        BY <2>1, ParsePiece
    <2> QED
        BY <2>1, <2>2
<1> HIDE DEF W, G, P
<1>10. <<>> \in S
    <2>1. <<>> \in Seq(T)
        BY EmptySeq
    <2>2. \A r \in Bytes : W(<<>>) \o r = r
        BY <1>6, ConcatEmptySeq DEF Bytes
    <2> QED
        BY <1>7, <2>1, <2>2
<1>11. ASSUME NEW s \in Seq(T), NEW v \in T, s \in S PROVE Append(s, v) \in S
    <2>1. ASSUME NEW r \in Bytes PROVE Parse(k, m, W(Append(s, v)) \o r) = Parse(k, G(Append(s, v)), r)
        <3>0. W(s) \in Bytes /\ P(v) \in Bytes /\ P(v) \o r \in Bytes
            BY <1>6, <1>8, BytesConcat DEF P
        <3>1. W(Append(s, v)) = W(s) \o P(v)
            BY <1>6 DEF P
        <3>2. (W(s) \o P(v)) \o r = W(s) \o (P(v) \o r)
            BY <3>0, BytesConcat, Zenon
        <3>3. Parse(k, m, W(s) \o (P(v) \o r)) = Parse(k, G(s), P(v) \o r)
            BY <1>11, <3>0
        <3>4. Parse(k, G(s), P(v) \o r) = Parse(k, Add(G(s), f, v), r)
            BY <1>9
        <3>5. Add(G(s), f, v) = G(Append(s, v))
            BY <1>7
        <3> QED
            BY <3>1, <3>2, <3>3, <3>4, <3>5, Zenon
    <2>2. Append(s, v) \in Seq(T)
        OBVIOUS
    <2> QED
        BY <2>1, <2>2
<1> HIDE DEF S
<1>12. \A s \in Seq(T) : s \in S
    BY <1>10, <1>11, AppendInduction
<1> QED
    BY <1>2, <1>12 DEF S, W, G

-----------------------------------------------------------------------------
(* The parser, row by row *)

\* The bits that b has for field f
BitsOf(k, b, f) == IF IsList(k, f) \/ ~ Has(k, b, f) THEN {} ELSE {Classes[k].has[f]}

\* Object n after field f of b was read into it
RowTaken(k, n, b, f) ==
  [bits |-> n.bits \cup BitsOf(k, b, f), unknown |-> n.unknown,
   val |-> With(k, n.val, f, MergedMember(k, f, n, b))]

\* What row i writes of b
RowBytes(k, b, i) == WriteAll(k, Row(k, i), Written(b, Row(k, i)))

Holds(k, f, n) == IsMember(k, f, n.val[f])

LEMMA WrittenIs ==
    ASSUME NEW k, Sound(k), NEW i \in Rows(k), NEW f, f = NameOf(k, i), NEW b
    PROVE  /\ IsList(k, f) => Written(b, Row(k, i)) = b.val[f]
           /\ ~ IsList(k, f) => /\ ~ Has(k, b, f) => Written(b, Row(k, i)) = <<>>
                                /\ Has(k, b, f) => Written(b, Row(k, i)) = <<b.val[f]>>
<1> DEFINE t == Row(k, i)
<1>1. t.field = f /\ f \in Members(k)
      /\ t.bit = IF IsList(k, f) THEN Always ELSE Classes[k].has[f]
    BY RowIs DEF FitsRow, NameOf, IsList
<1>2. ~ IsList(k, f) => Classes[k].has[f] # Always
    <2>1. ~ IsList(k, f) => f \in DOMAIN Classes[k].has
        BY <1>1, MembersSplit
    <2> QED
        BY <2>1 DEF Sound, Fits, FitsMembers
<1> HIDE DEF t
<1>3. CASE IsList(k, f)
    BY <1>1, <1>3 DEF Written, t
<1>4. CASE ~ IsList(k, f)
    BY <1>1, <1>2, <1>4 DEF Written, Has, t
<1> QED
    BY <1>3, <1>4

LEMMA ParseRow ==
    ASSUME NEW k, Sound(k), NEW i \in Rows(k), NEW f, f = NameOf(k, i),
           NEW n, Shaped(k, n), Holds(k, f, n), NEW b, Object(k, b), NEW r \in Bytes
    PROVE  /\ RowBytes(k, b, i) \in Bytes
           /\ Parse(k, n, RowBytes(k, b, i) \o r) = Parse(k, RowTaken(k, n, b, f), r)
<1> DEFINE t == Row(k, i)
           c == TypeOf(k, f)
           list == Written(b, t)
           o == RowTaken(k, n, b, f)
<1>0. f \in Members(k) /\ c = FieldOf(k, i).type /\ t.field = f
    BY RowIs DEF NameOf
<1>a. c \notin Scalars => GoodIn(c)
    BY <1>0 DEF Sound
<1>b. IsMember(k, f, n.val[f]) /\ IsMember(k, f, b.val[f])
    BY <1>0 DEF Holds, Object
<1>c. RowBytes(k, b, i) = WriteAll(k, t, list)
    BY DEF RowBytes
<1>1. CASE IsList(k, f)
    <2> DEFINE old == n.val[f]
               new == b.val[f]
    <2>1. IsSequence(old) /\ IsSequence(new) /\ \A j \in DOMAIN new : IsValue(c, new[j])
        BY <1>b, <1>1 DEF IsMember
    <2>2. list = new
        BY <1>1, WrittenIs
    <2>3. MergedMember(k, f, n, b) = MergedList(c, old, new)
        BY <1>1 DEF MergedMember
    <2>4. o = [bits |-> n.bits \cup {}, unknown |-> n.unknown,
               val |-> With(k, n.val, f, MergedList(c, old, new))]
        BY <1>1, <2>3 DEF RowTaken, BitsOf
    <2>5. IsSequence(n.val[f])
        BY <2>1
    <2> HIDE DEF c, list, o, new
    <2>6. MergedList(c, old, new) = old \o new
        BY <1>a, <2>1, MergedListIs
    <2>7. o = Grown(k, n, f, new)
        <3>1. n.bits \cup {} = n.bits
            OBVIOUS
        <3> QED
            BY <2>4, <2>6, <3>1 DEF Grown
    <2>8. Parse(k, n, WriteAll(k, t, new) \o r) = Parse(k, Grown(k, n, f, new), r)
        BY <1>1, <2>1, <2>5, ParseList DEF c
    <2>9. WriteAll(k, t, new) \in Bytes
        <3> DEFINE T == {new[j] : j \in DOMAIN new}
        <3>1. \A v \in T : Piece(k, t, v) \in Seq(Byte)
            BY <1>0, <2>1, PieceIsBytes
        <3>2. new \in Seq(T)
            BY <2>1 DEF IsSequence
        <3> HIDE DEF T
        <3> QED
            BY <3>1, <3>2, WriteAllIs, BytesAreBytes
    <2> QED
        BY <1>c, <2>2, <2>7, <2>8, <2>9 DEF o
<1>2. CASE ~ IsList(k, f) /\ ~ Has(k, b, f)
    <2>1. RowBytes(k, b, i) = <<>>
        <3>1. list = <<>>
            BY <1>2, WrittenIs
        <3>2. WriteAll(k, t, <<>>) = <<>>
            <4> DEFINE s == [j \in DOMAIN <<>> |->
                        Tag(t.number, t.type) \o WritePayload(t.type, TypeOf(k, t.field), <<>>[j])]
            <4>1. s = <<>>
                OBVIOUS
            <4>2. WriteAll(k, t, <<>>) = FlattenSeq(s)
                BY DEF WriteAll
            <4> HIDE DEF s
            <4> QED
                BY <4>1, <4>2, FlattenNothing
        <3> QED
            BY <1>c, <3>1, <3>2
    <2>2. o = n
        <3>1. MergedMember(k, f, n, b) = n.val[f]
            BY <1>2 DEF MergedMember
        <3>2. With(k, n.val, f, n.val[f]) = n.val
            BY DEF With, Shaped
        <3>3. BitsOf(k, b, f) = {} /\ n.bits \cup {} = n.bits
            BY <1>2 DEF BitsOf
        <3>4. o = [bits |-> n.bits, unknown |-> n.unknown, val |-> n.val]
            BY <3>1, <3>2, <3>3 DEF RowTaken
        <3> HIDE DEF o
        <3> QED
            BY <3>4 DEF Shaped
    <2>3. <<>> \o r = r /\ <<>> \in Bytes
        BY ConcatEmptySeq, EmptySeq DEF Bytes
    <2> HIDE DEF o
    <2> QED
        BY <2>1, <2>2, <2>3 DEF o
<1>3. CASE ~ IsList(k, f) /\ Has(k, b, f)
    <2> DEFINE v == b.val[f]
    <2>1. list = <<v>>
        BY <1>3, WrittenIs
    <2>2. IsValue(c, v) /\ Ready(k, n, f)
        BY <1>b, <1>3 DEF IsMember, Ready
    <2> HIDE DEF v, c
    <2>3. Piece(k, t, v) \in Seq(Byte)
        BY <1>0, <2>2, PieceIsBytes
    <2>4. WriteAll(k, t, <<v>>) = Piece(k, t, v)
        <3>1. \A x \in {v} : Piece(k, t, x) \in Seq(Byte)
            BY <2>3
        <3>2. WriteAll(k, t, <<>>) = <<>>
              /\ WriteAll(k, t, Append(<<>>, v)) = WriteAll(k, t, <<>>) \o Piece(k, t, v)
            <4>1. <<>> \in Seq({v}) /\ v \in {v}
                BY EmptySeq
            <4> QED
                BY <3>1, <4>1, WriteAllIs
        <3>3. Append(<<>>, v) = <<v>>
            OBVIOUS
        <3>4. <<>> \o Piece(k, t, v) = Piece(k, t, v)
            BY <2>3, ConcatEmptySeq
        <3> QED
            BY <3>2, <3>3, <3>4, Zenon
    <2>5. Parse(k, n, Piece(k, t, v) \o r) = Parse(k, Taken(k, n, f, v), r)
        BY <2>2, ParsePiece DEF c
    <2>6. Taken(k, n, f, v) = o
        <3> DEFINE u == MergedValue(TypeOf(k, f), n.val[f], v)
        <3>1. Taken(k, n, f, v) = Set(k, n, f, u)
            BY <1>3 DEF Taken
        <3>2. MergedMember(k, f, n, b) = u
            BY <1>3 DEF MergedMember, v
        <3>3. BitsOf(k, b, f) = {Classes[k].has[f]}
            BY <1>3 DEF BitsOf
        <3> HIDE DEF u
        <3>4. Set(k, n, f, u) = [bits |-> n.bits \cup {Classes[k].has[f]}, unknown |-> n.unknown,
                                 val |-> With(k, n.val, f, u)]
            BY <1>0, SetIs
        <3> QED
            BY <3>1, <3>2, <3>3, <3>4 DEF RowTaken
    <2>7. Piece(k, t, v) \in Bytes
        BY <2>3, BytesAreBytes
    <2> HIDE DEF o, list
    <2> QED
        BY <1>c, <2>1, <2>4, <2>5, <2>6, <2>7 DEF o
<1> QED
    BY <1>1, <1>2, <1>3

\* Object m after the first i rows of b were read into it, and the bytes of those rows
Upto(k, m, b, i) ==
  [bits |-> m.bits \cup UNION {BitsOf(k, b, NameOf(k, j)) : j \in 1 .. i},
   unknown |-> m.unknown,
   val |-> [f \in Members(k) |->
             IF \E j \in 1 .. i : NameOf(k, j) = f THEN MergedMember(k, f, m, b) ELSE m.val[f]]]
UptoBytes(k, b, i) == FlattenSeq([j \in 1 .. i |-> RowBytes(k, b, j)])

LEMMA ObjectIsShaped ==
    ASSUME NEW k, NEW m, Object(k, m)
    PROVE  Shaped(k, m) /\ \A f \in Members(k) : Holds(k, f, m)
BY DEF Object, Shaped, Holds

LEMMA RowsAre ==
    ASSUME NEW k, Sound(k)
    PROVE  /\ Len(Schemas[k]) \in Nat
           /\ Rows(k) = 1 .. Len(Schemas[k])
           /\ Members(k) = {NameOf(k, i) : i \in Rows(k)}
           /\ \A i, j \in Rows(k) : NameOf(k, i) = NameOf(k, j) => i = j
           /\ DOMAIN Classes[k].serialize = Rows(k)
<1> DEFINE s == Schemas[k]
<1>1. /\ Len(s) \in Nat /\ DOMAIN s = 1 .. Len(s) /\ DOMAIN Classes[k].serialize = DOMAIN s
      /\ DOMAIN Classes[k].type = {s[i].name : i \in DOMAIN s}
      /\ \A i, j \in DOMAIN s : s[i].name = s[j].name => i = j
    BY DEF Sound, Fits, FitsRows
<1>2. \A i : NameOf(k, i) = s[i].name
    BY DEF NameOf, FieldOf
<1>3. Rows(k) = DOMAIN s /\ Members(k) = DOMAIN Classes[k].type
    BY DEF Rows, Members
<1> HIDE DEF s
<1> QED
    BY <1>1, <1>2, <1>3 DEF s

LEMMA UptoStep ==
    ASSUME NEW k, Sound(k), NEW m, Object(k, m), NEW b, NEW i \in Nat, i + 1 \in Rows(k)
    PROVE  /\ Shaped(k, Upto(k, m, b, i))
           /\ Holds(k, NameOf(k, i + 1), Upto(k, m, b, i))
           /\ RowTaken(k, Upto(k, m, b, i), b, NameOf(k, i + 1)) = Upto(k, m, b, i + 1)
<1> DEFINE f == NameOf(k, i + 1)
           Read(n) == {NameOf(k, j) : j \in 1 .. n}
           n == Upto(k, m, b, i)
           val(D) == [g \in Members(k) |-> IF g \in D THEN MergedMember(k, g, m, b) ELSE m.val[g]]
           bits(n0) == UNION {BitsOf(k, b, NameOf(k, j)) : j \in 1 .. n0}
<1>0. \A n0 : Upto(k, m, b, n0) = [bits |-> m.bits \cup bits(n0), unknown |-> m.unknown,
                                   val |-> val(Read(n0))]
    <2>1. ASSUME NEW n0, NEW g \in Members(k)
          PROVE (IF \E j \in 1 .. n0 : NameOf(k, j) = g THEN MergedMember(k, g, m, b) ELSE m.val[g])
                = IF g \in Read(n0) THEN MergedMember(k, g, m, b) ELSE m.val[g]
        OBVIOUS
    <2> HIDE DEF Read, bits
    <2>2. ASSUME NEW n0
          PROVE  [g \in Members(k) |->
                   IF \E j \in 1 .. n0 : NameOf(k, j) = g THEN MergedMember(k, g, m, b) ELSE m.val[g]]
                 = val(Read(n0))
        BY <2>1
    <2> HIDE DEF val
    <2> QED
        BY <2>2 DEF Upto, bits
<1>1. f \in Members(k) /\ f \notin Read(i) /\ Read(i + 1) = Read(i) \cup {f}
    <2>1. \A j \in 1 .. i : j \in Rows(k) /\ j # i + 1
        BY RowsAre
    <2>2. f \notin Read(i)
        BY <2>1, RowsAre
    <2>3. 1 .. i + 1 = (1 .. i) \cup {i + 1}
        OBVIOUS
    <2>4. Read(i + 1) = Read(i) \cup {f}
        BY <2>3
    <2> QED
        BY <2>2, <2>4, RowIs
<1>2. bits(i + 1) = bits(i) \cup BitsOf(k, b, f)
    <2>1. 1 .. i + 1 = (1 .. i) \cup {i + 1}
        OBVIOUS
    <2> DEFINE B(j) == BitsOf(k, b, NameOf(k, j))
    <2> HIDE DEF B
    <2>2. UNION {B(j) : j \in 1 .. i + 1} = (UNION {B(j) : j \in 1 .. i}) \cup B(i + 1)
        BY <2>1
    <2> QED
        BY <2>2 DEF B
<1> HIDE DEF Read, bits, val
<1>3. n = [bits |-> m.bits \cup bits(i), unknown |-> m.unknown, val |-> val(Read(i))]
    BY <1>0
<1> HIDE DEF n
<1>4. n.bits = m.bits \cup bits(i) /\ n.unknown = m.unknown /\ n.val = val(Read(i))
    BY <1>3
<1>5. n.val = [g \in Members(k) |-> n.val[g]]
    BY <1>4 DEF val
<1>6. Shaped(k, n)
    BY <1>3, <1>4, <1>5 DEF Shaped
<1>7. n.val[f] = m.val[f]
    BY <1>1, <1>4 DEF val
<1>8. Holds(k, f, n)
    BY <1>1, <1>7, ObjectIsShaped DEF Holds
<1>9. MergedMember(k, f, n, b) = MergedMember(k, f, m, b)
    BY <1>7 DEF MergedMember
<1>10. With(k, n.val, f, MergedMember(k, f, m, b)) = val(Read(i + 1))
    BY <1>1, <1>4 DEF With, val
<1>11. n.bits \cup BitsOf(k, b, f) = m.bits \cup bits(i + 1)
    BY <1>2, <1>4
<1>12. RowTaken(k, n, b, f) = [bits |-> m.bits \cup bits(i + 1), unknown |-> m.unknown,
                               val |-> val(Read(i + 1))]
    BY <1>4, <1>9, <1>10, <1>11 DEF RowTaken
<1> QED
    BY <1>0, <1>6, <1>8, <1>12 DEF n

LEMMA UptoBytesStep ==
    ASSUME NEW k, Sound(k), NEW b, NEW i \in Nat,
           \A j \in 1 .. i + 1 : RowBytes(k, b, j) \in Bytes
    PROVE  /\ UptoBytes(k, b, i) \in Bytes
           /\ UptoBytes(k, b, i + 1) = UptoBytes(k, b, i) \o RowBytes(k, b, i + 1)
<1> DEFINE R(j) == RowBytes(k, b, j)
           s(n) == [j \in 1 .. n |-> R(j)]
<1>1. \A j \in 1 .. i + 1 : R(j) \in Bytes
    OBVIOUS
<1> HIDE DEF R
<1>2. s(i) \in Seq(Bytes) /\ Len(s(i)) = i /\ s(i + 1) \in Seq(Bytes) /\ Len(s(i + 1)) = i + 1
    <2>1. s(i) \in [1 .. i -> Bytes] /\ s(i + 1) \in [1 .. i + 1 -> Bytes]
        BY <1>1
    <2> HIDE DEF s
    <2>2. i + 1 \in Nat
        OBVIOUS
    <2> QED
        BY <2>1, <2>2, IsSeqOf
<1>3. s(i + 1) = Append(s(i), R(i + 1))
    <2>1. \A j \in 1 .. i + 1 : s(i + 1)[j] = IF j = i + 1 THEN R(i + 1) ELSE s(i)[j]
        OBVIOUS
    <2>2. R(i + 1) \in Bytes
        BY <1>1
    <2> HIDE DEF s
    <2>3. Append(s(i), R(i + 1)) \in Seq(Bytes) /\ Len(Append(s(i), R(i + 1))) = i + 1
          /\ \A j \in 1 .. i + 1 :
               Append(s(i), R(i + 1))[j] = IF j = i + 1 THEN R(i + 1) ELSE s(i)[j]
        BY <1>2, <2>2, AppendOf
    <2> QED
        BY <1>2, <2>1, <2>3, SeqEqual
<1>4. \A n : UptoBytes(k, b, n) = FlattenSeq(s(n))
    BY DEF UptoBytes, R
<1>5. R(i + 1) \in Bytes
    BY <1>1
<1> HIDE DEF s
<1>6. FlattenSeq(s(i)) \in Bytes
    BY <1>2, FlattenType DEF Bytes
<1>7. FlattenSeq(Append(s(i), R(i + 1))) = FlattenSeq(s(i)) \o R(i + 1)
    BY <1>2, <1>5, FlattenAppend DEF Bytes
<1>8. UptoBytes(k, b, i + 1) = UptoBytes(k, b, i) \o R(i + 1)
    BY <1>3, <1>4, <1>7, Zenon
<1> QED
    BY <1>4, <1>6, <1>8 DEF R

LEMMA RowBytesType ==
    ASSUME NEW k, Sound(k), NEW b, Object(k, b), NEW i \in Rows(k)
    PROVE  RowBytes(k, b, i) \in Bytes
<1>1. Object(k, New(k))
    BY NewIsPlain DEF Plain
<1>2. NameOf(k, i) \in Members(k) /\ <<>> \in Bytes
    BY RowIs, EmptySeq DEF Bytes
<1>3. Shaped(k, New(k)) /\ Holds(k, NameOf(k, i), New(k))
    BY <1>1, <1>2, ObjectIsShaped
<1> QED
    BY <1>2, <1>3, ParseRow

LEMMA ParseUpto ==
    ASSUME NEW k, Sound(k), NEW m, Object(k, m), NEW b, Object(k, b)
    PROVE  \A i \in Nat : i <= Len(Schemas[k]) =>
             /\ UptoBytes(k, b, i) \in Bytes
             /\ \A r \in Bytes :
                  Parse(k, m, UptoBytes(k, b, i) \o r) = Parse(k, Upto(k, m, b, i), r)
<1> DEFINE N == Len(Schemas[k])
           U(i) == UptoBytes(k, b, i)
           O(i) == Upto(k, m, b, i)
           S == {i \in Nat : i <= N =>
                  U(i) \in Bytes /\ \A r \in Bytes : Parse(k, m, U(i) \o r) = Parse(k, O(i), r)}
<1>0. N \in Nat /\ Rows(k) = 1 .. N
    BY RowsAre
<1>1. \A i \in 1 .. N : RowBytes(k, b, i) \in Bytes
    BY <1>0, RowBytesType
<1>2. U(0) = <<>> /\ O(0) = m
    <2>1. 1 .. 0 = {}
        OBVIOUS
    <2>2. U(0) = <<>>
        <3> DEFINE s == [j \in 1 .. 0 |-> RowBytes(k, b, j)]
        <3>1. s = <<>>
            BY <2>1
        <3>2. UptoBytes(k, b, 0) = FlattenSeq(s)
            BY DEF UptoBytes
        <3> HIDE DEF s
        <3> QED
            BY <3>1, <3>2, FlattenNothing
    <2>3. O(0) = m
        <3> DEFINE B(j) == BitsOf(k, b, NameOf(k, j))
                   bits == UNION {B(j) : j \in 1 .. 0}
                   val == [f \in Members(k) |->
                            IF \E j \in 1 .. 0 : NameOf(k, j) = f
                            THEN MergedMember(k, f, m, b) ELSE m.val[f]]
        <3>1. bits = {}
            <4> HIDE DEF B
            <4> QED
                BY <2>1
        <3>2. val = m.val
            <4>1. ~ \E j \in 1 .. 0 : TRUE
                OBVIOUS
            <4> QED
                BY <4>1, ObjectIsShaped DEF Shaped
        <3>3. Upto(k, m, b, 0) = [bits |-> m.bits \cup bits, unknown |-> m.unknown, val |-> val]
            BY DEF Upto
        <3> HIDE DEF bits, val
        <3>4. Upto(k, m, b, 0) = [bits |-> m.bits, unknown |-> m.unknown, val |-> m.val]
            BY <3>1, <3>2, <3>3
        <3> QED
            BY <3>4, ObjectIsShaped DEF Shaped
    <2> QED
        BY <2>2, <2>3
<1>3. 0 \in S
    <2>1. \A r \in Bytes : <<>> \o r = r
        BY ConcatEmptySeq DEF Bytes
    <2>2. <<>> \in Bytes
        BY EmptySeq DEF Bytes
    <2> HIDE DEF U, O
    <2> QED
        BY <1>2, <2>1, <2>2
<1>4. ASSUME NEW i \in Nat, i \in S PROVE i + 1 \in S
    <2> SUFFICES ASSUME i + 1 <= N
                 PROVE  /\ U(i + 1) \in Bytes
                        /\ \A r \in Bytes : Parse(k, m, U(i + 1) \o r) = Parse(k, O(i + 1), r)
        OBVIOUS
    <2> DEFINE b1 == RowBytes(k, b, i + 1)
               f == NameOf(k, i + 1)
    <2>1. i + 1 \in Rows(k) /\ i + 1 \in 1 .. N /\ i <= N /\ \A j \in 1 .. i + 1 : j \in 1 .. N
        BY <1>0
    <2>2. U(i + 1) = U(i) \o b1
        BY <1>1, <2>1, UptoBytesStep
    <2>3. U(i) \in Bytes /\ b1 \in Bytes
        BY <1>1, <1>4, <2>1
    <2>4. U(i + 1) \in Bytes
        BY <2>2, <2>3, BytesConcat
    <2>5. Shaped(k, O(i)) /\ Holds(k, f, O(i)) /\ RowTaken(k, O(i), b, f) = O(i + 1)
        BY <2>1, UptoStep
    <2>6. ASSUME NEW r \in Bytes PROVE Parse(k, m, U(i + 1) \o r) = Parse(k, O(i + 1), r)
        <3>1. (U(i) \o b1) \o r = U(i) \o (b1 \o r) /\ b1 \o r \in Bytes
            <4> HIDE DEF U, b1
            <4> QED
                BY <2>3, BytesConcat, Zenon
        <3>2. Parse(k, m, U(i) \o (b1 \o r)) = Parse(k, O(i), b1 \o r)
            BY <1>4, <2>1, <3>1
        <3>3. Parse(k, O(i), b1 \o r) = Parse(k, RowTaken(k, O(i), b, f), r)
            <4> HIDE DEF O
            <4> QED
                BY <2>1, <2>5, ParseRow
        <3> HIDE DEF U, O, b1
        <3> QED
            BY <2>2, <2>5, <3>1, <3>2, <3>3, Zenon
    <2> QED
        BY <2>4, <2>6
<1> HIDE DEF S
<1>5. \A i \in Nat : i \in S
    BY <1>3, <1>4, NumberInduction
<1> QED
    BY <1>5 DEF S

-----------------------------------------------------------------------------
(* Parsing merges *)

LEMMA SerializeIs ==
    ASSUME NEW k, Sound(k), NEW b
    PROVE  Serialize(k, b) = UptoBytes(k, b, Len(Schemas[k])) \o b.unknown
<1> DEFINE rows == Classes[k].serialize
           N == Len(Schemas[k])
           s == [i \in DOMAIN rows |-> WriteAll(k, rows[i], Written(b, rows[i]))]
<1>1. s = [i \in 1 .. N |-> RowBytes(k, b, i)]
    <2>1. DOMAIN rows = 1 .. N
        BY RowsAre
    <2>2. \A i : WriteAll(k, rows[i], Written(b, rows[i])) = RowBytes(k, b, i)
        BY DEF RowBytes, Row
    <2> QED
        BY <2>1, <2>2
<1>2. Serialize(k, b) = FlattenSeq(s) \o b.unknown
    BY DEF Serialize, WriteRows
<1> HIDE DEF s
<1> QED
    BY <1>1, <1>2 DEF UptoBytes

LEMMA SerializeIsBytes ==
    ASSUME NEW k, Sound(k), NEW b, Object(k, b)
    PROVE  Serialize(k, b) \in Bytes
<1>1. Len(Schemas[k]) \in Nat
    BY RowsAre
<1> DEFINE s == UptoBytes(k, b, Len(Schemas[k]))
           u == b.unknown
<1>2. s \in Bytes
    BY <1>1, ParseUpto
<1>3. u \in Bytes
    BY UnknownIsBytes, BytesAreBytes
<1>4. Serialize(k, b) = s \o u
    BY SerializeIs
<1> HIDE DEF s, u
<1> QED
    BY <1>2, <1>3, <1>4, BytesConcat

\* The rows of b are the members and the bits of b.
LEMMA UptoIsMerge ==
    ASSUME NEW k, Sound(k), NEW m, Object(k, m), NEW b, Object(k, b)
    PROVE  Upto(k, m, b, Len(Schemas[k]))
             = [bits |-> m.bits \cup b.bits,
                val |-> [f \in Members(k) |-> MergedMember(k, f, m, b)],
                unknown |-> m.unknown]
<1> DEFINE N == Len(Schemas[k])
           B(j) == BitsOf(k, b, NameOf(k, j))
           bits == UNION {B(j) : j \in 1 .. N}
           val == [f \in Members(k) |->
                    IF \E j \in 1 .. N : NameOf(k, j) = f THEN MergedMember(k, f, m, b) ELSE m.val[f]]
<1>0. Rows(k) = 1 .. N /\ Members(k) = {NameOf(k, i) : i \in 1 .. N}
    BY RowsAre
<1>1. val = [f \in Members(k) |-> MergedMember(k, f, m, b)]
    BY <1>0
<1>2. bits = b.bits
    <2>1. ASSUME NEW j \in 1 .. N PROVE B(j) \subseteq b.bits
        BY DEF BitsOf, Has
    <2>2. ASSUME NEW x \in b.bits PROVE \E j \in 1 .. N : x \in B(j)
        <3>1. PICK f \in DOMAIN Classes[k].has : x = Classes[k].has[f]
            BY DEF Object
        <3>2. f \in Members(k) /\ ~ IsList(k, f)
            BY MembersSplit
        <3>3. PICK j \in 1 .. N : NameOf(k, j) = f
            BY <1>0, <3>2
        <3>4. Has(k, b, f)
            BY <3>1 DEF Has
        <3> QED
            BY <3>1, <3>2, <3>3, <3>4 DEF BitsOf
    <2> HIDE DEF B
    <2> QED
        BY <2>1, <2>2
<1>3. Upto(k, m, b, N) = [bits |-> m.bits \cup bits, unknown |-> m.unknown, val |-> val]
    BY DEF Upto
<1> HIDE DEF bits, val
<1> QED
    BY <1>1, <1>2, <1>3

\* A field that no case of the switch knows is kept.
LEMMA ParseStranger ==
    ASSUME NEW k, Sound(k), NEW m, Shaped(k, m), m.unknown \in Bytes
    PROVE  Parse(k, m, Stranger)
             = {[bits |-> m.bits, val |-> m.val, unknown |-> m.unknown \o Stranger]}
<1> DEFINE p == Number(120, 7, <<>>)
           n == [bits |-> m.bits, val |-> m.val, unknown |-> m.unknown \o Stranger]
<1>1. Stranger = Varint(120) \o (Varint(7) \o <<>>)
    <2>1. Varint(7) = <<7>>
        BY VarintLow
    <2>2. Varint(7) \o <<>> = Varint(7)
        BY VarintBytes, ConcatEmptySeq DEF Bytes
    <2>3. Stranger = Varint(120) \o <<7>>
        BY DEF Stranger, Tag, WireType, VarintTypes
    <2> QED
        BY <2>1, <2>2, <2>3, Zenon
<1>2. ReadField(Stranger) = {p} /\ p.rest = <<>> /\ p.tag = 120 /\ p.raw = Varint(7)
    <2>1. <<>> \in Bytes
        BY EmptySeq DEF Bytes
    <2>2. ReadField(Varint(120) \o (Varint(7) \o <<>>)) = {p}
        <3>1. 120 \in Nat /\ 7 \in Nat /\ 120 % 8 = 0
            OBVIOUS
        <3> QED
            BY <2>1, <3>1, ReadNumber, Zenon
    <2> QED
        BY <1>1, <2>2 DEF Number
<1> HIDE DEF p, n
<1>3. ReadInto(k, m, p) = {n}
    <2>1. \A r \in Classes[k].parse : r.tag < 120
        BY DEF Sound, Fits, FitsRows
    <2> DEFINE cases == {t \in Classes[k].parse : t.tag = p.tag}
               R(t) == ReadCase(k, m, t, p)
    <2>2. cases = {}
        BY <1>2, <2>1
    <2>3. ReadInto(k, m, p)
            = IF cases = {} THEN {KeepUnknown(m, p)} ELSE UNION {R(t) : t \in cases}
        BY DEF ReadInto
    <2> HIDE DEF cases, R
    <2>4. ReadInto(k, m, p) = {KeepUnknown(m, p)}
        BY <2>2, <2>3
    <2>5. (m.unknown \o Varint(120)) \o Varint(7) = m.unknown \o Stranger
        <3>1. Varint(120) \in Bytes /\ Varint(7) \in Bytes
            BY VarintBytes
        <3>2. (m.unknown \o Varint(120)) \o Varint(7) = m.unknown \o (Varint(120) \o Varint(7))
            BY <3>1, BytesConcat, ZenonT(30)
        <3>3. Varint(7) \o <<>> = Varint(7)
            BY <3>1, ConcatEmptySeq DEF Bytes
        <3> QED
            BY <1>1, <3>2, <3>3, Zenon
    <2> DEFINE u == (m.unknown \o Varint(120)) \o Varint(7)
    <2>6. KeepUnknown(m, p) = [m EXCEPT !.unknown = u]
        BY <1>2 DEF KeepUnknown
    <2> HIDE DEF u
    <2>7. KeepUnknown(m, p) = [bits |-> m.bits, val |-> m.val, unknown |-> u]
        BY <2>6 DEF Shaped
    <2> QED
        BY <2>4, <2>5, <2>7 DEF n, u
<1>4. Stranger \in Bytes
    <2>1. Varint(120) \in Bytes /\ Varint(7) \in Bytes /\ <<>> \in Bytes
        BY VarintBytes, EmptySeq DEF Bytes
    <2>2. Varint(7) \o <<>> \in Bytes
        BY <2>1, BytesConcat
    <2> QED
        BY <1>1, <2>1, <2>2, BytesConcat
<1>5. Parse(k, m, Stranger) = Parse(k, n, <<>>)
    <2>1. ReadsAs(Stranger, <<>>, k, m, n)
        BY <1>2, <1>3 DEF ReadsAs
    <2> QED
        BY <1>4, <2>1, ParseReads
<1>6. Parse(k, n, <<>>) = {n}
    BY ParseNothing
<1> QED
    BY <1>5, <1>6 DEF n

\* Parsing what an object writes merges it into what was there.
THEOREM ParseIsMerge ==
    ASSUME NEW k, Sound(k), NEW m, Object(k, m), NEW b, Object(k, b)
    PROVE  Parse(k, m, Serialize(k, b)) = {MergeFrom(k, m, b)}
<1> DEFINE N == Len(Schemas[k])
           bits == m.bits \cup b.bits
           val == [f \in Members(k) |-> MergedMember(k, f, m, b)]
           o == [bits |-> bits, val |-> val, unknown |-> m.unknown]
<1>1. N \in Nat /\ b.unknown \in Bytes /\ m.unknown \in Bytes
    BY RowsAre, UnknownIsBytes, BytesAreBytes
<1>2. Parse(k, m, Serialize(k, b)) = Parse(k, Upto(k, m, b, N), b.unknown)
    <2> DEFINE u == b.unknown
               U == UptoBytes(k, b, N)
    <2>1. u \in Bytes /\ N <= N
        BY <1>1
    <2>2. Parse(k, m, U \o u) = Parse(k, Upto(k, m, b, N), u)
        <3> HIDE DEF u, N
        <3> QED
            BY <1>1, <2>1, ParseUpto DEF N
    <2>3. Serialize(k, b) = U \o u
        BY SerializeIs
    <2> HIDE DEF u, U
    <2> QED
        BY <2>2, <2>3 DEF u
<1>3. Upto(k, m, b, N) = o
    BY UptoIsMerge
<1>4. MergeFrom(k, m, b) = [bits |-> bits, val |-> val, unknown |-> m.unknown \o b.unknown]
    BY MergeFromIs
<1>5. val = [f \in Members(k) |-> val[f]]
    OBVIOUS
<1> HIDE DEF val
<1>6. Shaped(k, o) /\ o.unknown = m.unknown /\ o.bits = bits /\ o.val = val
    BY <1>5 DEF Shaped
<1>7. Parse(k, o, b.unknown)
        = {[bits |-> bits, val |-> val, unknown |-> m.unknown \o b.unknown]}
    <2> HIDE DEF o
    <2>1. CASE b.unknown = <<>>
        <3>1. m.unknown \o <<>> = m.unknown
            BY <1>1, ConcatEmptySeq DEF Bytes
        <3>2. Parse(k, o, <<>>) = {o}
            BY ParseNothing
        <3> QED
            BY <2>1, <3>1, <3>2 DEF o
    <2>2. CASE b.unknown = Stranger
        BY <1>1, <1>6, <2>2, ParseStranger
    <2> QED
        BY <2>1, <2>2 DEF Object
<1> HIDE DEF o, bits
<1> QED
    BY <1>2, <1>3, <1>4, <1>7

-----------------------------------------------------------------------------
(* ByteSizeLong *)

PieceSize(k, i, v) == 1 + PayloadSize(Row(k, i).type, TypeOf(k, NameOf(k, i)), v)

LEMMA DelimitedIs ==
    ASSUME NEW s \in Bytes
    PROVE  Delimited(Len(s)) = Len(Varint(Len(s)) \o s)
<1>1. Len(s) \in Nat
    BY LenProperties DEF Bytes
<1>2. Varint(Len(s)) \in Bytes /\ VarintSize(Len(s)) = Len(Varint(Len(s)))
    BY <1>1, VarintBytes, VarintSizeIsLength
<1> QED
    BY <1>2, BytesConcat DEF Delimited

LEMMA PayloadSizeIs ==
    ASSUME NEW k, Sound(k), NEW i \in Rows(k), NEW v, IsValue(FieldOf(k, i).type, v)
    PROVE  PayloadSize(Row(k, i).type, TypeOf(k, NameOf(k, i)), v)
             = Len(WritePayload(Row(k, i).type, TypeOf(k, NameOf(k, i)), v))
<1> DEFINE t == Row(k, i).type
           c == FieldOf(k, i).type
<1>1. TypeOf(k, NameOf(k, i)) = c /\ t = IF c \in Scalars THEN c ELSE "message"
    BY RowIs DEF FitsRow, NameOf
<1>2. c \notin Scalars => GoodIn(c)
    BY <1>1, RowIs DEF Sound
<1>0. IsValue(c, v)
    OBVIOUS
<1> HIDE DEF t, c
<1>3. CASE c = "bool"
    <2>1. t = "bool" /\ v \in BOOLEAN
        BY <1>0, <1>1, <1>3, ValueCases DEF Scalars, VarintTypes
    <2>2. WritePayload(t, c, v) = IF v THEN <<1>> ELSE <<0>>
        BY <2>1 DEF WritePayload
    <2>3. PayloadSize(t, c, v) = 1
        BY <2>1 DEF PayloadSize
    <2>4. Len(<<1>>) = 1 /\ Len(<<0>>) = 1
        OBVIOUS
    <2>5. Len(WritePayload(t, c, v)) = 1
        BY <2>1, <2>2, <2>4
    <2> QED
        BY <1>1, <2>3, <2>5 DEF t
<1>4. CASE c = "string"
    <2>1. t = "string" /\ v \in Bytes
        BY <1>0, <1>1, <1>4, ValueCases, BytesAreBytes DEF Scalars
    <2>2. WritePayload(t, c, v) = Varint(Len(v)) \o v /\ PayloadSize(t, c, v) = Delimited(Len(v))
        BY <2>1 DEF WritePayload, PayloadSize
    <2> QED
        BY <1>1, <2>1, <2>2, DelimitedIs DEF t
<1>5. CASE c \in VarintTypes /\ c # "bool"
    <2>1. t = c /\ v \in Nat
        BY <1>0, <1>1, <1>5, ValueCases DEF Scalars
    <2>2. WritePayload(t, c, v) = Varint(v) /\ PayloadSize(t, c, v) = VarintSize(v)
        BY <1>5, <2>1 DEF WritePayload, PayloadSize, VarintTypes
    <2> QED
        BY <1>1, <2>1, <2>2, VarintSizeIsLength DEF t
<1>6. CASE c \notin Scalars
    <2> DEFINE s == SerializeIn(c, v)
    <2>1. t = "message" /\ s \in Bytes /\ ByteSizeIn(c, v) = Len(s)
        <3>1. ObjectIn(c, v)
            BY <1>0, <1>6, ValueCases
        <3>2. s \in Seq(Byte) /\ ByteSizeIn(c, v) = Len(s)
            BY <1>2, <1>6, <3>1 DEF GoodIn
        <3> QED
            BY <1>1, <1>6, <3>2, BytesAreBytes
    <2>2. WritePayload(t, c, v) = Varint(ByteSizeIn(c, v)) \o s
          /\ PayloadSize(t, c, v) = Delimited(ByteSizeIn(c, v))
        BY <2>1 DEF WritePayload, PayloadSize
    <2> HIDE DEF s
    <2>3. Delimited(Len(s)) = Len(Varint(Len(s)) \o s)
        BY <2>1, DelimitedIs
    <2> QED
        BY <1>1, <2>1, <2>2, <2>3 DEF t
<1> QED
    BY <1>3, <1>4, <1>5, <1>6 DEF Scalars

LEMMA PieceSizeIs ==
    ASSUME NEW k, Sound(k), NEW i \in Rows(k), NEW v, IsValue(FieldOf(k, i).type, v)
    PROVE  /\ PieceSize(k, i, v) = Len(Piece(k, Row(k, i), v))
           /\ PieceSize(k, i, v) \in Nat
<1> DEFINE w == WritePayload(Row(k, i).type, TypeOf(k, NameOf(k, i)), v)
           tag == 8 * FieldOf(k, i).number + WireType(Row(k, i).type)
<1>1. w \in Bytes
    BY RowIs, PayloadIsBytes, BytesAreBytes
<1>2. Tag(Row(k, i).number, Row(k, i).type) = <<tag>> /\ tag \in Nat
    BY TagIs
<1>3. Piece(k, Row(k, i), v) = <<tag>> \o w
    BY <1>2, RowIs DEF Piece
<1>4. PieceSize(k, i, v) = 1 + Len(w)
    BY PayloadSizeIs DEF PieceSize
<1> HIDE DEF w, tag
<1>5. <<tag>> \in Bytes /\ Len(<<tag>>) = 1 /\ Len(w) \in Nat
    BY <1>1, <1>2 DEF Bytes
<1>6. Len(<<tag>> \o w) = 1 + Len(w)
    BY <1>1, <1>5, BytesConcat
<1> QED
    BY <1>3, <1>4, <1>5, <1>6

LEMMA WriteAllSize ==
    ASSUME NEW k, Sound(k), NEW i \in Rows(k), NEW list, IsSequence(list),
           \A j \in DOMAIN list : IsValue(FieldOf(k, i).type, list[j])
    PROVE  SumOver(DOMAIN list, [j \in DOMAIN list |-> PieceSize(k, i, list[j])])
             = Len(WriteAll(k, Row(k, i), list))
<1> DEFINE t == Row(k, i)
           T == {list[j] : j \in DOMAIN list}
           W(s) == WriteAll(k, t, s)
           P(v) == PieceSize(k, i, v)
           sizes(s) == [j \in DOMAIN s |-> P(s[j])]
           S == {s \in Seq(T) : SumOver(DOMAIN s, sizes(s)) = Len(W(s))}
<1>1. \A v \in T : IsValue(FieldOf(k, i).type, v)
    OBVIOUS
<1>2. list \in Seq(T)
    BY DEF IsSequence
<1> HIDE DEF T
<1>3. \A v \in T : Piece(k, t, v) \in Seq(Byte)
    BY <1>1, PieceIsBytes
<1>4. \A v \in T : P(v) = Len(Piece(k, t, v)) /\ P(v) \in Nat
    BY <1>1, PieceSizeIs
<1>5. /\ W(<<>>) = <<>>
      /\ \A s \in Seq(T) : W(s) \in Bytes
      /\ \A s \in Seq(T), v \in T : W(Append(s, v)) = W(s) \o Piece(k, t, v)
    BY <1>3, WriteAllIs, BytesAreBytes
<1> HIDE DEF P, W
<1>6. <<>> \in S
    <2>1. DOMAIN <<>> = {} /\ Len(<<>>) = 0 /\ <<>> \in Seq(T)
        BY EmptySeq
    <2> HIDE DEF sizes
    <2>2. SumOver({}, sizes(<<>>)) = 0
        BY SumEmpty
    <2> QED
        BY <1>5, <2>1, <2>2
<1>7. ASSUME NEW s \in Seq(T), NEW v \in T, s \in S PROVE Append(s, v) \in S
    <2> DEFINE u == Append(s, v)
               n == Len(s)
               D == 1 .. n
    <2>1. u \in Seq(T) /\ n \in Nat /\ DOMAIN s = D /\ DOMAIN u = D \cup {n + 1}
        <3>1. u \in Seq(T) /\ Len(u) = n + 1 /\ n \in Nat
            BY AppendOf, LenProperties
        <3>2. DOMAIN s = D /\ DOMAIN u = 1 .. n + 1
            BY <3>1, LenProperties
        <3>3. 1 .. n + 1 = D \cup {n + 1}
            BY <3>1
        <3> QED
            BY <3>1, <3>2, <3>3
    <2>2. \A j \in D \cup {n + 1} : u[j] = IF j = n + 1 THEN v ELSE s[j]
        BY <2>1, AppendOf
    <2>3. IsFiniteSet(D) /\ n + 1 \notin D
        BY <2>1, FS_Interval
    <2>4. \A j \in D : s[j] \in T
        BY <2>1, ElementOfSeq
    <2> HIDE DEF u, D
    <2>5. \A j \in D : sizes(s)[j] = P(s[j]) /\ sizes(u)[j] = P(s[j]) /\ sizes(u)[j] \in Int
        BY <1>4, <2>1, <2>2, <2>3, <2>4
    <2>6. sizes(u)[n + 1] = P(v) /\ P(v) \in Int
        BY <1>4, <2>1, <2>2
    <2> HIDE DEF sizes
    <2>7. SumOver(D \cup {n + 1}, sizes(u)) = sizes(u)[n + 1] + SumOver(D, sizes(u))
        <3> DEFINE g == sizes(u)
        <3>1. \A y \in D \cup {n + 1} : g[y] \in Int
            BY <2>5, <2>6
        <3> HIDE DEF g
        <3>2. SumOver(D \cup {n + 1}, g) = g[n + 1] + SumOver(D, g)
            BY <2>3, <3>1, SumAdd
        <3> QED
            BY <3>2 DEF g
    <2>8. SumOver(D, sizes(u)) = SumOver(D, sizes(s))
        BY <2>3, <2>5, SumSame
    <2>9. SumOver(D, sizes(s)) = Len(W(s))
        BY <1>7, <2>1
    <2>10. Len(W(u)) = Len(W(s)) + P(v)
        <3>1. W(u) = W(s) \o Piece(k, t, v)
            BY <1>5 DEF u
        <3>2. W(s) \in Bytes /\ Piece(k, t, v) \in Bytes
            BY <1>3, <1>5, BytesAreBytes
        <3> QED
            BY <1>4, <3>1, <3>2, BytesConcat
    <2>11. Len(W(s)) \in Nat
        BY <1>5, LenProperties DEF Bytes
    <2>12. SumOver(DOMAIN u, sizes(u)) = Len(W(u))
        BY <2>1, <2>6, <2>7, <2>8, <2>9, <2>10, <2>11
    <2> QED
        BY <2>1, <2>12 DEF u
<1> HIDE DEF S
<1>8. \A s \in Seq(T) : s \in S
    BY <1>6, <1>7, AppendInduction
<1> QED
    BY <1>2, <1>8 DEF S, W, P

\* The fields that m has
Present(k, m) == {f \in Members(k) : IsList(k, f) \/ Has(k, m, f)}

LEMMA SizeTypesAre ==
    ASSUME NEW k, Sound(k), NEW i \in Rows(k)
    PROVE  SizeType(Classes[k].size, NameOf(k, i)) = Row(k, i).type
BY DEF Sound, Fits, FitsSizes, NameOf, Row, Rows, FieldOf

LEMMA CountedAre ==
    ASSUME NEW k, Sound(k), NEW m, Object(k, m)
    PROVE  LET t == Classes[k].size
           IN  {f \in DOMAIN t.needs : t.required \subseteq m.bits \/ Has(k, m, f)}
                 \cup {f \in DOMAIN t.options : t.guard \cap m.bits # {} /\ Has(k, m, f)}
                 \cup DOMAIN t.lists
               = Present(k, m)
<1> DEFINE t == Classes[k].size
           c == Classes[k]
<1>1. /\ DOMAIN t.lists = c.lists
      /\ DOMAIN t.needs \cup DOMAIN t.options = DOMAIN c.has
      /\ \A f \in DOMAIN t.needs : c.has[f] \in t.required
      /\ \A f \in DOMAIN t.options : c.has[f] \in t.guard
    BY DEF Sound, Fits, FitsSize
<1>2. /\ DOMAIN c.has = DOMAIN c.type \ c.lists
      /\ c.lists \subseteq DOMAIN c.type
    BY DEF Sound, Fits, FitsMembers
<1>3. \A f : Has(k, m, f) <=> c.has[f] \in m.bits
    BY DEF Has
<1>4. \A f : IsList(k, f) <=> f \in c.lists
    BY DEF IsList
<1>5. Members(k) = DOMAIN c.type
    BY DEF Members
<1>6. \A f \in DOMAIN t.needs : (t.required \subseteq m.bits \/ Has(k, m, f)) <=> Has(k, m, f)
    BY <1>1, <1>3
<1>7. \A f \in DOMAIN t.options :
        (t.guard \cap m.bits # {} /\ Has(k, m, f)) <=> Has(k, m, f)
    BY <1>1, <1>3
<1>8. \A f : f \in Present(k, m) <=> f \in DOMAIN c.type /\ (f \in c.lists \/ Has(k, m, f))
    BY <1>4, <1>5 DEF Present
<1> HIDE DEF c
<1>9. ASSUME NEW f
      PROVE  f \in Present(k, m) <=>
               \/ f \in DOMAIN t.needs /\ (t.required \subseteq m.bits \/ Has(k, m, f))
               \/ f \in DOMAIN t.options /\ t.guard \cap m.bits # {} /\ Has(k, m, f)
               \/ f \in DOMAIN t.lists
    <2> DEFINE needs == DOMAIN t.needs
               options == DOMAIN t.options
    <2> HIDE DEF t
    <2>1. f \in needs \/ f \in options <=> f \in DOMAIN c.type /\ f \notin c.lists
        BY <1>1, <1>2
    <2> QED
        BY <1>1, <1>2, <1>6, <1>7, <1>8, <2>1
<1> QED
    BY <1>9

\* A row writes nothing or one value.
LEMMA WriteFew ==
    ASSUME NEW k, Sound(k), NEW i \in Rows(k)
    PROVE  /\ WriteAll(k, Row(k, i), <<>>) = <<>>
           /\ \A v : IsValue(FieldOf(k, i).type, v)
                       => WriteAll(k, Row(k, i), <<v>>) = Piece(k, Row(k, i), v)
<1> DEFINE t == Row(k, i)
<1>1. ASSUME NEW v, IsValue(FieldOf(k, i).type, v) PROVE WriteAll(k, t, <<v>>) = Piece(k, t, v)
    <2>1. Piece(k, t, v) \in Seq(Byte)
        BY <1>1, PieceIsBytes
    <2>2. \A x \in {v} : Piece(k, t, x) \in Seq(Byte)
        BY <2>1
    <2>3. WriteAll(k, t, <<>>) = <<>>
          /\ WriteAll(k, t, Append(<<>>, v)) = WriteAll(k, t, <<>>) \o Piece(k, t, v)
        <3>1. <<>> \in Seq({v}) /\ v \in {v}
            BY EmptySeq
        <3> QED
            BY <2>2, <3>1, WriteAllIs
    <2>4. Append(<<>>, v) = <<v>>
        OBVIOUS
    <2>5. <<>> \o Piece(k, t, v) = Piece(k, t, v)
        BY <2>1, ConcatEmptySeq
    <2> QED
        BY <2>3, <2>4, <2>5, Zenon
<1>2. WriteAll(k, t, <<>>) = <<>>
    <2> DEFINE T == {}
    <2>1. \A v \in T : Piece(k, t, v) \in Seq(Byte)
        OBVIOUS
    <2> HIDE DEF T
    <2> QED
        BY <2>1, WriteAllIs
<1> QED
    BY <1>1, <1>2

\* Field f of m, as ByteSizeLong counts it
SizeOf(k, m, f) == FieldSize(k, m, SizeType(Classes[k].size, f), f)

LEMMA RowLength ==
    ASSUME NEW k, Sound(k), NEW i \in Rows(k), NEW f, f = NameOf(k, i), NEW m, Object(k, m)
    PROVE  /\ f \notin Present(k, m) => RowBytes(k, m, i) = <<>>
           /\ f \in Present(k, m) => Len(RowBytes(k, m, i)) = SizeOf(k, m, f)
<1> DEFINE t == Row(k, i)
           v == m.val[f]
<1>1. f \in Members(k) /\ TypeOf(k, f) = FieldOf(k, i).type /\ IsMember(k, f, v)
    BY RowIs DEF Object
<1>2. RowBytes(k, m, i) = WriteAll(k, t, Written(m, t))
    BY DEF RowBytes
<1>3. SizeType(Classes[k].size, f) = t.type
    BY SizeTypesAre
<1>4. f \in Present(k, m) <=> IsList(k, f) \/ Has(k, m, f)
    BY <1>1 DEF Present
<1>5. \A x : PieceSize(k, i, x) = 1 + PayloadSize(t.type, TypeOf(k, f), x)
    BY DEF PieceSize
<1>6. SizeOf(k, m, f) = IF IsList(k, f)
                        THEN SumOver(DOMAIN v, [j \in DOMAIN v |-> PieceSize(k, i, v[j])])
                        ELSE PieceSize(k, i, v)
    BY <1>3, <1>5 DEF SizeOf, FieldSize
<1> HIDE DEF t, v
<1>7. CASE IsList(k, f)
    <2>1. Written(m, t) = v
        BY <1>7, WrittenIs DEF t, v
    <2>2. IsSequence(v) /\ \A j \in DOMAIN v : IsValue(FieldOf(k, i).type, v[j])
        BY <1>1, <1>7 DEF IsMember
    <2>3. SumOver(DOMAIN v, [j \in DOMAIN v |-> PieceSize(k, i, v[j])]) = Len(WriteAll(k, t, v))
        BY <2>2, WriteAllSize DEF t
    <2> QED
        BY <1>2, <1>4, <1>6, <1>7, <2>1, <2>3
<1>8. CASE ~ IsList(k, f) /\ Has(k, m, f)
    <2>1. Written(m, t) = <<v>>
        BY <1>8, WrittenIs DEF t, v
    <2>2. IsValue(FieldOf(k, i).type, v)
        BY <1>1, <1>8 DEF IsMember
    <2>3. WriteAll(k, t, <<v>>) = Piece(k, t, v)
        BY <2>2, WriteFew DEF t
    <2>4. PieceSize(k, i, v) = Len(Piece(k, t, v))
        BY <2>2, PieceSizeIs DEF t
    <2> QED
        BY <1>2, <1>4, <1>6, <1>8, <2>1, <2>3, <2>4
<1>9. CASE ~ IsList(k, f) /\ ~ Has(k, m, f)
    <2>1. Written(m, t) = <<>>
        BY <1>9, WrittenIs DEF t
    <2>2. WriteAll(k, t, <<>>) = <<>>
        BY WriteFew DEF t
    <2> QED
        BY <1>2, <1>4, <1>9, <2>1, <2>2
<1> QED
    BY <1>7, <1>8, <1>9

\* The fields of the first i rows that m has
Counted(k, m, i) == {NameOf(k, j) : j \in 1 .. i} \cap Present(k, m)

LEMMA RowsLength ==
    ASSUME NEW k, Sound(k), NEW m, Object(k, m), NEW g,
           \A f \in Present(k, m) : g[f] = SizeOf(k, m, f)
    PROVE  \A i \in Nat : i <= Len(Schemas[k]) =>
             /\ IsFiniteSet(Counted(k, m, i))
             /\ Len(UptoBytes(k, m, i)) = SumOver(Counted(k, m, i), g)
<1> DEFINE N == Len(Schemas[k])
           D(i) == Counted(k, m, i)
           U(i) == UptoBytes(k, m, i)
           S == {i \in Nat : i <= N => IsFiniteSet(D(i)) /\ Len(U(i)) = SumOver(D(i), g)}
<1>1. N \in Nat /\ Rows(k) = 1 .. N
    BY RowsAre
<1>2. \A i \in 1 .. N : RowBytes(k, m, i) \in Bytes
    BY <1>1, RowBytesType
<1>3. \A i \in 1 .. N : NameOf(k, i) \in Present(k, m) => g[NameOf(k, i)] \in Int
    <2> SUFFICES ASSUME NEW i \in 1 .. N, NameOf(k, i) \in Present(k, m)
                 PROVE  g[NameOf(k, i)] \in Int
        OBVIOUS
    <2> DEFINE f == NameOf(k, i)
    <2>1. Len(RowBytes(k, m, i)) = SizeOf(k, m, f)
        BY <1>1, RowLength
    <2>2. Len(RowBytes(k, m, i)) \in Nat
        BY <1>2, LenProperties DEF Bytes
    <2> QED
        BY <2>1, <2>2
<1>4. 0 \in S
    <2>1. D(0) = {}
        BY DEF Counted
    <2>2. U(0) = <<>>
        <3> DEFINE s == [j \in 1 .. 0 |-> RowBytes(k, m, j)]
        <3>1. s = <<>>
            OBVIOUS
        <3>2. U(0) = FlattenSeq(s)
            BY DEF UptoBytes
        <3> HIDE DEF s
        <3> QED
            BY <3>1, <3>2, FlattenNothing
    <2>3. SumOver({}, g) = 0 /\ Len(<<>>) = 0 /\ IsFiniteSet({})
        BY SumEmpty, FS_EmptySet
    <2> HIDE DEF D, U
    <2> QED
        BY <2>1, <2>2, <2>3
<1>5. ASSUME NEW i \in Nat, i \in S PROVE i + 1 \in S
    <2> SUFFICES ASSUME i + 1 <= N
                 PROVE  IsFiniteSet(D(i + 1)) /\ Len(U(i + 1)) = SumOver(D(i + 1), g)
        OBVIOUS
    <2> DEFINE f == NameOf(k, i + 1)
               b == RowBytes(k, m, i + 1)
    <2>1. i + 1 \in Rows(k) /\ i + 1 \in 1 .. N /\ i <= N /\ \A j \in 1 .. i + 1 : j \in 1 .. N
        BY <1>1
    <2>2. U(i + 1) = U(i) \o b /\ U(i) \in Bytes /\ b \in Bytes
        BY <1>2, <2>1, UptoBytesStep
    <2>3. Len(U(i + 1)) = Len(U(i)) + Len(b) /\ Len(U(i)) \in Nat /\ Len(b) \in Nat
        <3> HIDE DEF U, b
        <3> QED
            BY <2>2, BytesConcat, LenProperties DEF Bytes
    <2>4. IsFiniteSet(D(i)) /\ Len(U(i)) = SumOver(D(i), g)
        BY <1>5, <2>1
    <2>5. 1 .. i + 1 = (1 .. i) \cup {i + 1}
        OBVIOUS
    <2>6. D(i + 1) = D(i) \cup ({f} \cap Present(k, m))
        BY <2>5 DEF Counted
    <2>7. f \notin D(i)
        <3>1. \A j \in 1 .. i : j \in Rows(k) /\ j # i + 1
            BY <1>1, <2>1
        <3> QED
            BY <2>1, <3>1, RowsAre DEF Counted
    <2>8. CASE f \in Present(k, m)
        <3>1. D(i + 1) = D(i) \cup {f}
            BY <2>6, <2>8
        <3>2. Len(b) = g[f]
            BY <2>1, <2>8, RowLength
        <3>3. \A y \in D(i) \cup {f} : g[y] \in Int
            <4>1. \A j \in 1 .. i + 1 : NameOf(k, j) \in Present(k, m) => g[NameOf(k, j)] \in Int
                BY <1>3, <2>1
            <4> QED
                BY <2>1, <2>8, <4>1 DEF Counted
        <3> HIDE DEF D, U, b, f
        <3>4. SumOver(D(i) \cup {f}, g) = g[f] + SumOver(D(i), g)
            BY <2>4, <2>7, <3>3, SumAdd
        <3>5. IsFiniteSet(D(i) \cup {f})
            BY <2>4, FS_AddElement
        <3>6. IsFiniteSet(D(i + 1)) /\ SumOver(D(i + 1), g) = g[f] + SumOver(D(i), g)
            BY <3>1, <3>4, <3>5, Zenon
        <3> QED
            BY <2>3, <2>4, <3>2, <3>6
    <2>9. CASE f \notin Present(k, m)
        <3>1. D(i + 1) = D(i)
            BY <2>6, <2>9
        <3>2. Len(b) = 0
            <4>1. b = <<>>
                BY <2>1, <2>9, RowLength
            <4> QED
                BY <4>1
        <3> HIDE DEF D, U, b, f
        <3> QED
            BY <2>3, <2>4, <3>1, <3>2
    <2> HIDE DEF D, U, f
    <2> QED
        BY <2>8, <2>9
<1> HIDE DEF S
<1>6. \A i \in Nat : i \in S
    BY <1>4, <1>5, NumberInduction
<1> QED
    BY <1>6 DEF S

\* ByteSizeLong is the length of what the writers write.
THEOREM ByteSizeIsLength ==
    ASSUME NEW k, Sound(k), NEW m, Object(k, m)
    PROVE  ByteSize(k, m) = Len(Serialize(k, m))
<1> DEFINE N == Len(Schemas[k])
           D == Present(k, m)
           g == [f \in D |-> SizeOf(k, m, f)]
           U == UptoBytes(k, m, N)
           u == m.unknown
<1>1. N \in Nat /\ N <= N /\ Members(k) = {NameOf(k, i) : i \in 1 .. N}
    BY RowsAre
<1>2. Counted(k, m, N) = D
    BY <1>1 DEF Counted, Present
<1>3. ByteSize(k, m) = Len(u) + SumOver(D, g)
    BY CountedAre DEF ByteSize, SizeBy, SizeOf
<1>4. Len(U) = SumOver(Counted(k, m, N), g)
    <2>1. \A f \in D : g[f] = SizeOf(k, m, f)
        OBVIOUS
    <2> HIDE DEF g, N
    <2> QED
        BY <1>1, <2>1, RowsLength DEF N
<1>5. Serialize(k, m) = U \o u
    BY SerializeIs
<1>6. U \in Bytes /\ u \in Bytes
    BY <1>1, ParseUpto, UnknownIsBytes, BytesAreBytes
<1> HIDE DEF U, u, D, g, N
<1>7. Len(U \o u) = Len(U) + Len(u) /\ Len(U) \in Nat /\ Len(u) \in Nat
    BY <1>6, BytesConcat, LenProperties DEF Bytes
<1> QED
    BY <1>2, <1>3, <1>4, <1>5, <1>7

-----------------------------------------------------------------------------
(* What the accessors show of an object *)

\* The fields that are there
Fields(k, m) == {f \in Members(k) : IF IsList(k, f) THEN m.val[f] # <<>> ELSE Has(k, m, f)}

\* What is shown of a member
ShownMember(k, f, v) ==
  IF IsList(k, f) THEN [i \in DOMAIN v |-> Shown(k, f, v[i])] ELSE Shown(k, f, v)

LEMMA MeaningIs ==
    ASSUME NEW k, NEW m
    PROVE  /\ Meaning(k, m) = [f \in Fields(k, m) |-> ShownMember(k, f, m.val[f])]
           /\ DOMAIN Meaning(k, m) = Fields(k, m)
           /\ \A f \in Fields(k, m) : Meaning(k, m)[f] = ShownMember(k, f, m.val[f])
<1>1. Meaning(k, m) = [f \in Fields(k, m) |-> ShownMember(k, f, m.val[f])]
    BY DEF Meaning, Fields, ShownMember
<1> QED
    BY <1>1

\* The values of row i, as the declaration has them
LEMMA PayloadMeans ==
    ASSUME NEW k, Sound(k), NEW i \in Rows(k), NEW f, f = NameOf(k, i),
           NEW v, IsValue(TypeOf(k, f), v)
    PROVE  Piece(k, Row(k, i), v)
             = Tag(FieldOf(k, i).number, FieldOf(k, i).type)
               \o Payload(FieldOf(k, i).type, Shown(k, f, v))
<1> DEFINE t == Row(k, i)
           x == FieldOf(k, i)
           c == TypeOf(k, f)
<1>1. /\ c = x.type /\ t.field = f /\ t.number = x.number
      /\ t.type = IF c \in Scalars THEN c ELSE "message"
    BY RowIs DEF FitsRow, NameOf
<1>2. c \notin Scalars => GoodIn(c)
    BY RowIs DEF Sound
<1>3. Shown(k, f, v) = IF c \in Scalars THEN v ELSE MeaningIn(c, v)
    BY DEF Shown, HoldsMessage
<1>4. Piece(k, t, v) = Tag(t.number, t.type) \o WritePayload(t.type, c, v)
    BY <1>1 DEF Piece
<1>0. IsValue(c, v)
    OBVIOUS
<1> HIDE DEF t, x, c
<1>5. Tag(t.number, t.type) = Tag(x.number, x.type)
    BY <1>1 DEF Tag, WireType, Scalars, VarintTypes
<1>6. WritePayload(t.type, c, v) = Payload(c, Shown(k, f, v))
    <2>1. CASE c \in VarintTypes
        BY <1>1, <1>3, <2>1 DEF WritePayload, Payload, Scalars, VarintTypes
    <2>2. CASE c = "string"
        BY <1>1, <1>3, <2>2 DEF WritePayload, Payload, Scalars, VarintTypes
    <2>3. CASE c \notin Scalars
        <3> DEFINE s == SerializeIn(c, v)
        <3>1. ObjectIn(c, v)
            BY <1>0, <2>3, ValueCases
        <3>2. ByteSizeIn(c, v) = Len(s) /\ s = EncodeIn(c, MeaningIn(c, v))
            BY <1>2, <2>3, <3>1 DEF GoodIn
        <3>3. WritePayload(t.type, c, v) = Varint(ByteSizeIn(c, v)) \o s
            BY <1>1, <2>3 DEF WritePayload
        <3> DEFINE e == EncodeIn(c, MeaningIn(c, v))
        <3>4. Payload(c, Shown(k, f, v)) = Varint(Len(e)) \o e
            BY <1>3, <2>3 DEF Payload, Scalars, VarintTypes
        <3> HIDE DEF s, e
        <3>5. s = e
            BY <3>2 DEF e
        <3> QED
            BY <3>2, <3>3, <3>4, <3>5, Zenon
    <2> QED
        BY <2>1, <2>2, <2>3 DEF Scalars
<1> QED
    BY <1>1, <1>4, <1>5, <1>6, Zenon DEF t, x

\* The values that row i writes of m, and the values of its field in what m stands for
LEMMA ValuesAre ==
    ASSUME NEW k, Sound(k), NEW i \in Rows(k), NEW f, f = NameOf(k, i), NEW m, Object(k, m)
    PROVE  LET list == Written(m, Row(k, i))
           IN  /\ \A j \in DOMAIN list : IsValue(TypeOf(k, f), list[j])
               /\ ValuesOf(FieldOf(k, i), Meaning(k, m)) = [j \in DOMAIN list |-> Shown(k, f, list[j])]
<1> DEFINE x == FieldOf(k, i)
           v == m.val[f]
           w == Meaning(k, m)
           list == Written(m, Row(k, i))
<1>1. f \in Members(k) /\ x.name = f /\ (x.label = "repeated" <=> IsList(k, f))
    BY RowIs DEF FitsRow, NameOf, IsList
<1>2. IsMember(k, f, v)
    BY <1>1 DEF Object
<1>3. f \in DOMAIN w <=> IF IsList(k, f) THEN v # <<>> ELSE Has(k, m, f)
    <2>1. f \in Fields(k, m) <=> IF IsList(k, f) THEN v # <<>> ELSE Has(k, m, f)
        BY <1>1 DEF Fields
    <2> QED
        BY <2>1, MeaningIs
<1>4. f \in DOMAIN w => w[f] = ShownMember(k, f, v)
    BY MeaningIs
<1>5. ValuesOf(x, w) = IF f \notin DOMAIN w THEN <<>>
                       ELSE IF IsList(k, f) THEN w[f] ELSE <<w[f]>>
    BY <1>1 DEF ValuesOf
<1>6. /\ IsList(k, f) => list = v
      /\ ~ IsList(k, f) => (~ Has(k, m, f) => list = <<>>) /\ (Has(k, m, f) => list = <<v>>)
    BY WrittenIs
<1> HIDE DEF x, v, w, list
<1>7. CASE IsList(k, f) /\ v # <<>>
    BY <1>2, <1>3, <1>4, <1>5, <1>6, <1>7 DEF IsMember, ShownMember, x, w, list
<1>8. list = <<>> =>
        (\A j \in DOMAIN list : IsValue(TypeOf(k, f), list[j]))
        /\ <<>> = [j \in DOMAIN list |-> Shown(k, f, list[j])]
    OBVIOUS
<1>9. CASE (IsList(k, f) /\ v = <<>>) \/ (~ IsList(k, f) /\ ~ Has(k, m, f))
    <2>1. list = <<>> /\ ValuesOf(x, w) = <<>>
        BY <1>3, <1>5, <1>6, <1>9
    <2> QED
        BY <1>8, <2>1 DEF x, w, list
<1>10. CASE ~ IsList(k, f) /\ Has(k, m, f)
    <2>1. list = <<v>> /\ IsValue(TypeOf(k, f), v)
        BY <1>2, <1>6, <1>10 DEF IsMember
    <2>2. ValuesOf(x, w) = <<Shown(k, f, v)>>
        BY <1>3, <1>4, <1>5, <1>10 DEF ShownMember
    <2>3. DOMAIN list = {1} /\ list[1] = v
        BY <2>1
    <2>4. [j \in DOMAIN list |-> Shown(k, f, list[j])] = <<Shown(k, f, v)>>
        <3>1. [j \in DOMAIN list |-> Shown(k, f, list[j])] = [j \in {1} |-> Shown(k, f, v)]
            BY <2>3
        <3> DEFINE s == Shown(k, f, v)
        <3> HIDE DEF s
        <3>2. [j \in {1} |-> s] = <<s>>
            <4>1. DOMAIN <<s>> = {1} /\ <<s>>[1] = s
                OBVIOUS
            <4>2. <<s>> = [j \in DOMAIN <<s>> |-> <<s>>[j]]
                OBVIOUS
            <4> QED
                BY <4>1, <4>2
        <3> QED
            BY <3>1, <3>2 DEF s
    <2> QED
        BY <2>1, <2>2, <2>3, <2>4 DEF x, w, list
<1> QED
    BY <1>7, <1>9, <1>10

LEMMA RowEncodes ==
    ASSUME NEW k, Sound(k), NEW i \in Rows(k), NEW m, Object(k, m)
    PROVE  RowBytes(k, m, i) = EncodeAll(FieldOf(k, i), ValuesOf(FieldOf(k, i), Meaning(k, m)))
<1> DEFINE x == FieldOf(k, i)
           f == NameOf(k, i)
           t == Row(k, i)
           list == Written(m, t)
           values == ValuesOf(x, Meaning(k, m))
           P(v) == Piece(k, t, v)
           Q(v) == Tag(x.number, x.type) \o Payload(x.type, v)
           S(v) == Shown(k, f, v)
<1>1. (\A j \in DOMAIN list : IsValue(TypeOf(k, f), list[j]))
      /\ values = [j \in DOMAIN list |-> S(list[j])]
    BY ValuesAre
<1>2. \A j \in DOMAIN list : P(list[j]) = Q(S(list[j]))
    BY <1>1, PayloadMeans
<1>3. RowBytes(k, m, i) = FlattenSeq([j \in DOMAIN list |-> P(list[j])])
    BY DEF RowBytes, WriteAll, Piece
<1>4. EncodeAll(x, values) = FlattenSeq([j \in DOMAIN values |-> Q(values[j])])
    BY DEF EncodeAll
<1> HIDE DEF P, Q, S, list, values
<1>5. [j \in DOMAIN list |-> P(list[j])] = [j \in DOMAIN values |-> Q(values[j])]
    BY <1>1, <1>2
<1>6. RowBytes(k, m, i) = EncodeAll(x, values)
    BY <1>3, <1>4, <1>5, Zenon
<1> QED
    BY <1>6 DEF x, values

LEMMA UptoEncodes ==
    ASSUME NEW k, Sound(k), NEW m, Object(k, m)
    PROVE  UptoBytes(k, m, Len(Schemas[k])) = Encode(k, Meaning(k, m))
<1> DEFINE N == Len(Schemas[k])
           R(i) == RowBytes(k, m, i)
           E(i) == EncodeAll(FieldOf(k, i), ValuesOf(FieldOf(k, i), Meaning(k, m)))
<1>1. Rows(k) = 1 .. N
    BY RowsAre
<1>2. \A i \in 1 .. N : R(i) = E(i)
    BY <1>1, RowEncodes
<1>3. Encode(k, Meaning(k, m)) = FlattenSeq([i \in 1 .. N |-> E(i)])
    BY <1>1 DEF Encode, FieldOf, Rows
<1>4. UptoBytes(k, m, N) = FlattenSeq([i \in 1 .. N |-> R(i)])
    BY DEF UptoBytes
<1> HIDE DEF R, E
<1>5. [i \in 1 .. N |-> R(i)] = [i \in 1 .. N |-> E(i)]
    BY <1>2
<1> QED
    BY <1>3, <1>4, <1>5, Zenon

\* The writers write what the declaration says, and the unknown fields after it.
THEOREM SerializeEncodes ==
    ASSUME NEW k, Sound(k), NEW m, Object(k, m)
    PROVE  Serialize(k, m) = Encode(k, Meaning(k, m)) \o m.unknown
<1>1. UptoBytes(k, m, Len(Schemas[k])) = Encode(k, Meaning(k, m))
    BY UptoEncodes
<1>2. Serialize(k, m) = UptoBytes(k, m, Len(Schemas[k])) \o m.unknown
    BY SerializeIs
<1> QED
    BY <1>1, <1>2, Zenon

\* IsInitialized asks for what the declaration requires.
THEOREM InitializedIs ==
    ASSUME NEW k, Sound(k), NEW m, Object(k, m)
    PROVE  IsInitialized(k, m) <=> Complete(k, Meaning(k, m))
<1> DEFINE N == Len(Schemas[k])
           t == Classes[k].init
           w == Meaning(k, m)
           x(i) == FieldOf(k, i)
           n(i) == NameOf(k, i)
           c(i) == TypeOf(k, n(i))
           required == {i \in Rows(k) : x(i).label = "required"}
           Asks(f) == IF IsList(k, f)
                      THEN \A j \in DOMAIN m.val[f] : IsInitializedIn(TypeOf(k, f), m.val[f][j])
                      ELSE Has(k, m, f) => IsInitializedIn(TypeOf(k, f), m.val[f])
           Holds1(i) == IF x(i).label = "repeated"
                        THEN \A j \in DOMAIN w[n(i)] : CompleteIn(c(i), w[n(i)][j])
                        ELSE CompleteIn(c(i), w[n(i)])
<1>1. /\ Members(k) = {n(i) : i \in Rows(k)}
      /\ \A i \in Rows(k) : /\ n(i) \in Members(k) /\ c(i) = x(i).type /\ x(i).name = n(i)
                            /\ x(i).label = "repeated" <=> IsList(k, n(i))
    BY RowsAre, RowIs DEF FitsRow, NameOf, IsList
<1>2. t.bits = {Classes[k].has[n(i)] : i \in required}
      /\ t.nested = {f \in Members(k) : TypeOf(k, f) \notin Scalars}
    BY DEF Sound, Fits, FitsInit, Rows, FieldOf, NameOf, Members, TypeOf
<1>3. IsInitialized(k, m) <=> (t.bits \subseteq m.bits /\ \A f \in t.nested : Asks(f))
    BY DEF IsInitialized
<1>4. FieldsOf(k) = {x(i) : i \in Rows(k)}
    BY DEF FieldsOf, Range, Rows, FieldOf
<1>5. Complete(k, w) <=> \A i \in Rows(k) : /\ i \in required => n(i) \in DOMAIN w
                                            /\ c(i) \notin Scalars /\ n(i) \in DOMAIN w => Holds1(i)
    BY <1>1, <1>4 DEF Complete, IsMessage
<1>6. t.bits \subseteq m.bits <=> \A i \in required : Has(k, m, n(i))
    BY <1>2 DEF Has
<1>7. \A i \in required : Has(k, m, n(i)) <=> n(i) \in DOMAIN w
    <2>1. \A i \in required : n(i) \in Members(k) /\ ~ IsList(k, n(i))
        BY <1>1
    <2>2. \A i \in required : Has(k, m, n(i)) <=> n(i) \in Fields(k, m)
        BY <2>1 DEF Fields
    <2> QED
        BY <2>2, MeaningIs
<1>8. ASSUME NEW i \in Rows(k), c(i) \notin Scalars
      PROVE  Asks(n(i)) <=> (n(i) \in DOMAIN w => Holds1(i))
    <2> DEFINE f == n(i)
               d == c(i)
               v == m.val[f]
    <2>1. f \in Members(k) /\ (x(i).label = "repeated" <=> IsList(k, f)) /\ IsMember(k, f, v)
        BY <1>1 DEF Object
    <2>2. GoodIn(d)
        BY <1>8, <2>1 DEF Sound
    <2>3. \A u : ObjectIn(d, u) =>
                   (IsInitializedIn(d, u) <=> CompleteIn(d, Shown(k, f, u)))
        BY <1>8, <2>2 DEF GoodIn, Shown, HoldsMessage
    <2>4. f \in DOMAIN w <=> IF IsList(k, f) THEN v # <<>> ELSE Has(k, m, f)
        <3>1. f \in Fields(k, m) <=> IF IsList(k, f) THEN v # <<>> ELSE Has(k, m, f)
            BY <2>1 DEF Fields
        <3> QED
            BY <3>1, MeaningIs
    <2>5. f \in DOMAIN w => w[f] = ShownMember(k, f, v)
        BY MeaningIs
    <2>6. \A u : IsValue(d, u) => ObjectIn(d, u)
        BY <1>8, ValueCases
    <2>7. Asks(f) <=> IF IsList(k, f)
                      THEN \A j \in DOMAIN v : IsInitializedIn(d, v[j])
                      ELSE Has(k, m, f) => IsInitializedIn(d, v)
        OBVIOUS
    <2>8. Holds1(i) <=> IF IsList(k, f) THEN \A j \in DOMAIN w[f] : CompleteIn(d, w[f][j])
                        ELSE CompleteIn(d, w[f])
        BY <2>1
    <2> HIDE DEF Asks, Holds1, f, v, w, d
    <2>9. CASE IsList(k, f)
        <3>1. \A j \in DOMAIN v : ObjectIn(d, v[j])
            BY <2>1, <2>6, <2>9 DEF IsMember, d, f
        <3>2. f \in DOMAIN w =>
                DOMAIN w[f] = DOMAIN v /\ \A j \in DOMAIN v : w[f][j] = Shown(k, f, v[j])
            BY <2>5, <2>9 DEF ShownMember
        <3>3. v = <<>> => \A j \in DOMAIN v : IsInitializedIn(d, v[j])
            OBVIOUS
        <3> QED
            BY <2>3, <2>4, <2>7, <2>8, <2>9, <3>1, <3>2, <3>3 DEF f
    <2>10. CASE ~ IsList(k, f)
        <3>1. ObjectIn(d, v)
            BY <2>1, <2>6, <2>10 DEF IsMember, d, f
        <3>2. f \in DOMAIN w => w[f] = Shown(k, f, v)
            BY <2>5, <2>10 DEF ShownMember
        <3> QED
            BY <2>3, <2>4, <2>7, <2>8, <2>10, <3>1, <3>2 DEF f
    <2> QED
        BY <2>9, <2>10
<1>9. (\A f \in t.nested : Asks(f)) <=> \A i \in Rows(k) : c(i) \notin Scalars => Asks(n(i))
    <2> HIDE DEF Asks, n
    <2> QED
        BY <1>1, <1>2
<1>10. \A i \in required : i \in Rows(k)
    OBVIOUS
<1> HIDE DEF Asks, Holds1, w, c, required
<1>11. IsInitialized(k, m) <=> Complete(k, w)
    BY <1>3, <1>5, <1>6, <1>7, <1>8, <1>9, <1>10
<1> QED
    BY <1>11 DEF w

\* Nothing is shown of a new object.
LEMMA NewMeansNothing == ASSUME NEW k, Sound(k) PROVE Meaning(k, New(k)) = <<>>
<1>1. Fields(k, New(k)) = {}
    BY DEF Fields, New, Zero, Has
<1> DEFINE w == Meaning(k, New(k))
<1>2. w = [f \in Fields(k, New(k)) |-> ShownMember(k, f, New(k).val[f])]
    BY MeaningIs
<1> DEFINE S(f) == ShownMember(k, f, New(k).val[f])
<1>3. w = [f \in {} |-> S(f)]
    BY <1>1, <1>2
<1> HIDE DEF w, S
<1>4. w = <<>>
    BY <1>3
<1> QED
    BY <1>4 DEF w

LEMMA FieldNamedIs ==
    ASSUME NEW k, Sound(k), NEW i \in Rows(k)
    PROVE  FieldNamed(k, NameOf(k, i)) = FieldOf(k, i)
<1> DEFINE P(x) == x \in FieldsOf(k) /\ x.name = NameOf(k, i)
<1>1. FieldsOf(k) = {FieldOf(k, j) : j \in Rows(k)}
    BY DEF FieldsOf, Range, Rows, FieldOf
<1>2. P(FieldOf(k, i))
    BY <1>1 DEF NameOf
<1>3. ASSUME NEW x, P(x) PROVE x = FieldOf(k, i)
    <2>1. PICK j \in Rows(k) : x = FieldOf(k, j)
        BY <1>1, <1>3
    <2>2. NameOf(k, j) = NameOf(k, i)
        BY <1>3, <2>1 DEF NameOf
    <2>3. i = j
        BY <2>2, RowsAre
    <2> QED
        BY <2>1, <2>3
<1>4. FieldNamed(k, NameOf(k, i)) = CHOOSE x : P(x)
    BY DEF FieldNamed
<1> HIDE DEF P
<1> QED
    BY <1>2, <1>3, <1>4

\* What is shown of a member after a merge
LEMMA MergedMemberMeans ==
    ASSUME NEW k, Sound(k), NEW to, Object(k, to), NEW from, Object(k, from),
           NEW i \in Rows(k), NEW f, f = NameOf(k, i)
    PROVE  LET m == MergeFrom(k, to, from)
               w == Meaning(k, to)
               z == Meaning(k, from)
           IN  /\ f \in Fields(k, m) <=> f \in DOMAIN w \/ f \in DOMAIN z
               /\ f \in Fields(k, m) =>
                    ShownMember(k, f, m.val[f])
                      = IF f \notin DOMAIN z THEN w[f]
                        ELSE IF f \notin DOMAIN w THEN z[f]
                        ELSE IF FieldOf(k, i).label = "repeated" THEN w[f] \o z[f]
                        ELSE IF IsMessage(FieldOf(k, i).type)
                        THEN JoinIn(FieldOf(k, i).type, w[f], z[f])
                        ELSE z[f]
<1> DEFINE m == MergeFrom(k, to, from)
           w == Meaning(k, to)
           z == Meaning(k, from)
           a == to.val[f]
           b == from.val[f]
           v == MergedMember(k, f, to, from)
           c == TypeOf(k, f)
<1>1. f \in Members(k) /\ c = FieldOf(k, i).type /\ (FieldOf(k, i).label = "repeated" <=> IsList(k, f))
    BY RowIs DEF FitsRow, NameOf, IsList
<1>2. IsMember(k, f, a) /\ IsMember(k, f, b)
    BY <1>1 DEF Object
<1>3. m = [bits |-> to.bits \cup from.bits,
           val |-> [g \in Members(k) |-> MergedMember(k, g, to, from)],
           unknown |-> to.unknown \o from.unknown]
    BY MergeFromIs
<1>4. m.val[f] = v /\ (Has(k, m, f) <=> Has(k, to, f) \/ Has(k, from, f))
    <2> HIDE DEF m
    <2> QED
        BY <1>1, <1>3 DEF Has
<1>5. /\ f \in DOMAIN w <=> IF IsList(k, f) THEN a # <<>> ELSE Has(k, to, f)
      /\ f \in DOMAIN z <=> IF IsList(k, f) THEN b # <<>> ELSE Has(k, from, f)
      /\ f \in Fields(k, m) <=> IF IsList(k, f) THEN v # <<>> ELSE Has(k, m, f)
    <2>1. /\ f \in Fields(k, to) <=> IF IsList(k, f) THEN a # <<>> ELSE Has(k, to, f)
          /\ f \in Fields(k, from) <=> IF IsList(k, f) THEN b # <<>> ELSE Has(k, from, f)
        BY <1>1 DEF Fields
    <2>2. f \in Fields(k, m) <=> IF IsList(k, f) THEN v # <<>> ELSE Has(k, m, f)
        <3> HIDE DEF m, v
        <3> QED
            BY <1>1, <1>4 DEF Fields
    <2> QED
        BY <2>1, <2>2, MeaningIs
<1>6. /\ f \in DOMAIN w => w[f] = ShownMember(k, f, a)
      /\ f \in DOMAIN z => z[f] = ShownMember(k, f, b)
    BY MeaningIs
<1>7. c \notin Scalars => GoodIn(c)
    BY <1>1 DEF Sound
<1>8. IsMessage(c) <=> c \notin Scalars
    BY DEF IsMessage
<1>9. CASE IsList(k, f)
    <2>1. IsSequence(a) /\ IsSequence(b)
        BY <1>2, <1>9 DEF IsMember
    <2>2. v = a \o b
        <3>1. IsList(k, f) => v = a \o b
            BY <1>1, MergedMemberIs DEF MergedMember
        <3> QED
            BY <1>9, <3>1
    <2> DEFINE S(u) == [j \in DOMAIN u |-> Shown(k, f, u[j])]
    <2>3. /\ DOMAIN a = 1 .. Len(a) /\ Len(a) \in Nat /\ DOMAIN b = 1 .. Len(b) /\ Len(b) \in Nat
          /\ DOMAIN (a \o b) = 1 .. Len(a) + Len(b) /\ IsSequence(a \o b)
          /\ \A j \in 1 .. Len(a) + Len(b) :
               (a \o b)[j] = IF j <= Len(a) THEN a[j] ELSE b[j - Len(a)]
        <3> HIDE DEF a, b
        <3> QED
            BY <2>1, ConcatIsSequence
    <2> HIDE DEF m, a, b, v, c
    <2>4. a \o b # <<>> <=> a # <<>> \/ b # <<>>
        <3>1. \A u : IsSequence(u) => (u = <<>> <=> Len(u) = 0)
            BY EmptySeq DEF IsSequence
        <3>2. Len(a \o b) = Len(a) + Len(b)
            BY <2>1, ConcatProperties, <2>3 DEF IsSequence
        <3> QED
            BY <2>1, <2>3, <3>1, <3>2
    <2>5. S(a \o b) = S(a) \o S(b)
        <3> DEFINE T == {Shown(k, f, a[j]) : j \in DOMAIN a} \cup {Shown(k, f, b[j]) : j \in DOMAIN b}
                   u == a \o b
                   sa == S(a)
                   sb == S(b)
                   su == S(u)
        <3>1. /\ DOMAIN sa = 1 .. Len(a) /\ DOMAIN sb = 1 .. Len(b)
              /\ \A j \in DOMAIN a : sa[j] = Shown(k, f, a[j]) /\ sa[j] \in T
              /\ \A j \in DOMAIN b : sb[j] = Shown(k, f, b[j]) /\ sb[j] \in T
              /\ sa = [j \in DOMAIN sa |-> sa[j]] /\ sb = [j \in DOMAIN sb |-> sb[j]]
            BY <2>3
        <3>2. DOMAIN su = 1 .. Len(a) + Len(b) /\ su = [j \in DOMAIN su |-> su[j]]
              /\ \A j \in 1 .. Len(a) + Len(b) :
                   su[j] = IF j <= Len(a) THEN Shown(k, f, a[j]) ELSE Shown(k, f, b[j - Len(a)])
            BY <2>3
        <3> HIDE DEF T, sa, sb, su, u
        <3>3. sa \in Seq(T) /\ Len(sa) = Len(a) /\ sb \in Seq(T) /\ Len(sb) = Len(b)
            <4>1. sa \in [1 .. Len(a) -> T] /\ sb \in [1 .. Len(b) -> T]
                BY <2>3, <3>1
            <4> QED
                BY <2>3, <4>1, IsSeqOf
        <3>4. \A j \in 1 .. Len(a) + Len(b) : j > Len(a) => j - Len(a) \in 1 .. Len(b)
            BY <2>3
        <3>5. \A j \in 1 .. Len(a) + Len(b) :
                su[j] = IF j <= Len(a) THEN sa[j] ELSE sb[j - Len(a)]
            BY <2>3, <3>1, <3>2, <3>4
        <3>6. \A j \in 1 .. Len(a) + Len(b) : su[j] \in T
            BY <2>3, <3>1, <3>4, <3>5
        <3>7. su \in Seq(T) /\ Len(su) = Len(a) + Len(b)
            <4> DEFINE n == Len(a) + Len(b)
            <4>1. n \in Nat
                BY <2>3
            <4>2. su \in [1 .. n -> T]
                BY <3>2, <3>6
            <4> HIDE DEF n
            <4>3. su \in Seq(T) /\ Len(su) = n
                BY <4>1, <4>2, IsSeqOf
            <4> QED
                BY <4>3 DEF n
        <3>8. sa \o sb \in Seq(T) /\ Len(sa \o sb) = Len(a) + Len(b)
              /\ \A j \in 1 .. Len(a) + Len(b) :
                   (sa \o sb)[j] = IF j <= Len(a) THEN sa[j] ELSE sb[j - Len(a)]
            <4> DEFINE sc == sa \o sb
            <4>1. sc \in Seq(T) /\ Len(sc) = Len(sa) + Len(sb)
                  /\ \A j \in 1 .. Len(sa) + Len(sb) :
                       sc[j] = IF j <= Len(sa) THEN sa[j] ELSE sb[j - Len(sa)]
                BY <3>3, ConcatProperties
            <4> HIDE DEF sc
            <4>2. sc \in Seq(T) /\ Len(sc) = Len(a) + Len(b)
                  /\ \A j \in 1 .. Len(a) + Len(b) :
                       sc[j] = IF j <= Len(a) THEN sa[j] ELSE sb[j - Len(a)]
                BY <3>3, <4>1
            <4> QED
                BY <4>2 DEF sc
        <3> DEFINE sc == sa \o sb
        <3> HIDE DEF sc
        <3>9. su = sc
            BY <3>5, <3>7, <3>8, SeqEqual DEF sc
        <3> QED
            BY <3>9 DEF sa, sb, sc, su, u
    <2>6. ShownMember(k, f, a) = S(a) /\ ShownMember(k, f, b) = S(b)
          /\ ShownMember(k, f, v) = S(v)
        BY <1>9 DEF ShownMember
    <2>7. S(<<>>) = <<>>
        OBVIOUS
    <2>8. \A u : IsSequence(u) => u \o <<>> = u /\ <<>> \o u = u
        BY ConcatEmptySeq DEF IsSequence
    <2> HIDE DEF S
    <2> DEFINE A == f \in DOMAIN w
               B == f \in DOMAIN z
    <2>9. (A <=> a # <<>>) /\ (B <=> b # <<>>) /\ (f \in Fields(k, m) <=> v # <<>>)
        BY <1>5, <1>9
    <2>10. f \in Fields(k, m) <=> A \/ B
        BY <2>2, <2>4, <2>9
    <2>11. ~ B => S(v) = S(a)
        BY <2>1, <2>2, <2>8, <2>9, Zenon
    <2>12. ~ A => S(v) = S(b)
        BY <2>1, <2>2, <2>8, <2>9, Zenon
    <2>13. S(v) = S(a) \o S(b)
        BY <2>2, <2>5, Zenon
    <2>14. (A => w[f] = S(a)) /\ (B => z[f] = S(b))
        BY <1>6, <2>6
    <2> HIDE DEF w, z
    <2>15. f \in Fields(k, m) =>
             S(v) = IF ~ B THEN w[f] ELSE IF ~ A THEN z[f] ELSE w[f] \o z[f]
        BY <2>10, <2>11, <2>12, <2>13, <2>14, Zenon
    <2> QED
        BY <1>1, <1>4, <1>9, <2>6, <2>10, <2>15 DEF m, w, z
<1>10. CASE ~ IsList(k, f)
    <2>1. IsValue(c, a) /\ IsValue(c, b)
        BY <1>2, <1>10 DEF IsMember
    <2>2. v = IF Has(k, from, f) THEN MergedValue(c, a, b) ELSE a
        BY <1>10 DEF MergedMember
    <2>3. ~ Has(k, to, f) => a = Zero(k, f)
        <3>1. f \in DOMAIN Classes[k].has
            BY <1>1, <1>10, MembersSplit
        <3> QED
            BY <3>1 DEF Object, Has
    <2>4. \A u : ShownMember(k, f, u) = IF c \in Scalars THEN u ELSE MeaningIn(c, u)
        BY <1>10 DEF ShownMember, Shown, HoldsMessage
    <2>5. c \notin Scalars => Zero(k, f) = NewIn(c)
        BY <1>10 DEF Zero, ZeroOf, Scalars, VarintTypes
    <2>6. c \notin Scalars => ObjectIn(c, a) /\ ObjectIn(c, b)
        BY <2>1, ValueCases
    <2> HIDE DEF m, a, b, v, c
    <2>7. CASE c \in Scalars
        BY <1>1, <1>4, <1>5, <1>6, <1>8, <1>10, <2>2, <2>4, <2>7 DEF MergedValue, m
    <2>8. CASE c \notin Scalars
        <3>1. MergedValue(c, a, b) = MergeFromIn(c, a, b)
            BY <2>8 DEF MergedValue
        <3>2. MeaningIn(c, MergeFromIn(c, a, b)) = JoinIn(c, MeaningIn(c, a), MeaningIn(c, b))
            BY <1>7, <2>6, <2>8 DEF GoodIn
        <3>3. ~ Has(k, to, f) => MergeFromIn(c, a, b) = b
            BY <1>7, <2>3, <2>5, <2>6, <2>8 DEF GoodIn
        <3> QED
            BY <1>1, <1>4, <1>5, <1>6, <1>8, <1>10, <2>2, <2>4, <2>8, <3>1, <3>2, <3>3 DEF m
    <2> QED
        BY <2>7, <2>8
<1> QED
    BY <1>9, <1>10

\* MergeFrom joins what is shown of the two objects.
THEOREM MergeJoins ==
    ASSUME NEW k, Sound(k), NEW to, Object(k, to), NEW from, Object(k, from)
    PROVE  Meaning(k, MergeFrom(k, to, from)) = Join(k, Meaning(k, to), Meaning(k, from))
<1> DEFINE m == MergeFrom(k, to, from)
           w == Meaning(k, to)
           z == Meaning(k, from)
           J(f) == IF f \notin DOMAIN z THEN w[f]
                   ELSE IF f \notin DOMAIN w THEN z[f]
                   ELSE IF FieldNamed(k, f).label = "repeated" THEN w[f] \o z[f]
                   ELSE IF IsMessage(FieldNamed(k, f).type)
                   THEN JoinIn(FieldNamed(k, f).type, w[f], z[f])
                   ELSE z[f]
           S(f) == ShownMember(k, f, m.val[f])
<1>1. DOMAIN w \subseteq Members(k) /\ DOMAIN z \subseteq Members(k) /\ Fields(k, m) \subseteq Members(k)
    BY MeaningIs DEF Fields
<1>2. ASSUME NEW f \in Members(k)
      PROVE  (f \in Fields(k, m) <=> f \in DOMAIN w \/ f \in DOMAIN z)
             /\ (f \in Fields(k, m) => S(f) = J(f))
    <2>1. PICK i \in Rows(k) : f = NameOf(k, i)
        BY RowsAre
    <2>2. FieldNamed(k, f) = FieldOf(k, i)
        BY <2>1, FieldNamedIs
    <2> QED
        BY <2>1, <2>2, MergedMemberMeans
<1>3. Meaning(k, m) = [f \in Fields(k, m) |-> S(f)]
    BY MeaningIs
<1>4. Join(k, w, z) = [f \in DOMAIN w \cup DOMAIN z |-> J(f)]
    BY DEF Join
<1> HIDE DEF m, w, z, J, S
<1>5. Fields(k, m) = DOMAIN w \cup DOMAIN z
    BY <1>1, <1>2
<1>6. [f \in Fields(k, m) |-> S(f)] = [f \in DOMAIN w \cup DOMAIN z |-> J(f)]
    BY <1>1, <1>2, <1>5
<1>7. Meaning(k, m) = Join(k, w, z)
    BY <1>3, <1>4, <1>6, Zenon
<1> QED
    BY <1>7 DEF m, w, z

-----------------------------------------------------------------------------
(* Messages, and the objects that stand for them *)

IsWordValue(type, v) ==
  CASE type = "bool" -> v \in BOOLEAN
    [] type = "string" -> v \in Seq(Byte)
    [] type \in VarintTypes \ {"bool"} -> v \in Nat
    [] OTHER -> WordIn(type, v)

IsWordMember(k, f, v) ==
  IF IsList(k, f)
  THEN IsSequence(v) /\ v # <<>> /\ \A i \in DOMAIN v : IsWordValue(TypeOf(k, f), v[i])
  ELSE IsWordValue(TypeOf(k, f), v)

\* w is a message of the type of class k.
Word(k, w) ==
  /\ w = [f \in DOMAIN w |-> w[f]]
  /\ DOMAIN w \subseteq Members(k)
  /\ \A f \in DOMAIN w : IsWordMember(k, f, w[f])

LEMMA MadeIs ==
    ASSUME NEW k, Sound(k), NEW f \in Members(k), NEW v, IsWordValue(TypeOf(k, f), v)
    PROVE  IsValue(TypeOf(k, f), Made(k, f, v)) /\ Shown(k, f, Made(k, f, v)) = v
<1> DEFINE c == TypeOf(k, f)
<1>0. IsWordValue(c, v)
    OBVIOUS
<1>1. c \notin Scalars => Expressible(c)
    BY DEF Sound
<1>2. Made(k, f, v) = IF c \in Scalars THEN v ELSE BuildIn(c, v)
    BY DEF Made, HoldsMessage
<1>3. \A u : Shown(k, f, u) = IF c \in Scalars THEN u ELSE MeaningIn(c, u)
    BY DEF Shown, HoldsMessage
<1> HIDE DEF c
<1>4. CASE c \in Scalars
    BY <1>0, <1>2, <1>3, <1>4 DEF IsValue, IsWordValue, Scalars, VarintTypes, c
<1>5. CASE c \notin Scalars
    <2>1. WordIn(c, v)
        BY <1>0, <1>5 DEF IsWordValue, Scalars, VarintTypes
    <2>2. ObjectIn(c, BuildIn(c, v)) /\ MeaningIn(c, BuildIn(c, v)) = v
        BY <1>1, <1>5, <2>1 DEF Expressible
    <2>3. IsValue(c, BuildIn(c, v))
        BY <1>5, <2>2 DEF IsValue, Scalars, VarintTypes
    <2> QED
        BY <1>2, <1>3, <1>5, <2>2, <2>3 DEF c
<1> QED
    BY <1>4, <1>5

MadeMember(k, f, v) ==
  IF IsList(k, f) THEN [i \in DOMAIN v |-> Made(k, f, v[i])] ELSE Made(k, f, v)

LEMMA MadeMemberIs ==
    ASSUME NEW k, Sound(k), NEW f \in Members(k), NEW v, IsWordMember(k, f, v)
    PROVE  /\ IsMember(k, f, MadeMember(k, f, v))
           /\ ShownMember(k, f, MadeMember(k, f, v)) = v
           /\ IsList(k, f) => MadeMember(k, f, v) # <<>>
<1>1. CASE IsList(k, f)
    <2> DEFINE u == [i \in DOMAIN v |-> Made(k, f, v[i])]
               T == {u[i] : i \in DOMAIN u}
               n == Len(v)
    <2>1. n \in Nat /\ DOMAIN v = 1 .. n /\ v = [i \in DOMAIN v |-> v[i]] /\ n # 0
        BY <1>1, LenProperties, EmptySeq DEF IsWordMember, IsSequence
    <2>2. \A i \in DOMAIN v : IsValue(TypeOf(k, f), u[i]) /\ Shown(k, f, u[i]) = v[i]
        BY <1>1, MadeIs DEF IsWordMember
    <2>3. DOMAIN u = DOMAIN v /\ u = [i \in DOMAIN u |-> u[i]]
        OBVIOUS
    <2> HIDE DEF u
    <2>4. u \in [1 .. n -> T]
        BY <2>1, <2>3
    <2> HIDE DEF T, n
    <2>5. u \in Seq(T) /\ Len(u) = n
        BY <2>1, <2>4, IsSeqOf
    <2>6. IsSequence(u)
        BY <2>5 DEF IsSequence, T
    <2>7. u # <<>>
        BY <2>1, <2>5
    <2>8. [i \in DOMAIN u |-> Shown(k, f, u[i])] = v
        BY <2>1, <2>2, <2>3
    <2>9. MadeMember(k, f, v) = u
        BY <1>1 DEF MadeMember, u
    <2> QED
        BY <1>1, <2>2, <2>3, <2>6, <2>7, <2>8, <2>9 DEF IsMember, ShownMember
<1>2. CASE ~ IsList(k, f)
    BY <1>2, MadeIs DEF IsWordMember, IsMember, MadeMember, ShownMember
<1> QED
    BY <1>1, <1>2

\* The accessors make an object of every message, and it stands for that message.
THEOREM BuildIs ==
    ASSUME NEW k, Sound(k), NEW w, Word(k, w)
    PROVE  Plain(k, Build(k, w)) /\ Meaning(k, Build(k, w)) = w
<1> DEFINE m == Build(k, w)
           V(f) == IF f \notin DOMAIN w THEN Zero(k, f) ELSE MadeMember(k, f, w[f])
           bits == {Classes[k].has[f] : f \in DOMAIN w \ Classes[k].lists}
<1>1. m = [bits |-> bits, val |-> [f \in Members(k) |-> V(f)], unknown |-> <<>>]
    BY DEF Build, MadeMember
<1>2. /\ DOMAIN w \subseteq Members(k)
      /\ w = [f \in DOMAIN w |-> w[f]]
      /\ \A f \in DOMAIN w : IsWordMember(k, f, w[f])
    BY DEF Word
<1>3. \A f \in DOMAIN w : /\ IsMember(k, f, V(f))
                          /\ ShownMember(k, f, V(f)) = w[f]
                          /\ IsList(k, f) => V(f) # <<>>
    BY <1>2, MadeMemberIs
<1>4. \A f \in Members(k) : f \notin DOMAIN w => V(f) = Zero(k, f)
    OBVIOUS
<1>5. \A f \in Members(k) : IsMember(k, f, V(f))
    <2> HIDE DEF V
    <2> QED
        BY <1>3, <1>4, ZeroIsMember
<1>6. \A f \in DOMAIN Classes[k].has : Classes[k].has[f] \in bits <=> f \in DOMAIN w
    <2>1. \A f, g \in DOMAIN Classes[k].has : Classes[k].has[f] = Classes[k].has[g] => f = g
        BY DEF Sound, Fits, FitsMembers
    <2>2. \A f \in DOMAIN w : f \notin Classes[k].lists => f \in DOMAIN Classes[k].has
        BY <1>2, MembersSplit DEF IsList
    <2>3. \A f \in DOMAIN Classes[k].has : f \notin Classes[k].lists
        BY MembersSplit DEF IsList
    <2> QED
        BY <2>1, <2>2, <2>3
<1>7. bits \subseteq {Classes[k].has[f] : f \in DOMAIN Classes[k].has}
    <2>1. \A f \in DOMAIN w : f \notin Classes[k].lists => f \in DOMAIN Classes[k].has
        BY <1>2, MembersSplit DEF IsList
    <2> QED
        BY <2>1
<1> HIDE DEF m, V, bits
<1>8. m.bits = bits /\ m.unknown = <<>> /\ m.val = [f \in Members(k) |-> V(f)]
    BY <1>1
<1>9. \A f \in Members(k) : m.val[f] = V(f)
    BY <1>8
<1>10. Plain(k, m)
    <2>1. \A f \in DOMAIN Classes[k].has : Classes[k].has[f] \notin m.bits => m.val[f] = Zero(k, f)
        BY <1>4, <1>6, <1>8, <1>9, MembersSplit
    <2>2. m = [bits |-> m.bits, val |-> m.val, unknown |-> m.unknown]
          /\ m.val = [f \in Members(k) |-> m.val[f]]
        BY <1>1
    <2> QED
        BY <1>5, <1>7, <1>8, <1>9, <2>1, <2>2 DEF Plain, Object
<1>11. Fields(k, m) = DOMAIN w
    <2>1. \A f \in Members(k) : ~ IsList(k, f) => (Has(k, m, f) <=> f \in DOMAIN w)
        BY <1>6, <1>8, MembersSplit DEF Has
    <2>2. \A f \in Members(k) : IsList(k, f) => (m.val[f] # <<>> <=> f \in DOMAIN w)
        BY <1>3, <1>4, <1>9 DEF Zero
    <2> QED
        BY <1>2, <2>1, <2>2 DEF Fields
<1>12. Meaning(k, m) = [f \in Fields(k, m) |-> ShownMember(k, f, m.val[f])]
    BY MeaningIs
<1>13. \A f \in DOMAIN w : ShownMember(k, f, m.val[f]) = w[f]
    BY <1>2, <1>3, <1>9
<1>14. Meaning(k, m) = w
    BY <1>2, <1>11, <1>12, <1>13
<1> QED
    BY <1>10, <1>14 DEF m

\* Bytes that follow a message are fields of an object that has them as unknown fields.
LEMMA UnknownAfter ==
    ASSUME NEW k, Sound(k), NEW m, Plain(k, m), NEW u \in {<<>>, Stranger}
    PROVE  LET n == [bits |-> m.bits, val |-> m.val, unknown |-> u]
           IN  /\ Object(k, n)
               /\ Meaning(k, n) = Meaning(k, m)
               /\ Serialize(k, n) = Serialize(k, m) \o u
<1> DEFINE n == [bits |-> m.bits, val |-> m.val, unknown |-> u]
<1>1. n.bits = m.bits /\ n.val = m.val /\ n.unknown = u
      /\ n = [bits |-> n.bits, val |-> n.val, unknown |-> n.unknown]
    OBVIOUS
<1> HIDE DEF n
<1>2. Object(k, n)
    BY <1>1 DEF Plain, Object
<1>3. Fields(k, n) = Fields(k, m)
    BY <1>1 DEF Fields, Has
<1>4. Meaning(k, n) = Meaning(k, m)
    BY <1>1, <1>3, MeaningIs
<1>5. Serialize(k, n) = Encode(k, Meaning(k, n)) \o u
    BY <1>1, <1>2, SerializeEncodes
<1>6. Serialize(k, m) = Encode(k, Meaning(k, m))
    <2> DEFINE e == Encode(k, Meaning(k, m))
               N == Len(Schemas[k])
    <2>1. m.unknown = <<>> /\ Object(k, m)
        BY DEF Plain
    <2>2. Serialize(k, m) = e \o <<>>
        BY <2>1, SerializeEncodes
    <2>3. UptoBytes(k, m, N) \in Bytes /\ Serialize(k, m) = UptoBytes(k, m, N) \o <<>>
        <3>1. N \in Nat /\ N <= N
            BY RowsAre
        <3>2. UptoBytes(k, m, N) \in Bytes
            BY <2>1, <3>1, ParseUpto
        <3> QED
            BY <2>1, <3>2, SerializeIs
    <2>4. UptoBytes(k, m, N) = e
        BY <2>1, UptoEncodes
    <2> HIDE DEF e, N
    <2>5. e \o <<>> = e
        BY <2>3, <2>4, ConcatEmptySeq DEF Bytes
    <2> QED
        BY <2>2, <2>5 DEF e
<1> QED
    BY <1>2, <1>4, <1>5, <1>6 DEF n

\* What is in m after the bytes of message w, and the bytes u of unknown fields, were parsed.
Parsed(k, m, w, u) ==
  MergeFrom(k, m, [bits |-> Build(k, w).bits, val |-> Build(k, w).val, unknown |-> u])

\* Parsing the bytes of a message, and a field nobody knows after them, joins the message.
THEOREM ParsedIs ==
    ASSUME NEW k, Sound(k), NEW m, Object(k, m), NEW w, Word(k, w), NEW u \in {<<>>, Stranger},
           u = <<>> \/ m.unknown = <<>>
    PROVE  /\ Parse(k, m, Serialize(k, Build(k, w)) \o u) = {Parsed(k, m, w, u)}
           /\ Object(k, Parsed(k, m, w, u))
           /\ Meaning(k, Parsed(k, m, w, u)) = Join(k, Meaning(k, m), w)
<1> DEFINE b == Build(k, w)
           c == [bits |-> b.bits, val |-> b.val, unknown |-> u]
           n == MergeFrom(k, m, c)
<1>1. Plain(k, b) /\ Meaning(k, b) = w
    BY BuildIs
<1> HIDE DEF b
<1>2. c.unknown = u
    OBVIOUS
<1>3. Object(k, c) /\ Meaning(k, c) = w /\ Serialize(k, c) = Serialize(k, b) \o u
    BY <1>1, UnknownAfter
<1> HIDE DEF c
<1>4. Parse(k, m, Serialize(k, c)) = {n}
    BY <1>3, ParseIsMerge
<1>5. Object(k, n)
    BY <1>2, <1>3, MergeIsObject
<1>6. Meaning(k, n) = Join(k, Meaning(k, m), Meaning(k, c))
    BY <1>3, MergeJoins
<1> HIDE DEF n
<1>7. Parse(k, m, Serialize(k, b) \o u) = {n} /\ Meaning(k, n) = Join(k, Meaning(k, m), w)
    BY <1>3, <1>4, <1>6
<1>8. n = Parsed(k, m, w, u)
    BY Zenon DEF n, c, b, Parsed
<1> QED
    BY <1>5, <1>7, <1>8 DEF b

\* The accessors set_x and add_x

LEMMA FieldIsRow ==
    ASSUME NEW k, Sound(k), NEW x \in FieldsOf(k)
    PROVE  /\ \E i \in Rows(k) : x = FieldOf(k, i)
           /\ x.name \in Members(k) /\ TypeOf(k, x.name) = x.type
           /\ x.label = "repeated" <=> IsList(k, x.name)
           /\ FieldNamed(k, x.name) = x
           /\ x.number \in 1 .. 14
<1>1. PICK i \in Rows(k) : x = FieldOf(k, i)
    BY DEF FieldsOf, Range, Rows, FieldOf
<1>2. x.name = NameOf(k, i)
    BY <1>1 DEF NameOf
<1>3. FitsRow(Classes[k], Row(k, i), x) /\ x.name \in Members(k) /\ TypeOf(k, x.name) = x.type
    BY <1>1, <1>2, RowIs
<1>4. FieldNamed(k, x.name) = x
    BY <1>1, <1>2, FieldNamedIs
<1> QED
    BY <1>1, <1>3, <1>4 DEF FitsRow, IsList

\* set_x gives the message the field x, with the value that was set, and changes no other
\* field of it.
THEOREM SetSets ==
    ASSUME NEW k, Sound(k), NEW m, Object(k, m), NEW x \in FieldsOf(k), x.label # "repeated",
           NEW v, IsWordValue(x.type, v)
    PROVE  LET n == Set(k, m, x.name, Made(k, x.name, v))
               w == Meaning(k, m)
           IN  /\ Object(k, n)
               /\ Meaning(k, n) = [f \in DOMAIN w \cup {x.name} |-> IF f = x.name THEN v ELSE w[f]]
<1> DEFINE f == x.name
           u == Made(k, f, v)
           n == Set(k, m, f, u)
           w == Meaning(k, m)
           bit == Classes[k].has[f]
<1>1. f \in Members(k) /\ TypeOf(k, f) = x.type /\ ~ IsList(k, f)
    BY FieldIsRow
<1>2. IsValue(TypeOf(k, f), u) /\ Shown(k, f, u) = v
    BY <1>1, MadeIs
<1>3. f \in DOMAIN Classes[k].has
    BY <1>1, MembersSplit
<1>4. \A g \in DOMAIN Classes[k].has : Classes[k].has[g] = bit => g = f
    BY <1>3 DEF Sound, Fits, FitsMembers
<1> HIDE DEF u, f
<1>5. n = [bits |-> m.bits \cup {bit}, unknown |-> m.unknown, val |-> With(k, m.val, f, u)]
    BY <1>1, ObjectIsShaped, SetIs
<1> HIDE DEF n
<1>6. n.bits = m.bits \cup {bit} /\ n.unknown = m.unknown
      /\ (\A g \in Members(k) : n.val[g] = IF g = f THEN u ELSE m.val[g])
      /\ n.val = [g \in Members(k) |-> n.val[g]]
      /\ n = [bits |-> n.bits, val |-> n.val, unknown |-> n.unknown]
    BY <1>5 DEF With
<1>7. Object(k, n)
    <2>1. n.bits \subseteq {Classes[k].has[g] : g \in DOMAIN Classes[k].has}
        BY <1>3, <1>6 DEF Object
    <2>2. \A g \in Members(k) : IsMember(k, g, n.val[g])
        BY <1>1, <1>2, <1>6 DEF Object, IsMember
    <2>3. ASSUME NEW g \in DOMAIN Classes[k].has, Classes[k].has[g] \notin n.bits
          PROVE  n.val[g] = Zero(k, g)
        <3>1. g # f /\ Classes[k].has[g] \notin m.bits /\ g \in Members(k)
            BY <1>6, <2>3, MembersSplit
        <3> QED
            BY <1>6, <3>1 DEF Object
    <2>4. n.unknown \in {<<>>, Stranger}
        BY <1>6 DEF Object
    <2> QED
        BY <1>6, <2>1, <2>2, <2>3, <2>4 DEF Object
<1>8. \A g \in Members(k) : g # f /\ ~ IsList(k, g) => (Has(k, n, g) <=> Has(k, m, g))
    BY <1>4, <1>6, MembersSplit DEF Has
<1>9. Fields(k, n) = Fields(k, m) \cup {f}
    <2>1. Has(k, n, f)
        BY <1>6 DEF Has
    <2>2. \A g \in Members(k) : g # f =>
            ((IF IsList(k, g) THEN n.val[g] # <<>> ELSE Has(k, n, g))
              <=> IF IsList(k, g) THEN m.val[g] # <<>> ELSE Has(k, m, g))
        BY <1>6, <1>8
    <2> QED
        BY <1>1, <2>1, <2>2 DEF Fields
<1>10. \A g \in Fields(k, n) :
         ShownMember(k, g, n.val[g]) = IF g = f THEN v ELSE w[g]
    <2>1. ShownMember(k, f, n.val[f]) = v
        BY <1>1, <1>2, <1>6 DEF ShownMember
    <2>2. \A g \in Fields(k, m) : g # f => ShownMember(k, g, n.val[g]) = w[g]
        <3>1. \A g \in Fields(k, m) : g \in Members(k)
            BY DEF Fields
        <3>2. \A g \in Fields(k, m) : w[g] = ShownMember(k, g, m.val[g])
            BY MeaningIs
        <3> HIDE DEF w
        <3> QED
            BY <1>6, <3>1, <3>2
    <2> QED
        BY <1>9, <2>1, <2>2
<1>11. DOMAIN w = Fields(k, m)
    BY MeaningIs
<1>12. Meaning(k, n) = [g \in Fields(k, n) |-> ShownMember(k, g, n.val[g])]
    BY MeaningIs
<1>13. Meaning(k, n) = [g \in DOMAIN w \cup {f} |-> IF g = f THEN v ELSE w[g]]
    <2> HIDE DEF w
    <2> QED
        BY <1>9, <1>10, <1>11, <1>12
<1> QED
    BY <1>7, <1>13 DEF n, u, f

\* The message with field f alone
Alone(f, v) == [g \in {f} |-> v]

\* An element is added to a list as a message with that element alone is merged.
THEOREM AddJoins ==
    ASSUME NEW k, Sound(k), NEW m, Object(k, m), NEW x \in FieldsOf(k), x.label = "repeated",
           NEW v, IsWordValue(x.type, v)
    PROVE  LET n == Add(m, x.name, Made(k, x.name, v))
           IN  /\ Object(k, n)
               /\ Meaning(k, n) = Join(k, Meaning(k, m), Alone(x.name, <<v>>))
<1> DEFINE f == x.name
           u == Made(k, f, v)
           n == Add(m, f, u)
           w == [g \in {f} |-> <<v>>]
           b == Build(k, w)
           o == MergeFrom(k, m, b)
<1>1. f \in Members(k) /\ TypeOf(k, f) = x.type /\ IsList(k, f)
    BY FieldIsRow
<1>2. Word(k, w)
    <2>1. IsSequence(<<v>>)
        <3>1. DOMAIN <<v>> = {1} /\ <<v>>[1] = v
            OBVIOUS
        <3>2. <<v>> \in Seq({v}) /\ {<<v>>[i] : i \in DOMAIN <<v>>} = {v}
            BY <3>1
        <3> QED
            BY <3>2 DEF IsSequence
    <2>2. IsWordMember(k, f, <<v>>)
        BY <1>1, <2>1 DEF IsWordMember
    <2> QED
        BY <1>1, <2>2 DEF Word
<1>3. DOMAIN w = {f} /\ w[f] = <<v>>
    OBVIOUS
<1> HIDE DEF w, f
<1>4. Plain(k, b) /\ Meaning(k, b) = w
    BY <1>2, BuildIs
<1>5. b.bits = {} /\ b.unknown = <<>>
      /\ \A g \in Members(k) : b.val[g] = IF g = f THEN <<u>> ELSE Zero(k, g)
    <2>1. DOMAIN w \ Classes[k].lists = {}
        BY <1>1, <1>3 DEF IsList
    <2>2. \A g \in Members(k) :
            (IF g \notin DOMAIN w THEN Zero(k, g)
             ELSE IF IsList(k, g) THEN [i \in DOMAIN w[g] |-> Made(k, g, w[g][i])]
             ELSE Made(k, g, w[g]))
            = IF g = f THEN [i \in DOMAIN <<v>> |-> Made(k, f, <<v>>[i])] ELSE Zero(k, g)
        BY <1>1, <1>3
    <2>3. [i \in DOMAIN <<v>> |-> Made(k, f, <<v>>[i])] = <<u>>
        <3> DEFINE M(y) == Made(k, f, y)
        <3> HIDE DEF M
        <3>1. DOMAIN <<v>> = {1} /\ <<v>>[1] = v
            OBVIOUS
        <3>2. [i \in DOMAIN <<v>> |-> M(<<v>>[i])] = <<M(v)>>
            <4> DEFINE s == [i \in DOMAIN <<v>> |-> M(<<v>>[i])]
                       y == M(v)
            <4>1. DOMAIN s = {1} /\ s[1] = y /\ s = [i \in DOMAIN s |-> s[i]]
                BY <3>1
            <4>2. DOMAIN <<y>> = {1} /\ <<y>>[1] = y /\ <<y>> = [i \in DOMAIN <<y>> |-> <<y>>[i]]
                OBVIOUS
            <4> DEFINE z == <<y>>
            <4> HIDE DEF s, y, z
            <4>3. s = z
                BY <4>1, <4>2 DEF z
            <4> QED
                BY <4>3 DEF s, y, z
        <3> QED
            BY <3>2 DEF M
    <2> HIDE DEF u
    <2> DEFINE B(g) == IF g \notin DOMAIN w THEN Zero(k, g)
                       ELSE IF IsList(k, g) THEN [i \in DOMAIN w[g] |-> Made(k, g, w[g][i])]
                       ELSE Made(k, g, w[g])
               bits == {Classes[k].has[g] : g \in DOMAIN w \ Classes[k].lists}
    <2>4. b = [bits |-> bits, val |-> [g \in Members(k) |-> B(g)], unknown |-> <<>>]
        BY DEF Build
    <2>5. \A g \in Members(k) : B(g) = IF g = f THEN <<u>> ELSE Zero(k, g)
        BY <2>2, <2>3
    <2>6. bits = {}
        BY <2>1
    <2> HIDE DEF b, B, bits
    <2> QED
        BY <2>4, <2>5, <2>6
<1> HIDE DEF b
<1>6. o = [bits |-> m.bits \cup b.bits,
           val |-> [g \in Members(k) |-> MergedMember(k, g, m, b)],
           unknown |-> m.unknown \o b.unknown]
    BY <1>4, MergeFromIs DEF Plain
<1> HIDE DEF u
<1>7. n = [bits |-> m.bits, unknown |-> m.unknown, val |-> With(k, m.val, f, Append(m.val[f], u))]
    BY <1>1, ObjectIsShaped, AddIs
<1>8. ASSUME NEW g \in Members(k)
      PROVE  MergedMember(k, g, m, b) = IF g = f THEN Append(m.val[f], u) ELSE m.val[g]
    <2>1. IsMember(k, g, m.val[g])
        BY DEF Object
    <2>2. IsList(k, g) => MergedMember(k, g, m, b) = m.val[g] \o b.val[g]
        BY <1>4, MergedMemberIs DEF MergedMember, Plain
    <2>3. ~ IsList(k, g) => MergedMember(k, g, m, b) = m.val[g]
        BY <1>5 DEF MergedMember, Has
    <2>4. CASE g = f
        <3> DEFINE s == m.val[f]
                   T == {s[i] : i \in DOMAIN s} \cup {u}
        <3>1. s \in Seq(T) /\ u \in T
            <4>1. {s[i] : i \in DOMAIN s} \subseteq T
                OBVIOUS
            <4>2. s \in Seq({s[i] : i \in DOMAIN s})
                BY <1>1, <2>1, <2>4 DEF IsMember, IsSequence
            <4> QED
                BY <4>1, <4>2, SeqMonotonic
        <3>2. MergedMember(k, g, m, b) = s \o <<u>>
            BY <1>1, <1>5, <2>2, <2>4
        <3> HIDE DEF s, T
        <3>3. s \o Append(<<>>, u) = Append(s \o <<>>, u) /\ s \o <<>> = s
            <4>1. <<>> \in Seq(T)
                BY EmptySeq
            <4>2. s \o Append(<<>>, u) = Append(s \o <<>>, u)
                BY <3>1, <4>1, AppendConcat
            <4>3. s \o <<>> = s
                BY <3>1, ConcatEmptySeq
            <4> QED
                BY <4>2, <4>3
        <3>4. Append(<<>>, u) = <<u>>
            OBVIOUS
        <3>5. s \o <<u>> = Append(s, u)
            BY <3>3, <3>4, Zenon
        <3> QED
            BY <2>4, <3>2, <3>5, Zenon DEF s
    <2>5. CASE g # f /\ IsList(k, g)
        <3>1. b.val[g] = <<>>
            BY <1>5, <2>5 DEF Zero
        <3>2. m.val[g] \o <<>> = m.val[g]
            BY <2>1, <2>5, ConcatEmptySeq DEF IsMember, IsSequence
        <3>3. MergedMember(k, g, m, b) = m.val[g]
            BY <2>2, <2>5, <3>1, <3>2, Zenon
        <3> QED
            BY <2>5, <3>3
    <2>6. CASE g # f /\ ~ IsList(k, g)
        BY <2>3, <2>6
    <2> QED
        BY <2>4, <2>5, <2>6
<1>9. m.bits \cup b.bits = m.bits /\ m.unknown \o b.unknown = m.unknown
    <2>1. m.unknown \o <<>> = m.unknown
        BY UnknownIsBytes, ConcatEmptySeq
    <2> QED
        BY <1>5, <2>1
<1>10. o = n
    <2> DEFINE a == Append(m.val[f], u)
               M(g) == MergedMember(k, g, m, b)
    <2> HIDE DEF a, M
    <2>1. [g \in Members(k) |-> M(g)] = With(k, m.val, f, a)
        BY <1>8 DEF With, a, M
    <2> HIDE DEF n, o
    <2> QED
        BY <1>6, <1>7, <1>9, <2>1, Zenon DEF a, M
<1>11. Object(k, o) /\ Meaning(k, o) = Join(k, Meaning(k, m), w)
    <2>1. Object(k, b)
        BY <1>4 DEF Plain
    <2>2. Object(k, o)
        BY <1>5, <2>1, MergeIsObject
    <2>3. Meaning(k, o) = Join(k, Meaning(k, m), Meaning(k, b))
        BY <2>1, MergeJoins
    <2> HIDE DEF o
    <2> QED
        BY <1>4, <2>2, <2>3
<1>12. w = Alone(x.name, <<v>>)
    BY DEF w, f, Alone
<1> HIDE DEF n, o
<1>13. Object(k, n) /\ Meaning(k, n) = Join(k, Meaning(k, m), Alone(x.name, <<v>>))
    BY <1>10, <1>11, <1>12
<1> QED
    BY <1>13 DEF n, u, f

-----------------------------------------------------------------------------
(* The messages that the model fills objects with *)

LEMMA ValueIsWord ==
    ASSUME NEW k, Sound(k), NEW x \in FieldsOf(k), NEW how
    PROVE  IsWordValue(x.type, Value(x, how))
<1> DEFINE c == x.type
           n == x.number
<1>1. n \in 1 .. 14 /\ x.name \in Members(k) /\ TypeOf(k, x.name) = c
    BY FieldIsRow
<1>2. c \notin Scalars => WordIn(c, FilledIn(c, how))
    BY <1>1 DEF Sound, Expressible
<1>3. CASE c \notin Scalars
    BY <1>2, <1>3 DEF IsWordValue, Value, IsMessage, Scalars, VarintTypes
<1> DEFINE v == Value(x, how)
<1>0. IsWordValue(x.type, v) <=> IsWordValue(c, v)
    OBVIOUS
<1>4. CASE c = "bool"
    <2>1. v \in BOOLEAN
        <3>1. v = (how # "zero")
            BY <1>4 DEF Value, IsMessage, Scalars, VarintTypes
        <3> HIDE DEF v
        <3> QED
            BY <3>1
    <2> HIDE DEF v
    <2>2. IsWordValue(c, v)
        BY <1>4, <2>1 DEF IsWordValue
    <2> QED
        BY <1>0, <2>2 DEF v
<1>5. CASE c = "string"
    <2>1. 96 + n \in Byte /\ n \in Byte /\ 65 \in Byte /\ 200 \in Byte
        BY <1>1 DEF Byte
    <2>2. v \in {<<>>, <<96 + n>>, <<65, 200, n>>}
        BY <1>5 DEF Value, IsMessage, Scalars, VarintTypes
    <2> HIDE DEF v, n
    <2>3. <<>> \in Seq(Byte) /\ <<96 + n>> \in Seq(Byte) /\ <<65, 200, n>> \in Seq(Byte)
        BY <2>1, EmptySeq
    <2>4. v \in Seq(Byte)
        BY <2>2, <2>3
    <2>5. IsWordValue(c, v)
        BY <1>5, <2>4 DEF IsWordValue, VarintTypes
    <2> QED
        BY <1>0, <2>5 DEF v
<1>6. CASE c \in VarintTypes /\ c # "bool"
    <2>1. n \in Nat
        BY <1>1
    <2> QED
        BY <1>6, <2>1 DEF IsWordValue, Value, IsMessage, Scalars, VarintTypes
<1> QED
    BY <1>3, <1>4, <1>5, <1>6 DEF Scalars

LEMMA FillIsWord ==
    ASSUME NEW k, Sound(k), NEW how, NEW fields, fields \subseteq FieldsOf(k)
    PROVE  Word(k, Fill(k, how, fields))
<1> DEFINE V(n) == Value(FieldNamed(k, n), how)
           D == {x.name : x \in fields}
           F(n) == IF FieldNamed(k, n).label = "repeated" THEN <<V(n)>> ELSE V(n)
           w == Fill(k, how, fields)
<1>1. w = [n \in D |-> F(n)]
    BY DEF Fill
<1>2. ASSUME NEW n \in D PROVE n \in Members(k) /\ IsWordMember(k, n, F(n))
    <2>1. PICK x \in fields : n = x.name
        OBVIOUS
    <2>2. x \in FieldsOf(k)
        BY <2>1
    <2>3. n \in Members(k) /\ TypeOf(k, n) = x.type /\ FieldNamed(k, n) = x
          /\ (x.label = "repeated" <=> IsList(k, n))
        BY <2>1, <2>2, FieldIsRow
    <2>4. IsWordValue(TypeOf(k, n), V(n))
        BY <2>2, <2>3, ValueIsWord
    <2> DEFINE v == V(n)
    <2>5. F(n) = IF IsList(k, n) THEN <<v>> ELSE v
        BY <2>3
    <2> HIDE DEF v, F
    <2>6. IsSequence(<<v>>) /\ <<v>> # <<>> /\ \A i \in DOMAIN <<v>> : <<v>>[i] = v
        <3>1. DOMAIN <<v>> = {1} /\ <<v>>[1] = v /\ <<v>> # <<>>
            OBVIOUS
        <3>2. <<v>> \in Seq({v}) /\ {<<v>>[i] : i \in DOMAIN <<v>>} = {v}
            BY <3>1
        <3> QED
            BY <3>1, <3>2 DEF IsSequence
    <2>7. IsWordValue(TypeOf(k, n), v)
        BY <2>4 DEF v
    <2> QED
        BY <2>3, <2>5, <2>6, <2>7 DEF IsWordMember
<1> HIDE DEF w, F, D
<1> QED
    BY <1>1, <1>2 DEF Word, w

\* The messages that the link merges, assigns and parses are messages of their type, and so
\* are the values it sets and adds.
THEOREM WordsAre ==
    ASSUME NEW k, Sound(k)
    PROVE  /\ \A how : Word(k, Filled(k, how))
           /\ Word(k, Lacking(k))
           /\ \A w \in Samples(k) : Word(k, w)
           /\ \A x \in FieldsOf(k) : \A v \in Items(x) : IsWordValue(x.type, v)
<1>1. \A how : Word(k, Filled(k, how))
    BY FillIsWord DEF Filled
<1>2. Word(k, Lacking(k))
    BY FillIsWord DEF Lacking
<1>3. Word(k, Fill(k, "zero", {x \in FieldsOf(k) : x.label = "required"}))
    BY FillIsWord
<1>4. \A w \in Samples(k) : Word(k, w)
    BY <1>1, <1>2, <1>3 DEF Samples
<1>5. ASSUME NEW x \in FieldsOf(k), NEW v \in Items(x) PROVE IsWordValue(x.type, v)
    <2>1. CASE v = Value(x, "small")
        BY <2>1, ValueIsWord
    <2>2. CASE IsMessage(x.type) /\ v = LackingIn(x.type)
        <3>1. x.name \in Members(k) /\ TypeOf(k, x.name) = x.type
            BY FieldIsRow
        <3>2. WordIn(x.type, v)
            BY <2>2, <3>1 DEF Sound, Expressible, IsMessage
        <3> QED
            BY <2>2, <3>2 DEF IsWordValue, IsMessage, Scalars, VarintTypes
    <2> QED
        BY <2>1, <2>2 DEF Items
<1> QED
    BY <1>1, <1>2, <1>4, <1>5

-----------------------------------------------------------------------------
(* What was written is read back *)

\* Parsing what an object writes gives the object back.
THEOREM RoundTrips ==
    ASSUME NEW k, Sound(k), NEW m, Object(k, m)
    PROVE  Parse(k, New(k), Serialize(k, m)) = {m}
<1>1. Object(k, New(k))
    BY NewIsPlain DEF Plain
<1> QED
    BY <1>1, ParseIsMerge, MergeIntoNew

\* CopyFrom makes the object equal to the other one.
THEOREM CopyFromCopies ==
    ASSUME NEW k, Sound(k), NEW m, Object(k, m), NEW n, Object(k, n)
    PROVE  CopyFrom(k, m, n) = n
BY ClearIsNew, MergeIntoNew DEF CopyFrom

\* The frame of a message, whatever follows it, gives that message and no other, if it is
\* complete, and nothing if it is not.
THEOREM FrameIsRead ==
    ASSUME NEW k, Sound(k), NEW m, Object(k, m), NEW r \in Bytes
    PROVE  /\ sendMesgTo(k, m) \in Bytes
           /\ recvMesgFrom(k, sendMesgTo(k, m) \o r) = IF IsInitialized(k, m) THEN {m} ELSE {}
<1> DEFINE s == Serialize(k, m)
           n == Len(s)
           frame == sendMesgTo(k, m)
           b == frame \o r
           P(size) == {o \in Parse(k, New(k), SubSeq(size.rest, 1, size.value)) : IsInitialized(k, o)}
           size1 == [value |-> n, rest |-> s \o r]
<1>1. s \in Bytes /\ n \in Nat /\ ByteSize(k, m) = n
    BY SerializeIsBytes, ByteSizeIsLength, LenProperties DEF Bytes
<1>2. Parse(k, New(k), s) = {m}
    BY RoundTrips
<1>3. frame = Varint(n) \o s
    <2> HIDE DEF n, s
    <2>1. sendMesgTo(k, m) = Varint(ByteSize(k, m)) \o s
        BY DEF sendMesgTo, s
    <2> QED
        BY <1>1, <2>1
<1> HIDE DEF s, frame
<1>4. Varint(n) \in Bytes
    BY <1>1, VarintBytes
<1>5. frame \in Bytes /\ s \o r \in Bytes
    BY <1>1, <1>3, <1>4, BytesConcat
<1> DEFINE q == s \o r
<1>6. b = Varint(n) \o q
    <2> HIDE DEF n
    <2>1. (Varint(n) \o s) \o r = Varint(n) \o (s \o r)
        BY <1>1, <1>4, BytesConcat, Zenon
    <2> QED
        BY <1>3, <2>1, Zenon
<1>7. SubSeq(q, 1, n) = s
    BY <1>1, PrefixConcat
<1>8. ReadVarint(b) = {size1}
    <2>0. q \in Bytes
        BY <1>5
    <2> HIDE DEF q, n, b
    <2>1. ReadVarint(Varint(n) \o q) = {[value |-> n, rest |-> q]}
        BY <1>1, <2>0, VarintRoundTrip
    <2> QED
        BY <1>6, <2>1, Zenon DEF q
<1>9. recvMesgFrom(k, b) = UNION {P(size) : size \in ReadVarint(b)}
    BY DEF recvMesgFrom
<1>10. P(size1) = {o \in {m} : IsInitialized(k, o)}
    <2>1. size1.value = n /\ size1.rest = q
        OBVIOUS
    <2> HIDE DEF size1, q, n
    <2>2. SubSeq(size1.rest, 1, size1.value) = s
        BY <1>7, <2>1
    <2>3. P(size1) = {o \in Parse(k, New(k), s) : IsInitialized(k, o)}
        BY <2>2
    <2> QED
        BY <1>2, <2>3
<1> HIDE DEF P, size1, b, q
<1>11. recvMesgFrom(k, b) = P(size1)
    BY <1>8, <1>9
<1>12. recvMesgFrom(k, b) = IF IsInitialized(k, m) THEN {m} ELSE {}
    <2>1. CASE IsInitialized(k, m)
        <3>1. {o \in {m} : IsInitialized(k, o)} = {m}
            BY <2>1
        <3> QED
            BY <1>10, <1>11, <2>1, <3>1
    <2>2. CASE ~ IsInitialized(k, m)
        <3>1. {o \in {m} : IsInitialized(k, o)} = {}
            BY <2>2
        <3> QED
            BY <1>10, <1>11, <2>2, <3>1
    <2> QED
        BY <2>1, <2>2
<1> QED
    BY <1>5, <1>12 DEF frame, b

-----------------------------------------------------------------------------
(* From the classes of the fields to the class *)

Good(c) ==
  /\ Plain(c, New(c))
  /\ \A m : Plain(c, m) => /\ MergeFrom(c, New(c), m) = m
                           /\ Copy(c, m) = m
                           /\ Clear(c, m) = New(c)
                           /\ Serialize(c, m) \in Seq(Byte)
                           /\ ByteSize(c, m) = Len(Serialize(c, m))
                           /\ Serialize(c, m) = Encode(c, Meaning(c, m))
                           /\ IsInitialized(c, m) <=> Complete(c, Meaning(c, m))
  /\ \A m, n : Plain(c, m) /\ Plain(c, n) =>
       /\ Plain(c, MergeFrom(c, m, n))
       /\ Parse(c, m, Serialize(c, n)) = {MergeFrom(c, m, n)}
       /\ Meaning(c, MergeFrom(c, m, n)) = Join(c, Meaning(c, m), Meaning(c, n))

Expressed(c) ==
  /\ \A w : Word(c, w) => Plain(c, Build(c, w)) /\ Meaning(c, Build(c, w)) = w
  /\ \A how : Word(c, Filled(c, how))
  /\ Word(c, Lacking(c))

LEMMA SerializedBytes ==
    ASSUME NEW k, Sound(k), NEW m, Plain(k, m)
    PROVE  Serialize(k, m) \in Seq(Byte) /\ Serialize(k, m) = Encode(k, Meaning(k, m))
<1> DEFINE N == Len(Schemas[k])
           R(i) == RowBytes(k, m, i)
           s == [i \in 1 .. N |-> R(i)]
<1>0. Object(k, m) /\ m.unknown = <<>>
    BY DEF Plain
<1>1. N \in Nat /\ Rows(k) = 1 .. N
    BY RowsAre
<1>2. ASSUME NEW i \in 1 .. N PROVE R(i) \in Seq(Byte)
    <2> DEFINE f == NameOf(k, i)
               list == Written(m, Row(k, i))
               T == {list[j] : j \in DOMAIN list}
    <2>1. \A j \in DOMAIN list : IsValue(TypeOf(k, f), list[j])
        BY <1>0, <1>1, ValuesAre
    <2>2. \A v \in T : Piece(k, Row(k, i), v) \in Seq(Byte)
        BY <1>1, <2>1, RowIs, PieceIsBytes
    <2>3. list \in Seq(T)
        <3>1. f \in Members(k) /\ IsMember(k, f, m.val[f])
            BY <1>0, <1>1, RowIs DEF Object
        <3>2. CASE IsList(k, f)
            BY <1>1, <3>1, <3>2, WrittenIs DEF IsMember, IsSequence
        <3>3. CASE ~ IsList(k, f) /\ ~ Has(k, m, f)
            <4>1. list = <<>>
                BY <1>1, <3>3, WrittenIs
            <4> HIDE DEF list, T
            <4> QED
                BY <4>1, EmptySeq
        <3>4. CASE ~ IsList(k, f) /\ Has(k, m, f)
            <4> DEFINE v == m.val[f]
            <4>1. list = <<v>>
                BY <1>1, <3>4, WrittenIs
            <4> HIDE DEF list, v
            <4>2. v \in T
                <5>1. DOMAIN list = {1} /\ list[1] = v
                    BY <4>1
                <5> QED
                    BY <5>1
            <4> HIDE DEF T
            <4> QED
                BY <4>1, <4>2
        <3> QED
            BY <3>2, <3>3, <3>4
    <2> HIDE DEF T, list
    <2>4. WriteAll(k, Row(k, i), list) \in Seq(Byte)
        BY <2>2, <2>3, WriteAllIs
    <2> QED
        BY <2>4 DEF RowBytes, list
<1> HIDE DEF R
<1>3. s \in [1 .. N -> Seq(Byte)]
    BY <1>2
<1>4. UptoBytes(k, m, N) = FlattenSeq(s)
    BY DEF UptoBytes, R
<1> HIDE DEF s
<1>5. s \in Seq(Seq(Byte))
    BY <1>1, <1>3, IsSeqOf
<1> DEFINE u == UptoBytes(k, m, N)
<1>6. u \in Seq(Byte)
    BY <1>4, <1>5, FlattenType
<1>7. Serialize(k, m) = u \o <<>> /\ u = Encode(k, Meaning(k, m))
    BY <1>0, SerializeIs, UptoEncodes
<1> HIDE DEF u
<1>8. u \o <<>> = u
    BY <1>6, ConcatEmptySeq
<1> QED
    BY <1>6, <1>7, <1>8

\* What holds of the classes of the fields holds of the class.
THEOREM Level == ASSUME NEW k, Sound(k) PROVE Good(k) /\ Expressed(k)
<1>1. Plain(k, New(k)) /\ Object(k, New(k))
    BY NewIsPlain DEF Plain
<1>2. ASSUME NEW m, Plain(k, m)
      PROVE  /\ MergeFrom(k, New(k), m) = m
             /\ Copy(k, m) = m
             /\ Clear(k, m) = New(k)
             /\ Serialize(k, m) \in Seq(Byte)
             /\ ByteSize(k, m) = Len(Serialize(k, m))
             /\ Serialize(k, m) = Encode(k, Meaning(k, m))
             /\ IsInitialized(k, m) <=> Complete(k, Meaning(k, m))
    <2>0. Object(k, m)
        BY <1>2 DEF Plain
    <2>1. MergeFrom(k, New(k), m) = m /\ Copy(k, m) = m /\ Clear(k, m) = New(k)
        BY <2>0, MergeIntoNew, CopyIsSame, ClearIsNew
    <2>2. Serialize(k, m) \in Seq(Byte) /\ Serialize(k, m) = Encode(k, Meaning(k, m))
        BY <1>2, SerializedBytes
    <2>3. ByteSize(k, m) = Len(Serialize(k, m))
        BY <2>0, ByteSizeIsLength
    <2>4. IsInitialized(k, m) <=> Complete(k, Meaning(k, m))
        BY <2>0, InitializedIs
    <2> QED
        BY <2>1, <2>2, <2>3, <2>4
<1>3. ASSUME NEW m, NEW n, Plain(k, m), Plain(k, n)
      PROVE  /\ Plain(k, MergeFrom(k, m, n))
             /\ Parse(k, m, Serialize(k, n)) = {MergeFrom(k, m, n)}
             /\ Meaning(k, MergeFrom(k, m, n)) = Join(k, Meaning(k, m), Meaning(k, n))
    <2>0. Object(k, m) /\ Object(k, n) /\ m.unknown = <<>> /\ n.unknown = <<>>
        BY <1>3 DEF Plain
    <2> DEFINE o == MergeFrom(k, m, n)
    <2>1. Object(k, o)
        BY <2>0, MergeIsObject
    <2>2. Parse(k, m, Serialize(k, n)) = {o}
        BY <2>0, ParseIsMerge
    <2>3. Meaning(k, o) = Join(k, Meaning(k, m), Meaning(k, n))
        BY <2>0, MergeJoins
    <2>4. o.unknown = <<>>
        <3>1. o = [bits |-> m.bits \cup n.bits,
                   val |-> [f \in Members(k) |-> MergedMember(k, f, m, n)],
                   unknown |-> m.unknown \o n.unknown]
            BY <2>0, MergeFromIs
        <3> HIDE DEF o
        <3>2. o.unknown = m.unknown \o n.unknown
            BY <3>1
        <3>3. <<>> \o <<>> = <<>>
            OBVIOUS
        <3> QED
            BY <2>0, <3>2, <3>3
    <2> HIDE DEF o
    <2> QED
        BY <2>1, <2>2, <2>3, <2>4 DEF o, Plain
<1>4. Good(k)
    BY <1>1, <1>2, <1>3 DEF Good
<1>5. Expressed(k)
    BY BuildIs, WordsAre DEF Expressed
<1> QED
    BY <1>4, <1>5
=============================================================================

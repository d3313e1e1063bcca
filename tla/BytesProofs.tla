---------------------------- MODULE BytesProofs ----------------------------
(* What the operators on bytes do, for sequences of every length.  Two of    *)
(* them are recursive functions: what is true of a function at every place   *)
(* is proved with Induction, of the set of the places where it is true.      *)
EXTENDS Bytes, FiniteSetTheorems, SequenceTheorems, WellFoundedInduction, TLAPS

-----------------------------------------------------------------------------
(* Induction                                                                 *)

\* A set of numbers has a least one.
LEMMA Least ==
    ASSUME NEW S \in SUBSET Nat, S # {}
    PROVE  \E m \in S : \A n \in S : m <= n
<1> DEFINE R == OpToRel(<, Nat)
<1>1. IsWellFoundedOn(R, Nat)
    BY NatLessThanWellFounded
<1>2. \A m \in Nat, n \in Nat : <<m, n>> \in R <=> m < n
    BY DEF OpToRel
<1> HIDE DEF R
<1>3. PICK m \in S : \A n \in S : ~(<<n, m>> \in R)
    BY <1>1, WFMin
<1>4. \A n \in S : ~(n < m)
    BY <1>2, <1>3
<1>5. \A n \in S : m <= n
    BY <1>4
<1> QED
    BY <1>5

\* Induction, for a set of numbers.
LEMMA Induction ==
    ASSUME NEW S, 0 \in S, \A n \in Nat : n \in S => n + 1 \in S
    PROVE  \A n \in Nat : n \in S
<1> SUFFICES ASSUME NEW k \in Nat, k \notin S PROVE FALSE
    OBVIOUS
<1>1. PICK m \in Nat \ S : \A n \in Nat \ S : m <= n
    BY Least
<1>2. m - 1 \in Nat /\ m - 1 \notin Nat \ S /\ m = (m - 1) + 1
    BY <1>1
<1> QED
    BY <1>1, <1>2

\* A recursive function: f[x] is computed from one f[pred[x]], and x from pred[x]
\* goes up in rank.
Recurs(V, base, start, pred, step, D, f) ==
    /\ f \in [D -> V]
    /\ \A x \in D : f[x] = IF x \in base THEN start[x] ELSE step[x][f[pred[x]]]

\* There is such a function.
LEMMA Recursion ==
    ASSUME NEW V, NEW D, NEW base \in SUBSET D, NEW start \in [base -> V],
           NEW pred \in [D \ base -> D], NEW step \in [D \ base -> [V -> V]],
           NEW rank \in [D -> Nat], \A x \in D \ base : rank[pred[x]] < rank[x]
    PROVE  \E f : Recurs(V, base, start, pred, step, D, f)
<1> DEFINE Below(n) == {x \in D : rank[x] < n}
           Ok(n, f) == Recurs(V, base, start, pred, step, Below(n), f)
           Value(x, f) == IF x \in base THEN start[x] ELSE step[x][f[pred[x]]]
           S == {n \in Nat : \E f : Ok(n, f)}
<1>1. ASSUME NEW n \in Nat, NEW f, NEW k \in Nat, NEW g, Ok(n, f), Ok(k, g)
      PROVE  \A x \in D : rank[x] < n /\ rank[x] < k => f[x] = g[x]
    <2> DEFINE T == {a \in Nat : \A x \in D :
                        rank[x] < a /\ rank[x] < n /\ rank[x] < k => f[x] = g[x]}
    <2>1. 0 \in T
        OBVIOUS
    <2>2. ASSUME NEW a \in Nat, a \in T PROVE a + 1 \in T
        <3>1. \A x \in D : rank[x] < a /\ rank[x] < n /\ rank[x] < k => f[x] = g[x]
            BY <2>2
        <3> HIDE DEF T
        <3>2. ASSUME NEW x \in D, rank[x] = a, rank[x] < n, rank[x] < k PROVE f[x] = g[x]
            <4>1. x \in Below(n) /\ x \in Below(k)
                BY <3>2
            <4>2. f[x] = Value(x, f) /\ g[x] = Value(x, g)
                BY <1>1, <4>1 DEF Recurs
            <4>3. ASSUME x \notin base PROVE f[pred[x]] = g[pred[x]]
                <5>1. pred[x] \in D /\ rank[pred[x]] < rank[x]
                    BY <4>3
                <5>2. rank[pred[x]] < a /\ rank[pred[x]] < n /\ rank[pred[x]] < k
                    BY <3>2, <5>1
                <5> QED
                    BY <3>1, <5>1, <5>2, Zenon
            <4> QED
                BY <4>2, <4>3, Zenon
        <3>3. \A x \in D : rank[x] < a + 1 => rank[x] < a \/ rank[x] = a
            <4> TAKE x \in D
            <4>1. rank[x] \in Nat
                OBVIOUS
            <4> QED
                BY <4>1
        <3>4. \A x \in D : rank[x] < a + 1 /\ rank[x] < n /\ rank[x] < k => f[x] = g[x]
            BY <3>1, <3>2, <3>3, Zenon
        <3>5. a + 1 \in Nat
            OBVIOUS
        <3> QED
            BY <3>4, <3>5, Zenon DEF T
    <2> HIDE DEF T
    <2>3. \A a \in Nat : a \in T
        BY <2>1, <2>2, Induction
    <2> USE DEF T
    <2> SUFFICES ASSUME NEW x \in D, rank[x] < n, rank[x] < k PROVE f[x] = g[x]
        OBVIOUS
    <2>4. n \in T
        BY <2>3
    <2> QED
        BY <2>4
<1>2. ASSUME NEW n \in Nat, NEW f, Ok(n, f) PROVE n + 1 \in S
    <2> DEFINE g == [x \in Below(n + 1) |-> IF x \in Below(n) THEN f[x] ELSE Value(x, f)]
    <2>1. f \in [Below(n) -> V] /\ \A x \in Below(n) : f[x] = Value(x, f)
        BY <1>2 DEF Recurs
    <2>2. \A x \in Below(n + 1) : x \notin base => pred[x] \in Below(n)
        <3> TAKE x \in Below(n + 1)
        <3> HAVE x \notin base
        <3>1. pred[x] \in D /\ rank[pred[x]] \in Nat /\ rank[x] \in Nat
              /\ rank[pred[x]] < rank[x] /\ rank[x] < n + 1
            OBVIOUS
        <3>2. rank[pred[x]] < n
            BY <3>1
        <3> QED
            BY <3>1, <3>2
    <2>3. \A x \in Below(n) : x \in Below(n + 1)
        OBVIOUS
    <2>4. \A x \in Below(n + 1) : Value(x, f) \in V
        <3> TAKE x \in Below(n + 1)
        <3>1. x \in base => start[x] \in V
            OBVIOUS
        <3>2. ASSUME x \notin base PROVE step[x][f[pred[x]]] \in V
            <4>1. pred[x] \in Below(n)
                BY <2>2, <3>2
            <4>2. f[pred[x]] \in V
                BY <2>1, <4>1
            <4> QED
                BY <3>2, <4>2
        <3> QED
            BY <3>1, <3>2
    <2> HIDE DEF Below
    <2>5. g \in [Below(n + 1) -> V]
        BY <2>1, <2>4
    <2>6. /\ \A x \in Below(n) : g[x] = f[x]
          /\ \A x \in Below(n + 1) : x \notin Below(n) => g[x] = Value(x, f)
        BY <2>3
    <2> HIDE DEF g
    <2>7. \A x \in Below(n + 1) : g[x] = Value(x, f)
        BY <2>1, <2>6, Zenon
    <2>8. \A x \in Below(n + 1) : x \notin base => g[pred[x]] = f[pred[x]]
        BY <2>2, <2>6, Zenon
    <2>9. \A x \in Below(n + 1) : g[x] = Value(x, g)
        BY <2>7, <2>8, Zenon
    <2>10. Ok(n + 1, g)
        BY <2>5, <2>9, Zenon DEF Recurs
    <2>11. n + 1 \in Nat
        OBVIOUS
    <2> QED
        BY <2>10, <2>11, Zenon
<1>3. 0 \in S
    <2> DEFINE f == [x \in Below(0) |-> start[x]]
    <2>1. Below(0) = {}
        <3>1. \A x \in D : ~(rank[x] < 0)
            OBVIOUS
        <3> QED
            BY <3>1, Zenon
    <2> HIDE DEF Below
    <2>2. f \in [Below(0) -> V] /\ \A x \in Below(0) : FALSE
        BY <2>1
    <2> HIDE DEF f
    <2>3. Ok(0, f)
        BY <2>2, Zenon DEF Recurs
    <2>4. 0 \in Nat
        OBVIOUS
    <2> QED
        BY <2>3, <2>4, Zenon
<1>4. \A n \in Nat : n \in S
    <2> HIDE DEF S
    <2>1. ASSUME NEW n \in Nat, n \in S PROVE n + 1 \in S
        BY <1>2, <2>1, Zenon DEF S
    <2> QED
        BY <1>3, <2>1, Induction, Zenon
<1> DEFINE part == [n \in Nat |-> CHOOSE f : Ok(n, f)]
           F == [x \in D |-> part[rank[x] + 1][x]]
<1>5. ASSUME NEW n \in Nat PROVE Ok(n, part[n])
    BY <1>4, Zenon
<1> HIDE DEF part
<1>6. ASSUME NEW x \in D PROVE F[x] = Value(x, F) /\ F[x] \in V
    <2> DEFINE n == rank[x] + 1
               f == part[n]
    <2>1. n \in Nat /\ rank[x] \in Nat /\ rank[x] < n
        OBVIOUS
    <2> HIDE DEF n
    <2>2. Ok(n, f) /\ x \in Below(n)
        BY <1>5, <2>1
    <2> HIDE DEF f
    <2>3. f[x] = Value(x, f) /\ f[x] \in V
        BY <2>2 DEF Recurs
    <2>4. F[x] = f[x]
        BY DEF f, n
    <2>5. ASSUME x \notin base PROVE f[pred[x]] = F[pred[x]]
        <3> DEFINE y == pred[x]
                   k == rank[y] + 1
        <3>1. y \in D /\ rank[y] \in Nat /\ rank[y] < rank[x]
            BY <2>5
        <3>2. k \in Nat /\ rank[y] < k /\ rank[y] < n
            BY <2>1, <3>1
        <3>3. F[y] = part[k][y]
            BY <3>1
        <3> HIDE DEF y, k
        <3>4. Ok(k, part[k])
            BY <1>5, <3>2
        <3>5. f[y] = part[k][y]
            BY <1>1, <2>1, <2>2, <3>1, <3>2, <3>4, SMT
        <3> QED
            BY <3>3, <3>5 DEF y
    <2> HIDE DEF F
    <2> QED
        BY <2>3, <2>4, <2>5, Zenon
<1>7. F \in [D -> V]
    BY <1>6
<1> HIDE DEF F
<1>8. Recurs(V, base, start, pred, step, D, F)
    BY <1>6, <1>7, Zenon DEF Recurs
<1> QED
    BY <1>8

-----------------------------------------------------------------------------
(* Bits                                                                      *)

LEMMA BitType == ASSUME NEW b \in Byte, NEW k \in 0 .. 7 PROVE Bit(b, k) \in {0, 1}
<1>1. k \in {0, 1, 2, 3, 4, 5, 6, 7}
    OBVIOUS
<1>2. /\ Bit(b, 0) \in {0, 1} /\ Bit(b, 1) \in {0, 1} /\ Bit(b, 2) \in {0, 1}
      /\ Bit(b, 3) \in {0, 1} /\ Bit(b, 4) \in {0, 1} /\ Bit(b, 5) \in {0, 1}
      /\ Bit(b, 6) \in {0, 1} /\ Bit(b, 7) \in {0, 1}
    BY SMT DEF Bit, Byte
<1> QED
    BY <1>1, <1>2, Zenon

\* A byte is the sum of its bits.
LEMMA BitSum ==
    ASSUME NEW b \in Byte
    PROVE  b = Bit(b, 0) + 2 * Bit(b, 1) + 4 * Bit(b, 2) + 8 * Bit(b, 3)
               + 16 * Bit(b, 4) + 32 * Bit(b, 5) + 64 * Bit(b, 6) + 128 * Bit(b, 7)
BY SMT DEF Bit, Byte

\* The bits of a sum of bits are the bits.
LEMMA SumOfBits ==
    ASSUME NEW p0 \in 0 .. 1, NEW p1 \in 0 .. 1, NEW p2 \in 0 .. 1, NEW p3 \in 0 .. 1,
           NEW p4 \in 0 .. 1, NEW p5 \in 0 .. 1, NEW p6 \in 0 .. 1, NEW p7 \in 0 .. 1,
           NEW b \in 0 .. 255,
           b = p0 + 2 * p1 + 4 * p2 + 8 * p3 + 16 * p4 + 32 * p5 + 64 * p6 + 128 * p7
    PROVE  /\ Bit(b, 0) = p0 /\ Bit(b, 1) = p1 /\ Bit(b, 2) = p2 /\ Bit(b, 3) = p3
           /\ Bit(b, 4) = p4 /\ Bit(b, 5) = p5 /\ Bit(b, 6) = p6 /\ Bit(b, 7) = p7
BY SMT DEF Bit

LEMMA SumBits ==
    ASSUME NEW p \in [0 .. 7 -> {0, 1}], NEW b,
           b = p[0] + 2 * p[1] + 4 * p[2] + 8 * p[3]
               + 16 * p[4] + 32 * p[5] + 64 * p[6] + 128 * p[7]
    PROVE  b \in Byte /\ \A k \in 0 .. 7 : Bit(b, k) = p[k]
<1>1. /\ p[0] \in 0 .. 1 /\ p[1] \in 0 .. 1 /\ p[2] \in 0 .. 1 /\ p[3] \in 0 .. 1
      /\ p[4] \in 0 .. 1 /\ p[5] \in 0 .. 1 /\ p[6] \in 0 .. 1 /\ p[7] \in 0 .. 1
    OBVIOUS
<1>2. b \in 0 .. 255
    BY <1>1
<1>3. /\ Bit(b, 0) = p[0] /\ Bit(b, 1) = p[1] /\ Bit(b, 2) = p[2] /\ Bit(b, 3) = p[3]
      /\ Bit(b, 4) = p[4] /\ Bit(b, 5) = p[5] /\ Bit(b, 6) = p[6] /\ Bit(b, 7) = p[7]
    BY <1>1, <1>2, SumOfBits, SMTT(40)
<1> QED
    BY <1>2, <1>3, SMTT(40) DEF Byte

LEMMA BitsDiffer ==
    ASSUME NEW a \in Byte, NEW b \in Byte, \A k \in 0 .. 7 : Bit(a, k) = Bit(b, k)
    PROVE  a = b
BY BitSum

-----------------------------------------------------------------------------
(* The exclusive or                                                          *)

LEMMA ParityType ==
    ASSUME NEW data \in Seq(Byte), NEW k \in 0 .. 7 PROVE Parity(data, k) \in {0, 1}
<1> DEFINE ones == {i \in DOMAIN data : Bit(data[i], k) = 1}
<1>1. IsFiniteSet(1 .. Len(data))
    BY FS_Interval
<1>2. IsFiniteSet(ones)
    BY <1>1, FS_Subset
<1>3. Cardinality(ones) \in Nat
    BY <1>2, FS_CardinalityType
<1> HIDE DEF ones
<1>4. Cardinality(ones) % 2 \in {0, 1}
    BY <1>3
<1> QED
    BY <1>4 DEF Parity, ones

LEMMA ParityAppend ==
    ASSUME NEW data \in Seq(Byte), NEW b \in Byte, NEW k \in 0 .. 7
    PROVE  Parity(Append(data, b), k) = (Parity(data, k) + Bit(b, k)) % 2
<1> DEFINE new == Append(data, b)
           n == Len(data) + 1
           ones == {i \in DOMAIN data : Bit(data[i], k) = 1}
           newOnes == {i \in DOMAIN new : Bit(new[i], k) = 1}
<1>1. /\ DOMAIN data = 1 .. Len(data)
      /\ DOMAIN new = 1 .. n
      /\ \A i \in 1 .. Len(data) : new[i] = data[i]
      /\ new[n] = b
    OBVIOUS
<1>2. IsFiniteSet(ones)
    <2>1. IsFiniteSet(1 .. Len(data))
        BY FS_Interval
    <2> QED
        BY <2>1, FS_Subset
<1>3. Cardinality(ones) \in Nat
    BY <1>2, FS_CardinalityType
<1>4. n \notin ones
    BY <1>1
<1>5. Bit(b, k) \in {0, 1}
    BY BitType
<1>6. CASE Bit(b, k) = 1
    <2>1. newOnes = ones \cup {n}
        BY <1>1, <1>6
    <2>2. Cardinality(newOnes) = Cardinality(ones) + 1
        BY <2>1, <1>2, <1>4, FS_AddElement
    <2>3. \A c \in Nat : (c + 1) % 2 = ((c % 2) + 1) % 2
        OBVIOUS
    <2> HIDE DEF ones, newOnes
    <2>4. Cardinality(newOnes) % 2 = ((Cardinality(ones) % 2) + 1) % 2
        BY <2>2, <2>3, <1>3
    <2> QED
        BY <2>4, <1>6 DEF Parity, ones, newOnes
<1>7. CASE Bit(b, k) = 0
    <2>1. newOnes = ones
        BY <1>1, <1>7
    <2>2. \A c \in Nat : c % 2 = ((c % 2) + 0) % 2
        OBVIOUS
    <2> HIDE DEF ones, newOnes
    <2>3. Cardinality(newOnes) % 2 = ((Cardinality(ones) % 2) + 0) % 2
        BY <2>1, <2>2, <1>3
    <2> QED
        BY <2>3, <1>7 DEF Parity, ones, newOnes
<1> QED
    BY <1>5, <1>6, <1>7

HornerSteps(p, f) == f[8] = 0 /\ \A k \in 0 .. 7 : f[k] = p[k] + 2 * f[k + 1]

LEMMA Horner ==
    ASSUME NEW p \in [0 .. 7 -> {0, 1}], NEW f, HornerSteps(p, f)
    PROVE  f[0] = p[0] + 2 * p[1] + 4 * p[2] + 8 * p[3]
                  + 16 * p[4] + 32 * p[5] + 64 * p[6] + 128 * p[7]
<1>1. /\ p[0] \in Nat /\ p[1] \in Nat /\ p[2] \in Nat /\ p[3] \in Nat
      /\ p[4] \in Nat /\ p[5] \in Nat /\ p[6] \in Nat /\ p[7] \in Nat
    OBVIOUS
<1>2. f[7] = p[7]
    <2>1. f[7] = p[7] + 2 * f[8] /\ f[8] = 0
        BY DEF HornerSteps
    <2> QED
        BY <1>1, <2>1
<1>3. f[6] = p[6] + 2 * f[7]
    BY DEF HornerSteps
<1>4. f[5] = p[5] + 2 * f[6]
    BY DEF HornerSteps
<1>5. f[4] = p[4] + 2 * f[5]
    BY DEF HornerSteps
<1>6. f[3] = p[3] + 2 * f[4]
    BY DEF HornerSteps
<1>7. f[2] = p[2] + 2 * f[3]
    BY DEF HornerSteps
<1>8. f[1] = p[1] + 2 * f[2]
    BY DEF HornerSteps
<1>9. f[0] = p[0] + 2 * f[1]
    BY DEF HornerSteps
<1>10. f[7] \in Nat
    BY <1>1, <1>2
<1>11. f[6] \in Nat
    BY <1>1, <1>3, <1>10
<1>12. f[5] \in Nat
    BY <1>1, <1>4, <1>11
<1>13. f[4] \in Nat
    BY <1>1, <1>5, <1>12
<1>14. f[3] \in Nat
    BY <1>1, <1>6, <1>13
<1>15. f[2] \in Nat
    BY <1>1, <1>7, <1>14
<1>16. f[1] \in Nat
    BY <1>1, <1>8, <1>15
<1>17. f[0] \in Nat
    BY <1>1, <1>9, <1>16
<1>20. f[6] = p[6] + 2 * p[7]
    BY <1>1, <1>2, <1>3
<1>21. f[4] = p[4] + 2 * p[5] + 4 * f[6]
    BY <1>1, <1>4, <1>5, <1>11, <1>12
<1>22. f[2] = p[2] + 2 * p[3] + 4 * f[4]
    BY <1>1, <1>6, <1>7, <1>13, <1>14
<1>23. f[0] = p[0] + 2 * p[1] + 4 * f[2]
    BY <1>1, <1>8, <1>9, <1>15, <1>16
<1> QED
    BY <1>1, <1>11, <1>13, <1>15, <1>20, <1>21, <1>22, <1>23

\* The bits of the exclusive or are the parities of the bits.
LEMMA XorBits ==
    ASSUME NEW data \in Seq(Byte)
    PROVE  Xor(data) \in Byte /\ \A k \in 0 .. 7 : Bit(Xor(data), k) = Parity(data, k)
<1> DEFINE from[k \in 0 .. 8] ==
              IF k = 8 THEN 0 ELSE Parity(data, k) + 2 * from[k + 1]
           p == [k \in 0 .. 7 |-> Parity(data, k)]
<1>1. Xor(data) = from[0]
    BY DEF Xor
<1>2. p \in [0 .. 7 -> {0, 1}]
    BY ParityType
<1> HIDE DEF p
<1>3. \E f : f = [k \in 0 .. 8 |-> IF k = 8 THEN 0 ELSE Parity(data, k) + 2 * f[k + 1]]
    <2> DEFINE g == [k \in 0 .. 8 |->
                CASE k = 8 -> 0
                  [] k = 7 -> p[7]
                  [] k = 6 -> p[6] + 2 * p[7]
                  [] k = 5 -> p[5] + 2 * (p[6] + 2 * p[7])
                  [] k = 4 -> p[4] + 2 * (p[5] + 2 * (p[6] + 2 * p[7]))
                  [] k = 3 -> p[3] + 2 * (p[4] + 2 * (p[5] + 2 * (p[6] + 2 * p[7])))
                  [] k = 2 -> p[2] + 2 * (p[3] + 2 * (p[4] + 2 * (p[5] + 2 * (p[6] + 2 * p[7]))))
                  [] k = 1 -> p[1] + 2 * (p[2] + 2 * (p[3] + 2 * (p[4] + 2 * (p[5] + 2 * (p[6] + 2 * p[7])))))
                  [] k = 0 -> p[0] + 2 * (p[1] + 2 * (p[2] + 2 * (p[3] + 2 * (p[4] + 2 * (p[5] + 2 * (p[6] + 2 * p[7]))))))]
    <2>1. \A k \in 0 .. 7 : g[k] = p[k] + 2 * g[k + 1]
        BY <1>2
    <2>2. g = [k \in 0 .. 8 |-> IF k = 8 THEN 0 ELSE p[k] + 2 * g[k + 1]]
        BY <2>1
    <2> HIDE DEF g
    <2> QED
        BY <2>2 DEF p
<1>4. from = [k \in 0 .. 8 |-> IF k = 8 THEN 0 ELSE Parity(data, k) + 2 * from[k + 1]]
    BY <1>3
<1> HIDE DEF from
<1>5. from[8] = 0 /\ \A k \in 0 .. 7 : from[k] = p[k] + 2 * from[k + 1]
    BY <1>4 DEF p
<1>6. from[0] = p[0] + 2 * p[1] + 4 * p[2] + 8 * p[3]
                + 16 * p[4] + 32 * p[5] + 64 * p[6] + 128 * p[7]
    <2>1. HornerSteps(p, from)
        BY <1>5 DEF HornerSteps
    <2> QED
        BY <1>2, <2>1, Horner
<1>7. Xor(data) \in Byte /\ \A k \in 0 .. 7 : Bit(Xor(data), k) = p[k]
    BY <1>1, <1>2, <1>6, SumBits
<1> QED
    BY <1>7 DEF p

\* Data with their exclusive or have the exclusive or 0.
LEMMA XorAppended ==
    ASSUME NEW data \in Seq(Byte)
    PROVE  Xor(Append(data, Xor(data))) = 0
<1> DEFINE b == Xor(data)
           all == Append(data, b)
<1>1. b \in Byte /\ \A k \in 0 .. 7 : Bit(b, k) = Parity(data, k)
    BY XorBits
<1> HIDE DEF b
<1>2. all \in Seq(Byte)
    BY <1>1
<1>3. Xor(all) \in Byte /\ \A k \in 0 .. 7 : Bit(Xor(all), k) = Parity(all, k)
    BY <1>2, XorBits
<1>4. \A k \in 0 .. 7 : Parity(all, k) = 0
    <2> TAKE k \in 0 .. 7
    <2>1. Parity(all, k) = (Parity(data, k) + Bit(b, k)) % 2
        BY <1>1, ParityAppend
    <2>2. Parity(data, k) \in {0, 1}
        BY ParityType
    <2> QED
        BY <2>1, <2>2, <1>1
<1>5. \A k \in 0 .. 7 : Bit(0, k) = 0
    <2>1. /\ Bit(0, 0) = 0 /\ Bit(0, 1) = 0 /\ Bit(0, 2) = 0 /\ Bit(0, 3) = 0
          /\ Bit(0, 4) = 0 /\ Bit(0, 5) = 0 /\ Bit(0, 6) = 0 /\ Bit(0, 7) = 0
        BY SMT DEF Bit
    <2> QED
        BY <2>1
<1>6. 0 \in Byte
    BY DEF Byte
<1> QED
    BY <1>3, <1>4, <1>5, <1>6, BitsDiffer DEF b

-----------------------------------------------------------------------------
(* Sequences of bytes                                                        *)

\* Where the elements of two sequences are in both together.
IsJoin(t, a, b, S) ==
    /\ t \in Seq(S) /\ Len(t) = Len(a) + Len(b)
    /\ \A k \in 1 .. Len(a) : t[k] = a[k]
    /\ \A k \in 1 .. Len(b) : t[Len(a) + k] = b[k]

LEMMA JoinedAny ==
    ASSUME NEW S, NEW a \in Seq(S), NEW b \in Seq(S) PROVE IsJoin(a \o b, a, b, S)
<1>1. /\ a \o b \in Seq(S) /\ Len(a \o b) = Len(a) + Len(b)
      /\ \A i \in 1 .. Len(a) + Len(b) :
            (a \o b)[i] = IF i <= Len(a) THEN a[i] ELSE b[i - Len(a)]
    BY ConcatProperties, Zenon
<1> DEFINE t == a \o b
           m == Len(a)
           n == Len(b)
<1>2. m \in Nat /\ n \in Nat
    OBVIOUS
<1>3. \A i \in 1 .. m + n : t[i] = IF i <= m THEN a[i] ELSE b[i - m]
    BY <1>1
<1> HIDE DEF t, m, n
<1>4. ASSUME NEW k \in 1 .. m PROVE t[k] = a[k]
    <2>1. k \in 1 .. m + n /\ k <= m
        BY <1>2
    <2> QED
        BY <1>3, <2>1, Zenon
<1>5. ASSUME NEW k \in 1 .. n PROVE t[m + k] = b[k]
    <2>1. m + k \in 1 .. m + n /\ ~(m + k <= m) /\ (m + k) - m = k
        BY <1>2
    <2> QED
        BY <1>3, <2>1, Zenon
<1> QED
    BY <1>1, <1>4, <1>5 DEF t, m, n, IsJoin

LEMMA Joining ==
    ASSUME NEW a \in Seq(Byte), NEW b \in Seq(Byte)
    PROVE  /\ a \o b \in Seq(Byte) /\ Len(a \o b) = Len(a) + Len(b)
           /\ \A k \in 1 .. Len(a) : (a \o b)[k] = a[k]
           /\ \A k \in 1 .. Len(b) : (a \o b)[Len(a) + k] = b[k]
<1>1. IsJoin(a \o b, a, b, Byte)
    BY JoinedAny, Zenon
<1> QED
    BY <1>1, Zenon DEF IsJoin

\* A front of a sequence grows by its next byte.
LEMMA Grown ==
    ASSUME NEW data \in Seq(Byte), NEW k \in 1 .. Len(data)
    PROVE  SubSeq(data, 1, k - 1) \o <<data[k]>> = SubSeq(data, 1, k)
<1>1. k \in Nat /\ Len(data) \in Nat /\ k <= Len(data) /\ k - 1 \in Nat
    OBVIOUS
<1>2. data[k] \in Byte
    OBVIOUS
<1> DEFINE a == SubSeq(data, 1, k - 1)
           b == <<data[k]>>
           c == SubSeq(data, 1, k)
<1>3. a \in Seq(Byte) /\ Len(a) = k - 1 /\ \A i \in 1 .. k - 1 : a[i] = data[i]
    BY <1>1
<1>4. c \in Seq(Byte) /\ Len(c) = k /\ \A i \in 1 .. k : c[i] = data[i]
    BY <1>1
<1>5. b \in Seq(Byte) /\ Len(b) = 1 /\ b[1] = data[k]
    BY <1>2
<1> HIDE DEF a, b, c
<1>6. /\ a \o b \in Seq(Byte) /\ Len(a \o b) = Len(a) + Len(b)
      /\ \A i \in 1 .. Len(a) : (a \o b)[i] = a[i]
      /\ \A i \in 1 .. Len(b) : (a \o b)[Len(a) + i] = b[i]
    BY <1>3, <1>5, Joining, Zenon
<1> DEFINE d == a \o b
<1>7. d \in Seq(Byte) /\ Len(d) = Len(a) + Len(b)
      /\ (\A i \in 1 .. Len(a) : d[i] = a[i]) /\ \A i \in 1 .. Len(b) : d[Len(a) + i] = b[i]
    BY <1>6
<1> HIDE DEF d
<1>8. Len(d) = k /\ (\A i \in 1 .. k - 1 : d[i] = data[i]) /\ d[k] = data[k]
    <2>1. Len(d) = k
        BY <1>1, <1>3, <1>5, <1>7
    <2>2. \A i \in 1 .. k - 1 : d[i] = data[i]
        BY <1>3, <1>7
    <2>3. d[k] = data[k]
        <3>1. 1 \in 1 .. Len(b) /\ Len(a) + 1 = k
            BY <1>1, <1>3, <1>5
        <3>2. d[Len(a) + 1] = b[1]
            BY <1>7, <3>1
        <3> QED
            BY <1>5, <3>1, <3>2
    <2> QED
        BY <2>1, <2>2, <2>3
<1>9. \A i \in 1 .. k : d[i] = c[i]
    BY <1>1, <1>4, <1>8
<1>10. d = c
    BY <1>4, <1>7, <1>8, <1>9, SeqEqual
<1> QED
    BY <1>10 DEF a, b, c, d

\* Two bytes in a row.
LEMMA PairOf ==
    ASSUME NEW f \in Seq(Byte), NEW i \in 1 .. Len(f), i + 1 <= Len(f)
    PROVE  SubSeq(f, i, i + 1) = <<f[i], f[i + 1]>>
<1> DEFINE s == SubSeq(f, i, i + 1)
<1>1. i \in Nat /\ Len(f) \in Nat
    OBVIOUS
<1>2. s \in Seq(Byte) /\ Len(s) = 2 /\ s[1] = f[i] /\ s[2] = f[i + 1]
    BY <1>1, SubSeqProperties
<1> HIDE DEF s
<1>3. s = <<s[1], s[2]>>
    BY <1>2
<1> QED
    BY <1>2, <1>3 DEF s

-----------------------------------------------------------------------------
(* Numbers                                                                   *)

\* The numbers that a sequence of bytes stands for, byte by byte.
Counts(data, f) ==
    /\ f \in [0 .. Len(data) -> Nat]
    /\ f[0] = 0
    /\ \A i \in 1 .. Len(data) : f[i] = 256 * f[i - 1] + data[i]
    /\ Number(data) = f[Len(data)]

LEMMA NumberSteps ==
    ASSUME NEW data \in Seq(Byte) PROVE \E f : Counts(data, f)
<1>1. Len(data) \in Nat /\ \A i \in 1 .. Len(data) : data[i] \in Nat
    <2>1. Len(data) \in Nat /\ \A i \in 1 .. Len(data) : data[i] \in Byte
        OBVIOUS
    <2>2. Byte \subseteq Nat
        BY DEF Byte
    <2> QED
        BY <2>1, <2>2
<1> DEFINE L == Len(data)
           Steps(n, f) == /\ f \in [0 .. n -> Nat]
                          /\ f[0] = 0
                          /\ \A i \in 1 .. n : f[i] = 256 * f[i - 1] + data[i]
           Upto == {n \in Nat : n <= L => \E f : Steps(n, f)}
           upTo[i \in 0 .. L] == IF i = 0 THEN 0 ELSE 256 * upTo[i - 1] + data[i]
<1>2. 0 \in Upto
    <2> DEFINE f == [i \in 0 .. 0 |-> 0]
    <2>1. Steps(0, f)
        OBVIOUS
    <2> HIDE DEF f, Steps
    <2> QED
        BY <2>1
<1>3. ASSUME NEW n \in Nat, n \in Upto PROVE n + 1 \in Upto
    <2> HIDE DEF Steps, upTo
    <2> SUFFICES ASSUME n + 1 <= L PROVE \E f : Steps(n + 1, f)
        OBVIOUS
    <2> USE DEF Steps
    <2>1. PICK f : Steps(n, f)
        BY <1>1, <1>3
    <2> DEFINE g == [i \in 0 .. n + 1 |-> IF i <= n THEN f[i] ELSE 256 * f[n] + data[n + 1]]
    <2>2. data[n + 1] \in Nat /\ f[n] \in Nat
        BY <1>1, <2>1
    <2>3. g \in [0 .. n + 1 -> Nat] /\ g[0] = 0
        BY <2>1, <2>2
    <2>4. ASSUME NEW i \in 1 .. n + 1 PROVE g[i] = 256 * g[i - 1] + data[i]
        <3>1. CASE i <= n
            <4>1. i \in 1 .. n /\ i - 1 \in 0 .. n /\ i \in 0 .. n + 1 /\ i - 1 \in 0 .. n + 1
                BY <3>1
            <4>2. g[i] = f[i] /\ g[i - 1] = f[i - 1]
                BY <4>1
            <4> QED
                BY <2>1, <4>1, <4>2
        <3>2. CASE i = n + 1
            <4>1. i - 1 = n /\ g[n + 1] = 256 * f[n] + data[n + 1] /\ g[n] = f[n]
                BY <3>2
            <4> QED
                BY <3>2, <4>1
        <3> QED
            BY <3>1, <3>2
    <2> HIDE DEF g
    <2>5. Steps(n + 1, g)
        BY <2>3, <2>4
    <2> HIDE DEF Steps
    <2> QED
        BY <2>5
<1>4. L \in Upto
    <2> HIDE DEF Upto
    <2> QED
        BY <1>1, <1>2, <1>3, Induction
<1>5. PICK f : Steps(L, f)
    BY <1>1, <1>4
<1>6. f = [i \in 0 .. L |-> IF i = 0 THEN 0 ELSE 256 * f[i - 1] + data[i]]
    BY <1>1, <1>5
<1>7. upTo = [i \in 0 .. L |-> IF i = 0 THEN 0 ELSE 256 * upTo[i - 1] + data[i]]
    BY <1>6
<1>8. Number(data) = upTo[L]
    BY DEF Number
<1> HIDE DEF upTo
<1>9. upTo[0] = 0 /\ \A i \in 1 .. L : upTo[i] = 256 * upTo[i - 1] + data[i]
    BY <1>1, <1>7
<1>10. ASSUME NEW n \in Nat, n <= L, upTo[n] \in Nat, n + 1 <= L PROVE upTo[n + 1] \in Nat
    <2>1. upTo[n + 1] = 256 * upTo[n] + data[n + 1] /\ data[n + 1] \in Nat
        BY <1>1, <1>9, <1>10
    <2> QED
        BY <2>1, <1>10
<1>11. \A n \in Nat : n <= L => upTo[n] \in Nat
    <2> DEFINE S == {n \in Nat : n <= L => upTo[n] \in Nat}
    <2>1. 0 \in S
        BY <1>9
    <2>2. ASSUME NEW n \in Nat, n \in S PROVE n + 1 \in S
        <3>1. n + 1 <= L => n <= L
            BY <1>1
        <3> QED
            BY <2>2, <3>1, <1>10
    <2>3. \A n \in Nat : n \in S
        <3> HIDE DEF S
        <3> QED
            BY <2>1, <2>2, Induction
    <2> QED
        BY <2>3
<1>12. upTo \in [0 .. L -> Nat]
    BY <1>1, <1>7, <1>11
<1>13. Counts(data, upTo)
    BY <1>8, <1>9, <1>12 DEF Counts
<1> QED
    BY <1>13

\* A number of two bytes.
WordNumbers == {m \in Nat : m < 65536}
High(m) == (m \div 256) % 256
Low(m) == m % 256
WordOf(h, l) == 256 * h + l

LEMMA SmallByte == ASSUME NEW x \in 0 .. 255 PROVE x % 256 = x
OBVIOUS

LEMMA WordParts ==
    ASSUME NEW m \in WordNumbers
    PROVE  High(m) \in Byte /\ Low(m) \in Byte /\ WordOf(High(m), Low(m)) = m
<1>1. m \in Nat /\ m < 65536
    BY DEF WordNumbers
<1>2. m \div 256 \in 0 .. 255 /\ m % 256 \in 0 .. 255 /\ 256 * (m \div 256) + (m % 256) = m
    BY <1>1, SMT
<1>3. (m \div 256) % 256 = m \div 256
    BY <1>2, SmallByte
<1> QED
    BY <1>2, <1>3 DEF High, Low, WordOf, Byte

LEMMA BytesOfWord ==
    ASSUME NEW m \in WordNumbers
    PROVE  BigEndian(m, 2) = <<High(m), Low(m)>>
<1> DEFINE s == BigEndian(m, 2)
<1>1. m \in Nat
    BY DEF WordNumbers
<1>2. s = [i \in 1 .. 2 |-> IF 2 - i > 3 THEN 0 ELSE (m \div 256 ^ (2 - i)) % 256]
    BY DEF BigEndian
<1>3. s[1] = High(m)
    BY <1>1, <1>2, SMT DEF High
<1>4. s[2] = Low(m)
    BY <1>1, <1>2, SMT DEF Low
<1>5. DOMAIN s = 1 .. 2 /\ s = [i \in DOMAIN s |-> s[i]]
    BY <1>2
<1> HIDE DEF s
<1>6. s \in [1 .. 2 -> Byte]
    <2>1. \A i \in 1 .. 2 : i = 1 \/ i = 2
        OBVIOUS
    <2>2. \A i \in 1 .. 2 : s[i] \in Byte
        BY <1>3, <1>4, <2>1, WordParts
    <2> QED
        BY <1>5, <2>2
<1>7. s = <<s[1], s[2]>>
    BY <1>6
<1> QED
    BY <1>3, <1>4, <1>7 DEF s

LEMMA WordOfBytes ==
    ASSUME NEW h \in Byte, NEW l \in Byte
    PROVE  Number(<<h, l>>) = WordOf(h, l)
<1> DEFINE data == <<h, l>>
<1>1. data \in Seq(Byte) /\ Len(data) = 2 /\ data[1] = h /\ data[2] = l
    OBVIOUS
<1> HIDE DEF data
<1>2. PICK f : Counts(data, f)
    BY <1>1, NumberSteps, Zenon
<1>3. /\ f[0] = 0 /\ f[1] = 256 * f[1 - 1] + h /\ f[2] = 256 * f[2 - 1] + l
      /\ Number(data) = f[2]
    BY <1>1, <1>2, SMT DEF Counts
<1>4. h \in Nat /\ l \in Nat
    BY DEF Byte
<1>5. f[1] = h
    BY <1>3, <1>4
<1> QED
    BY <1>3, <1>4, <1>5 DEF data, WordOf
=============================================================================

--------------------------- MODULE FieldbusProofs ---------------------------
(***************************************************************************)
(* Proofs about Fieldbus, for every plant: any number of devices with any  *)
(* profile, any program order, any number of faults.                       *)
(***************************************************************************)
EXTENDS Fieldbus, FiniteSetTheorems, SequenceTheorems, WellFoundedInduction, TLAPS

-----------------------------------------------------------------------------
(* Numbers.  Facts for all numbers are shown by the least counterexample.  *)

(* A set of numbers that is not empty has a least element.                 *)
LEMMA LeastNumber ==
  ASSUME NEW S, S \subseteq Nat, S # {}
  PROVE  \E n \in S : \A m \in S : n <= m
  <1> DEFINE R == OpToRel(<, Nat)
  <1>1. \E x \in S : \A y \in S : ~(<<y, x>> \in R)
    BY NatLessThanWellFounded, WFMin
  <1>2. PICK x \in S : \A y \in S : ~(<<y, x>> \in R)
    BY <1>1
  <1>3. \A y \in S : ~(y < x)
    BY <1>2 DEF OpToRel
  <1> QED
    BY <1>3

(* What Max returns for a set of numbers with a bound.                     *)
LEMMA MaxIs ==
  ASSUME NEW S, S \subseteq Nat, S # {}, NEW N \in Nat, \A n \in S : n <= N
  PROVE  Max(S) \in S /\ \A n \in S : n <= Max(S)
  <1> DEFINE D == {k \in Nat : \E n \in S : k = N - n}
  <1>0. PICK p \in S : TRUE
    OBVIOUS
  <1>1. D # {} /\ D \subseteq Nat
    <2>1. N - p \in D
      BY <1>0
    <2> QED
      BY <2>1
  <1>2. PICK k \in D : \A m \in D : k <= m
    BY <1>1, LeastNumber
  <1>3. PICK n \in S : k = N - n
    BY <1>2
  <1>4. ASSUME NEW m \in S PROVE n >= m
    <2>1. N - m \in D
      OBVIOUS
    <2>2. k <= N - m
      BY <1>2, <2>1
    <2> QED
      BY <1>3, <2>2
  <1>5. \E x \in S : \A y \in S : x >= y
    BY <1>4
  <1>6. Max(S) \in S /\ \A y \in S : Max(S) >= y
    BY <1>5, Zenon DEF Max
  <1> QED
    BY <1>6

(* Numbers of 16 bits.                                                     *)
LEMMA WordIs ==
  /\ \A x : x \in Word <=> x \in Nat /\ x < WordSize
  /\ \A x \in Int : x % WordSize \in Word
  /\ \A x \in Word : x % WordSize = x
  <1>1. WordSize \in Nat
    BY DEF WordSize
  <1>2. \A x : x \in Word <=> x \in Nat /\ x < WordSize
    BY <1>1 DEF Word
  <1>3. \A x \in Int : x % WordSize \in Nat /\ x % WordSize < WordSize
    BY DEF WordSize
  <1>4. \A x \in Nat : x < WordSize => x % WordSize = x
    BY DEF WordSize
  <1> QED
    BY <1>2, <1>3, <1>4

LEMMA WordStep ==
  ASSUME NEW x \in Int
  PROVE  (x + 1) % WordSize = ((x % WordSize) + 1) % WordSize
  BY DEF WordSize

-----------------------------------------------------------------------------
(* Where fields start *)

Fielded(fields) == Len(fields) \in Nat /\ \A i \in 1..Len(fields) : fields[i].count \in Nat

\* The running offsets up to n.
IsOffsets(g, fields, n) ==
  g = [k \in 0..n |-> IF k = 0 THEN 0 ELSE g[k - 1] + ElementCount(fields[k])]

LEMMA OffsetsExist ==
  ASSUME NEW fields, NEW n \in Nat
  PROVE  \E g : IsOffsets(g, fields, n)
  <1> DEFINE Bad == {k \in Nat : ~\E g : IsOffsets(g, fields, k)}
  <1> SUFFICES ASSUME Bad # {} PROVE FALSE
    OBVIOUS
  <1>1. PICK k \in Bad : \A m \in Bad : k <= m
    BY LeastNumber
  <1>2. CASE k = 0
    <2> DEFINE h == [i \in 0..0 |-> 0]
    <2>1. IsOffsets(h, fields, 0)
      BY DEF IsOffsets
    <2> QED
      BY <1>2, <2>1
  <1>3. CASE k # 0
    <2>1. k - 1 \in Nat /\ k - 1 \notin Bad
      BY <1>1, <1>3
    <2>2. PICK g : IsOffsets(g, fields, k - 1)
      BY <2>1
    <2> DEFINE h == [i \in 0..k |-> IF i = k THEN g[k - 1] + ElementCount(fields[k]) ELSE g[i]]
    <2>3. ASSUME NEW i \in 0..k
          PROVE  h[i] = IF i = 0 THEN 0 ELSE h[i - 1] + ElementCount(fields[i])
      <3>1. CASE i = k
        BY <1>3, <2>1, <3>1
      <3>2. CASE i # k
        <4>1. i \in 0..(k - 1) /\ h[i] = g[i]
          BY <2>1, <3>2
        <4>2. g[i] = IF i = 0 THEN 0 ELSE g[i - 1] + ElementCount(fields[i])
          BY <2>2, <4>1 DEF IsOffsets
        <4>3. i # 0 => h[i - 1] = g[i - 1]
          BY <2>1, <4>1
        <4> QED
          BY <4>1, <4>2, <4>3
      <3> QED
        BY <3>1, <3>2
    <2>4. h = [i \in 0..k |-> h[i]]
      OBVIOUS
    <2>5. IsOffsets(h, fields, k)
      BY <2>3, <2>4 DEF IsOffsets
    <2> QED
      BY <2>5
  <1> QED
    BY <1>2, <1>3

LEMMA OffsetsAgree ==
  ASSUME NEW fields, NEW m \in Nat, NEW n \in Nat, m <= n,
         NEW g, NEW h, IsOffsets(g, fields, m), IsOffsets(h, fields, n)
  PROVE  \A i \in 0..m : g[i] = h[i]
  <1> DEFINE Bad == {i \in 0..m : g[i] # h[i]}
  <1> SUFFICES ASSUME Bad # {} PROVE FALSE
    OBVIOUS
  <1>0. Bad \subseteq Nat
    OBVIOUS
  <1>1. PICK k \in Bad : \A i \in Bad : k <= i
    BY <1>0, LeastNumber
  <1>2. /\ g[k] = IF k = 0 THEN 0 ELSE g[k - 1] + ElementCount(fields[k])
        /\ h[k] = IF k = 0 THEN 0 ELSE h[k - 1] + ElementCount(fields[k])
    BY DEF IsOffsets
  <1>3. k # 0
    BY <1>2
  <1>4. k - 1 \in 0..m /\ k - 1 \notin Bad
    BY <1>1, <1>3
  <1> QED
    BY <1>2, <1>3, <1>4

LEMMA OffsetIs ==
  ASSUME NEW fields, NEW n \in Nat, NEW g, IsOffsets(g, fields, n)
  PROVE  FieldOffset(fields, n + 1) = g[n]
  <1> DEFINE h == CHOOSE x : x = [k \in 0..(n + 1 - 1) |->
                      IF k = 0 THEN 0 ELSE x[k - 1] + ElementCount(fields[k])]
  <1>0. n + 1 - 1 = n
    OBVIOUS
  <1>1. FieldOffset(fields, n + 1) = h[n + 1 - 1]
    BY DEF FieldOffset
  <1>2. \E x : x = [k \in 0..(n + 1 - 1) |-> IF k = 0 THEN 0 ELSE x[k - 1] + ElementCount(fields[k])]
    BY <1>0 DEF IsOffsets
  <1>3. h = [k \in 0..(n + 1 - 1) |-> IF k = 0 THEN 0 ELSE h[k - 1] + ElementCount(fields[k])]
    BY <1>2, Zenon
  <1> HIDE DEF h
  <1>4. IsOffsets(h, fields, n)
    BY <1>0, <1>3 DEF IsOffsets
  <1> QED
    BY <1>0, <1>1, <1>4, OffsetsAgree

(* compute_field_offsets: the first field starts at 0, the next one where  *)
(* the one before it ends.                                                 *)
LEMMA OffsetStep ==
  ASSUME NEW fields
  PROVE  /\ FieldOffset(fields, 1) = 0
         /\ \A i \in Nat : i > 0 =>
              FieldOffset(fields, i + 1) = FieldOffset(fields, i) + ElementCount(fields[i])
  <1>1. FieldOffset(fields, 1) = 0
    <2>1. PICK g : IsOffsets(g, fields, 0)
      BY OffsetsExist
    <2>2. g[0] = 0
      BY <2>1 DEF IsOffsets
    <2>3. FieldOffset(fields, 0 + 1) = g[0]
      BY <2>1, OffsetIs
    <2> QED
      BY <2>2, <2>3
  <1>2. ASSUME NEW i \in Nat, i > 0
        PROVE  FieldOffset(fields, i + 1) = FieldOffset(fields, i) + ElementCount(fields[i])
    <2>0. i - 1 \in Nat /\ i - 1 <= i /\ i - 1 \in 0..(i - 1) /\ (i - 1) + 1 = i
      BY <1>2
    <2>1. PICK g : IsOffsets(g, fields, i)
      BY OffsetsExist
    <2>2. PICK h : IsOffsets(h, fields, i - 1)
      BY <2>0, OffsetsExist
    <2>3. FieldOffset(fields, i + 1) = g[i]
      BY <2>1, OffsetIs
    <2>4. FieldOffset(fields, (i - 1) + 1) = h[i - 1]
      BY <2>0, <2>2, OffsetIs
    <2>5. h[i - 1] = g[i - 1]
      BY <2>0, <2>1, <2>2, OffsetsAgree
    <2>6. g[i] = g[i - 1] + ElementCount(fields[i])
      BY <1>2, <2>1 DEF IsOffsets
    <2> QED
      BY <2>0, <2>3, <2>4, <2>5, <2>6
  <1> QED
    BY <1>1, <1>2

LEMMA OffsetsGrow ==
  ASSUME NEW fields, Fielded(fields)
  PROVE  /\ \A i \in 1..(Len(fields) + 1) : FieldOffset(fields, i) \in Nat
         /\ \A i \in 1..(Len(fields) + 1) : \A k \in 1..(Len(fields) + 1) :
              i < k => FieldOffset(fields, i) < FieldOffset(fields, k)
  <1> DEFINE N == Len(fields)
             O(i) == FieldOffset(fields, i)
  <1>0. N \in Nat /\ \A i \in 1..N : ElementCount(fields[i]) \in Nat /\ ElementCount(fields[i]) > 0
    BY DEF Fielded, ElementCount
  <1>1. O(1) = 0 /\ \A i \in 1..N : O(i + 1) = O(i) + ElementCount(fields[i])
    BY <1>0, OffsetStep
  <1> HIDE DEF O, N
  <1>2. \A i \in 1..(N + 1) : O(i) \in Nat
    <2> DEFINE Bad == {i \in 1..(N + 1) : O(i) \notin Nat}
    <2> SUFFICES ASSUME Bad # {} PROVE FALSE
      OBVIOUS
    <2>0. Bad \subseteq Nat
      BY <1>0
    <2>1. PICK k \in Bad : \A i \in Bad : k <= i
      BY <2>0, LeastNumber
    <2>2. k # 1
      BY <1>1
    <2>3. k - 1 \in 1..N /\ k - 1 \notin Bad /\ (k - 1) + 1 = k
      BY <1>0, <2>1, <2>2
    <2> QED
      BY <1>0, <1>1, <2>3
  <1>3. ASSUME NEW i \in 1..(N + 1), NEW k \in 1..(N + 1), i < k
        PROVE  O(i) < O(k)
    <2> DEFINE Bad == {j \in 1..(N + 1) : i < j /\ ~(O(i) < O(j))}
    <2> SUFFICES ASSUME Bad # {} PROVE FALSE
      BY <1>3
    <2>0. Bad \subseteq Nat
      BY <1>0
    <2>1. PICK j \in Bad : \A m \in Bad : j <= m
      BY <2>0, LeastNumber
    <2>2. j - 1 \in 1..N /\ j - 1 \notin Bad /\ (j - 1) + 1 = j /\ i <= j - 1
      BY <1>0, <2>1
    <2>3. O(j) = O(j - 1) + ElementCount(fields[j - 1])
      BY <1>1, <2>2
    <2>4. O(i) <= O(j - 1) /\ O(i) \in Nat /\ O(j - 1) \in Nat
      BY <1>0, <1>2, <2>2
    <2> QED
      BY <1>0, <2>2, <2>3, <2>4
  <1> QED
    BY <1>2, <1>3 DEF O, N

(* Every value belongs to a field: the one that starts before it and ends  *)
(* not before it.                                                          *)
LEMMA FieldAtIs ==
  ASSUME NEW fields, Fielded(fields), NEW n \in 1..TotalValues(fields)
  PROVE  /\ TotalValues(fields) \in Nat
         /\ FieldAt(fields, n) \in 1..Len(fields)
         /\ FieldOffset(fields, FieldAt(fields, n)) < n
         /\ n <= FieldOffset(fields, FieldAt(fields, n) + 1)
         /\ \A i \in 1..Len(fields) : FieldOffset(fields, i) < n => i <= FieldAt(fields, n)
  <1> DEFINE N == Len(fields)
             O(i) == FieldOffset(fields, i)
             S == {i \in 1..N : O(i) < n}
             a == FieldAt(fields, n)
  <1>0. N \in Nat
    BY DEF Fielded
  <1>1. /\ \A i \in 1..(N + 1) : O(i) \in Nat
        /\ \A i \in 1..(N + 1) : \A k \in 1..(N + 1) : i < k => O(i) < O(k)
    BY OffsetsGrow
  <1>2. O(1) = 0
    BY OffsetStep
  <1>3. TotalValues(fields) = O(N + 1)
    BY DEF TotalValues
  <1>4. a = Max(S)
    BY DEF FieldAt
  <1> HIDE DEF O, N, a
  <1>5. N # 0
    <2> SUFFICES ASSUME N = 0 PROVE FALSE
      OBVIOUS
    <2> QED
      BY <1>2, <1>3
  <1>6. 1 \in S
    BY <1>0, <1>2, <1>5
  <1>7. a \in S /\ \A i \in S : i <= a
    BY <1>0, <1>4, <1>6, MaxIs
  <1>8. n <= O(a + 1)
    <2>1. CASE a = N
      BY <1>0, <1>1, <1>3, <2>1
    <2>2. CASE a # N
      <3>1. a + 1 \in 1..N /\ a + 1 \notin S
        BY <1>0, <1>7, <2>2
      <3> QED
        BY <1>0, <1>1, <1>3, <3>1
    <2> QED
      BY <2>1, <2>2
  <1>9. TotalValues(fields) \in Nat
    BY <1>0, <1>1, <1>3
  <1> QED
    BY <1>7, <1>8, <1>9 DEF O, N, a

LEMMA TotalIs ==
  ASSUME NEW fields, Fielded(fields)
  PROVE  TotalValues(fields) \in Nat
  BY OffsetsGrow DEF TotalValues, Fielded

-----------------------------------------------------------------------------
(* Sets of numbers as sequences *)

(* InOrder lists every element of a finite set once, in ascending order.   *)
LEMMA InOrderIs ==
  ASSUME NEW S, S \subseteq Int, IsFiniteSet(S)
  PROVE  /\ Cardinality(S) \in Nat
         /\ InOrder(S) \in Seq(S) /\ Len(InOrder(S)) = Cardinality(S)
         /\ \A n \in S : \E k \in 1..Cardinality(S) : InOrder(S)[k] = n
         /\ \A i, k \in 1..Cardinality(S) : i < k => InOrder(S)[i] < InOrder(S)[k]
  <1> DEFINE Up(n) == {m \in S : m <= n}
             N == Cardinality(S)
             rank == [n \in S |-> Cardinality(Up(n))]
  <1>1. N \in Nat
    BY FS_CardinalityType
  <1>2. ASSUME NEW n \in S
        PROVE  IsFiniteSet(Up(n)) /\ Cardinality(Up(n)) \in 1..N
    <2>1. Up(n) \in SUBSET S
      OBVIOUS
    <2>2. IsFiniteSet(Up(n)) /\ Cardinality(Up(n)) <= N
      BY <2>1, FS_Subset
    <2>3. Cardinality(Up(n)) \in Nat
      BY <2>2, FS_CardinalityType
    <2>4. n \in Up(n)
      OBVIOUS
    <2>5. Cardinality(Up(n)) # 0
      BY <2>2, <2>4, FS_EmptySet
    <2> QED
      BY <1>1, <2>2, <2>3, <2>5
  <1>3. ASSUME NEW m \in S, NEW n \in S, m < n
        PROVE  rank[m] < rank[n]
    <2>0. m \in Int /\ n \in Int /\ \A x \in S : x \in Int
      OBVIOUS
    <2>1. Up(m) \in SUBSET Up(n) /\ n \in Up(n) /\ n \notin Up(m)
      <3>1. ASSUME NEW x \in Up(m) PROVE x \in Up(n)
        <4>1. x \in S /\ x \in Int /\ x <= m
          BY <2>0
        <4>2. x <= n
          BY <1>3, <2>0, <4>1
        <4> QED
          BY <4>1, <4>2
      <3>2. n \in Up(n)
        BY <2>0
      <3>3. ~(n <= m)
        BY <1>3, <2>0
      <3> QED
        BY <3>1, <3>2, <3>3
    <2>2. Cardinality(Up(m)) <= Cardinality(Up(n)) /\ Cardinality(Up(m)) # Cardinality(Up(n))
      BY <1>2, <2>1, FS_Subset
    <2> QED
      BY <1>2, <2>2
  <1>4. rank \in [S -> 1..N]
    BY <1>2
  <1>5. \A m, n \in S : rank[m] = rank[n] => m = n
    <2> SUFFICES ASSUME NEW m \in S, NEW n \in S, rank[m] = rank[n], m # n PROVE FALSE
      OBVIOUS
    <2>1. rank[m] \in Int /\ rank[n] \in Int
      BY <1>1, <1>4
    <2> HIDE DEF rank
    <2>2. m < n \/ n < m
      OBVIOUS
    <2> QED
      BY <1>3, <2>1, <2>2
  <1>6. rank \in Injection(S, 1..N)
    BY <1>4, <1>5 DEF Injection, IsInjective
  <1>7. IsFiniteSet(1..N) /\ Cardinality(1..N) = N
    BY <1>1, FS_Interval
  <1>8. rank \in Surjection(S, 1..N)
    BY <1>6, <1>7, FS_Injection
  <1>9. \A k \in 1..N : \E n \in S : rank[n] = k
    BY <1>8 DEF Surjection
  <1>10. InOrder(S) = [k \in 1..N |-> CHOOSE n \in S : Cardinality(Up(n)) = k]
    BY DEF InOrder
  <1>11. ASSUME NEW k \in 1..N
         PROVE  InOrder(S)[k] \in S /\ rank[InOrder(S)[k]] = k
    <2>1. \E n \in S : Cardinality(Up(n)) = k
      BY <1>9
    <2>2. InOrder(S)[k] \in S /\ Cardinality(Up(InOrder(S)[k])) = k
      BY <1>10, <2>1
    <2> QED
      BY <2>2
  <1> HIDE DEF rank
  <1>12. InOrder(S) \in Seq(S) /\ Len(InOrder(S)) = N
    <2>1. InOrder(S) = [k \in 1..N |-> InOrder(S)[k]]
      BY <1>10, Zenon
    <2> QED
      BY <1>1, <1>11, <2>1
  <1>13. ASSUME NEW n \in S PROVE \E k \in 1..N : InOrder(S)[k] = n
    <2>1. rank[n] \in 1..N
      BY <1>4
    <2> QED
      BY <1>5, <1>11, <2>1
  <1>14. ASSUME NEW i \in 1..N, NEW k \in 1..N, i < k
         PROVE  InOrder(S)[i] < InOrder(S)[k]
    <2> DEFINE x == InOrder(S)[i]
               y == InOrder(S)[k]
    <2>1. x \in S /\ y \in S /\ rank[x] = i /\ rank[y] = k
      BY <1>11
    <2> HIDE DEF x, y
    <2>2. x \in Int /\ y \in Int
      BY <2>1
    <2>3. ~(y < x)
      BY <1>1, <1>3, <1>14, <2>1
    <2>4. x # y
      BY <1>1, <1>14, <2>1
    <2>5. x < y
      BY <2>2, <2>3, <2>4
    <2> QED
      BY <2>5 DEF x, y
  <1> QED
    BY <1>1, <1>12, <1>13, <1>14

-----------------------------------------------------------------------------
(* Registers and batches *)

Profiled(fields) ==
  /\ Fielded(fields)
  /\ \A i \in 1..Len(fields) :
       /\ fields[i].dir \in {"in", "out", "inout"} /\ fields[i].type \in FieldTypes
       /\ fields[i].kind \in RegisterKinds /\ fields[i].addr \in Nat
       /\ fields[i].scale \in Int /\ fields[i].offset \in Int
       /\ fields[i].bit \in -1..255 /\ fields[i].order \in ByteOrders /\ fields[i].words \in 0..255

Registers ==
  [io : Nat, addr : Word, kind : RegisterKinds, type : FieldTypes, scale : Int, offset : Int,
   bit : -1..255, order : ByteOrders, words : 0..255]

LEMMA RegisterIs ==
  ASSUME NEW fields, Profiled(fields), NEW n \in 1..TotalValues(fields)
  PROVE  /\ Register(fields, n) \in Registers
         /\ Register(fields, n).io = n
         /\ Register(fields, n).type = fields[FieldAt(fields, n)].type
         /\ Register(fields, n).kind = fields[FieldAt(fields, n)].kind
  <1> DEFINE i == FieldAt(fields, n)
             a == fields[i].addr + (n - FieldOffset(fields, i)) - 1
  <1>1. i \in 1..Len(fields) /\ FieldOffset(fields, i) < n /\ TotalValues(fields) \in Nat
    BY FieldAtIs DEF Profiled
  <1>2. FieldOffset(fields, i) \in Nat
    BY <1>1, OffsetsGrow DEF Profiled, Fielded
  <1>3. a \in Nat
    BY <1>1, <1>2 DEF Profiled
  <1>4. Register(fields, n) =
          [io |-> n, addr |-> a % WordSize, kind |-> fields[i].kind, type |-> fields[i].type,
           scale |-> fields[i].scale, offset |-> fields[i].offset,
           bit |-> fields[i].bit, order |-> fields[i].order, words |-> fields[i].words]
    BY DEF Register
  <1> HIDE DEF a, i
  <1>5. a % WordSize \in Word
    BY <1>3, WordIs
  <1>6. /\ fields[i].kind \in RegisterKinds /\ fields[i].type \in FieldTypes
        /\ fields[i].scale \in Int /\ fields[i].offset \in Int /\ n \in Nat
        /\ fields[i].bit \in -1..255 /\ fields[i].order \in ByteOrders /\ fields[i].words \in 0..255
    BY <1>1 DEF Profiled
  <1>7. Register(fields, n) \in Registers
    BY <1>4, <1>5, <1>6 DEF Registers
  <1> QED
    BY <1>4, <1>7 DEF i

(* expand_registers lists the registers of the wanted directions in the    *)
(* order of their values.                                                  *)
LEMMA ExpandIs ==
  ASSUME NEW fields, Profiled(fields), NEW dirs
  PROVE  LET regs == ExpandRegisters(fields, dirs)
             wanted == Selected(fields, dirs)
         IN /\ Len(regs) \in Nat /\ regs \in Seq(Registers)
            /\ \A k \in 1..Len(regs) : regs[k].io \in wanted /\ regs[k] = Register(fields, regs[k].io)
            /\ \A n \in wanted : \E k \in 1..Len(regs) : regs[k] = Register(fields, n)
            /\ \A i, k \in 1..Len(regs) : i < k => regs[i].io < regs[k].io
  <1> DEFINE wanted == Selected(fields, dirs)
             regs == ExpandRegisters(fields, dirs)
             numbers == InOrder(wanted)
  <1>0. TotalValues(fields) \in Nat
    BY TotalIs DEF Profiled
  <1>1. wanted \subseteq 1..TotalValues(fields) /\ wanted \subseteq Int
    BY DEF Selected
  <1>2. IsFiniteSet(wanted)
    <2>1. IsFiniteSet(1..TotalValues(fields))
      BY <1>0, FS_Interval
    <2> QED
      BY <1>1, <2>1, FS_Subset
  <1>3. /\ numbers \in Seq(wanted) /\ Len(numbers) \in Nat
        /\ \A n \in wanted : \E k \in 1..Len(numbers) : numbers[k] = n
        /\ \A i, k \in 1..Len(numbers) : i < k => numbers[i] < numbers[k]
    BY <1>1, <1>2, InOrderIs
  <1>4. regs = [k \in 1..Len(numbers) |-> Register(fields, numbers[k])]
    BY DEF ExpandRegisters
  <1>5. \A n \in wanted : Register(fields, n) \in Registers /\ Register(fields, n).io = n
    BY <1>1, RegisterIs
  <1> HIDE DEF regs, numbers, wanted
  <1>6. \A k \in 1..Len(numbers) : numbers[k] \in wanted
    BY <1>3
  <1>7. \A k \in 1..Len(numbers) : regs[k] = Register(fields, numbers[k]) /\ regs[k] \in Registers
    BY <1>4, <1>5, <1>6
  <1>8. regs \in Seq(Registers) /\ Len(regs) = Len(numbers)
    <2>1. regs \in [1..Len(numbers) -> Registers]
      <3>1. \A k \in 1..Len(numbers) : Register(fields, numbers[k]) \in Registers
        BY <1>5, <1>6
      <3> QED
        BY <1>4, <3>1
    <2>2. Len(numbers) \in Nat
      BY <1>3
    <2> QED
      BY <2>1, <2>2
  <1>9. \A k \in 1..Len(numbers) : regs[k].io = numbers[k]
    BY <1>5, <1>6, <1>7
  <1>10. \A k \in 1..Len(regs) : regs[k].io \in wanted /\ regs[k] = Register(fields, regs[k].io)
    BY <1>6, <1>7, <1>8, <1>9
  <1>11. \A n \in wanted : \E k \in 1..Len(regs) : regs[k] = Register(fields, n)
    <2>1. SUFFICES ASSUME NEW n \in wanted PROVE \E k \in 1..Len(regs) : regs[k] = Register(fields, n)
      OBVIOUS
    <2>2. PICK k \in 1..Len(numbers) : numbers[k] = n
      BY <1>3
    <2>3. regs[k] = Register(fields, n) /\ 1..Len(regs) = 1..Len(numbers)
      BY <1>7, <1>8, <2>2
    <2> QED
      BY <2>3
  <1>12. \A i, k \in 1..Len(regs) : i < k => regs[i].io < regs[k].io
    BY <1>3, <1>8, <1>9
  <1> QED
    BY <1>3, <1>8, <1>10, <1>11, <1>12 DEF regs, wanted

(* Following is a chain of single steps.                                   *)
LEMMA FollowsStep ==
  ASSUME NEW regs, regs \in Seq(Registers), NEW i \in 1..Len(regs), NEW k \in 1..Len(regs),
         i < k, Follows(regs, i, k - 1)
  PROVE  Follows(regs, i, k) <=> Follows(regs, k - 1, k)
  <1> DEFINE a == regs[i].addr
             b == regs[k - 1].addr
             x == a + ((k - 1) - i)
  <1>0. i \in Int /\ k \in Int /\ k - 1 \in 1..Len(regs)
    OBVIOUS
  <1>1. a \in Int
    <2>1. regs[i] \in Registers
      OBVIOUS
    <2>2. a \in Word
      BY <2>1 DEF Registers
    <2> QED
      BY <2>2, WordIs
  <1>2. b = x % WordSize /\ regs[k - 1].kind = regs[i].kind
    BY DEF Follows
  <1> HIDE DEF a, b
  <1>3. x \in Int /\ a + (k - i) = x + 1 /\ k - (k - 1) = 1
    BY <1>0, <1>1
  <1> HIDE DEF x
  <1>4. (a + (k - i)) % WordSize = (b + (k - (k - 1))) % WordSize
    BY <1>2, <1>3, WordStep
  <1> QED
    BY <1>2, <1>4 DEF Follows, a, b

LEMMA BatchEndIs ==
  ASSUME NEW regs, regs \in Seq(Registers), NEW i \in 1..Len(regs)
  PROVE  /\ BatchEnd(regs, i) \in i..Len(regs)
         /\ \A k \in i..BatchEnd(regs, i) : Follows(regs, i, k)
         /\ \A e \in i..Len(regs) : (\A k \in i..e : Follows(regs, i, k)) => e <= BatchEnd(regs, i)
  <1> DEFINE S == {e \in i..Len(regs) : \A k \in i..e : Follows(regs, i, k)}
  <1>0. Len(regs) \in Nat /\ i \in Nat
    OBVIOUS
  <1>1. Follows(regs, i, i)
    <2>1. regs[i] \in Registers
      OBVIOUS
    <2>2. regs[i].addr \in Word
      BY <2>1 DEF Registers
    <2>3. regs[i].addr + (i - i) = regs[i].addr
      BY <1>0, <2>2, WordIs
    <2> QED
      BY <2>2, <2>3, WordIs DEF Follows
  <1>2. i \in S
    BY <1>0, <1>1
  <1>3. S \subseteq Nat /\ \A e \in S : e <= Len(regs)
    BY <1>0
  <1>4. Max(S) \in S /\ \A e \in S : e <= Max(S)
    BY <1>0, <1>2, <1>3, MaxIs
  <1>5. BatchEnd(regs, i) = Max(S)
    BY DEF BatchEnd
  <1> QED
    BY <1>4, <1>5

(* Every register of a wanted kind is in a batch.                          *)
LEMMA BatchCovers ==
  ASSUME NEW regs, regs \in Seq(Registers), NEW kinds, NEW k \in 1..Len(regs), regs[k].kind \in kinds
  PROVE  \E i \in BatchStarts(regs, kinds) : i <= k /\ k <= BatchEnd(regs, i)
  <1> DEFINE S == {s \in 1..k : s = 1 \/ ~Follows(regs, s - 1, s)}
             i == Max(S)
  <1>0. Len(regs) \in Nat /\ k \in Nat /\ k <= Len(regs)
    OBVIOUS
  <1>1. 1 \in S /\ S \subseteq Nat /\ \A s \in S : s <= k
    BY <1>0
  <1>2. i \in S /\ \A s \in S : s <= i
    BY <1>0, <1>1, MaxIs
  <1> HIDE DEF i
  <1>3. i \in 1..k /\ i \in 1..Len(regs)
    BY <1>0, <1>2
  <1>4. \A m \in i..k : Follows(regs, i, m)
    <2> DEFINE Bad == {m \in i..k : ~Follows(regs, i, m)}
    <2> SUFFICES ASSUME Bad # {} PROVE FALSE
      OBVIOUS
    <2>0. Bad \subseteq Nat
      BY <1>0, <1>3
    <2>1. PICK m \in Bad : \A e \in Bad : m <= e
      BY <2>0, LeastNumber
    <2>2. Follows(regs, i, i)
      BY <1>3, BatchEndIs
    <2>3. m \in 1..Len(regs) /\ i < m /\ m <= k
      BY <1>0, <1>3, <2>1, <2>2
    <2>4. m - 1 \in i..k /\ m - 1 \notin Bad
      BY <1>0, <1>3, <2>1, <2>3
    <2>5. Follows(regs, i, m - 1) /\ ~Follows(regs, i, m)
      BY <2>1, <2>4
    <2>6. ~Follows(regs, m - 1, m)
      BY <1>3, <2>3, <2>5, FollowsStep
    <2>7. m \in S
      BY <1>0, <2>3, <2>6
    <2> QED
      BY <1>0, <1>2, <1>3, <2>3, <2>7
  <1>5. k <= BatchEnd(regs, i)
    BY <1>0, <1>3, <1>4, BatchEndIs
  <1>6. regs[i].kind \in kinds
    BY <1>0, <1>3, <1>4 DEF Follows
  <1>7. i \in BatchStarts(regs, kinds)
    BY <1>2, <1>3, <1>6 DEF BatchStarts
  <1> QED
    BY <1>3, <1>5, <1>7

(* Batches do not overlap.                                                 *)
LEMMA BatchesApart ==
  ASSUME NEW regs, regs \in Seq(Registers), NEW kinds,
         NEW i \in BatchStarts(regs, kinds), NEW k \in BatchStarts(regs, kinds), i < k
  PROVE  BatchEnd(regs, i) < k
  <1>0. i \in 1..Len(regs) /\ k \in 1..Len(regs) /\ ~Follows(regs, k - 1, k) /\ Len(regs) \in Nat
    BY DEF BatchStarts
  <1>1. /\ BatchEnd(regs, i) \in i..Len(regs)
        /\ \A m \in i..BatchEnd(regs, i) : Follows(regs, i, m)
    BY <1>0, BatchEndIs
  <1> SUFFICES ASSUME ~(BatchEnd(regs, i) < k) PROVE FALSE
    OBVIOUS
  <1>2. k \in i..BatchEnd(regs, i) /\ k - 1 \in i..BatchEnd(regs, i)
    BY <1>0, <1>1
  <1> QED
    BY <1>0, <1>1, <1>2, FollowsStep

(* A batch from register i on.                                             *)
IsBatch(op, regs, i) ==
  /\ op.addr = regs[i].addr /\ op.n = BatchEnd(regs, i) - i + 1
  /\ op.rest = SubSeq(regs, i, Len(regs))

LEMMA BatchFields ==
  ASSUME NEW regs, NEW i, NEW fc, NEW vals, NEW op, op = Batch(regs, i, fc, vals)
  PROVE  IsBatch(op, regs, i) /\ op.fc = fc /\ op.vals = vals /\ op.n = BatchEnd(regs, i) - i + 1
  <1> DEFINE a == regs[i].addr
             m == BatchEnd(regs, i) - i + 1
             rest == SubSeq(regs, i, Len(regs))
  <1>1. op = [fc |-> fc, addr |-> a, n |-> m, rest |-> rest, vals |-> vals, sendable |-> TRUE]
    BY DEF Batch
  <1> HIDE DEF a, m, rest
  <1>2. op.fc = fc /\ op.addr = a /\ op.n = m /\ op.rest = rest /\ op.vals = vals
    BY <1>1
  <1> QED
    BY <1>2, Zenon DEF IsBatch, a, m, rest

LEMMA BatchIs ==
  ASSUME NEW regs, regs \in Seq(Registers), NEW i \in 1..Len(regs), NEW op, IsBatch(op, regs, i)
  PROVE  /\ op.n \in Nat /\ op.n >= 1 /\ op.rest \in Seq(Registers) /\ op.n <= Len(op.rest)
         /\ Len(op.rest) = Len(regs) - i + 1
         /\ \A j \in 1..op.n : i + j - 1 \in i..BatchEnd(regs, i)
         /\ \A j \in 1..Len(op.rest) : op.rest[j] = regs[i + j - 1] /\ i + j - 1 \in 1..Len(regs)
         /\ \A j \in 1..op.n : op.rest[j].kind = regs[i].kind /\ op.rest[j].addr = (op.addr + j - 1) % WordSize
         /\ op.addr \in Word
  <1> DEFINE e == BatchEnd(regs, i)
  <1>0. Len(regs) \in Nat /\ i \in Nat /\ 1 <= i /\ i <= Len(regs)
    OBVIOUS
  <1>1. e \in i..Len(regs) /\ \A k \in i..e : Follows(regs, i, k)
    BY BatchEndIs
  <1>2. op.n = e - i + 1 /\ op.rest = SubSeq(regs, i, Len(regs)) /\ op.addr = regs[i].addr
    BY DEF IsBatch
  <1> HIDE DEF e
  <1>3. op.n \in Nat /\ op.n >= 1 /\ op.n <= Len(regs) - i + 1
    BY <1>0, <1>1, <1>2
  <1>4. op.rest \in Seq(Registers) /\ Len(op.rest) = Len(regs) - i + 1
    BY <1>0, <1>2, SubSeqProperties
  <1>5. \A j \in 1..Len(op.rest) : op.rest[j] = regs[i + j - 1] /\ i + j - 1 \in 1..Len(regs)
    BY <1>0, <1>2, <1>4, SubSeqProperties
  <1>6. \A j \in 1..op.n : i + j - 1 \in i..e
    BY <1>0, <1>1, <1>2
  <1>7. op.addr \in Word
    <2>1. regs[i] \in Registers
      OBVIOUS
    <2> QED
      BY <1>2, <2>1 DEF Registers
  <1>8. ASSUME NEW j \in 1..op.n
        PROVE  op.rest[j].kind = regs[i].kind /\ op.rest[j].addr = (op.addr + j - 1) % WordSize
    <2>1. Follows(regs, i, i + j - 1) /\ op.rest[j] = regs[i + j - 1]
      BY <1>0, <1>1, <1>3, <1>4, <1>5, <1>6
    <2>2. op.addr + ((i + j - 1) - i) = op.addr + j - 1
      BY <1>0, <1>3, <1>7, WordIs
    <2> QED
      BY <1>2, <2>1, <2>2 DEF Follows
  <1> QED
    BY <1>3, <1>4, <1>5, <1>6, <1>7, <1>8 DEF e

Tags == {"None", "Bool", "Int", "UInt", "Real", "String", "Time", "Param", "Temperature", "InternalTemp",
         "Per1000", "Enum", "HexPair", "Ack", "Text"}
Values == [t : Tags, v : Int]
ModbusOps == [fc : Nat, addr : Word, n : Nat, rest : Seq(Registers), vals : Seq(Word), sendable : BOOLEAN]

LEMMA BatchTyped ==
  ASSUME NEW regs, regs \in Seq(Registers), NEW i \in 1..Len(regs), NEW fc \in Nat,
         NEW vals, vals \in Seq(Word)
  PROVE  Batch(regs, i, fc, vals) \in ModbusOps
  <1> DEFINE op == Batch(regs, i, fc, vals)
             a == regs[i].addr
             m == BatchEnd(regs, i) - i + 1
             rest == SubSeq(regs, i, Len(regs))
  <1>1. op = [fc |-> fc, addr |-> a, n |-> m, rest |-> rest, vals |-> vals, sendable |-> TRUE]
    BY DEF Batch
  <1>2. IsBatch(op, regs, i)
    BY BatchFields
  <1>3. op.n \in Nat /\ op.rest \in Seq(Registers) /\ op.addr \in Word
    BY <1>2, BatchIs
  <1> HIDE DEF a, m, rest, op
  <1>4. a \in Word /\ m \in Nat /\ rest \in Seq(Registers)
    BY <1>1, <1>3
  <1>5. op \in ModbusOps
    BY <1>1, <1>4 DEF ModbusOps
  <1> QED
    BY <1>5 DEF op

ReadKinds == RegisterKinds \ {"virtual"}
WrittenKinds == {"coil", "holding"}

LEMMA StartsAre ==
  ASSUME NEW regs, regs \in Seq(Registers), NEW kinds
  PROVE  LET starts == InOrder(BatchStarts(regs, kinds))
         IN /\ Len(starts) \in Nat
            /\ \A b \in 1..Len(starts) : /\ starts[b] \in BatchStarts(regs, kinds)
                                         /\ starts[b] \in 1..Len(regs) /\ regs[starts[b]].kind \in kinds
            /\ \A i \in BatchStarts(regs, kinds) : \E b \in 1..Len(starts) : starts[b] = i
            /\ \A a, b \in 1..Len(starts) : a < b => starts[a] < starts[b]
  <1> DEFINE S == BatchStarts(regs, kinds)
             starts == InOrder(S)
  <1>0. Len(regs) \in Nat
    OBVIOUS
  <1>1. S \subseteq 1..Len(regs) /\ \A i \in S : regs[i].kind \in kinds
    BY DEF BatchStarts
  <1>2. IsFiniteSet(S)
    <2>1. IsFiniteSet(1..Len(regs))
      BY <1>0, FS_Interval
    <2> QED
      BY <1>1, <2>1, FS_Subset
  <1>3. S \subseteq Int
    BY <1>0, <1>1
  <1>4. /\ starts \in Seq(S) /\ Len(starts) \in Nat
        /\ \A i \in S : \E b \in 1..Len(starts) : starts[b] = i
        /\ \A a, b \in 1..Len(starts) : a < b => starts[a] < starts[b]
    BY <1>2, <1>3, InOrderIs
  <1> HIDE DEF S, starts
  <1>5. \A b \in 1..Len(starts) : starts[b] \in S
    BY <1>4
  <1> QED
    BY <1>1, <1>4, <1>5 DEF S, starts

LEMMA ReadFunctionIs ==
  /\ ReadFunction("coil") = 1 /\ ReadFunction("discrete") = 2
  /\ ReadFunction("holding") = 3 /\ ReadFunction("input") = 4
  <1>1. ReadFunction("coil") = 1
    BY DEF ReadFunction
  <1>2. ReadFunction("discrete") = 2
    BY DEF ReadFunction
  <1>3. ReadFunction("holding") = 3
    BY DEF ReadFunction
  <1>4. ReadFunction("input") = 4
    BY DEF ReadFunction
  <1> QED
    BY <1>1, <1>2, <1>3, <1>4

LEMMA ReadKindIs ==
  ASSUME NEW k \in ReadKinds
  PROVE  ReadFunction(k) \in Nat /\ IsReadFunction(ReadFunction(k))
  BY ReadFunctionIs DEF ReadKinds, RegisterKinds, IsReadFunction

LEMMA WriteFunctionIs ==
  ASSUME NEW k \in WrittenKinds, NEW n \in Nat
  PROVE  WriteFunction(k, n) \in {5, 6, 15, 16}
  <1>1. CASE k = "coil" /\ n = 1
    BY <1>1, Zenon DEF WriteFunction
  <1>2. CASE k = "holding" /\ n = 1
    BY <1>2 DEF WriteFunction
  <1>3. CASE k = "coil" /\ n # 1
    BY <1>3 DEF WriteFunction
  <1>4. CASE k = "holding" /\ n # 1
    BY <1>4 DEF WriteFunction
  <1> QED
    BY <1>1, <1>2, <1>3, <1>4 DEF WrittenKinds

LEMMA TruncateIs ==
  ASSUME NEW x \in Int, NEW y \in Int, y # 0
  PROVE  Truncate(x, y) \in Int
  <1>1. Abs(x) \in Nat /\ Abs(y) \in Nat /\ Abs(y) > 0
    BY DEF Abs
  <1>2. Abs(x) \div Abs(y) \in Int
    BY <1>1
  <1> QED
    BY <1>2 DEF Truncate

LEMMA ClampIs ==
  ASSUME NEW x \in Int
  PROVE  Clamp(x, 0, WordSize - 1) \in Word
  <1>1. WordSize \in Nat /\ WordSize > 0
    BY DEF WordSize
  <1> QED
    BY <1>1 DEF Clamp, Word

LEMMA ToRawIs ==
  ASSUME NEW value \in Values, NEW r \in Registers
  PROVE  ToRaw(value, r) \in Word
  <1> DEFINE number == IF value.t = "Real" THEN value.v
                       ELSE IF value.t \in {"Bool", "Int", "UInt"} THEN value.v * 10000 ELSE 0
             y == IF r.scale = 0 THEN 10000 ELSE r.scale
  <1>1. number \in Int /\ r.offset \in Int /\ y \in Int /\ y # 0
    BY DEF Values, Registers
  <1>2. ValueToRegister(value, r) = Clamp(Truncate(number - r.offset, y), 0, WordSize - 1)
    BY DEF ValueToRegister
  <1> HIDE DEF number, y
  <1>3. Truncate(number - r.offset, y) \in Int
    BY <1>1, TruncateIs
  <1>4. ValueToRegister(value, r) \in Word
    BY <1>2, <1>3, ClampIs
  <1>5. 0 \in Word /\ 1 \in Word
    <2>1. WordSize \in Nat /\ WordSize > 1
      BY DEF WordSize
    <2> QED
      BY <2>1, WordIs
  <1> QED
    BY <1>4, <1>5 DEF ToRaw

(* read_batched_io: the requests of the read pass.                         *)
LEMMA ReadBatchedIs ==
  ASSUME NEW regs, regs \in Seq(Registers)
  PROVE  LET ops == ReadBatched(regs)
             starts == InOrder(BatchStarts(regs, ReadKinds))
         IN /\ Len(ops) = Len(starts) /\ Len(ops) \in Nat /\ ops \in Seq(ModbusOps)
            /\ \A b \in 1..Len(ops) :
                 /\ starts[b] \in 1..Len(regs) /\ regs[starts[b]].kind \in ReadKinds
                 /\ IsBatch(ops[b], regs, starts[b])
                 /\ ops[b].fc = ReadFunction(regs[starts[b]].kind) /\ IsReadFunction(ops[b].fc)
  <1> DEFINE starts == InOrder(BatchStarts(regs, ReadKinds))
             ops == ReadBatched(regs)
  <1>1. /\ Len(starts) \in Nat
        /\ \A b \in 1..Len(starts) : starts[b] \in 1..Len(regs) /\ regs[starts[b]].kind \in ReadKinds
    BY StartsAre
  <1>2. ops = [b \in 1..Len(starts) |-> Batch(regs, starts[b], ReadFunction(regs[starts[b]].kind), <<>>)]
    BY DEF ReadBatched, ReadKinds
  <1> HIDE DEF starts, ops
  <1>3. Len(ops) = Len(starts) /\ DOMAIN ops = 1..Len(starts)
    BY <1>1, <1>2
  <1>4. ASSUME NEW b \in 1..Len(starts)
        PROVE  /\ IsBatch(ops[b], regs, starts[b]) /\ ops[b] \in ModbusOps
               /\ ops[b].fc = ReadFunction(regs[starts[b]].kind) /\ IsReadFunction(ops[b].fc)
    <2> DEFINE i == starts[b]
    <2>0. i \in 1..Len(regs) /\ regs[i].kind \in ReadKinds
      BY <1>1
    <2>1. ops[b] = Batch(regs, i, ReadFunction(regs[i].kind), <<>>)
      BY <1>2
    <2> HIDE DEF i
    <2>3. IsBatch(ops[b], regs, i) /\ ops[b].fc = ReadFunction(regs[i].kind) /\ ops[b].vals = <<>>
      BY <2>1, BatchFields
    <2>4. ops[b].n \in Nat /\ ops[b].rest \in Seq(Registers) /\ ops[b].addr \in Word
      BY <2>0, <2>3, BatchIs
    <2>5. ReadFunction(regs[i].kind) \in Nat /\ IsReadFunction(ReadFunction(regs[i].kind))
      BY <2>0, ReadKindIs
    <2>6. <<>> \in Seq(Word)
      OBVIOUS
    <2>7. ops[b] \in ModbusOps
      BY <2>0, <2>1, <2>5, <2>6, BatchTyped
    <2> QED
      BY <2>3, <2>5, <2>7 DEF i
  <1>5. ops \in Seq(ModbusOps)
    <2>1. ops = [b \in 1..Len(starts) |-> ops[b]]
      BY <1>2, Zenon
    <2> QED
      BY <1>1, <1>4, <2>1
  <1> QED
    BY <1>1, <1>3, <1>4, <1>5 DEF starts, ops

(* write_batched_io: the requests of the write pass.                       *)
LEMMA WriteBatchedIs ==
  ASSUME NEW regs, regs \in Seq(Registers), NEW values,
         \A k \in 1..Len(regs) : values[regs[k].io] \in Values
  PROVE  LET ops == WriteBatched(regs, values)
             starts == InOrder(BatchStarts(regs, WrittenKinds))
         IN /\ Len(ops) = Len(starts) /\ Len(ops) \in Nat /\ ops \in Seq(ModbusOps)
            /\ \A b \in 1..Len(ops) :
                 /\ starts[b] \in 1..Len(regs) /\ regs[starts[b]].kind \in WrittenKinds
                 /\ IsBatch(ops[b], regs, starts[b])
                 /\ ops[b].fc = WriteFunction(regs[starts[b]].kind, ops[b].n) /\ ~IsReadFunction(ops[b].fc)
                 /\ \A j \in 1..ops[b].n : ops[b].vals[j] = ToRaw(values[ops[b].rest[j].io], ops[b].rest[j])
  <1> DEFINE starts == InOrder(BatchStarts(regs, WrittenKinds))
             ops == WriteBatched(regs, values)
             Size(i) == BatchEnd(regs, i) - i + 1
             Vals(i) == [j \in 1..Size(i) |-> ToRaw(values[regs[i + j - 1].io], regs[i + j - 1])]
  <1>1. /\ Len(starts) \in Nat
        /\ \A b \in 1..Len(starts) : starts[b] \in 1..Len(regs) /\ regs[starts[b]].kind \in WrittenKinds
    BY StartsAre
  <1>2. ops = [b \in 1..Len(starts) |->
                 Batch(regs, starts[b], WriteFunction(regs[starts[b]].kind, Size(starts[b])), Vals(starts[b]))]
    BY DEF WriteBatched, WrittenKinds
  <1> HIDE DEF starts, ops
  <1>3. Len(ops) = Len(starts) /\ DOMAIN ops = 1..Len(starts)
    BY <1>1, <1>2
  <1>4. ASSUME NEW b \in 1..Len(starts)
        PROVE  /\ IsBatch(ops[b], regs, starts[b]) /\ ops[b] \in ModbusOps
               /\ ops[b].fc = WriteFunction(regs[starts[b]].kind, ops[b].n) /\ ~IsReadFunction(ops[b].fc)
               /\ \A j \in 1..ops[b].n : ops[b].vals[j] = ToRaw(values[ops[b].rest[j].io], ops[b].rest[j])
    <2> DEFINE i == starts[b]
    <2>0. i \in 1..Len(regs) /\ regs[i].kind \in WrittenKinds
      BY <1>1
    <2>1. ops[b] = Batch(regs, i, WriteFunction(regs[i].kind, Size(i)), Vals(i))
      BY <1>2
    <2> HIDE DEF i
    <2>3. /\ IsBatch(ops[b], regs, i) /\ ops[b].n = Size(i) /\ ops[b].vals = Vals(i)
          /\ ops[b].fc = WriteFunction(regs[i].kind, Size(i))
      <3> HIDE DEF Vals
      <3> QED
        BY <2>1, BatchFields
    <2>4. /\ ops[b].n \in Nat /\ ops[b].rest \in Seq(Registers) /\ ops[b].addr \in Word
          /\ \A j \in 1..Len(ops[b].rest) : ops[b].rest[j] = regs[i + j - 1] /\ i + j - 1 \in 1..Len(regs)
          /\ ops[b].n <= Len(ops[b].rest)
      BY <2>0, <2>3, BatchIs
    <2> HIDE DEF Size
    <2>5. WriteFunction(regs[i].kind, Size(i)) \in {5, 6, 15, 16}
      BY <2>0, <2>3, <2>4, WriteFunctionIs
    <2>6. \A j \in 1..ops[b].n : /\ j \in 1..Len(ops[b].rest) /\ regs[i + j - 1] \in Registers
                                 /\ values[regs[i + j - 1].io] \in Values
      <3>1. \A j \in 1..ops[b].n : j \in 1..Len(ops[b].rest)
        BY <2>4
      <3>2. \A j \in 1..ops[b].n : i + j - 1 \in 1..Len(regs)
        BY <2>4, <3>1
      <3> QED
        BY <3>1, <3>2
    <2>7. \A j \in 1..Size(i) : ToRaw(values[regs[i + j - 1].io], regs[i + j - 1]) \in Word
      BY <2>3, <2>6, ToRawIs
    <2>8. Vals(i) \in Seq(Word)
      <3>1. Size(i) \in Nat
        BY <2>3, <2>4
      <3> QED
        BY <2>7, <3>1
    <2>9. \A j \in 1..ops[b].n : ops[b].vals[j] = ToRaw(values[ops[b].rest[j].io], ops[b].rest[j])
      BY <2>3, <2>4, <2>6
    <2> HIDE DEF Vals
    <2>10. ops[b] \in ModbusOps
      BY <2>0, <2>1, <2>5, <2>8, BatchTyped
    <2>11. ops[b].fc = WriteFunction(regs[i].kind, ops[b].n) /\ ~IsReadFunction(ops[b].fc)
      BY <2>3, <2>5 DEF IsReadFunction
    <2> QED
      BY <2>3, <2>9, <2>10, <2>11 DEF i
  <1>5. ops \in Seq(ModbusOps)
    <2>1. ops = [b \in 1..Len(starts) |-> ops[b]]
      BY <1>2, Zenon
    <2> QED
      BY <1>1, <1>4, <2>1
  <1> QED
    BY <1>1, <1>3, <1>4, <1>5 DEF starts, ops

(* Every register of a kind that can be read, or written, is in a request. *)
LEMMA ReadsCover ==
  ASSUME NEW regs, regs \in Seq(Registers), NEW k \in 1..Len(regs), regs[k].kind \in ReadKinds
  PROVE  \E b \in 1..Len(ReadBatched(regs)) : \E j \in 1..ReadBatched(regs)[b].n :
           ReadBatched(regs)[b].rest[j] = regs[k]
  <1> DEFINE ops == ReadBatched(regs)
             starts == InOrder(BatchStarts(regs, ReadKinds))
  <1>1. PICK i \in BatchStarts(regs, ReadKinds) : i <= k /\ k <= BatchEnd(regs, i)
    BY BatchCovers
  <1>2. PICK b \in 1..Len(starts) : starts[b] = i
    BY StartsAre
  <1>3. Len(ops) = Len(starts) /\ i \in 1..Len(regs) /\ IsBatch(ops[b], regs, i)
    BY <1>2, ReadBatchedIs
  <1>4. ops[b].n = BatchEnd(regs, i) - i + 1
    BY <1>3 DEF IsBatch
  <1>5. BatchEnd(regs, i) \in Nat /\ i \in Nat /\ k \in Nat
    BY <1>3, BatchEndIs
  <1>6. k - i + 1 \in 1..ops[b].n /\ i + (k - i + 1) - 1 = k
    BY <1>1, <1>4, <1>5
  <1>7. ops[b].rest[k - i + 1] = regs[k]
    <2> DEFINE op == ops[b]
    <2> HIDE DEF op
    <2>1. IsBatch(op, regs, i) /\ k - i + 1 \in 1..op.n
      BY <1>3, <1>6 DEF op
    <2>2. k - i + 1 \in 1..Len(op.rest)
      BY <1>3, <2>1, BatchIs
    <2>3. op.rest[k - i + 1] = regs[i + (k - i + 1) - 1]
      BY <1>3, <2>1, <2>2, BatchIs
    <2> QED
      BY <1>6, <2>3 DEF op
  <1> QED
    BY <1>3, <1>6, <1>7

LEMMA WritesCover ==
  ASSUME NEW regs, regs \in Seq(Registers), NEW k \in 1..Len(regs), regs[k].kind \in WrittenKinds,
         NEW values, \A i \in 1..Len(regs) : values[regs[i].io] \in Values
  PROVE  \E b \in 1..Len(WriteBatched(regs, values)) : \E j \in 1..WriteBatched(regs, values)[b].n :
           WriteBatched(regs, values)[b].rest[j] = regs[k]
  <1> DEFINE ops == WriteBatched(regs, values)
             starts == InOrder(BatchStarts(regs, WrittenKinds))
  <1>1. PICK i \in BatchStarts(regs, WrittenKinds) : i <= k /\ k <= BatchEnd(regs, i)
    BY BatchCovers
  <1>2. PICK b \in 1..Len(starts) : starts[b] = i
    BY StartsAre
  <1>3. Len(ops) = Len(starts) /\ i \in 1..Len(regs) /\ IsBatch(ops[b], regs, i)
    BY <1>2, WriteBatchedIs
  <1>4. ops[b].n = BatchEnd(regs, i) - i + 1
    BY <1>3 DEF IsBatch
  <1>5. BatchEnd(regs, i) \in Nat /\ i \in Nat /\ k \in Nat
    BY <1>3, BatchEndIs
  <1>6. k - i + 1 \in 1..ops[b].n /\ i + (k - i + 1) - 1 = k
    BY <1>1, <1>4, <1>5
  <1>7. ops[b].rest[k - i + 1] = regs[k]
    <2> DEFINE op == ops[b]
    <2> HIDE DEF op
    <2>1. IsBatch(op, regs, i) /\ k - i + 1 \in 1..op.n
      BY <1>3, <1>6 DEF op
    <2>2. k - i + 1 \in 1..Len(op.rest)
      BY <1>3, <2>1, BatchIs
    <2>3. op.rest[k - i + 1] = regs[i + (k - i + 1) - 1]
      BY <1>3, <2>1, <2>2, BatchIs
    <2> QED
      BY <1>6, <2>3 DEF op
  <1> QED
    BY <1>3, <1>6, <1>7

-----------------------------------------------------------------------------
(* Devices of a plant *)

Modbus(d) == Dev(d).proto \in {"rtu", "tcp"}
Cells(d) == {CellOf(d, n) : n \in Indices(d)}
Rows(d) == [Indices(d) -> Values]

\* The requests of a poll that found the outputs w.
Reads(d) == ToSet(ReadBatched(ExpandRegisters(Fields(d), Inputs)))
Writes(d, w) == ToSet(WriteBatched(ExpandRegisters(Fields(d), Outputs), w))
UppReads(d) == {UppRead(d, n) : n \in InputIndices(d)}
UppWrites(d, w) == {UppWrite(d, n, w[n]) : n \in {k \in OutputIndices(d) : w[k] # None}}
OpsOf(d, w) == IF Dev(d).proto = "upp" THEN UppReads(d) \cup UppWrites(d, w) ELSE Reads(d) \cup Writes(d, w)

ModbusFrames ==
  [from : Int, fc : Nat, addr : Word, exc : BOOLEAN, data : Seq(Word), bytes : Nat,
   crc : BOOLEAN, late : Nat, len : Int]
Echoes == STRING \cup {""}
UppFrames ==
  [from : Int, cmd : STRING, echo : Echoes, data : Seq(Int) \ {<<>>}, bytes : Nat, len : Int, late : Nat,
   no : BOOLEAN]
Frames == ModbusFrames \cup UppFrames

ThreadFields ==
  {"pc", "left", "polled", "dev", "ops", "snap", "news", "readErr", "writeErr", "try", "own",
   "denied", "any"}
Busy == {"send", "recv", "retry"}
Between == {"off", "wait", "idle", "sleep", "round"}

\* Values of the declared types, and values that may be missing.
Typed(d, vals) == vals \in Rows(d) /\ \A n \in Indices(d) : HasType(d, n, vals[n])
Pending(d, vals) ==
  /\ vals \in Rows(d)
  /\ \A n \in Indices(d) : HasType(d, n, vals[n]) \/ (Dev(d).proto = "upp" /\ vals[n] = None)
Content(d) == IF Dev(d).proto = "sim" THEN Int ELSE Word

\* Device d with block p, shared state i, last poll s and registers v.
BlockRow(d, p) == DOMAIN p = {"vals", "conn", "err"} /\ Typed(d, p.vals) /\ p.conn \in BOOLEAN
SharedRow(d, i) ==
  /\ DOMAIN i = {"read", "write", "conn", "err"} /\ Typed(d, i.read) /\ Pending(d, i.write)
  /\ i.conn \in BOOLEAN /\ (i.conn => i.err = 0)
SeenRow(d, s) == DOMAIN s = {"got", "own"} /\ s.got \subseteq InputIndices(d) /\ s.own \in BOOLEAN
DeviceRow(d, p, i, s, v) ==
  BlockRow(d, p) /\ SharedRow(d, i) /\ SeenRow(d, s) /\ v \in [Cells(d) -> Content(d)]
\* A thread with state th that polls device d.
Polls(t, th, registered) ==
  LET d == th.dev
  IN /\ d \in Devices /\ d \in registered /\ ThreadOf(d) = t
     /\ Pending(d, th.snap)
     /\ th.news \in Rows(d) /\ \A n \in Indices(d) : HasType(d, n, th.news[n]) \/ th.news[n] = None
     /\ th.ops \in Seq(OpsOf(d, th.snap))
\* Thread t with state th, answers a on the line and stream u.
ThreadRow(t, th, a, u, registered) ==
  /\ DOMAIN th = ThreadFields
  /\ th.pc \in Between \cup Busy \cup {"end", "dead"}
  /\ th.pc \in Between => th.dev = "none"
  /\ th.pc \notin Between => Polls(t, th, registered)
  /\ th.pc = "end" => th.ops = <<>>
  /\ th.pc \in Busy => th.ops # <<>>
  /\ th.own \in BOOLEAN /\ th.readErr \in Int /\ th.writeErr \in Int
  /\ a \in Seq(Frames) /\ u \in BOOLEAN
DeviceType(d) == DeviceRow(d, prog[d], io[d], seen[d], dev[d])
ThreadType(t) == ThreadRow(t, thr[t], air[t], up[t], reg)
Shape ==
  /\ DOMAIN prog = Devices /\ DOMAIN io = Devices /\ DOMAIN seen = Devices /\ DOMAIN dev = Devices
  /\ DOMAIN thr = Threads /\ DOMAIN air = Threads /\ DOMAIN up = Threads
  /\ DOMAIN scan = {"pc", "i"} /\ scan.i \in 1..Len(world.order)
  /\ scan.pc \in {"start", "exec", "queue", "copy", "dead"}
  /\ scan.pc \in {"queue", "copy"} => Dev(Current).proto # "sim"
  /\ reg \subseteq {d \in Devices : Dev(d).proto # "sim"}
  /\ link \in [open : BOOLEAN, conn : BOOLEAN, err : 0..3]
  /\ faults \in 0..world.maxFaults
TypeInv ==
  /\ world \in Worlds
  /\ Shape
  /\ \A d \in Devices : DeviceType(d)
  /\ \A t \in Threads : ThreadType(t)

LEMMA DeviceIs ==
  ASSUME world \in Worlds, NEW d \in Devices
  PROVE  /\ Dev(d).proto \in {"sim", "rtu", "tcp", "upp"} /\ Dev(d).slave \in Int
         /\ d # "bus" /\ d # "none"
         /\ Fielded(Fields(d)) /\ TotalValues(Fields(d)) \in Nat
         /\ \A n \in Indices(d) : ProfileField(Dev(d).proto, FieldOf(d, n))
         /\ Modbus(d) => Profiled(Fields(d))
         /\ InputIndices(d) = Selected(Fields(d), Inputs)
         /\ OutputIndices(d) = Selected(Fields(d), Outputs)
  <1>1. /\ Dev(d).proto \in {"sim", "rtu", "tcp", "upp"} /\ Dev(d).slave \in Int
        /\ d # "bus" /\ d # "none" /\ Len(Fields(d)) \in Nat
        /\ \A i \in 1..Len(Fields(d)) : ProfileField(Dev(d).proto, Fields(d)[i])
    BY WorldsAssumption DEF Plant, Devices, Dev, Fields
  <1>2. Fielded(Fields(d))
    BY <1>1 DEF Fielded, ProfileField
  <1>3. TotalValues(Fields(d)) \in Nat
    BY <1>2, TotalIs
  <1>4. \A n \in Indices(d) : ProfileField(Dev(d).proto, FieldOf(d, n))
    BY <1>1, <1>2, FieldAtIs DEF FieldOf, Indices
  <1>5. Modbus(d) => Profiled(Fields(d))
    BY <1>1, <1>2 DEF Modbus, Profiled, ProfileField
  <1>6. InputIndices(d) = Selected(Fields(d), Inputs) /\ OutputIndices(d) = Selected(Fields(d), Outputs)
    BY DEF InputIndices, OutputIndices, Selected, FieldOf, Indices, IsInput, IsOutput
  <1> QED
    BY <1>1, <1>2, <1>3, <1>4, <1>5, <1>6

LEMMA ThreadIs ==
  ASSUME world \in Worlds
  PROVE  /\ Bus \in Threads
         /\ \A d \in Devices : Dev(d).proto # "sim" => ThreadOf(d) \in Threads
         /\ \A t \in Threads : t # Bus => t \in Devices /\ Dev(t).proto = "tcp" /\ ThreadOf(t) = t
         /\ \A d \in Devices : (ThreadOf(d) = Bus) <=> Serial(d)
         /\ \A d, e \in Devices : ThreadOf(d) = ThreadOf(e) /\ ThreadOf(d) # Bus => d = e
  BY DeviceIs DEF Threads, ThreadOf, Bus, Serial

\* A list of registers of device d.
Listed(d, rest, indices) ==
  \A j \in 1..Len(rest) : /\ rest[j] \in Registers /\ rest[j].io \in indices
                          /\ rest[j] = Register(Fields(d), rest[j].io) /\ Address(rest[j]) \in Cells(d)

LEMMA ListIs ==
  ASSUME world \in Worlds, NEW d \in Devices, Modbus(d), NEW dirs
  PROVE  /\ ExpandRegisters(Fields(d), dirs) \in Seq(Registers)
         /\ Listed(d, ExpandRegisters(Fields(d), dirs), Selected(Fields(d), dirs))
  <1> DEFINE regs == ExpandRegisters(Fields(d), dirs)
  <1>1. /\ regs \in Seq(Registers) /\ Len(regs) \in Nat
        /\ \A k \in 1..Len(regs) : /\ regs[k].io \in Selected(Fields(d), dirs)
                                   /\ regs[k] = Register(Fields(d), regs[k].io)
    BY DeviceIs, ExpandIs
  <1> HIDE DEF regs
  <1>2. ASSUME NEW k \in 1..Len(regs) PROVE Address(regs[k]) \in Cells(d)
    <2>1. regs[k].io \in Indices(d)
      BY <1>1 DEF Selected, Indices
    <2>2. CellOf(d, regs[k].io) = Address(regs[k])
      BY <1>1 DEF CellOf, Modbus
    <2> QED
      BY <2>1, <2>2 DEF Cells
  <1>3. Listed(d, regs, Selected(Fields(d), dirs))
    BY <1>1, <1>2 DEF Listed
  <1> QED
    BY <1>1, <1>3 DEF regs

LEMMA ReadOpIs ==
  ASSUME world \in Worlds, NEW d \in Devices, Modbus(d), NEW op \in Reads(d)
  PROVE  /\ op \in ModbusOps /\ IsReadFunction(op.fc) /\ op.n >= 1 /\ op.n <= Len(op.rest)
         /\ Listed(d, op.rest, InputIndices(d))
         /\ \A j \in 1..op.n : /\ ReadFunction(op.rest[j].kind) = op.fc
                               /\ op.rest[j].kind \in ReadKinds
                               /\ op.rest[j].addr = (op.addr + j - 1) % WordSize
  <1> DEFINE regs == ExpandRegisters(Fields(d), Inputs)
             ops == ReadBatched(regs)
             starts == InOrder(BatchStarts(regs, ReadKinds))
  <1>1. regs \in Seq(Registers) /\ Listed(d, regs, InputIndices(d))
    BY DeviceIs, ListIs
  <1> HIDE DEF regs
  <1>2. /\ Len(ops) \in Nat /\ ops \in Seq(ModbusOps)
        /\ \A b \in 1..Len(ops) :
             /\ starts[b] \in 1..Len(regs) /\ regs[starts[b]].kind \in ReadKinds
             /\ IsBatch(ops[b], regs, starts[b])
             /\ ops[b].fc = ReadFunction(regs[starts[b]].kind) /\ IsReadFunction(ops[b].fc)
    BY <1>1, ReadBatchedIs
  <1> HIDE DEF ops, starts
  <1>3. PICK b \in 1..Len(ops) : op = ops[b]
    BY <1>2 DEF Reads, ToSet, ops, regs
  <1> DEFINE i == starts[b]
  <1>4. /\ i \in 1..Len(regs) /\ IsBatch(op, regs, i) /\ op \in ModbusOps
        /\ op.fc = ReadFunction(regs[i].kind) /\ IsReadFunction(op.fc) /\ regs[i].kind \in ReadKinds
    BY <1>2, <1>3
  <1> HIDE DEF i
  <1>5. /\ op.n >= 1 /\ op.n <= Len(op.rest)
        /\ \A j \in 1..Len(op.rest) : op.rest[j] = regs[i + j - 1] /\ i + j - 1 \in 1..Len(regs)
        /\ \A j \in 1..op.n : op.rest[j].kind = regs[i].kind /\ op.rest[j].addr = (op.addr + j - 1) % WordSize
    BY <1>1, <1>4, BatchIs
  <1>6. Listed(d, op.rest, InputIndices(d))
    BY <1>1, <1>5 DEF Listed
  <1> QED
    BY <1>4, <1>5, <1>6

LEMMA WriteOpIs ==
  ASSUME world \in Worlds, NEW d \in Devices, Modbus(d), NEW w \in Rows(d), NEW op \in Writes(d, w)
  PROVE  /\ op \in ModbusOps /\ ~IsReadFunction(op.fc) /\ op.n >= 1 /\ op.n <= Len(op.rest)
         /\ Listed(d, op.rest, OutputIndices(d))
         /\ \A j \in 1..op.n : /\ op.rest[j] \in ToSet(ExpandRegisters(Fields(d), Outputs))
                               /\ op.vals[j] = ToRaw(w[op.rest[j].io], op.rest[j])
                               /\ op.vals[j] \in Word
  <1> DEFINE regs == ExpandRegisters(Fields(d), Outputs)
             ops == WriteBatched(regs, w)
             starts == InOrder(BatchStarts(regs, WrittenKinds))
  <1>1. regs \in Seq(Registers) /\ Listed(d, regs, OutputIndices(d))
    BY DeviceIs, ListIs
  <1>w. \A k \in 1..Len(regs) : w[regs[k].io] \in Values
    BY <1>1 DEF Listed, OutputIndices, Rows
  <1> HIDE DEF regs
  <1>2. /\ Len(ops) \in Nat /\ ops \in Seq(ModbusOps)
        /\ \A b \in 1..Len(ops) :
             /\ starts[b] \in 1..Len(regs)
             /\ IsBatch(ops[b], regs, starts[b]) /\ ~IsReadFunction(ops[b].fc)
             /\ \A j \in 1..ops[b].n : ops[b].vals[j] = ToRaw(w[ops[b].rest[j].io], ops[b].rest[j])
    BY <1>1, <1>w, WriteBatchedIs
  <1> HIDE DEF ops, starts
  <1>3. PICK b \in 1..Len(ops) : op = ops[b]
    BY <1>2 DEF Writes, ToSet, ops, regs
  <1> DEFINE i == starts[b]
  <1>4. /\ i \in 1..Len(regs) /\ IsBatch(op, regs, i) /\ op \in ModbusOps /\ ~IsReadFunction(op.fc)
        /\ \A j \in 1..op.n : op.vals[j] = ToRaw(w[op.rest[j].io], op.rest[j])
    BY <1>2, <1>3
  <1> HIDE DEF i
  <1>5. /\ op.n >= 1 /\ op.n <= Len(op.rest) /\ op.n \in Nat /\ Len(op.rest) \in Nat
        /\ \A j \in 1..Len(op.rest) : op.rest[j] = regs[i + j - 1] /\ i + j - 1 \in 1..Len(regs)
    <2>1. regs \in Seq(Registers)
      BY <1>1
    <2>2. i \in 1..Len(regs) /\ IsBatch(op, regs, i)
      BY <1>4
    <2> QED
      BY <2>1, <2>2, BatchIs
  <1>6. Listed(d, op.rest, OutputIndices(d))
    BY <1>1, <1>5 DEF Listed
  <1>7. ASSUME NEW j \in 1..op.n PROVE op.rest[j] \in ToSet(regs) /\ op.vals[j] \in Word
    <2>1. j \in 1..Len(op.rest)
      BY <1>5
    <2>2. op.rest[j] = regs[i + j - 1] /\ i + j - 1 \in 1..Len(regs)
      BY <1>5, <2>1
    <2>3. op.rest[j] \in ToSet(regs)
      BY <1>1, <2>2 DEF ToSet
    <2>4. op.rest[j] \in Registers /\ w[op.rest[j].io] \in Values
      BY <1>1, <1>w, <2>2
    <2> QED
      BY <1>4, <2>3, <2>4, ToRawIs
  <1> QED
    BY <1>4, <1>5, <1>6, <1>7 DEF regs

-----------------------------------------------------------------------------
(* The plant does not change *)

LEMMA WorldKept ==
  ASSUME world' = world
  PROVE  /\ Devices' = Devices /\ Threads' = Threads
         /\ \A d : Dev(d)' = Dev(d) /\ Fields(d)' = Fields(d) /\ Serial(d)' = Serial(d)
         /\ \A d : ThreadOf(d)' = ThreadOf(d) /\ Indices(d)' = Indices(d)
         /\ \A d, n : FieldOf(d, n)' = FieldOf(d, n)
         /\ \A d : InputIndices(d)' = InputIndices(d) /\ OutputIndices(d)' = OutputIndices(d)
  BY DEF Devices, Threads, Dev, Fields, Serial, ThreadOf, Indices, FieldOf, InputIndices, OutputIndices

LEMMA RowsKept ==
  ASSUME world' = world
  PROVE  /\ \A d : Modbus(d)' = Modbus(d) /\ Cells(d)' = Cells(d) /\ Rows(d)' = Rows(d) /\ Reads(d)' = Reads(d)
         /\ \A d, w : Writes(d, w)' = Writes(d, w) /\ OpsOf(d, w)' = OpsOf(d, w)
         /\ \A d, vals : Typed(d, vals)' <=> Typed(d, vals)
         /\ \A d, vals : Pending(d, vals)' <=> Pending(d, vals)
         /\ \A d, p, i, s, v : DeviceRow(d, p, i, s, v)' <=> DeviceRow(d, p, i, s, v)
         /\ \A t, th, a, u, R : ThreadRow(t, th, a, u, R)' <=> ThreadRow(t, th, a, u, R)
  <1>1. \A d : Modbus(d)' = Modbus(d) /\ Rows(d)' = Rows(d) /\ Content(d)' = Content(d)
    BY WorldKept DEF Modbus, Rows, Content
  <1>2. \A d, n : CellOf(d, n)' = CellOf(d, n)
    BY WorldKept DEF CellOf
  <1>3. \A d : Cells(d)' = Cells(d)
    BY <1>2, WorldKept DEF Cells
  <1>4. \A d : Reads(d)' = Reads(d)
    BY WorldKept DEF Reads
  <1>5. \A d, w : Writes(d, w)' = Writes(d, w)
    BY WorldKept DEF Writes
  <1>6. \A d, w : OpsOf(d, w)' = OpsOf(d, w)
    <2>1. \A d : UppReads(d)' = UppReads(d)
      BY WorldKept DEF UppReads, UppRead
    <2>2. \A d, w : UppWrites(d, w)' = UppWrites(d, w)
      BY WorldKept DEF UppWrites, UppWrite
    <2> QED
      BY <1>4, <1>5, <2>1, <2>2, WorldKept DEF OpsOf
  <1>7. \A d, n, x : HasType(d, n, x)' <=> HasType(d, n, x)
    BY WorldKept DEF HasType
  <1>8. \A d, vals : Typed(d, vals)' <=> Typed(d, vals)
    BY <1>1, <1>7, WorldKept DEF Typed
  <1>9. \A d, vals : Pending(d, vals)' <=> Pending(d, vals)
    BY <1>1, <1>7, WorldKept DEF Pending
  <1>10. \A d, p, i, s, v : DeviceRow(d, p, i, s, v)' <=> DeviceRow(d, p, i, s, v)
    BY <1>1, <1>3, <1>8, <1>9, WorldKept DEF DeviceRow, BlockRow, SharedRow, SeenRow
  <1>11. \A t, th, R : Polls(t, th, R)' <=> Polls(t, th, R)
    BY <1>1, <1>6, <1>7, <1>9, WorldKept DEF Polls
  <1>12. \A t, th, a, u, R : ThreadRow(t, th, a, u, R)' <=> ThreadRow(t, th, a, u, R)
    BY <1>11 DEF ThreadRow
  <1> QED
    BY <1>1, <1>3, <1>4, <1>5, <1>6, <1>8, <1>9, <1>10, <1>12

LEMMA TypeKept ==
  ASSUME TypeInv, world' = world, Shape',
         \A d \in Devices : DeviceRow(d, prog'[d], io'[d], seen'[d], dev'[d]),
         \A t \in Threads : ThreadRow(t, thr'[t], air'[t], up'[t], reg')
  PROVE  TypeInv'
  BY WorldKept, RowsKept DEF TypeInv, DeviceType, ThreadType

-----------------------------------------------------------------------------
(* Conversions keep the declared types *)

LEMMA TagsAre ==
  /\ "None" \in Tags /\ "Bool" \in Tags /\ "Int" \in Tags /\ "UInt" \in Tags /\ "Real" \in Tags
  /\ "String" \in Tags /\ "Time" \in Tags /\ "Param" \in Tags /\ "Temperature" \in Tags
  /\ "InternalTemp" \in Tags /\ "Per1000" \in Tags /\ "Enum" \in Tags /\ "HexPair" \in Tags
  /\ "Ack" \in Tags /\ "Text" \in Tags
  BY DEF Tags

LEMMA ValueIs ==
  /\ None \in Values /\ None = Value("None", 0)
  /\ \A t \in Tags, v \in Int : Value(t, v) \in Values /\ Value(t, v).t = t /\ Value(t, v).v = v
  BY TagsAre DEF None, Value, Values

LEMMA VarTypeIs ==
  ASSUME NEW type
  PROVE  VarType(type) \in Tags
  BY TagsAre DEF VarType

LEMMA MaxWithZero ==
  ASSUME NEW x \in Int
  PROVE  Max({0, x}) \in Int
  <1>1. \E m \in {0, x} : \A y \in {0, x} : m >= y
    <2>1. CASE x >= 0
      BY <2>1
    <2>2. CASE ~(x >= 0)
      BY <2>2
    <2> QED
      BY <2>1, <2>2
  <1> QED
    BY <1>1 DEF Max

(* What a register or bit becomes depends on its declaration alone.        *)
LEMMA FromRawIs ==
  ASSUME NEW raw \in Int, NEW r \in Registers
  PROVE  FromRaw(raw, r) \in Values /\ FromRaw(raw, r).t = FromRaw(0, r).t
  <1>1. ASSUME NEW x \in Int
        PROVE  /\ RegisterToValue(x, r) \in Values
               /\ r.type = "BOOL" => RegisterToValue(x, r).t = "Bool"
               /\ r.type \in RealTypes => RegisterToValue(x, r).t = "Real"
               /\ r.type \in UnsignedTypes => RegisterToValue(x, r).t = "UInt"
               /\ r.type \notin {"BOOL"} \cup RealTypes \cup UnsignedTypes => RegisterToValue(x, r).t = "Int"
    <2> DEFINE scaled == (IF r.scale = 0 THEN x * 10000 ELSE x * r.scale) + r.offset
               low == Truncate(scaled, 10000)
               top == Max({0, low})
               bit == IF x # 0 THEN 1 ELSE 0
    <2>1. scaled \in Int
      BY DEF Registers
    <2>2. 10000 \in Int /\ 10000 # 0
      OBVIOUS
    <2>3. low \in Int
      BY <2>1, <2>2, TruncateIs
    <2>4. top \in Int /\ bit \in Int
      BY <2>3, MaxWithZero
    <2>5. RegisterToValue(x, r) =
            CASE r.type = "BOOL" -> Value("Bool", bit)
              [] r.type \in RealTypes -> Value("Real", scaled)
              [] r.type \in UnsignedTypes -> Value("UInt", top)
              [] OTHER -> Value("Int", low)
      BY DEF RegisterToValue
    <2> HIDE DEF scaled, low, top, bit
    <2>6. "BOOL" \notin RealTypes \cup UnsignedTypes /\ RealTypes \cap UnsignedTypes = {}
      BY DEF RealTypes, UnsignedTypes
    <2>7. \/ r.type = "BOOL" /\ RegisterToValue(x, r) = Value("Bool", bit)
          \/ r.type \in RealTypes /\ RegisterToValue(x, r) = Value("Real", scaled)
          \/ r.type \in UnsignedTypes /\ RegisterToValue(x, r) = Value("UInt", top)
          \/ r.type \notin {"BOOL"} \cup RealTypes \cup UnsignedTypes /\ RegisterToValue(x, r) = Value("Int", low)
      BY <2>5, <2>6
    <2> QED
      BY <2>1, <2>3, <2>4, <2>6, <2>7, ValueIs, TagsAre
  <1>2. 0 \in Int
    OBVIOUS
  <1>3. CASE IsBit(r)
    BY <1>3, ValueIs, TagsAre DEF FromRaw
  <1>4. CASE ~IsBit(r)
    BY <1>1, <1>2, <1>4 DEF FromRaw
  <1> QED
    BY <1>3, <1>4

LEMMA DecodeIs ==
  ASSUME NEW dec, NEW digits, NEW raw \in Int
  PROVE  Decode(dec, digits, raw) \in Values
  <1>1. DecodedVariant(dec) \in Tags
    BY TagsAre DEF DecodedVariant
  <1>2. raw * 1000 \in Int /\ raw * 10000 \in Int
    OBVIOUS
  <1>3. \/ Decode(dec, digits, raw) = None
        \/ Decode(dec, digits, raw) = Value("Temperature", raw * 1000)
        \/ Decode(dec, digits, raw) = Value("InternalTemp", raw * 10000)
        \/ Decode(dec, digits, raw) = Value(DecodedVariant(dec), raw)
    BY DEF Decode
  <1> QED
    BY <1>1, <1>2, <1>3, ValueIs, TagsAre

(* A decoded value is refused or has the type of the field.                *)
LEMMA DecodedIs ==
  ASSUME NEW x \in Values, NEW type
  PROVE  LET v == DecodedToValue(x, type)
         IN v \in Values /\ (v = None \/ v.t = VarType(type))
  <1>1. x.v \in Int /\ x.v * 10000 \in Int /\ x.v * 10 \in Int /\ x.v \div 10000 \in Int
    BY DEF Values
  <1>2. {"USINT", "UINT", "UDINT", "ULINT"} \subseteq UnsignedTypes
    BY DEF UnsignedTypes
  <1>3. \/ DecodedToValue(x, type) = None
        \/ type \in RealTypes /\ DecodedToValue(x, type) = Value("Real", x.v)
        \/ type \in SignedTypes /\ DecodedToValue(x, type) = Value("Int", x.v \div 10000)
        \/ type \in UnsignedTypes /\ DecodedToValue(x, type) = Value("UInt", x.v)
        \/ type \in SignedTypes /\ DecodedToValue(x, type) = Value("Int", x.v)
        \/ type \in RealTypes /\ DecodedToValue(x, type) = Value("Real", x.v * 10000)
        \/ type \in RealTypes /\ DecodedToValue(x, type) = Value("Real", x.v * 10)
        \/ type = "BOOL" /\ DecodedToValue(x, type) = Value("Bool", x.v)
        \/ type = "STRING" /\ DecodedToValue(x, type) = Value("String", x.v)
    BY <1>2 DEF DecodedToValue
  <1>4. /\ type \in RealTypes => VarType(type) = "Real"
        /\ type \in SignedTypes => VarType(type) = "Int"
        /\ type \in UnsignedTypes => VarType(type) = "UInt"
        /\ type = "BOOL" => VarType(type) = "Bool"
        /\ type = "STRING" => VarType(type) = "String"
    BY DEF VarType, RealTypes, SignedTypes, UnsignedTypes
  <1> QED
    BY <1>1, <1>3, <1>4, ValueIs, TagsAre

LEMMA BuildIs ==
  ASSUME NEW kind, NEW value \in Values
  PROVE  BuildWriteCommand(kind, value) \in Values
  <1>1. value.v \in Int /\ value.v * 1000 \in Int /\ (value.v + 5) \div 10 \in Int
    BY DEF Values
  <1>2. RealToMilli(value) \in {None, Value("Param", (value.v + 5) \div 10), Value("Param", value.v * 1000)}
    BY DEF RealToMilli
  <1>3. /\ IntAsU8(value) \in {None, Value("Param", value.v)}
        /\ BoolAsU8(value) \in {None, Value("Param", value.v)}
    BY DEF IntAsU8, BoolAsU8
  <1>4. BuildWriteCommand(kind, value) \in
          {RealToMilli(value), BoolAsU8(value), None, Value("Param", 0), IntAsU8(value)}
    BY DEF BuildWriteCommand
  <1> QED
    BY <1>1, <1>2, <1>3, <1>4, ValueIs, TagsAre

LEMMA ParameterIs ==
  ASSUME NEW kind, NEW x \in ParameterRange(kind)
  PROVE  x \in Word
  <1>1. \A a \in Nat, b \in Nat : b <= 2000 => \A y \in a..b : y \in Word
    <2>1. WordSize \in Nat /\ 2000 < WordSize
      BY DEF WordSize
    <2> QED
      BY <2>1, WordIs
  <1>2. ParameterRange(kind) =
          CASE kind \in {"em", "et"} -> 50..1000 [] kind = "ev" -> 800..1200
            [] kind \in {"dw", "ga"} -> 0..99 [] kind = "aw" -> 2..50 [] kind = "ez" -> 0..6
            [] kind = "lz" -> 0..9 [] kind \in {"fh", "la", "as"} -> 0..1 [] kind = "ka" -> 0..3
            [] kind = "br" -> (0..8) \ {7} [] OTHER -> {0}
    BY DEF ParameterRange
  <1>3. 0 \in Word
    BY WordIs DEF WordSize
  <1> QED
    BY <1>1, <1>2, <1>3

-----------------------------------------------------------------------------
(* Requests, what they do and what is answered *)

LEMMA UppOpIs ==
  ASSUME world \in Worlds, NEW d \in Devices, Dev(d).proto = "upp", NEW w \in Rows(d), NEW op \in OpsOf(d, w)
  PROVE  /\ op.cmd \in STRING /\ op.cmd \in Cells(d) /\ op.write \in BOOLEAN /\ op.sendable \in BOOLEAN
         /\ op.io \in Indices(d) /\ op.cmd = FieldOf(d, op.io).cmd /\ op.decoder = FieldOf(d, op.io).decoder
         /\ ~op.write => op.io \in InputIndices(d)
         /\ op.vals \in Seq(Int)
         /\ op.write /\ op.sendable => Len(op.vals) = 1 /\ op.vals[1] \in Word
  <1>1. \A n \in Indices(d) : FieldOf(d, n).cmd \in STRING /\ FieldOf(d, n).cmd \in Cells(d)
    <2> SUFFICES ASSUME NEW n \in Indices(d) PROVE FieldOf(d, n).cmd \in STRING /\ FieldOf(d, n).cmd \in Cells(d)
      OBVIOUS
    <2>1. ProfileField(Dev(d).proto, FieldOf(d, n))
      BY DeviceIs
    <2>2. FieldOf(d, n).cmd = CellOf(d, n)
      BY DEF CellOf
    <2> QED
      BY <2>1, <2>2 DEF ProfileField, Cells
  <1>2. op \in UppReads(d) \/ op \in UppWrites(d, w)
    BY DEF OpsOf
  <1>3. ASSUME op \in UppReads(d) PROVE
          /\ \E n \in InputIndices(d) : op.io = n /\ op.cmd = FieldOf(d, n).cmd /\ op.decoder = FieldOf(d, n).decoder
          /\ op.write = FALSE /\ op.sendable = TRUE /\ op.vals = <<>>
    BY <1>3 DEF UppReads, UppRead
  <1>4. ASSUME op \in UppWrites(d, w) PROVE
          \E n \in OutputIndices(d) :
            /\ op.io = n /\ op.cmd = FieldOf(d, n).cmd /\ op.decoder = FieldOf(d, n).decoder
            /\ op.write = TRUE /\ op.sendable = EncodeRequest(FieldOf(d, n).cmd, w[n])
            /\ op.vals = <<BuildWriteCommand(FieldOf(d, n).cmd, w[n]).v>>
    BY <1>4 DEF UppWrites, UppWrite
  <1>5. InputIndices(d) \subseteq Indices(d) /\ OutputIndices(d) \subseteq Indices(d)
    BY DEF InputIndices, OutputIndices
  <1>6. CASE op \in UppReads(d)
    <2>1. /\ \E n \in InputIndices(d) : op.io = n /\ op.cmd = FieldOf(d, n).cmd /\ op.decoder = FieldOf(d, n).decoder
          /\ op.write = FALSE /\ op.sendable = TRUE /\ op.vals = <<>>
      BY <1>3, <1>6
    <2>2. op.write \in BOOLEAN /\ op.sendable \in BOOLEAN /\ ~op.write
      BY <2>1, Zenon
    <2>3. op.vals \in Seq(Int)
      BY <2>1
    <2>4. /\ op.cmd \in STRING /\ op.cmd \in Cells(d) /\ op.io \in InputIndices(d) /\ op.io \in Indices(d)
          /\ op.cmd = FieldOf(d, op.io).cmd /\ op.decoder = FieldOf(d, op.io).decoder
      BY <1>1, <1>5, <2>1
    <2> QED
      BY <2>2, <2>3, <2>4
  <1>7. CASE op \in UppWrites(d, w)
    <2>1. PICK n \in OutputIndices(d) :
            /\ op.io = n /\ op.cmd = FieldOf(d, n).cmd /\ op.decoder = FieldOf(d, n).decoder
            /\ op.write = TRUE /\ op.sendable = EncodeRequest(FieldOf(d, n).cmd, w[n])
            /\ op.vals = <<BuildWriteCommand(FieldOf(d, n).cmd, w[n]).v>>
      BY <1>4, <1>7
    <2> DEFINE param == BuildWriteCommand(FieldOf(d, n).cmd, w[n])
    <2>2. w[n] \in Values
      BY <1>5 DEF Rows
    <2>3. param \in Values
      BY <2>2, BuildIs
    <2>4. param.v \in Int
      BY <2>3 DEF Values
    <2>5. op.sendable \in BOOLEAN /\ (op.sendable => param.v \in ParameterRange(FieldOf(d, n).cmd))
      BY <2>1 DEF EncodeRequest
    <2>6. op.sendable => param.v \in Word
      BY <2>5, ParameterIs
    <2> HIDE DEF param
    <2>7. op.vals = <<param.v>>
      BY <2>1 DEF param
    <2>8. op.vals \in Seq(Int) /\ Len(op.vals) = 1 /\ op.vals[1] = param.v
      BY <2>4, <2>7
    <2> QED
      BY <1>1, <1>5, <2>1, <2>5, <2>6, <2>8
  <1> QED
    BY <1>2, <1>6, <1>7

LEMMA ModbusOpIs ==
  ASSUME world \in Worlds, NEW d \in Devices, Modbus(d), NEW w \in Rows(d), NEW op \in OpsOf(d, w)
  PROVE  /\ op \in ModbusOps /\ op.n >= 1 /\ op.n <= Len(op.rest)
         /\ Listed(d, op.rest, Indices(d))
         /\ IsReadFunction(op.fc) => op \in Reads(d)
         /\ ~IsReadFunction(op.fc) => op \in Writes(d, w)
         /\ IsWrite(d, op) <=> ~IsReadFunction(op.fc)
  <1>1. op \in Reads(d) \/ op \in Writes(d, w)
    BY DEF OpsOf, Modbus
  <1>2. InputIndices(d) \subseteq Indices(d) /\ OutputIndices(d) \subseteq Indices(d)
    BY DEF InputIndices, OutputIndices
  <1>3. CASE op \in Reads(d)
    BY <1>2, <1>3, ReadOpIs DEF Modbus, IsWrite, Listed
  <1>4. CASE op \in Writes(d, w)
    BY <1>2, <1>4, WriteOpIs DEF Modbus, IsWrite, Listed
  <1> QED
    BY <1>1, <1>3, <1>4

LEMMA ExecutedIs ==
  ASSUME world \in Worlds, NEW d \in Devices, Dev(d).proto # "sim", NEW w \in Rows(d), NEW op \in OpsOf(d, w),
         op.sendable, dev[d] \in [Cells(d) -> Content(d)]
  PROVE  Executed(d, op) \in [Cells(d) -> Content(d)]
  <1>1. Content(d) = Word /\ (Dev(d).proto = "upp" \/ Modbus(d))
    BY DeviceIs DEF Content, Modbus
  <1>2. CASE ~IsWrite(d, op)
    BY <1>2 DEF Executed
  <1>3. CASE IsWrite(d, op) /\ Dev(d).proto = "upp"
    <2>1. op.cmd \in Cells(d) /\ op.vals[1] \in Word
      BY <1>3, UppOpIs DEF IsWrite
    <2> QED
      BY <1>1, <1>3, <2>1 DEF Executed
  <1>4. CASE IsWrite(d, op) /\ Modbus(d)
    <2>1. op \in Writes(d, w)
      BY <1>4, ModbusOpIs
    <2>2. op.n \in Nat /\ \A j \in 1..op.n : op.vals[j] \in Word
      BY <1>4, <2>1, WriteOpIs DEF ModbusOps
    <2>3. ASSUME NEW c \in Cells(d)
          PROVE  (IF \E j \in 1..op.n : c = Address(op.rest[j])
                  THEN op.vals[CHOOSE j \in 1..op.n : c = Address(op.rest[j])] ELSE dev[d][c]) \in Word
      BY <1>1, <2>2
    <2>4. Executed(d, op) = [c \in Cells(d) |->
            IF \E j \in 1..op.n : c = Address(op.rest[j])
            THEN op.vals[CHOOSE j \in 1..op.n : c = Address(op.rest[j])] ELSE dev[d][c]]
      BY <1>4 DEF Executed, Modbus
    <2> QED
      BY <1>1, <2>3, <2>4
  <1> QED
    BY <1>1, <1>2, <1>3, <1>4

LEMMA ModbusAnswerIs ==
  ASSUME world \in Worlds, NEW d \in Devices, Modbus(d), NEW w \in Rows(d), NEW op \in OpsOf(d, w),
         dev[d] \in [Cells(d) -> Content(d)], NEW refused \in BOOLEAN
  PROVE  LET f == Answer(d, op, refused)
         IN /\ f \in ModbusFrames /\ f.late = 0 /\ f.exc = refused /\ f.fc = op.fc /\ f.addr = op.addr
            /\ f.from = Dev(d).slave
            /\ f.data = IF IsReadFunction(op.fc) /\ ~refused
                        THEN [j \in 1..op.n |-> dev[d][Address(op.rest[j])]] ELSE <<>>
            /\ f.bytes = IF f.data = <<>> THEN 0 ELSE ByteCount(op.fc, op.n)
  <1> DEFINE f == Answer(d, op, refused)
             s == Dev(d).slave
             data == IF IsReadFunction(op.fc) /\ ~refused
                     THEN [j \in 1..op.n |-> dev[d][Address(op.rest[j])]] ELSE <<>>
             bytes == IF data = <<>> THEN 0 ELSE ByteCount(op.fc, op.n)
             size == IF refused THEN 5 ELSE IF IsReadFunction(op.fc) THEN 5 + bytes ELSE 8
  <1>1. op \in ModbusOps /\ op.n <= Len(op.rest) /\ Listed(d, op.rest, Indices(d))
    BY ModbusOpIs
  <1>2. op.n \in Nat /\ op.fc \in Nat /\ op.addr \in Word /\ op.rest \in Seq(Registers)
    BY <1>1 DEF ModbusOps
  <1>3. Content(d) = Word
    BY DEF Content, Modbus
  <1>4. data \in Seq(Word)
    <2>1. \A j \in 1..op.n : j \in 1..Len(op.rest)
      BY <1>1, <1>2
    <2>2. \A j \in 1..op.n : dev[d][Address(op.rest[j])] \in Word
      BY <1>1, <1>3, <2>1 DEF Listed
    <2> DEFINE row == [j \in 1..op.n |-> dev[d][Address(op.rest[j])]]
    <2>3. \A j \in 1..op.n : row[j] \in Word
      BY <2>2
    <2>4. row = [j \in 1..op.n |-> row[j]]
      BY Zenon
    <2> HIDE DEF row
    <2>5. row \in [1..op.n -> Word] /\ op.n \in Nat
      BY <1>2, <2>3, <2>4
    <2>6. row \in Seq(Word)
      BY <2>5
    <2> QED
      BY <2>6 DEF row
  <1>5. bytes \in Nat
    <2>1. ByteCount(op.fc, op.n) \in Nat
      BY <1>2 DEF ByteCount
    <2> HIDE DEF data
    <2> QED
      BY <2>1
  <1>6. size \in Int
    <2> HIDE DEF bytes
    <2> QED
      BY <1>5
  <1>7. s \in Int
    BY DeviceIs
  <1>8. f = [from |-> s, fc |-> op.fc, addr |-> op.addr, exc |-> refused, data |-> data,
             bytes |-> bytes, crc |-> TRUE, late |-> 0, len |-> size]
    BY DEF Answer, ModbusAnswer, Modbus
  <1> HIDE DEF f, data, bytes, size, s
  <1>9. f \in ModbusFrames /\ f.late = 0 /\ f.exc = refused /\ f.fc = op.fc /\ f.addr = op.addr
        /\ f.from = s /\ f.data = data /\ f.bytes = bytes
    BY <1>2, <1>4, <1>5, <1>6, <1>7, <1>8 DEF ModbusFrames
  <1>10. f.bytes = IF f.data = <<>> THEN 0 ELSE ByteCount(op.fc, op.n)
    BY <1>9 DEF bytes
  <1> QED
    BY <1>9, <1>10 DEF f, data, s

LEMMA UppAnswerIs ==
  ASSUME world \in Worlds, NEW d \in Devices, Dev(d).proto = "upp", NEW w \in Rows(d), NEW op \in OpsOf(d, w),
         dev[d] \in [Cells(d) -> Content(d)], op.sendable, NEW refused \in BOOLEAN
  PROVE  LET f == Answer(d, op, refused)
         IN /\ f \in UppFrames /\ f.late = 0 /\ f.cmd = op.cmd
            /\ f.from = OwnAddress(d)
            /\ f.echo = IF op.write /\ EchoesCommand(op) /\ ~refused THEN op.cmd ELSE ""
            /\ f.data = IF refused THEN <<0>> ELSE IF op.write THEN op.vals ELSE <<dev[d][op.cmd]>>
            /\ f.bytes = IF refused THEN 2
                         ELSE IF op.write THEN 2 + ParameterDigits(op.cmd) ELSE AnswerDigits(op.cmd)
            /\ f.len = f.bytes + 3 /\ f.no = refused
  <1> DEFINE f == Answer(d, op, refused)
             s == OwnAddress(d)
             c == op.cmd
             echo == IF op.write /\ EchoesCommand(op) /\ ~refused THEN op.cmd ELSE ""
             data == IF refused THEN <<0>> ELSE IF op.write THEN op.vals ELSE <<dev[d][op.cmd]>>
             digits == IF refused THEN 2
                       ELSE IF op.write THEN 2 + ParameterDigits(op.cmd) ELSE AnswerDigits(op.cmd)
  <1>1. /\ op.cmd \in STRING /\ op.cmd \in Cells(d) /\ op.vals \in Seq(Int) /\ Content(d) = Word
        /\ op.write => Len(op.vals) = 1
    BY UppOpIs DEF Content
  <1>2. Word \subseteq Int
    BY WordIs
  <1>3. data \in Seq(Int) \ {<<>>}
    <2>1. dev[d][op.cmd] \in Int
      BY <1>1, <1>2
    <2>2. <<dev[d][op.cmd]>> \in Seq(Int) \ {<<>>}
      BY <2>1
    <2>3. ASSUME op.write PROVE op.vals \in Seq(Int) \ {<<>>}
      <3>1. op.vals \in Seq(Int) /\ Len(op.vals) = 1
        BY <1>1, <2>3, Zenon
      <3>2. Len(<<>>) # 1
        OBVIOUS
      <3>3. op.vals # <<>>
        BY <3>1, <3>2, Zenon
      <3> QED
        BY <3>1, <3>3
    <2>4. <<0>> \in Seq(Int) \ {<<>>}
      OBVIOUS
    <2> QED
      BY <2>2, <2>3, <2>4, Zenon
  <1>4. digits \in Nat
    <2>1. ParameterDigits(op.cmd) \in Nat
      BY DEF ParameterDigits
    <2>2. AnswerDigits(op.cmd) \in Nat
      BY DEF AnswerDigits
    <2> QED
      BY <2>1, <2>2
  <1>5. s \in Int
    BY DeviceIs DEF OwnAddress
  <1>6. echo \in Echoes /\ c \in STRING
    BY <1>1 DEF Echoes
  <1> DEFINE size == digits + 3
  <1>7. f = [from |-> s, cmd |-> c, echo |-> echo, data |-> data, bytes |-> digits, len |-> size, late |-> 0,
             no |-> refused]
    BY DEF Answer, UppAnswer
  <1>8. size \in Int
    BY <1>4
  <1> HIDE DEF f, data, digits, echo, s, c, size
  <1>9. /\ f.late = 0 /\ f.from = s /\ f.cmd = c /\ f.echo = echo
        /\ f.data = data /\ f.bytes = digits /\ f.len = size /\ f.no = refused
    BY <1>7
  <1>10. f \in UppFrames
    BY <1>3, <1>4, <1>5, <1>6, <1>7, <1>8 DEF UppFrames
  <1> QED
    BY <1>9, <1>10 DEF f, data, digits, echo, s, c, size

-----------------------------------------------------------------------------
(* Answers on the line *)

LEMMA RemovedIs ==
  ASSUME NEW S, NEW s \in Seq(S), NEW k \in 1..Len(s)
  PROVE  /\ RemoveAt(s, k) \in Seq(S) /\ Len(RemoveAt(s, k)) = Len(s) - 1
         /\ \A j \in 1..Len(RemoveAt(s, k)) : \E i \in 1..Len(s) : RemoveAt(s, k)[j] = s[i]
  <1> DEFINE a == SubSeq(s, 1, k - 1)
             b == SubSeq(s, k + 1, Len(s))
  <1>1. a \in Seq(S) /\ Len(a) = k - 1 /\ \A j \in 1..Len(a) : a[j] = s[j] /\ j \in 1..Len(s)
    OBVIOUS
  <1>2. b \in Seq(S) /\ Len(b) = Len(s) - k /\ \A j \in 1..Len(b) : b[j] = s[k + j] /\ k + j \in 1..Len(s)
    OBVIOUS
  <1>3. RemoveAt(s, k) = a \o b
    BY DEF RemoveAt
  <1> HIDE DEF a, b
  <1>4. a \o b \in Seq(S) /\ Len(a \o b) = Len(s) - 1
    BY <1>1, <1>2
  <1>5. ASSUME NEW j \in 1..Len(a \o b)
        PROVE  \E i \in 1..Len(s) : (a \o b)[j] = s[i]
    <2>1. CASE j <= Len(a)
      <3>1. (a \o b)[j] = a[j] /\ j \in 1..Len(a)
        BY <1>1, <1>2, <2>1
      <3> QED
        BY <1>1, <3>1
    <2>2. CASE j > Len(a)
      <3>1. (a \o b)[j] = b[j - Len(a)] /\ j - Len(a) \in 1..Len(b)
        BY <1>1, <1>2, <2>2
      <3> QED
        BY <1>2, <3>1
    <2> QED
      BY <1>1, <2>1, <2>2
  <1> QED
    BY <1>3, <1>4, <1>5

\* Frame g is frame f, by one request later.
Later(f, g) ==
  /\ g.late = f.late + 1
  /\ f \in ModbusFrames => /\ g \in ModbusFrames /\ g.from = f.from /\ g.fc = f.fc /\ g.addr = f.addr
                           /\ g.exc = f.exc /\ g.data = f.data /\ g.bytes = f.bytes
  /\ f \in UppFrames => /\ g \in UppFrames /\ g.from = f.from /\ g.cmd = f.cmd /\ g.echo = f.echo
                        /\ g.data = f.data /\ g.bytes = f.bytes /\ g.no = f.no

LEMMA LateIs ==
  ASSUME NEW t, air[t] \in Seq(Frames)
  PROVE  /\ LateAnswers(t) \in Seq(Frames) /\ Len(LateAnswers(t)) = Len(air[t])
         /\ \A k \in 1..Len(air[t]) : Later(air[t][k], LateAnswers(t)[k]) /\ LateAnswers(t)[k].late \in Nat \ {0}
  <1>1. ASSUME NEW f \in Frames
        PROVE  LET g == [f EXCEPT !.late = @ + 1] IN g \in Frames /\ Later(f, g) /\ g.late \in Nat \ {0}
    <2> DEFINE g == [f EXCEPT !.late = @ + 1]
    <2>1. ASSUME f \in ModbusFrames PROVE /\ g \in ModbusFrames /\ g.from = f.from /\ g.fc = f.fc /\ g.addr = f.addr
                                          /\ g.exc = f.exc /\ g.data = f.data /\ g.bytes = f.bytes
                                          /\ g.late = f.late + 1 /\ f.late \in Nat
      BY <2>1 DEF ModbusFrames
    <2>2. ASSUME f \in UppFrames PROVE /\ g \in UppFrames /\ g.from = f.from /\ g.cmd = f.cmd /\ g.echo = f.echo
                                       /\ g.data = f.data /\ g.bytes = f.bytes /\ g.late = f.late + 1 /\ f.late \in Nat
                                       /\ g.no = f.no
      <3>1. f.late \in Nat /\ DOMAIN f = {"from", "cmd", "echo", "data", "bytes", "len", "late", "no"}
        BY <2>2 DEF UppFrames
      <3>2. /\ g.from = f.from /\ g.cmd = f.cmd /\ g.echo = f.echo /\ g.data = f.data /\ g.bytes = f.bytes
            /\ g.late = f.late + 1 /\ g.no = f.no
        BY <3>1
      <3>3. g \in UppFrames
        <4>1. /\ f.from \in Int /\ f.cmd \in STRING /\ f.echo \in Echoes /\ f.data \in Seq(Int) \ {<<>>}
              /\ f.bytes \in Nat /\ f.len \in Int /\ f.late + 1 \in Nat /\ f.no \in BOOLEAN
          BY <2>2, <3>1 DEF UppFrames
        <4>2. g = [from |-> f.from, cmd |-> f.cmd, echo |-> f.echo, data |-> f.data, bytes |-> f.bytes,
                   len |-> f.len, late |-> f.late + 1, no |-> f.no]
          BY <2>2 DEF UppFrames
        <4> HIDE DEF g
        <4> QED
          BY <4>1, <4>2 DEF UppFrames
      <3> QED
        BY <3>1, <3>2, <3>3
    <2> HIDE DEF g
    <2>3. f \in ModbusFrames \/ f \in UppFrames
      BY DEF Frames
    <2>4. g \in Frames /\ Later(f, g) /\ g.late \in Nat \ {0}
      BY <2>1, <2>2, <2>3 DEF Frames, Later
    <2> QED
      BY <2>4 DEF g
  <1> DEFINE s == LateAnswers(t)
             n == Len(air[t])
  <1>2. n \in Nat /\ \A k \in 1..n : air[t][k] \in Frames
    OBVIOUS
  <1>3. s = [k \in 1..n |-> [air[t][k] EXCEPT !.late = @ + 1]]
    BY DEF LateAnswers
  <1>4. \A k \in 1..n : s[k] = [air[t][k] EXCEPT !.late = @ + 1]
    BY <1>3
  <1>5. s = [k \in 1..n |-> s[k]]
    BY <1>3, Zenon
  <1>6. \A k \in 1..n : s[k] \in Frames /\ Later(air[t][k], s[k]) /\ s[k].late \in Nat \ {0}
    BY <1>1, <1>2, <1>4
  <1> HIDE DEF s, n
  <1>7. s \in Seq(Frames) /\ Len(s) = n
    BY <1>2, <1>5, <1>6
  <1> QED
    BY <1>6, <1>7 DEF s, n

LEMMA RemainingIs ==
  ASSUME NEW t, air[t] \in Seq(Frames), NEW late \in Remaining(t)
  PROVE  /\ late \in Seq(Frames)
         /\ \A j \in 1..Len(late) : late[j].late \in Nat \ {0} /\ \E k \in 1..Len(air[t]) : Later(air[t][k], late[j])
         /\ t # Bus => Len(late) = Len(air[t])
  <1> DEFINE s == LateAnswers(t)
             n == Len(air[t])
  <1>1. n \in Nat /\ s \in Seq(Frames) /\ Len(s) = n
        /\ \A k \in 1..n : s[k] \in Frames /\ s[k].late \in Nat \ {0} /\ Later(air[t][k], s[k])
    BY LateIs
  <1>2. CASE t # Bus
    <2>1. late = s
      BY <1>2 DEF Remaining
    <2> QED
      BY <1>1, <2>1
  <1>3. CASE t = Bus
    <2>1. PICK kept \in SUBSET {k \in 1..n : s[k].late <= MaxLate} :
            late = [k \in 1..Cardinality(kept) |-> s[InOrder(kept)[k]]]
      BY <1>3 DEF Remaining
    <2>2. kept \subseteq 1..n /\ kept \subseteq Int
      OBVIOUS
    <2>3. IsFiniteSet(kept)
      <3>1. 1 \in Int /\ n \in Int
        BY <1>1
      <3>2. IsFiniteSet(1..n)
        BY <3>1, FS_Interval
      <3> QED
        BY <2>2, <3>2, FS_Subset
    <2>4. /\ Cardinality(kept) \in Nat
          /\ \A k \in 1..Cardinality(kept) : InOrder(kept)[k] \in kept
      <3> HIDE DEF s, n
      <3>1. Cardinality(kept) \in Nat /\ InOrder(kept) \in Seq(kept) /\ Len(InOrder(kept)) = Cardinality(kept)
        BY <2>2, <2>3, InOrderIs
      <3> QED
        BY <3>1
    <2> DEFINE m == Cardinality(kept)
    <2>5. \A k \in 1..m : late[k] = s[InOrder(kept)[k]]
      BY <2>1
    <2>6. late = [k \in 1..m |-> late[k]]
      BY <2>1, Zenon
    <2>7. \A k \in 1..m : /\ late[k] \in Frames /\ late[k].late \in Nat \ {0}
                          /\ \E i \in 1..n : Later(air[t][i], late[k])
      BY <1>1, <2>2, <2>4, <2>5
    <2> HIDE DEF m, n, s
    <2>8. m \in Nat
      BY <2>4 DEF m
    <2>9. late \in Seq(Frames) /\ Len(late) = m
      BY <2>6, <2>7, <2>8
    <2> QED
      BY <1>3, <2>7, <2>9 DEF n
  <1> QED
    BY <1>2, <1>3

-----------------------------------------------------------------------------
(* The requests of a poll *)

\* A sequence of members of S in which every one of them occurs.
Lists(s, S) == s \in Seq(S) /\ \A x \in S : \E k \in 1..Len(s) : s[k] = x

LEMMA OwnSet ==
  ASSUME NEW S, NEW s \in Seq(S)
  PROVE  Lists(s, ToSet(s))
  <1> DEFINE n == Len(s)
  <1>1. n \in Nat /\ \A k \in 1..n : s[k] \in ToSet(s)
    BY DEF ToSet
  <1>2. s = [k \in 1..n |-> s[k]]
    OBVIOUS
  <1> HIDE DEF n
  <1>3. s \in Seq(ToSet(s))
    BY <1>1, <1>2
  <1>4. \A x \in ToSet(s) : \E k \in 1..Len(s) : s[k] = x
    BY DEF ToSet
  <1> QED
    BY <1>3, <1>4 DEF Lists

LEMMA Joined ==
  ASSUME NEW S, NEW T, NEW a, NEW b, Lists(a, S), Lists(b, T)
  PROVE  Lists(a \o b, S \cup T)
  <1>1. a \in Seq(S \cup T) /\ b \in Seq(S \cup T)
    BY DEF Lists
  <1>2. a \o b \in Seq(S \cup T) /\ Len(a \o b) = Len(a) + Len(b)
    BY <1>1
  <1>3. ASSUME NEW k \in 1..Len(a) PROVE k \in 1..Len(a \o b) /\ (a \o b)[k] = a[k]
    BY <1>1, <1>2
  <1>4. ASSUME NEW k \in 1..Len(b) PROVE Len(a) + k \in 1..Len(a \o b) /\ (a \o b)[Len(a) + k] = b[k]
    BY <1>1, <1>2
  <1>5. ASSUME NEW x \in S PROVE \E i \in 1..Len(a \o b) : (a \o b)[i] = x
    <2>1. PICK k \in 1..Len(a) : a[k] = x
      BY DEF Lists
    <2> QED
      BY <1>3, <2>1
  <1>6. ASSUME NEW x \in T PROVE \E i \in 1..Len(a \o b) : (a \o b)[i] = x
    <2>1. PICK k \in 1..Len(b) : b[k] = x
      BY DEF Lists
    <2> QED
      BY <1>4, <2>1
  <1> QED
    BY <1>2, <1>5, <1>6 DEF Lists

LEMMA RequestsAre ==
  ASSUME world \in Worlds, NEW d \in Devices, Dev(d).proto # "sim", io[d].write \in Rows(d)
  PROVE  Lists(Requests(d), OpsOf(d, io[d].write))
  <1> DEFINE w == io[d].write
  <1>1. Modbus(d) \/ Dev(d).proto = "upp"
    BY DeviceIs DEF Modbus
  <1>2. CASE Modbus(d)
    <2> DEFINE a == ReadBatched(ExpandRegisters(Fields(d), Inputs))
               b == WriteBatched(ExpandRegisters(Fields(d), Outputs), w)
    <2>1. Requests(d) = a \o b
      BY <1>2 DEF Requests, Modbus, ModbusRequests, TcpReads, TcpWrites
    <2>2. a \in Seq(ModbusOps)
      BY <1>2, ListIs, ReadBatchedIs
    <2>3. b \in Seq(ModbusOps)
      <3> DEFINE regs == ExpandRegisters(Fields(d), Outputs)
      <3>1. regs \in Seq(Registers) /\ Listed(d, regs, OutputIndices(d))
        BY <1>2, ListIs, DeviceIs
      <3>2. \A k \in 1..Len(regs) : regs[k].io \in Indices(d)
        BY <3>1 DEF Listed, OutputIndices
      <3>3. \A k \in 1..Len(regs) : w[regs[k].io] \in Values
        BY <3>2 DEF Rows
      <3> HIDE DEF regs
      <3>4. WriteBatched(regs, w) \in Seq(ModbusOps)
        BY <3>1, <3>3, WriteBatchedIs
      <3> QED
        BY <3>4 DEF regs
    <2>4. Reads(d) = ToSet(a) /\ Writes(d, w) = ToSet(b) /\ OpsOf(d, w) = ToSet(a) \cup ToSet(b)
      BY <1>2 DEF Reads, Writes, OpsOf, Modbus
    <2> HIDE DEF a, b, w
    <2>5. Lists(a, ToSet(a)) /\ Lists(b, ToSet(b))
      BY <2>2, <2>3, OwnSet
    <2>6. Lists(a \o b, ToSet(a) \cup ToSet(b))
      BY <2>5, Joined
    <2> QED
      BY <2>1, <2>4, <2>6 DEF w
  <1>3. CASE Dev(d).proto = "upp"
    <2> DEFINE pending == {n \in OutputIndices(d) : w[n] # None}
               p == InOrder(pending)
               q == InOrder(InputIndices(d))
               a == [k \in 1..Len(p) |-> UppWrite(d, p[k], w[p[k]])]
               b == [k \in 1..Len(q) |-> UppRead(d, q[k])]
    <2>1. TotalValues(Fields(d)) \in Nat
      BY DeviceIs
    <2>2. IsFiniteSet(Indices(d)) /\ Indices(d) \subseteq Int
      <3> DEFINE N == TotalValues(Fields(d))
      <3>1. 1 \in Int /\ N \in Int
        BY <2>1
      <3>2. IsFiniteSet(1..N)
        BY <3>1, FS_Interval
      <3> QED
        BY <3>1, <3>2 DEF Indices
    <2>3. pending \subseteq Indices(d) /\ InputIndices(d) \subseteq Indices(d)
      BY DEF InputIndices, OutputIndices
    <2>4. IsFiniteSet(pending) /\ IsFiniteSet(InputIndices(d))
      BY <2>2, <2>3, FS_Subset
    <2>5. p \in Seq(pending) /\ \A n \in pending : \E k \in 1..Len(p) : p[k] = n
      <3>1. pending \subseteq Int
        BY <2>2, <2>3
      <3> HIDE DEF pending
      <3> QED
        BY <2>4, <3>1, InOrderIs
    <2>6. q \in Seq(InputIndices(d)) /\ \A n \in InputIndices(d) : \E k \in 1..Len(q) : q[k] = n
      <3>1. InputIndices(d) \subseteq Int
        BY <2>2, <2>3
      <3> QED
        BY <2>4, <3>1, InOrderIs
    <2>7. OpsOf(d, w) = UppReads(d) \cup UppWrites(d, w)
      BY <1>3 DEF OpsOf
    <2>8. a \in Seq(UppWrites(d, w)) /\ \A x \in UppWrites(d, w) : \E k \in 1..Len(a) : a[k] = x
      <3> DEFINE m == Len(p)
      <3> HIDE DEF p, pending
      <3>1. m \in Nat /\ \A k \in 1..m : p[k] \in pending
        BY <2>5
      <3>2. \A k \in 1..m : a[k] = UppWrite(d, p[k], w[p[k]])
        OBVIOUS
      <3>3. UppWrites(d, w) = {UppWrite(d, n, w[n]) : n \in pending}
        BY DEF UppWrites, pending
      <3>4. \A k \in 1..m : a[k] \in UppWrites(d, w)
        BY <3>1, <3>2, <3>3
      <3>5. a = [k \in 1..m |-> a[k]]
        BY Zenon
      <3> HIDE DEF a, m
      <3>6. a \in Seq(UppWrites(d, w)) /\ Len(a) = m
        BY <3>1, <3>4, <3>5
      <3>7. \A x \in UppWrites(d, w) : \E k \in 1..m : a[k] = x
        BY <2>5, <3>2, <3>3 DEF m
      <3> QED
        BY <3>6, <3>7
    <2>9. b \in Seq(UppReads(d)) /\ \A x \in UppReads(d) : \E k \in 1..Len(b) : b[k] = x
      <3> DEFINE m == Len(q)
      <3>1. m \in Nat /\ \A k \in 1..m : q[k] \in InputIndices(d)
        BY <2>6
      <3>2. \A k \in 1..m : b[k] = UppRead(d, q[k])
        OBVIOUS
      <3>3. UppReads(d) = {UppRead(d, n) : n \in InputIndices(d)}
        BY DEF UppReads
      <3> HIDE DEF q
      <3>4. \A k \in 1..m : b[k] \in UppReads(d)
        BY <3>1, <3>2, <3>3
      <3>5. b = [k \in 1..m |-> b[k]]
        BY Zenon
      <3> HIDE DEF b, m
      <3>6. b \in Seq(UppReads(d)) /\ Len(b) = m
        BY <3>1, <3>4, <3>5
      <3>7. \A x \in UppReads(d) : \E k \in 1..m : b[k] = x
        BY <2>6, <3>2, <3>3 DEF m
      <3> QED
        BY <3>6, <3>7
    <2>10. Requests(d) = a \o b
      BY <1>3 DEF Requests, UppRequests
    <2> HIDE DEF a, b, w, p, q, pending
    <2>11. Lists(a, UppWrites(d, w)) /\ Lists(b, UppReads(d))
      BY <2>8, <2>9 DEF Lists
    <2>12. Lists(a \o b, UppWrites(d, w) \cup UppReads(d))
      BY <2>11, Joined
    <2>13. OpsOf(d, w) = UppWrites(d, w) \cup UppReads(d)
      BY <2>7
    <2> QED
      BY <2>10, <2>12, <2>13 DEF w
  <1> QED
    BY <1>1, <1>2, <1>3

-----------------------------------------------------------------------------
(* One request is done *)

LEMMA AfterOpIs ==
  ASSUME NEW t, DOMAIN thr[t] = ThreadFields, NEW S, thr[t].ops \in Seq(S), thr[t].ops # <<>>, NEW err
  PROVE  LET x == AfterOp(t, err)
         IN /\ DOMAIN x = ThreadFields
            /\ x.ops = Tail(thr[t].ops) /\ x.ops \in Seq(S)
            /\ x.pc = Step(x.ops) /\ x.pc \in {"send", "end"} /\ (x.pc = "end" <=> x.ops = <<>>)
            /\ x.dev = thr[t].dev /\ x.snap = thr[t].snap /\ x.news = thr[t].news /\ x.own = thr[t].own
            /\ x.left = thr[t].left /\ x.polled = thr[t].polled /\ x.denied = thr[t].denied
            /\ x.readErr = IF err = ErrOk \/ IsWrite(thr[t].dev, Head(thr[t].ops)) THEN thr[t].readErr ELSE err
            /\ x.writeErr = IF err = ErrOk \/ ~IsWrite(thr[t].dev, Head(thr[t].ops)) THEN thr[t].writeErr ELSE err
  <1> DEFINE th == thr[t]
             rest == Tail(th.ops)
             last == [th EXCEPT !.ops = rest, !.pc = Step(rest), !.try = 1]
             wrote == IsWrite(th.dev, Head(th.ops))
             x == AfterOp(t, err)
  <1>1. rest \in Seq(S)
    OBVIOUS
  <1>2. Step(rest) \in {"send", "end"} /\ (Step(rest) = "end" <=> rest = <<>>)
    BY DEF Step
  <1>3. x = IF err = ErrOk THEN last ELSE IF wrote THEN [last EXCEPT !.writeErr = err]
            ELSE [last EXCEPT !.readErr = err]
    BY DEF AfterOp
  <1> HIDE DEF rest, wrote
  <1>4. /\ DOMAIN last = ThreadFields /\ last.ops = rest /\ last.pc = Step(rest)
        /\ last.dev = th.dev /\ last.snap = th.snap /\ last.news = th.news /\ last.own = th.own
        /\ last.left = th.left /\ last.polled = th.polled /\ last.denied = th.denied
        /\ last.readErr = th.readErr /\ last.writeErr = th.writeErr
    BY DEF ThreadFields
  <1> HIDE DEF last, x, th
  <1>5. /\ DOMAIN x = ThreadFields /\ x.ops = rest /\ x.pc = Step(rest)
        /\ x.dev = th.dev /\ x.snap = th.snap /\ x.news = th.news /\ x.own = th.own
        /\ x.left = th.left /\ x.polled = th.polled /\ x.denied = th.denied
        /\ x.readErr = IF err = ErrOk \/ wrote THEN th.readErr ELSE err
        /\ x.writeErr = IF err = ErrOk \/ ~wrote THEN th.writeErr ELSE err
    <2>1. CASE err = ErrOk
      BY <1>3, <1>4, <2>1
    <2>2. CASE err # ErrOk /\ wrote
      BY <1>3, <1>4, <2>2 DEF ThreadFields
    <2>3. CASE err # ErrOk /\ ~wrote
      BY <1>3, <1>4, <2>3 DEF ThreadFields
    <2> QED
      BY <2>1, <2>2, <2>3
  <1> QED
    BY <1>1, <1>2, <1>5 DEF x, th, rest, wrote

LEMMA ForeignIs ==
  ASSUME NEW d, Modbus(d) \/ Dev(d).proto = "upp", NEW f \in Frames
  PROVE  /\ Dev(d).proto = "upp" => (~Foreign(d, f) <=> f \in UppFrames)
         /\ Modbus(d) => (~Foreign(d, f) <=> f \in ModbusFrames)
  <1>1. f \in ModbusFrames => "cmd" \notin DOMAIN f
    BY DEF ModbusFrames
  <1>2. f \in UppFrames => "cmd" \in DOMAIN f
    BY DEF UppFrames
  <1>3. f \in ModbusFrames \/ f \in UppFrames
    BY DEF Frames
  <1> QED
    BY <1>1, <1>2, <1>3, Zenon DEF Foreign, Modbus

LEMMA OutcomeIs ==
  ASSUME world \in Worlds, NEW d \in Devices, Dev(d).proto # "sim", NEW op, NEW f
  PROVE  /\ Outcome(d, op, f) \in Nat
         /\ Outcome(d, op, f) = ErrOk => ~Foreign(d, f)
         /\ ~Foreign(d, f) /\ Dev(d).proto = "rtu" => Outcome(d, op, f) = RtuOutcome(Dev(d).slave, op, f)
         /\ ~Foreign(d, f) /\ Dev(d).proto = "tcp" => Outcome(d, op, f) = TcpOutcome(f)
         /\ ~Foreign(d, f) /\ Dev(d).proto = "upp" => Outcome(d, op, f) = UppTransact(Dev(d).slave, op, f)
  <1>1. \A slave : RtuOutcome(slave, op, f) \in Nat
    <2>1. \A slave : RtuFrameParse(slave, op, f) \in Nat
      BY DEF RtuFrameParse, ErrSlaveMismatch, ErrFcMismatch, ErrTimeout, ErrOk
    <2>2. ParseResponse(f) \in Nat
      BY DEF ParseResponse, ErrCrc, ErrModbusException, ErrOk
    <2> QED
      BY <2>1, <2>2 DEF RtuOutcome
  <1>2. TcpOutcome(f) \in Nat
    BY DEF TcpOutcome, ErrModbusException, ErrOk
  <1>3. \A addr : UppTransact(addr, op, f) \in Nat
    <2>1. \A addr : UppTransaction(addr, f) \in Nat
      BY DEF UppTransaction, UppTimeout, UppAddressMismatch, ErrOk
    <2> QED
      BY <2>1 DEF UppTransact, UppBadResponse, ErrOk
  <1>4. Dev(d).proto \in {"rtu", "tcp", "upp"}
    BY DeviceIs
  <1>5. ForeignOutcome(d, f) \in Nat /\ ForeignOutcome(d, f) # ErrOk
    BY DEF ForeignOutcome, UppTimeout, ErrFcMismatch, ErrSlaveMismatch, ErrOk
  <1>6. /\ Foreign(d, f) => Outcome(d, op, f) = ForeignOutcome(d, f)
        /\ ~Foreign(d, f) /\ Dev(d).proto = "rtu" => Outcome(d, op, f) = RtuOutcome(Dev(d).slave, op, f)
        /\ ~Foreign(d, f) /\ Dev(d).proto = "tcp" => Outcome(d, op, f) = TcpOutcome(f)
        /\ ~Foreign(d, f) /\ Dev(d).proto = "upp" => Outcome(d, op, f) = UppTransact(Dev(d).slave, op, f)
    BY DEF Outcome
  <1> QED
    BY <1>1, <1>2, <1>3, <1>4, <1>5, <1>6

(* What the state of a thread is after a request, whatever its result.     *)
LEMMA AfterOpTyped ==
  ASSUME world \in Worlds, NEW t, NEW a, NEW u, NEW R, ThreadRow(t, thr[t], a, u, R), thr[t].pc \in Busy,
         NEW err \in Int
  PROVE  ThreadRow(t, AfterOp(t, err), a, u, R)
  <1> DEFINE x == AfterOp(t, err)
             d == thr[t].dev
             S == OpsOf(d, thr[t].snap)
  <1>1. /\ DOMAIN thr[t] = ThreadFields /\ thr[t].ops # <<>> /\ Polls(t, thr[t], R)
        /\ thr[t].own \in BOOLEAN /\ thr[t].readErr \in Int /\ thr[t].writeErr \in Int
        /\ a \in Seq(Frames) /\ u \in BOOLEAN
    BY DEF ThreadRow, Between, Busy
  <1>2. thr[t].ops \in Seq(S)
    BY <1>1 DEF Polls
  <1> HIDE DEF S
  <1>3. /\ DOMAIN x = ThreadFields /\ x.ops \in Seq(S)
        /\ x.pc \in {"send", "end"} /\ (x.pc = "end" <=> x.ops = <<>>)
        /\ x.dev = thr[t].dev /\ x.snap = thr[t].snap /\ x.news = thr[t].news /\ x.own = thr[t].own
        /\ x.readErr = IF err = ErrOk \/ IsWrite(thr[t].dev, Head(thr[t].ops)) THEN thr[t].readErr ELSE err
        /\ x.writeErr = IF err = ErrOk \/ ~IsWrite(thr[t].dev, Head(thr[t].ops)) THEN thr[t].writeErr ELSE err
    BY <1>1, <1>2, AfterOpIs
  <1> HIDE DEF x
  <1>4. x.readErr \in Int /\ x.writeErr \in Int
    BY <1>1, <1>3
  <1>5. Polls(t, x, R)
    BY <1>1, <1>3 DEF Polls, S
  <1>6. x.own \in BOOLEAN
    BY <1>1, <1>3
  <1>7. ThreadRow(t, x, a, u, R)
    BY <1>1, <1>3, <1>4, <1>5, <1>6 DEF ThreadRow, Between, Busy
  <1> QED
    BY <1>7 DEF x

-----------------------------------------------------------------------------
(* Types: the initial state *)

LEMMA DefaultsTyped ==
  ASSUME world \in Worlds, NEW d \in Devices
  PROVE  Typed(d, DefaultValues(Fields(d))) /\ [n \in Indices(d) |-> None] \in Rows(d)
  <1> DEFINE row == DefaultValues(Fields(d))
  <1>1. row = [n \in Indices(d) |-> Value(VarType(FieldOf(d, n).type), 0)]
    BY DEF DefaultValues, Indices, FieldOf
  <1>2. ASSUME NEW n \in Indices(d)
        PROVE  row[n] \in Values /\ HasType(d, n, row[n])
    <2>1. row[n] = Value(VarType(FieldOf(d, n).type), 0)
      BY <1>1
    <2>2. VarType(FieldOf(d, n).type) \in Tags /\ 0 \in Int
      BY VarTypeIs
    <2> QED
      BY <2>1, <2>2, ValueIs DEF HasType
  <1>3. row \in Rows(d)
    BY <1>1, <1>2 DEF Rows
  <1>4. [n \in Indices(d) |-> None] \in Rows(d)
    BY ValueIs DEF Rows
  <1> QED
    BY <1>2, <1>3, <1>4 DEF Typed

LEMMA TypeInit ==
  ASSUME Init PROVE TypeInv
  <1>1. world \in Worlds
    BY DEF Init
  <1>2. ASSUME NEW d \in Devices PROVE DeviceType(d)
    <2>1. Typed(d, DefaultValues(Fields(d))) /\ [n \in Indices(d) |-> None] \in Rows(d)
      BY <1>1, DefaultsTyped
    <2>2. BlockRow(d, prog[d])
      <3>1. prog[d] = [vals |-> DefaultValues(Fields(d)), conn |-> FALSE, err |-> 0]
        BY DEF Init
      <3> QED
        BY <2>1, <3>1 DEF BlockRow
    <2>3. SharedRow(d, io[d])
      <3> DEFINE w == IF Dev(d).proto = "upp" THEN [n \in Indices(d) |-> None] ELSE DefaultValues(Fields(d))
                 e == IF Dev(d).proto = "upp" /\ ProfileFails(Fields(d)) THEN 102 ELSE 0
                 r == DefaultValues(Fields(d))
      <3>1. io[d] = [read |-> r, write |-> w, conn |-> FALSE, err |-> e]
        BY DEF Init
      <3>2. Pending(d, w)
        <4>1. CASE Dev(d).proto = "upp"
          BY <2>1, <4>1 DEF Pending
        <4>2. CASE Dev(d).proto # "upp"
          BY <2>1, <4>2 DEF Pending, Typed
        <4> QED
          BY <4>1, <4>2
      <3> HIDE DEF w, e, r
      <3>3. DOMAIN io[d] = {"read", "write", "conn", "err"} /\ io[d].read = r /\ io[d].write = w /\ io[d].conn = FALSE
        BY <3>1
      <3>4. io[d].conn \in BOOLEAN /\ ~io[d].conn
        BY <3>3, Zenon
      <3> QED
        BY <2>1, <3>2, <3>3, <3>4 DEF SharedRow, r
    <2>4. SeenRow(d, seen[d])
      <3>1. seen[d] = [got |-> {}, own |-> FALSE]
        BY DEF Init
      <3> QED
        BY <3>1 DEF SeenRow
    <2>5. dev[d] \in [Cells(d) -> Content(d)]
      <3>1. dev[d] = [c \in Cells(d) |-> FieldOf(d, CHOOSE n \in Indices(d) : CellOf(d, n) = c).init]
        BY DEF Init, Cells
      <3>2. ASSUME NEW c \in Cells(d)
            PROVE  FieldOf(d, CHOOSE n \in Indices(d) : CellOf(d, n) = c).init \in Content(d)
        <4>1. (CHOOSE n \in Indices(d) : CellOf(d, n) = c) \in Indices(d)
          BY DEF Cells
        <4>2. FieldOf(d, CHOOSE n \in Indices(d) : CellOf(d, n) = c).init \in Word
          BY <1>1, <4>1, DeviceIs DEF ProfileField
        <4> QED
          BY <4>2, WordIs DEF Content
      <3> QED
        BY <3>1, <3>2
    <2> QED
      BY <2>2, <2>3, <2>4, <2>5 DEF DeviceType, DeviceRow
  <1>3. ASSUME NEW t \in Threads PROVE ThreadType(t)
    <2>1. thr[t] = NoThread /\ air[t] = <<>> /\ up[t] = FALSE
      BY DEF Init
    <2>2. /\ DOMAIN NoThread = ThreadFields /\ NoThread.pc = "off" /\ NoThread.dev = "none"
          /\ NoThread.readErr = 0 /\ NoThread.writeErr = 0 /\ NoThread.own = TRUE
      BY DEF NoThread, ThreadFields, ErrOk
    <2>3. NoThread.own \in BOOLEAN /\ up[t] \in BOOLEAN
      BY <2>1, <2>2, Zenon
    <2>4. air[t] \in Seq(Frames)
      BY <2>1
    <2> QED
      BY <2>1, <2>2, <2>3, <2>4 DEF ThreadType, ThreadRow, Between, Busy
  <1>4. Shape
    <2>1. world.order \in Seq(DOMAIN world.devs) /\ world.order # <<>> /\ world.maxFaults \in Nat
      BY <1>1, WorldsAssumption DEF Plant
    <2>2. 1 \in 1..Len(world.order)
      BY <2>1
    <2>3. /\ DOMAIN prog = Devices /\ DOMAIN io = Devices /\ DOMAIN seen = Devices /\ DOMAIN dev = Devices
          /\ DOMAIN thr = Threads /\ DOMAIN air = Threads /\ DOMAIN up = Threads
      BY DEF Init
    <2>4. DOMAIN scan = {"pc", "i"} /\ scan.pc = "start" /\ scan.i = 1
      BY DEF Init
    <2>5. link \in [open : BOOLEAN, conn : BOOLEAN, err : 0..3]
      <3>1. link = [open |-> FALSE, conn |-> FALSE, err |-> 0]
        BY DEF Init
      <3> QED
        BY <3>1
    <2>6. reg = {} /\ faults = 0
      BY DEF Init
    <2> QED
      BY <2>1, <2>2, <2>3, <2>4, <2>5, <2>6 DEF Shape
  <1> QED
    BY <1>1, <1>2, <1>3, <1>4 DEF TypeInv

-----------------------------------------------------------------------------
(* Types: the scan thread *)

LEMMA CurrentIs ==
  ASSUME TypeInv
  PROVE  /\ Current \in Devices /\ scan.i \in 1..Len(world.order) /\ Len(world.order) \in Nat
         /\ 1 \in 1..Len(world.order)
  <1>1. world.order \in Seq(Devices) /\ world.order # <<>>
    BY WorldsAssumption DEF TypeInv, Plant, Devices
  <1>2. scan.i \in 1..Len(world.order)
    BY DEF TypeInv, Shape
  <1> QED
    BY <1>1, <1>2 DEF Current

\* What Shape says of the scan thread.
ScanShape(s) ==
  /\ DOMAIN s = {"pc", "i"} /\ s.i \in 1..Len(world.order)
  /\ s.pc \in {"start", "exec", "queue", "copy", "dead"}
  /\ s.pc \in {"queue", "copy"} => Dev(world.order[s.i]).proto # "sim"

LEMMA ShapeKept ==
  ASSUME TypeInv, world' = world, ScanShape(scan'),
         DOMAIN prog' = DOMAIN prog, DOMAIN io' = DOMAIN io, DOMAIN seen' = DOMAIN seen, DOMAIN dev' = DOMAIN dev,
         DOMAIN thr' = DOMAIN thr, DOMAIN air' = DOMAIN air, DOMAIN up' = DOMAIN up,
         reg' \subseteq {d \in Devices : Dev(d).proto # "sim"},
         link' \in [open : BOOLEAN, conn : BOOLEAN, err : 0..3],
         faults' = faults \/ Fault
  PROVE  Shape'
  <1>1. faults' \in 0..world.maxFaults
    <2>1. faults \in 0..world.maxFaults /\ world.maxFaults \in Nat
      BY WorldsAssumption DEF TypeInv, Shape, Plant
    <2> QED
      BY <2>1 DEF Fault
  <1>2. {d \in Devices : Dev(d).proto # "sim"}' = {d \in Devices : Dev(d).proto # "sim"}
    BY WorldKept
  <1>3. Current' = world.order[scan'.i] /\ Dev(Current)' = Dev(world.order[scan'.i])
    BY DEF Current, Dev
  <1>4. Devices' = Devices /\ Threads' = Threads
    BY WorldKept
  <1>5. /\ DOMAIN prog = Devices /\ DOMAIN io = Devices /\ DOMAIN seen = Devices /\ DOMAIN dev = Devices
        /\ DOMAIN thr = Threads /\ DOMAIN air = Threads /\ DOMAIN up = Threads
    BY DEF TypeInv, Shape
  <1> QED
    BY <1>1, <1>2, <1>3, <1>4, <1>5 DEF Shape, ScanShape

LEMMA ScanIs ==
  ASSUME TypeInv
  PROVE  ScanShape(scan) /\ reg \subseteq {d \in Devices : Dev(d).proto # "sim"}
         /\ link \in [open : BOOLEAN, conn : BOOLEAN, err : 0..3]
  BY DEF TypeInv, Shape, ScanShape, Current

LEMMA GotoIs ==
  ASSUME TypeInv, NEW pc \in {"start", "exec", "queue", "copy", "dead"}, Goto(pc),
         pc \in {"queue", "copy"} => Dev(Current).proto # "sim"
  PROVE  ScanShape(scan')
  BY ScanIs DEF Goto, ScanShape, Current

LEMMA NextDeviceIs ==
  ASSUME TypeInv, NextDevice
  PROVE  ScanShape(scan')
  <1>1. scan.i \in 1..Len(world.order) /\ Len(world.order) \in Nat /\ 1 \in 1..Len(world.order)
    BY CurrentIs
  <1>2. CASE scan.i = Len(world.order)
    <2>1. scan' = [pc |-> "start", i |-> 1]
      BY <1>2 DEF NextDevice
    <2> QED
      BY <1>1, <2>1 DEF ScanShape
  <1>3. CASE scan.i # Len(world.order)
    <2> DEFINE j == scan.i + 1
    <2>1. scan' = [pc |-> "exec", i |-> j]
      BY <1>3 DEF NextDevice
    <2>2. j \in 1..Len(world.order)
      BY <1>1, <1>3
    <2> HIDE DEF j
    <2> QED
      BY <2>1, <2>2 DEF ScanShape
  <1> QED
    BY <1>2, <1>3

LEMMA SampleIs ==
  ASSUME world \in Worlds, NEW d \in Devices, NEW n \in OutputIndices(d), NEW k \in 0..2
  PROVE  Sample(FieldOf(d, n).type, k) \in Values /\ HasType(d, n, Sample(FieldOf(d, n).type, k))
  <1> DEFINE f == FieldOf(d, n)
             x == IF k = 0 THEN 0 ELSE Samples[f.type][k]
  <1>1. n \in Indices(d) /\ IsOutput(f)
    BY DEF OutputIndices
  <1>2. FieldAt(Fields(d), n) \in 1..Len(Fields(d))
    BY <1>1, DeviceIs, FieldAtIs DEF Indices
  <1>3. k # 0 => Samples[f.type][k] \in Int
    <2> DEFINE i == FieldAt(Fields(d), n)
    <2>1. d \in DOMAIN world.devs /\ i \in 1..Len(world.devs[d].fields) /\ f = world.devs[d].fields[i]
      BY <1>2 DEF FieldOf, Fields, Dev, Devices
    <2> HIDE DEF i, f
    <2>2. IsOutput(world.devs[d].fields[i]) => \A j \in 1..2 : Samples[world.devs[d].fields[i].type][j] \in Int
      BY <2>1, SamplesAssumption
    <2>3. k # 0 => k \in 1..2
      OBVIOUS
    <2> QED
      BY <1>1, <2>1, <2>2, <2>3
  <1>4. x \in Int
    BY <1>3
  <1>5. Sample(f.type, k) = Value(VarType(f.type), x)
    BY DEF Sample
  <1>6. VarType(f.type) \in Tags
    BY VarTypeIs
  <1> HIDE DEF x
  <1> QED
    BY <1>4, <1>5, <1>6, ValueIs DEF HasType

LEMMA Mixed ==
  ASSUME NEW d, NEW row, DOMAIN row = Indices(d), row = [n \in Indices(d) |-> row[n]],
         \A n \in Indices(d) : row[n] \in Values /\ HasType(d, n, row[n])
  PROVE  Typed(d, row)
  BY DEF Typed, Rows

LEMMA TypeScanStart ==
  ASSUME TypeInv, ScanStart PROVE TypeInv'
  <1>1. world \in Worlds /\ \A d \in Devices : DeviceType(d)
    BY DEF TypeInv
  <1>2. UNCHANGED <<world, reg, io, thr, air, up, dev, seen>> /\ Assign /\ ExecLink /\ Goto("exec")
    BY DEF ScanStart
  <1>3. ASSUME NEW d \in Devices
        PROVE  DOMAIN prog' = DOMAIN prog /\ BlockRow(d, prog'[d])
    <2>1. CASE UNCHANGED prog
      BY <1>1, <2>1 DEF DeviceType, DeviceRow
    <2>2. ASSUME NEW k \in 1..2, prog' = [e \in Devices |-> [prog[e] EXCEPT !.vals = Sampled(e, k)]]
          PROVE  DOMAIN prog' = DOMAIN prog /\ BlockRow(d, prog'[d])
      <3>1. DOMAIN prog' = DOMAIN prog /\ prog'[d] = [prog[d] EXCEPT !.vals = Sampled(d, k)]
        BY <2>2 DEF TypeInv, Shape
      <3>2. BlockRow(d, prog[d])
        BY <1>1 DEF DeviceType, DeviceRow
      <3> DEFINE row == Sampled(d, k)
      <3>3. row = [n \in Indices(d) |->
                     IF n \in OutputIndices(d) THEN Sample(FieldOf(d, n).type, k) ELSE prog[d].vals[n]]
        BY DEF Sampled
      <3>4. DOMAIN row = Indices(d) /\ row = [n \in Indices(d) |-> row[n]]
        BY <3>3, Zenon
      <3>5. ASSUME NEW n \in Indices(d) PROVE row[n] \in Values /\ HasType(d, n, row[n])
        <4>1. CASE n \in OutputIndices(d)
          <5>1. row[n] = Sample(FieldOf(d, n).type, k) /\ k \in 0..2
            BY <3>3, <4>1
          <5> QED
            BY <1>1, <4>1, <5>1, SampleIs
        <4>2. CASE n \notin OutputIndices(d)
          <5>1. row[n] = prog[d].vals[n]
            BY <3>3, <4>2
          <5> QED
            BY <3>2, <5>1 DEF BlockRow, Typed, Rows
        <4> QED
          BY <4>1, <4>2
      <3> HIDE DEF row
      <3>6. Typed(d, row)
        BY <3>4, <3>5, Mixed
      <3>7. prog'[d] = [prog[d] EXCEPT !.vals = row]
        BY <3>1 DEF row
      <3> QED
        BY <3>1, <3>2, <3>6, <3>7 DEF BlockRow
    <2> QED
      BY <1>2, <2>1, <2>2 DEF Assign
  <1>4. DOMAIN prog' = DOMAIN prog
    BY <1>2 DEF Assign, TypeInv, Shape
  <1>5. link' \in [open : BOOLEAN, conn : BOOLEAN, err : 0..3] /\ (faults' = faults \/ Fault)
    <2> DEFINE L == [open : BOOLEAN, conn : BOOLEAN, err : 0..3]
    <2>1. link \in L
      BY ScanIs
    <2>2. ASSUME NEW e \in 0..3 PROVE [link EXCEPT !.conn = FALSE, !.err = e] \in L
      <3> DEFINE l == [link EXCEPT !.conn = FALSE]
      <3>1. l \in L
        BY <2>1
      <3> HIDE DEF l
      <3>2. [l EXCEPT !.err = e] \in L
        BY <3>1
      <3> QED
        BY <3>2 DEF l
    <2>3. [open |-> TRUE, conn |-> TRUE, err |-> 0] \in L
      OBVIOUS
    <2>4. 1 \in 0..3 /\ 2 \in 0..3
      OBVIOUS
    <2> HIDE DEF L
    <2>5. CASE LinkUnconfigured
      BY <2>2, <2>4, <2>5 DEF LinkUnconfigured, L
    <2>6. CASE LinkOpens
      BY <2>3, <2>6 DEF LinkOpens, L
    <2>7. CASE LinkFails
      BY <2>2, <2>4, <2>7 DEF LinkFails, L
    <2>8. CASE UNCHANGED <<link, faults>>
      BY <2>1, <2>8 DEF L
    <2> QED
      BY <1>2, <2>5, <2>6, <2>7, <2>8 DEF ExecLink, LinkReports
  <1>6. ScanShape(scan')
    BY <1>2, GotoIs
  <1>7. Shape'
    BY <1>2, <1>4, <1>5, <1>6, ScanIs, ShapeKept
  <1>8. \A d \in Devices : DeviceRow(d, prog'[d], io'[d], seen'[d], dev'[d])
    BY <1>1, <1>2, <1>3 DEF DeviceType, DeviceRow
  <1>9. \A t \in Threads : ThreadRow(t, thr'[t], air'[t], up'[t], reg')
    BY <1>2 DEF TypeInv, ThreadType
  <1> QED
    BY <1>2, <1>7, <1>8, <1>9, TypeKept

LEMMA TypeExecRejected ==
  ASSUME TypeInv, ExecRejected PROVE TypeInv'
  <1>1. UNCHANGED <<world, link, reg, io, thr, air, up, dev, faults, seen>> /\ NextDevice
    BY DEF ExecRejected
  <1>2. Current \in Devices
    BY CurrentIs
  <1> DEFINE c == Current
             e == ConfigError(Current)
             p == [prog[c] EXCEPT !.conn = FALSE, !.err = e]
  <1>3. BlockRow(c, prog[c])
    BY <1>2 DEF TypeInv, DeviceType, DeviceRow
  <1>4. DOMAIN prog' = DOMAIN prog /\ prog'[c] = p /\ \A d \in Devices : d # c => prog'[d] = prog[d]
    <2>1. prog' = [prog EXCEPT ![c].conn = FALSE, ![c].err = e] /\ DOMAIN prog = Devices
      BY DEF ExecRejected, TypeInv, Shape
    <2> HIDE DEF c, e
    <2> QED
      BY <1>2, <2>1 DEF c
  <1>5. BlockRow(c, p)
    <2> DEFINE q == [prog[c] EXCEPT !.conn = FALSE]
    <2>1. DOMAIN q = {"vals", "conn", "err"} /\ q.vals = prog[c].vals /\ q.conn = FALSE
      BY <1>3 DEF BlockRow
    <2> HIDE DEF q, e
    <2>2. DOMAIN [q EXCEPT !.err = e] = {"vals", "conn", "err"} /\ [q EXCEPT !.err = e].vals = q.vals
          /\ [q EXCEPT !.err = e].conn = q.conn
      BY <2>1
    <2>3. q.conn \in BOOLEAN
      BY <2>1, Zenon
    <2>4. p = [q EXCEPT !.err = e]
      BY DEF q
    <2> QED
      BY <1>3, <2>1, <2>2, <2>3, <2>4 DEF BlockRow
  <1> HIDE DEF c, p
  <1>6. \A d \in Devices : BlockRow(d, prog'[d])
    BY <1>4, <1>5 DEF TypeInv, DeviceType, DeviceRow
  <1>7. Shape'
    BY <1>1, <1>4, NextDeviceIs, ScanIs, ShapeKept
  <1>8. \A d \in Devices : DeviceRow(d, prog'[d], io'[d], seen'[d], dev'[d])
    BY <1>1, <1>6 DEF TypeInv, DeviceType, DeviceRow
  <1>9. \A t \in Threads : ThreadRow(t, thr'[t], air'[t], up'[t], reg')
    BY <1>1 DEF TypeInv, ThreadType
  <1> QED
    BY <1>1, <1>7, <1>8, <1>9, TypeKept

LEMMA TypeExecQueue ==
  ASSUME TypeInv, ExecQueue PROVE TypeInv'
  <1>1. UNCHANGED <<world, prog, link, reg, thr, air, up, dev, faults, seen>>
    BY DEF ExecQueue
  <1>2. Current \in Devices
    BY CurrentIs
  <1>3. Dev(Current).proto # "sim"
    BY ScanIs DEF ExecQueue, At, ScanShape, Current
  <1> DEFINE c == Current
             w == IF Dev(c).proto = "upp" THEN QueueChanges(c) ELSE QueueOutputs(c)
  <1>4. BlockRow(c, prog[c]) /\ SharedRow(c, io[c])
    BY <1>2 DEF TypeInv, DeviceType, DeviceRow
  <1>5. Pending(c, w)
    <2>1. DOMAIN w = Indices(c) /\ w = [n \in Indices(c) |-> w[n]]
      BY DEF QueueChanges, QueueOutputs
    <2>2. \A n \in Indices(c) : w[n] = prog[c].vals[n] \/ w[n] = io[c].write[n]
      BY DEF QueueChanges, QueueOutputs
    <2> HIDE DEF w, c
    <2>3. Typed(c, prog[c].vals) /\ Pending(c, io[c].write)
      BY <1>4 DEF BlockRow, SharedRow
    <2>4. \A n \in Indices(c) : w[n] \in Values
      BY <2>2, <2>3 DEF Typed, Pending, Rows
    <2>5. w \in Rows(c)
      BY <2>1, <2>4 DEF Rows
    <2> QED
      BY <2>2, <2>3, <2>5 DEF Pending, Typed
  <1>6. CASE Poisoned(Current)
    <2>1. UNCHANGED io /\ Goto("dead")
      BY <1>6 DEF ExecQueue
    <2>2. ScanShape(scan')
      BY <2>1, GotoIs
    <2>3. Shape'
      BY <1>1, <2>1, <2>2, ScanIs, ShapeKept
    <2>4. \A d \in Devices : DeviceRow(d, prog'[d], io'[d], seen'[d], dev'[d])
      BY <1>1, <2>1 DEF TypeInv, DeviceType
    <2>5. \A t \in Threads : ThreadRow(t, thr'[t], air'[t], up'[t], reg')
      BY <1>1 DEF TypeInv, ThreadType
    <2> QED
      BY <1>1, <2>3, <2>4, <2>5, TypeKept
  <1>7. CASE ~Poisoned(Current)
    <2>1. io' = [io EXCEPT ![c].write = w] /\ Goto("copy") /\ DOMAIN io = Devices
      BY <1>7 DEF ExecQueue, TypeInv, Shape
    <2>2. ScanShape(scan')
      BY <1>3, <2>1, GotoIs
    <2> HIDE DEF c, w
    <2>3. DOMAIN io' = DOMAIN io /\ io'[c] = [io[c] EXCEPT !.write = w] /\ \A d \in Devices : d # c => io'[d] = io[d]
      BY <1>2, <2>1 DEF c
    <2>4. SharedRow(c, io'[c])
      <3> DEFINE i == io[c]
                 j == [i EXCEPT !.write = w]
      <3>1. DOMAIN j = {"read", "write", "conn", "err"} /\ j.read = i.read /\ j.write = w /\ j.conn = i.conn /\ j.err = i.err
        BY <1>4 DEF SharedRow
      <3> HIDE DEF i, j
      <3>2. SharedRow(c, j)
        BY <1>4, <1>5, <3>1 DEF SharedRow, i
      <3> QED
        BY <2>3, <3>2 DEF i, j
    <2>5. Shape'
      BY <1>1, <2>2, <2>3, ScanIs, ShapeKept
    <2>6. \A d \in Devices : DeviceRow(d, prog'[d], io'[d], seen'[d], dev'[d])
      BY <1>1, <2>3, <2>4 DEF TypeInv, DeviceType, DeviceRow
    <2>7. \A t \in Threads : ThreadRow(t, thr'[t], air'[t], up'[t], reg')
      BY <1>1 DEF TypeInv, ThreadType
    <2> QED
      BY <1>1, <2>5, <2>6, <2>7, TypeKept
  <1> QED
    BY <1>6, <1>7

LEMMA TypeExecCopy ==
  ASSUME TypeInv, ExecCopy PROVE TypeInv'
  <1>1. UNCHANGED <<world, link, reg, io, thr, air, up, dev, faults, seen>>
    BY DEF ExecCopy
  <1>2. Current \in Devices
    BY CurrentIs
  <1> DEFINE c == Current
             v == IF Dev(c).proto = "upp" THEN CopyAll(c) ELSE CopyInputs(c)
             x == io[c].conn
             e == io[c].err
             p == [vals |-> v, conn |-> x, err |-> e]
  <1>3. BlockRow(c, prog[c]) /\ SharedRow(c, io[c])
    BY <1>2 DEF TypeInv, DeviceType, DeviceRow
  <1>4. Typed(c, prog[c].vals) /\ Typed(c, io[c].read) /\ x \in BOOLEAN
    BY <1>3 DEF BlockRow, SharedRow
  <1>5. Typed(c, v)
    <2>1. CASE Dev(c).proto = "upp"
      BY <1>4, <2>1 DEF CopyAll
    <2>2. CASE Dev(c).proto # "upp"
      <3> DEFINE r == CopyInputs(c)
      <3>1. DOMAIN r = Indices(c) /\ r = [n \in Indices(c) |-> r[n]]
        BY DEF CopyInputs
      <3>2. \A n \in Indices(c) : r[n] = prog[c].vals[n] \/ r[n] = io[c].read[n]
        BY DEF CopyInputs
      <3> HIDE DEF r, c
      <3>3. \A n \in Indices(c) : r[n] \in Values /\ HasType(c, n, r[n])
        BY <1>4, <3>2 DEF Typed, Rows
      <3>4. Typed(c, r)
        BY <3>1, <3>3, Mixed
      <3> QED
        BY <2>2, <3>4 DEF r
    <2> QED
      BY <2>1, <2>2
  <1>6. CASE Poisoned(Current)
    <2>1. UNCHANGED prog /\ Goto("dead")
      BY <1>6 DEF ExecCopy
    <2>2. ScanShape(scan')
      BY <2>1, GotoIs
    <2>3. Shape'
      BY <1>1, <2>1, <2>2, ScanIs, ShapeKept
    <2>4. \A d \in Devices : DeviceRow(d, prog'[d], io'[d], seen'[d], dev'[d])
      BY <1>1, <2>1 DEF TypeInv, DeviceType
    <2>5. \A t \in Threads : ThreadRow(t, thr'[t], air'[t], up'[t], reg')
      BY <1>1 DEF TypeInv, ThreadType
    <2> QED
      BY <1>1, <2>3, <2>4, <2>5, TypeKept
  <1>7. CASE ~Poisoned(Current)
    <2>1. prog' = [prog EXCEPT ![c] = p] /\ NextDevice /\ DOMAIN prog = Devices
      BY <1>7 DEF ExecCopy, TypeInv, Shape
    <2>2. ScanShape(scan')
      BY <2>1, NextDeviceIs
    <2> HIDE DEF v, x, e
    <2>3. BlockRow(c, p)
      BY <1>4, <1>5 DEF BlockRow
    <2> HIDE DEF c, p
    <2>4. DOMAIN prog' = DOMAIN prog /\ prog'[c] = p /\ \A d \in Devices : d # c => prog'[d] = prog[d]
      BY <1>2, <2>1 DEF c
    <2>5. Shape'
      BY <1>1, <2>2, <2>4, ScanIs, ShapeKept
    <2>6. \A d \in Devices : DeviceRow(d, prog'[d], io'[d], seen'[d], dev'[d])
      BY <1>1, <2>3, <2>4 DEF TypeInv, DeviceType, DeviceRow
    <2>7. \A t \in Threads : ThreadRow(t, thr'[t], air'[t], up'[t], reg')
      BY <1>1 DEF TypeInv, ThreadType
    <2> QED
      BY <1>1, <2>5, <2>6, <2>7, TypeKept
  <1> QED
    BY <1>6, <1>7

LEMMA TypeExecSimulated ==
  ASSUME TypeInv, ExecSimulated PROVE TypeInv'
  <1>1. UNCHANGED <<world, link, reg, io, thr, air, up, faults, seen>> /\ NextDevice
    BY DEF ExecSimulated
  <1>2. Current \in Devices /\ world \in Worlds
    BY CurrentIs DEF TypeInv
  <1> DEFINE c == Current
             v == SimulatedInputs(c)
             o == SimulatedOutputs(c, v)
             p == [vals |-> v, conn |-> TRUE, err |-> 0]
  <1>3. BlockRow(c, prog[c]) /\ dev[c] \in [Cells(c) -> Content(c)] /\ Content(c) = Int
    BY <1>2 DEF TypeInv, DeviceType, DeviceRow, Content, ExecSimulated
  <1>4. Typed(c, v)
    <2>1. v = [n \in Indices(c) |->
                 IF n \in InputIndices(c) THEN Value(VarType(FieldOf(c, n).type), dev[c][CellOf(c, n)])
                 ELSE prog[c].vals[n]]
      BY DEF SimulatedInputs
    <2>2. DOMAIN v = Indices(c) /\ v = [n \in Indices(c) |-> v[n]]
      BY <2>1, Zenon
    <2> HIDE DEF v, c
    <2>3. ASSUME NEW n \in Indices(c) PROVE v[n] \in Values /\ HasType(c, n, v[n])
      <3>1. CASE n \in InputIndices(c)
        <4> DEFINE x == dev[c][CellOf(c, n)]
        <4>1. x \in Int
          BY <1>3 DEF Cells
        <4>2. v[n] = Value(VarType(FieldOf(c, n).type), x)
          BY <2>1, <3>1
        <4>3. VarType(FieldOf(c, n).type) \in Tags
          BY VarTypeIs
        <4> HIDE DEF x
        <4> QED
          BY <4>1, <4>2, <4>3, ValueIs DEF HasType
      <3>2. CASE n \notin InputIndices(c)
        <4>1. v[n] = prog[c].vals[n]
          BY <2>1, <3>2
        <4> QED
          BY <1>3, <4>1 DEF BlockRow, Typed, Rows
      <3> QED
        BY <3>1, <3>2
    <2> QED
      BY <2>2, <2>3, Mixed
  <1>5. o \in [Cells(c) -> Content(c)]
    <2> HIDE DEF v, c
    <2>1. o = [x \in Cells(c) |->
                IF (CHOOSE k \in Indices(c) : CellOf(c, k) = x) \in OutputIndices(c)
                THEN v[CHOOSE k \in Indices(c) : CellOf(c, k) = x].v ELSE dev[c][x]]
      BY <1>3 DEF SimulatedOutputs
    <2>2. ASSUME NEW n \in Indices(c) PROVE v[n].v \in Int
      BY <1>4 DEF Typed, HasType
    <2>3. ASSUME NEW x \in Cells(c)
          PROVE  (IF (CHOOSE k \in Indices(c) : CellOf(c, k) = x) \in OutputIndices(c)
                  THEN v[CHOOSE k \in Indices(c) : CellOf(c, k) = x].v ELSE dev[c][x]) \in Int
      <3> DEFINE n == CHOOSE k \in Indices(c) : CellOf(c, k) = x
      <3>1. n \in Indices(c)
        BY DEF Cells
      <3> HIDE DEF n
      <3>2. (IF n \in OutputIndices(c) THEN v[n].v ELSE dev[c][x]) \in Int
        BY <1>3, <2>2, <3>1
      <3> QED
        BY <3>2 DEF n
    <2> QED
      BY <1>3, <2>1, <2>3
  <1>6. /\ prog' = [prog EXCEPT ![c] = p] /\ DOMAIN prog = Devices
        /\ dev' = [dev EXCEPT ![c] = o] /\ DOMAIN dev = Devices
    BY DEF ExecSimulated, TypeInv, Shape
  <1> HIDE DEF v, o
  <1>7. BlockRow(c, p)
    <2>1. DOMAIN p = {"vals", "conn", "err"} /\ p.vals = v /\ p.conn = TRUE
      OBVIOUS
    <2>2. p.conn \in BOOLEAN
      BY <2>1, Zenon
    <2> QED
      BY <1>4, <2>1, <2>2 DEF BlockRow
  <1> HIDE DEF c, p
  <1>8. /\ DOMAIN prog' = DOMAIN prog /\ prog'[c] = p /\ \A d \in Devices : d # c => prog'[d] = prog[d]
        /\ DOMAIN dev' = DOMAIN dev /\ dev'[c] = o /\ \A d \in Devices : d # c => dev'[d] = dev[d]
    BY <1>2, <1>6 DEF c
  <1>9. Shape'
    BY <1>1, <1>8, NextDeviceIs, ScanIs, ShapeKept
  <1>10. \A d \in Devices : DeviceRow(d, prog'[d], io'[d], seen'[d], dev'[d])
    BY <1>1, <1>5, <1>7, <1>8 DEF TypeInv, DeviceType, DeviceRow
  <1>11. \A t \in Threads : ThreadRow(t, thr'[t], air'[t], up'[t], reg')
    BY <1>1 DEF TypeInv, ThreadType
  <1> QED
    BY <1>1, <1>9, <1>10, <1>11, TypeKept

LEMMA TypeSetInput ==
  ASSUME TypeInv, SetInput PROVE TypeInv'
  <1>1. PICK c \in Devices, x \in {0, 1} :
          /\ Dev(c).proto = "sim"
          /\ \E n \in InputIndices(c) : dev' = [dev EXCEPT ![c][CellOf(c, n)] = x]
          /\ UNCHANGED <<world, scan, prog, link, reg, io, thr, air, up, faults, seen>>
    BY DEF SetInput
  <1>2. PICK n \in InputIndices(c) : dev' = [dev EXCEPT ![c][CellOf(c, n)] = x]
    BY <1>1
  <1>3. dev[c] \in [Cells(c) -> Content(c)] /\ Content(c) = Int /\ DOMAIN dev = Devices
    BY <1>1 DEF TypeInv, DeviceType, DeviceRow, Content, Shape
  <1>4. DOMAIN dev' = DOMAIN dev /\ dev'[c] = [dev[c] EXCEPT ![CellOf(c, n)] = x]
        /\ \A d \in Devices : d # c => dev'[d] = dev[d]
    BY <1>2, <1>3
  <1>5. dev'[c] \in [Cells(c) -> Content(c)]
    <2> DEFINE v == dev[c]
               e == CellOf(c, n)
    <2>1. v \in [Cells(c) -> Int] /\ x \in Int
      BY <1>3
    <2> HIDE DEF v, e
    <2>2. [v EXCEPT ![e] = x] \in [Cells(c) -> Int]
      BY <2>1
    <2> QED
      BY <1>3, <1>4, <2>2 DEF v, e
  <1>6. Shape'
    BY <1>1, <1>4, ScanIs, ShapeKept
  <1>7. \A d \in Devices : DeviceRow(d, prog'[d], io'[d], seen'[d], dev'[d])
    BY <1>1, <1>4, <1>5 DEF TypeInv, DeviceType, DeviceRow
  <1>8. \A t \in Threads : ThreadRow(t, thr'[t], air'[t], up'[t], reg')
    BY <1>1 DEF TypeInv, ThreadType
  <1> QED
    BY <1>1, <1>6, <1>7, <1>8, TypeKept

\* A thread that is between polls and moves to another place there.
LEMMA MovesBetween ==
  ASSUME NEW t, NEW th, NEW x, NEW a, NEW u, NEW R, ThreadRow(t, th, a, u, R), th.pc \in Between,
         DOMAIN x = ThreadFields, x.pc \in Between, x.dev = th.dev, x.own = th.own,
         x.readErr = th.readErr, x.writeErr = th.writeErr
  PROVE  ThreadRow(t, x, a, u, R)
  BY DEF ThreadRow, Between, Busy

LEMMA MoreRegistered ==
  ASSUME NEW t, NEW th, NEW a, NEW u, NEW R, NEW Q, R \subseteq Q, ThreadRow(t, th, a, u, R)
  PROVE  ThreadRow(t, th, a, u, Q)
  BY DEF ThreadRow, Polls

LEMMA TypeExecRegister ==
  ASSUME TypeInv, ExecRegister PROVE TypeInv'
  <1>1. UNCHANGED <<world, prog, link, io, air, up, dev, faults, seen>> /\ Current \notin reg
        /\ Dev(Current).proto # "sim"
    BY DEF ExecRegister
  <1>2. Current \in Devices /\ world \in Worlds /\ DOMAIN thr = Threads
    BY CurrentIs DEF TypeInv, Shape
  <1> DEFINE c == Current
             t == ThreadOf(c)
  <1>3. t \in Threads /\ ThreadRow(t, thr[t], air[t], up[t], reg)
    BY <1>1, <1>2, ThreadIs DEF TypeInv, ThreadType
  <1>4. DOMAIN thr[t] = ThreadFields
    BY <1>3 DEF ThreadRow
  <1>5. \A d \in Devices : DeviceRow(d, prog'[d], io'[d], seen'[d], dev'[d])
    BY <1>1 DEF TypeInv, DeviceType
  <1>6. CASE UNCHANGED <<reg, thr>> /\ Goto("dead")
    <2>1. ScanShape(scan')
      BY <1>6, GotoIs
    <2>2. Shape'
      BY <1>1, <1>6, <2>1, ScanIs, ShapeKept
    <2>3. \A s \in Threads : ThreadRow(s, thr'[s], air'[s], up'[s], reg')
      BY <1>1, <1>6 DEF TypeInv, ThreadType
    <2> QED
      BY <1>1, <1>5, <2>2, <2>3, TypeKept
  <1>7. ASSUME reg' = reg \cup {c}, Goto("queue"), NEW pc, thr' = [thr EXCEPT ![t].pc = pc],
               \/ pc = thr[t].pc
               \/ pc \in Between /\ thr[t].pc \in Between
        PROVE  TypeInv'
    <2>1. ScanShape(scan')
      BY <1>1, <1>7, GotoIs
    <2>2. reg' \subseteq {d \in Devices : Dev(d).proto # "sim"}
      BY <1>1, <1>2, <1>7, ScanIs
    <2> DEFINE x == [thr[t] EXCEPT !.pc = pc]
    <2> HIDE DEF t
    <2>3. DOMAIN thr' = DOMAIN thr /\ thr'[t] = x /\ \A s \in Threads : s # t => thr'[s] = thr[s]
      BY <1>2, <1>3, <1>7
    <2>4. Shape'
      BY <1>1, <2>1, <2>2, <2>3, ScanIs, ShapeKept
    <2>5. /\ DOMAIN x = ThreadFields /\ x.pc = pc /\ x.dev = thr[t].dev /\ x.own = thr[t].own
          /\ x.readErr = thr[t].readErr /\ x.writeErr = thr[t].writeErr
      BY <1>4 DEF ThreadFields
    <2>6. ThreadRow(t, x, air[t], up[t], reg)
      <3>1. CASE pc = thr[t].pc
        <4>1. x.ops = thr[t].ops /\ x.snap = thr[t].snap /\ x.news = thr[t].news
          BY <1>4 DEF ThreadFields
        <4> HIDE DEF x
        <4> QED
          BY <1>3, <2>5, <3>1, <4>1 DEF ThreadRow, Polls
      <3>2. CASE pc \in Between /\ thr[t].pc \in Between
        <4> HIDE DEF x
        <4> QED
          BY <1>3, <2>5, <3>2, MovesBetween
      <3> QED
        BY <1>7, <3>1, <3>2
    <2> HIDE DEF x
    <2>7. ASSUME NEW s \in Threads PROVE ThreadRow(s, thr'[s], air'[s], up'[s], reg')
      <3>1. ThreadRow(s, thr'[s], air[s], up[s], reg)
        BY <2>3, <2>6 DEF TypeInv, ThreadType
      <3> QED
        BY <1>1, <1>7, <3>1, MoreRegistered
    <2> QED
      BY <1>1, <1>5, <2>4, <2>7, TypeKept
  <1>8. CASE Serial(c)
    <2>1. t = Bus
      BY <1>8 DEF ThreadOf
    <2>2. RegisterSerial(c)
      BY <1>8 DEF ExecRegister
    <2>3. CASE thr[Bus].pc = "dead"
      BY <1>6, <2>2, <2>3 DEF RegisterSerial
    <2>4. CASE thr[Bus].pc # "dead"
      <3> DEFINE pc == IF thr[t].pc = "off" THEN "wait" ELSE thr[t].pc
      <3>1. /\ reg' = reg \cup {c} /\ Goto("queue")
            /\ thr' = [thr EXCEPT ![t].pc = pc]
        BY <2>1, <2>2, <2>4 DEF RegisterSerial
      <3>2. \/ pc = thr[t].pc
            \/ pc \in Between /\ thr[t].pc \in Between
        BY DEF Between
      <3> HIDE DEF pc
      <3> QED
        BY <1>7, <3>1, <3>2
    <2> QED
      BY <2>3, <2>4
  <1>9. CASE ~Serial(c)
    <2>1. t = c
      BY <1>9 DEF ThreadOf
    <2>2. StartTcp(c)
      BY <1>9 DEF ExecRegister
    <2>3. thr[t].pc \in Between
      <3> SUFFICES ASSUME thr[t].pc \notin Between PROVE FALSE
        OBVIOUS
      <3>1. thr[t].dev \in Devices /\ thr[t].dev \in reg /\ ThreadOf(thr[t].dev) = t
        BY <1>3 DEF ThreadRow, Polls
      <3>2. t # Bus
        BY <1>2, <2>1, DeviceIs DEF Bus
      <3>3. thr[t].dev = c
        BY <1>2, <2>1, <3>1, <3>2, ThreadIs
      <3> QED
        BY <1>1, <3>1, <3>3
    <2>4. "idle" \in Between
      BY DEF Between
    <2>5. reg' = reg \cup {c} /\ Goto("queue") /\ thr' = [thr EXCEPT ![t].pc = "idle"]
      BY <2>1, <2>2 DEF StartTcp
    <2> QED
      BY <1>7, <2>3, <2>4, <2>5
  <1> QED
    BY <1>8, <1>9

-----------------------------------------------------------------------------
(* Types: the I/O threads *)

\* A step of thread t that touches its own state and that of one device.
LEMMA ThreadMoves1 ==
  ASSUME TypeInv, UNCHANGED <<world, scan, prog, link, reg>>, NEW t \in Threads,
         DOMAIN io' = DOMAIN io, DOMAIN seen' = DOMAIN seen, DOMAIN dev' = DOMAIN dev,
         DOMAIN thr' = DOMAIN thr, DOMAIN air' = DOMAIN air, DOMAIN up' = DOMAIN up,
         faults' = faults \/ Fault,
         \A d \in Devices : /\ SharedRow(d, io'[d]) /\ SeenRow(d, seen'[d])
                            /\ dev'[d] \in [Cells(d) -> Content(d)],
         \A s \in Threads : s # t => thr'[s] = thr[s] /\ air'[s] = air[s] /\ up'[s] = up[s],
         ThreadRow(t, thr'[t], air'[t], up'[t], reg)
  PROVE  TypeInv'
  <1>1. ScanShape(scan')
    BY ScanIs
  <1>2. Shape'
    BY <1>1, ScanIs, ShapeKept
  <1>3. \A d \in Devices : DeviceRow(d, prog'[d], io'[d], seen'[d], dev'[d])
    BY DEF TypeInv, DeviceType, DeviceRow
  <1>4. \A s \in Threads : ThreadRow(s, thr'[s], air'[s], up'[s], reg')
    BY DEF TypeInv, ThreadType
  <1> QED
    BY <1>2, <1>3, <1>4, TypeKept

LEMMA RowsOf ==
  ASSUME TypeInv
  PROVE  /\ world \in Worlds
         /\ \A d \in Devices : /\ SharedRow(d, io[d]) /\ SeenRow(d, seen[d])
                               /\ dev[d] \in [Cells(d) -> Content(d)]
         /\ \A t \in Threads : ThreadRow(t, thr[t], air[t], up[t], reg)
         /\ DOMAIN io = Devices /\ DOMAIN seen = Devices /\ DOMAIN dev = Devices
         /\ DOMAIN thr = Threads /\ DOMAIN air = Threads /\ DOMAIN up = Threads /\ Bus \in Threads
         /\ reg \subseteq Devices /\ \A d \in reg : Dev(d).proto # "sim"
  BY ThreadIs DEF TypeInv, Shape, DeviceType, DeviceRow, ThreadType

LEMMA TypeBusStep ==
  ASSUME TypeInv, BusStep PROVE TypeInv'
  <1>1. UNCHANGED <<world, scan, prog, link, reg, io, air, up, dev, faults, seen>>
    BY DEF BusStep, BusStart, BusRound, SkipDevice, RoundEnd
  <1> DEFINE th == thr[Bus]
  <1>2. Bus \in Threads /\ DOMAIN thr = Threads /\ ThreadRow(Bus, th, air[Bus], up[Bus], reg)
    BY RowsOf
  <1>3. DOMAIN th = ThreadFields
    BY <1>2 DEF ThreadRow
  <1>4. ASSUME NEW x, thr' = [thr EXCEPT ![Bus] = x], DOMAIN x = ThreadFields, th.pc \in Between, x.pc \in Between,
               x.dev = th.dev, x.own = th.own, x.readErr = th.readErr, x.writeErr = th.writeErr
        PROVE  TypeInv'
    <2>1. DOMAIN thr' = DOMAIN thr /\ thr'[Bus] = x /\ \A s \in Threads : s # Bus => thr'[s] = thr[s]
      BY <1>2, <1>4
    <2>2. ThreadRow(Bus, x, air[Bus], up[Bus], reg)
      BY <1>2, <1>4, MovesBetween
    <2> QED
      BY <1>1, <1>2, <2>1, <2>2, RowsOf, ThreadMoves1
  <1>5. CASE BusStart
    <2> DEFINE x == [th EXCEPT !.pc = "idle"]
    <2>1. thr' = [thr EXCEPT ![Bus] = x] /\ th.pc \in Between
      BY <1>5 DEF BusStart, Between
    <2>2. DOMAIN x = ThreadFields /\ x.pc \in Between /\ x.dev = th.dev /\ x.own = th.own
          /\ x.readErr = th.readErr /\ x.writeErr = th.writeErr
      BY <1>3 DEF ThreadFields, Between
    <2> HIDE DEF x, th
    <2> QED
      BY <1>4, <2>1, <2>2
  <1>6. CASE BusRound
    <2> DEFINE l == SelectSeq(world.order, LAMBDA d : d \in reg /\ Serial(d))
               x == [th EXCEPT !.pc = "round", !.left = l]
    <2>1. thr' = [thr EXCEPT ![Bus].pc = "round", ![Bus].left = l] /\ th.pc \in Between
      BY <1>6 DEF BusRound, Between
    <2> HIDE DEF l
    <2>2. thr' = [thr EXCEPT ![Bus] = x]
      BY <1>2, <2>1
    <2>3. DOMAIN x = ThreadFields /\ x.pc \in Between /\ x.dev = th.dev /\ x.own = th.own
          /\ x.readErr = th.readErr /\ x.writeErr = th.writeErr
      BY <1>3 DEF ThreadFields, Between
    <2> HIDE DEF x, th
    <2> QED
      BY <1>4, <2>1, <2>2, <2>3
  <1>7. CASE SkipDevice
    <2> DEFINE l == Tail(th.left)
               x == [th EXCEPT !.left = l]
    <2>1. thr' = [thr EXCEPT ![Bus] = x] /\ th.pc \in Between
      BY <1>7 DEF SkipDevice, Between
    <2> HIDE DEF l
    <2>2. DOMAIN x = ThreadFields /\ x.pc = th.pc /\ x.dev = th.dev /\ x.own = th.own
          /\ x.readErr = th.readErr /\ x.writeErr = th.writeErr
      BY <1>3 DEF ThreadFields
    <2> HIDE DEF x, th
    <2> QED
      BY <1>4, <2>1, <2>2
  <1>8. CASE RoundEnd
    <2> DEFINE x == [th EXCEPT !.pc = IF th.any THEN "idle" ELSE "sleep", !.any = FALSE]
    <2>1. thr' = [thr EXCEPT ![Bus] = x] /\ th.pc \in Between
      BY <1>2, <1>3, <1>8 DEF RoundEnd, Between, ThreadFields
    <2>2. DOMAIN x = ThreadFields /\ x.pc \in Between /\ x.dev = th.dev /\ x.own = th.own
          /\ x.readErr = th.readErr /\ x.writeErr = th.writeErr
      BY <1>3 DEF ThreadFields, Between
    <2> HIDE DEF x, th
    <2> QED
      BY <1>4, <2>1, <2>2
  <1> QED
    BY <1>5, <1>6, <1>7, <1>8 DEF BusStep

LEMMA TypeTcpConnect ==
  ASSUME TypeInv, NEW t \in Threads, TcpConnect(t) PROVE TypeInv'
  <1>1. UNCHANGED <<world, scan, prog, link, reg, thr, air, dev, seen>> /\ t # Bus
    BY DEF TcpConnect
  <1>2. t \in Devices /\ ThreadRow(t, thr[t], air[t], up[t], reg) /\ SharedRow(t, io[t])
    BY <1>1, RowsOf, ThreadIs
  <1>3. CASE up' = [up EXCEPT ![t] = TRUE] /\ UNCHANGED <<io, faults>>
    <2>1. DOMAIN up' = DOMAIN up /\ up'[t] = TRUE /\ \A s \in Threads : s # t => up'[s] = up[s]
      BY <1>3, RowsOf
    <2>2. up'[t] \in BOOLEAN
      BY <2>1, Zenon
    <2>3. ThreadRow(t, thr[t], air[t], up'[t], reg)
      BY <1>2, <2>2 DEF ThreadRow
    <2> QED
      BY <1>1, <1>3, <2>1, <2>3, RowsOf, ThreadMoves1
  <1>4. CASE io' = [io EXCEPT ![t].conn = FALSE, ![t].err = 2] /\ Fault /\ UNCHANGED up
    <2> DEFINE i == [io[t] EXCEPT !.conn = FALSE]
               j == [i EXCEPT !.err = 2]
    <2>1. DOMAIN io' = DOMAIN io /\ io'[t] = j /\ \A d \in Devices : d # t => io'[d] = io[d]
      BY <1>2, <1>4, RowsOf
    <2>2. DOMAIN i = {"read", "write", "conn", "err"} /\ i.read = io[t].read /\ i.write = io[t].write /\ i.conn = FALSE
      BY <1>2 DEF SharedRow
    <2> HIDE DEF i
    <2>3. DOMAIN j = {"read", "write", "conn", "err"} /\ j.read = io[t].read /\ j.write = io[t].write /\ j.conn = i.conn
      BY <2>2
    <2> HIDE DEF j
    <2>4. j.conn \in BOOLEAN /\ ~j.conn
      BY <2>2, <2>3, Zenon
    <2>5. SharedRow(t, j)
      BY <1>2, <2>3, <2>4 DEF SharedRow
    <2> QED
      BY <1>1, <1>2, <1>4, <2>1, <2>5, RowsOf, ThreadMoves1
  <1> QED
    BY <1>3, <1>4 DEF TcpConnect

LEMMA PollStartIs ==
  ASSUME TypeInv, NEW d \in Devices, PollStart(d)
  PROVE  LET t == ThreadOf(d)
             x == thr'[t]
         IN /\ d \in reg /\ t \in Threads /\ Dev(d).proto # "sim"
            /\ UNCHANGED <<world, scan, prog, link, reg, air, up, dev, faults>>
            /\ thr[t].pc \in {"round", "idle"} /\ thr[t].dev = "none"
            /\ DOMAIN thr' = DOMAIN thr /\ \A s \in Threads : s # t => thr'[s] = thr[s]
            /\ DOMAIN x = ThreadFields /\ x.pc = Step(Requests(d)) /\ x.dev = d /\ x.ops = Requests(d)
            /\ x.snap = io[d].write /\ x.news = [n \in Indices(d) |-> None]
            /\ x.readErr = ErrOk /\ x.writeErr = ErrOk /\ x.own = TRUE /\ x.left = thr[t].left /\ x.denied = {}
            /\ DOMAIN io' = DOMAIN io /\ DOMAIN seen' = DOMAIN seen
            /\ \A e \in Devices : e # d => io'[e] = io[e] /\ seen'[e] = seen[e]
            /\ DOMAIN io'[d] = {"read", "write", "conn", "err"} /\ io'[d].read = io[d].read
            /\ io'[d].conn = io[d].conn /\ io'[d].err = io[d].err
            /\ io'[d].write = IF Dev(d).proto = "upp" THEN [n \in Indices(d) |-> None] ELSE io[d].write
            /\ DOMAIN seen'[d] = {"got", "own"} /\ seen'[d].got = {} /\ seen'[d].own = seen[d].own
  <1> DEFINE t == ThreadOf(d)
             th == thr[t]
             x == thr'[t]
             q == Requests(d)
             pc == Step(q)
             none == [n \in Indices(d) |-> None]
             w == io[d].write
             y == [th EXCEPT !.pc = pc, !.dev = d, !.ops = q, !.snap = w, !.news = none,
                             !.readErr = ErrOk, !.writeErr = ErrOk, !.try = 1, !.own = TRUE, !.denied = {}]
  <1>1. d \in reg /\ Dev(d).proto # "sim" /\ t \in Threads /\ UNCHANGED <<world, scan, prog, link, reg, air, up, dev, faults>>
    BY RowsOf, ThreadIs DEF PollStart
  <1>2. ThreadRow(t, th, air[t], up[t], reg) /\ DOMAIN thr = Threads
    BY <1>1, RowsOf
  <1>3. th.pc \in {"round", "idle"} /\ th.dev = "none" /\ DOMAIN th = ThreadFields
    BY <1>2 DEF PollStart, ThreadRow, Between
  <1>4. thr' = [thr EXCEPT ![t] = y]
    BY DEF PollStart
  <1>5. io' = IF Dev(d).proto = "upp" THEN [io EXCEPT ![d].write = none] ELSE io
    BY DEF PollStart
  <1>6. seen' = [seen EXCEPT ![d].got = {}]
    BY DEF PollStart
  <1>7. /\ DOMAIN io = Devices /\ DOMAIN seen = Devices
        /\ DOMAIN io[d] = {"read", "write", "conn", "err"} /\ DOMAIN seen[d] = {"got", "own"}
    BY RowsOf DEF SharedRow, SeenRow
  <1> HIDE DEF t, th, q, pc, none, w
  <1>8. /\ DOMAIN y = ThreadFields /\ y.pc = pc /\ y.dev = d /\ y.ops = q /\ y.snap = w /\ y.news = none
        /\ y.readErr = ErrOk /\ y.writeErr = ErrOk /\ y.own = TRUE /\ y.left = th.left /\ y.denied = {}
    BY <1>3 DEF ThreadFields
  <1> HIDE DEF y
  <1>9. DOMAIN thr' = DOMAIN thr /\ thr'[t] = y /\ \A s \in Threads : s # t => thr'[s] = thr[s]
    BY <1>1, <1>2, <1>4
  <1>10. /\ DOMAIN io' = DOMAIN io /\ \A e \in Devices : e # d => io'[e] = io[e]
         /\ DOMAIN io'[d] = {"read", "write", "conn", "err"} /\ io'[d].read = io[d].read
         /\ io'[d].conn = io[d].conn /\ io'[d].err = io[d].err
         /\ io'[d].write = IF Dev(d).proto = "upp" THEN none ELSE io[d].write
    BY <1>5, <1>7
  <1>11. /\ DOMAIN seen' = DOMAIN seen /\ \A e \in Devices : e # d => seen'[e] = seen[e]
         /\ DOMAIN seen'[d] = {"got", "own"} /\ seen'[d].got = {} /\ seen'[d].own = seen[d].own
    BY <1>6, <1>7
  <1> QED
    BY <1>1, <1>3, <1>8, <1>9, <1>10, <1>11 DEF t, th, q, pc, none, w

LEMMA TypePollStart ==
  ASSUME TypeInv, NEW d \in Devices, PollStart(d) PROVE TypeInv'
  <1> DEFINE t == ThreadOf(d)
             x == thr'[t]
  <1>1. /\ d \in reg /\ t \in Threads /\ Dev(d).proto # "sim" /\ UNCHANGED <<world, scan, prog, link, reg, air, up, dev, faults>>
        /\ DOMAIN thr' = DOMAIN thr /\ \A s \in Threads : s # t => thr'[s] = thr[s]
    BY PollStartIs
  <1>2. /\ DOMAIN x = ThreadFields /\ x.pc = Step(Requests(d)) /\ x.dev = d /\ x.ops = Requests(d)
        /\ x.snap = io[d].write /\ x.news = [n \in Indices(d) |-> None]
        /\ x.readErr = ErrOk /\ x.writeErr = ErrOk /\ x.own = TRUE
    BY PollStartIs
  <1>3. /\ DOMAIN io' = DOMAIN io /\ \A e \in Devices : e # d => io'[e] = io[e] /\ seen'[e] = seen[e]
        /\ DOMAIN io'[d] = {"read", "write", "conn", "err"} /\ io'[d].read = io[d].read
        /\ io'[d].conn = io[d].conn /\ io'[d].err = io[d].err
        /\ io'[d].write = IF Dev(d).proto = "upp" THEN [n \in Indices(d) |-> None] ELSE io[d].write
    BY PollStartIs
  <1>4. DOMAIN seen' = DOMAIN seen /\ DOMAIN seen'[d] = {"got", "own"} /\ seen'[d].got = {} /\ seen'[d].own = seen[d].own
    BY PollStartIs
  <1>5. world \in Worlds /\ SharedRow(d, io[d]) /\ SeenRow(d, seen[d]) /\ ThreadRow(t, thr[t], air[t], up[t], reg)
    BY <1>1, RowsOf
  <1>6. Pending(d, io[d].write) /\ io[d].write \in Rows(d)
    BY <1>5 DEF SharedRow, Pending
  <1>7. Lists(Requests(d), OpsOf(d, io[d].write))
    BY <1>1, <1>5, <1>6, RequestsAre
  <1>8. [n \in Indices(d) |-> None] \in Rows(d)
    BY <1>5, DefaultsTyped
  <1> DEFINE none == [n \in Indices(d) |-> None]
  <1>9. none \in Rows(d) /\ \A n \in Indices(d) : none[n] = None
    BY <1>8
  <1> HIDE DEF x, t, none
  <1>10. Polls(t, x, reg)
    <2>1. x.news \in Rows(d) /\ \A n \in Indices(d) : x.news[n] = None
      BY <1>2, <1>9 DEF none
    <2>2. x.ops \in Seq(OpsOf(d, x.snap))
      BY <1>2, <1>7 DEF Lists
    <2> QED
      BY <1>1, <1>2, <1>6, <2>1, <2>2 DEF Polls, t
  <1>11. ThreadRow(t, x, air[t], up[t], reg)
    <2>1. /\ x.pc \in {"send", "end"} /\ (x.pc = "end" <=> x.ops = <<>>)
          /\ x.readErr \in Int /\ x.writeErr \in Int
      BY <1>2 DEF Step, ErrOk
    <2>2. x.own \in BOOLEAN
      BY <1>2, Zenon
    <2> QED
      BY <1>2, <1>5, <1>10, <2>1, <2>2 DEF ThreadRow, Between, Busy
  <1>12. SharedRow(d, io'[d])
    <2>1. Pending(d, io'[d].write)
      <3>1. CASE Dev(d).proto = "upp"
        BY <1>3, <1>9, <3>1 DEF Pending, none
      <3>2. CASE Dev(d).proto # "upp"
        BY <1>3, <1>6, <3>2
      <3> QED
        BY <3>1, <3>2
    <2> QED
      BY <1>3, <1>5, <2>1 DEF SharedRow
  <1>13. SeenRow(d, seen'[d])
    BY <1>4, <1>5 DEF SeenRow
  <1>14. \A e \in Devices : SharedRow(e, io'[e]) /\ SeenRow(e, seen'[e]) /\ dev'[e] \in [Cells(e) -> Content(e)]
    BY <1>1, <1>3, <1>12, <1>13, RowsOf
  <1>15. ThreadRow(t, thr'[t], air'[t], up'[t], reg)
    BY <1>1, <1>11 DEF x
  <1> QED
    BY <1>1, <1>3, <1>4, <1>14, <1>15, ThreadMoves1

LEMMA BusyIs ==
  ASSUME TypeInv, NEW t \in Threads, thr[t].pc \in Busy
  PROVE  LET d == thr[t].dev
         IN /\ d \in Devices /\ d \in reg /\ Dev(d).proto # "sim" /\ ThreadOf(d) = t
            /\ Modbus(d) \/ Dev(d).proto = "upp"
            /\ Dev(d).proto = "upp" => ~Modbus(d) /\ t = Bus
            /\ thr[t].snap \in Rows(d) /\ Pending(d, thr[t].snap)
            /\ thr[t].ops \in Seq(OpsOf(d, thr[t].snap)) /\ thr[t].ops # <<>>
            /\ Head(thr[t].ops) \in OpsOf(d, thr[t].snap)
            /\ Tail(thr[t].ops) \in Seq(OpsOf(d, thr[t].snap))
            /\ DOMAIN thr[t] = ThreadFields /\ Polls(t, thr[t], reg)
  <1> DEFINE d == thr[t].dev
             S == OpsOf(d, thr[t].snap)
  <1>1. Polls(t, thr[t], reg) /\ thr[t].ops # <<>> /\ DOMAIN thr[t] = ThreadFields
    BY RowsOf DEF ThreadRow, Busy, Between
  <1>2. d \in Devices /\ d \in reg /\ ThreadOf(d) = t /\ thr[t].ops \in Seq(S) /\ Pending(d, thr[t].snap)
    BY <1>1 DEF Polls
  <1>3. thr[t].snap \in Rows(d)
    BY <1>2 DEF Pending
  <1>4. Dev(d).proto \in {"rtu", "tcp", "upp"}
    BY <1>2, RowsOf, DeviceIs
  <1> HIDE DEF S
  <1>5. Head(thr[t].ops) \in S /\ Tail(thr[t].ops) \in Seq(S)
    BY <1>1, <1>2
  <1> QED
    BY <1>1, <1>2, <1>3, <1>4, <1>5 DEF S, Modbus, ThreadOf, Serial

\* What sending a request may do to the line and to the device.
Refusable(d, op) == Dev(d).proto = "upp" => op.write /\ ExpectsResponse(Dev(d).slave)
Sent(t, d, op, late) ==
  \/ air'[t] = late /\ dev'[d] \in {dev[d], Executed(d, op)}
  \/ air'[t] = Append(late, Answer(d, op, FALSE)) /\ dev'[d] = Executed(d, op)
  \/ Refusable(d, op) /\ air'[t] = Append(late, Answer(d, op, TRUE)) /\ dev'[d] = dev[d]

LEMMA SendIs ==
  ASSUME TypeInv, NEW t \in Threads, TxSend(t)
  PROVE  LET d == thr[t].dev
             op == Head(thr[t].ops)
         IN /\ thr[t].pc = "send" /\ op.sendable
            /\ UNCHANGED <<world, scan, prog, link, reg, io, up, seen>> /\ (faults' = faults \/ Fault)
            /\ DOMAIN thr' = DOMAIN thr /\ DOMAIN air' = DOMAIN air /\ DOMAIN dev' = DOMAIN dev
            /\ \A s \in Threads : s # t => thr'[s] = thr[s] /\ air'[s] = air[s]
            /\ \A e \in Devices : e # d => dev'[e] = dev[e]
            /\ \E late \in Remaining(t) : Sent(t, d, op, late)
            /\ \/ Dev(d).proto = "upp" /\ thr'[t] = AfterOp(t, IF op.write THEN ErrOk ELSE UppBadResponse)
               \/ thr'[t] = [thr[t] EXCEPT !.pc = "recv"]
  <1> DEFINE d == thr[t].dev
             op == Head(thr[t].ops)
             silent == Dev(d).proto = "upp" /\ ~ExpectsResponse(Dev(d).slave)
  <1>1. thr[t].pc = "send" /\ op.sendable /\ UNCHANGED <<world, scan, prog, link, reg, io, up, seen>>
    BY DEF TxSend
  <1>2. d \in Devices /\ (Modbus(d) \/ Dev(d).proto = "upp")
    BY <1>1, BusyIs DEF Busy
  <1>3. DOMAIN thr = Threads /\ DOMAIN air = Threads /\ DOMAIN dev = Devices
    BY RowsOf
  <1>4. thr' = [thr EXCEPT ![t] = IF silent THEN AfterOp(t, IF op.write THEN ErrOk ELSE UppBadResponse)
                                  ELSE [thr[t] EXCEPT !.pc = "recv"]]
    BY DEF TxSend
  <1>5. PICK late \in Remaining(t) :
          \/ /\ dev' = [dev EXCEPT ![d] = Executed(d, op)]
             /\ air' = [air EXCEPT ![t] = IF silent THEN late ELSE Append(late, Answer(d, op, FALSE))]
             /\ UNCHANGED faults
          \/ /\ Dev(d).proto = "upp" => op.write /\ ~silent
             /\ air' = [air EXCEPT ![t] = Append(late, Answer(d, op, TRUE))]
             /\ Fault /\ UNCHANGED dev
          \/ air' = [air EXCEPT ![t] = late] /\ Fault /\ UNCHANGED dev
          \/ /\ air' = [air EXCEPT ![t] = late]
             /\ dev' = [dev EXCEPT ![d] = Executed(d, op)] /\ Fault
    BY DEF TxSend
  <1> HIDE DEF d, op, silent
  <1>6. /\ DOMAIN air' = DOMAIN air /\ DOMAIN dev' = DOMAIN dev /\ (faults' = faults \/ Fault)
        /\ \A s \in Threads : s # t => air'[s] = air[s]
        /\ \A e \in Devices : e # d => dev'[e] = dev[e]
    BY <1>3, <1>5
  <1>7. Sent(t, d, op, late)
    BY <1>2, <1>3, <1>5 DEF Sent, Refusable, silent
  <1>8. DOMAIN thr' = DOMAIN thr /\ \A s \in Threads : s # t => thr'[s] = thr[s]
    BY <1>3, <1>4
  <1>9. \/ Dev(d).proto = "upp" /\ thr'[t] = AfterOp(t, IF op.write THEN ErrOk ELSE UppBadResponse)
        \/ thr'[t] = [thr[t] EXCEPT !.pc = "recv"]
    BY <1>3, <1>4 DEF silent
  <1> QED
    BY <1>1, <1>6, <1>7, <1>8, <1>9 DEF d, op

LEMMA SentTyped ==
  ASSUME TypeInv, NEW t \in Threads, thr[t].pc = "send", Head(thr[t].ops).sendable, NEW late \in Remaining(t),
         Sent(t, thr[t].dev, Head(thr[t].ops), late)
  PROVE  /\ air'[t] \in Seq(Frames)
         /\ dev'[thr[t].dev] \in [Cells(thr[t].dev) -> Content(thr[t].dev)]
  <1> DEFINE d == thr[t].dev
             op == Head(thr[t].ops)
             w == thr[t].snap
  <1>1. /\ d \in Devices /\ Dev(d).proto # "sim" /\ (Modbus(d) \/ Dev(d).proto = "upp")
        /\ w \in Rows(d) /\ op \in OpsOf(d, w) /\ world \in Worlds
    BY BusyIs, RowsOf DEF Busy
  <1>2. dev[d] \in [Cells(d) -> Content(d)] /\ air[t] \in Seq(Frames)
    BY <1>1, RowsOf DEF ThreadRow
  <1> HIDE DEF d, op, w
  <1>3. Executed(d, op) \in [Cells(d) -> Content(d)]
    BY <1>1, <1>2, ExecutedIs DEF op
  <1>4. Answer(d, op, FALSE) \in Frames /\ Answer(d, op, TRUE) \in Frames
    BY <1>1, <1>2, ModbusAnswerIs, UppAnswerIs DEF Frames, op
  <1>5. late \in Seq(Frames)
    BY <1>2, RemainingIs
  <1>6. \A f \in Frames : Append(late, f) \in Seq(Frames)
    BY <1>5
  <1>7. /\ Append(late, Answer(d, op, FALSE)) \in Seq(Frames)
        /\ Append(late, Answer(d, op, TRUE)) \in Seq(Frames)
    BY <1>4, <1>6
  <1> QED
    BY <1>2, <1>3, <1>5, <1>7 DEF Sent, d, op

LEMMA TypeTxSend ==
  ASSUME TypeInv, NEW t \in Threads, TxSend(t) PROVE TypeInv'
  <1> DEFINE d == thr[t].dev
             op == Head(thr[t].ops)
  <1>1. /\ thr[t].pc = "send" /\ op.sendable
        /\ UNCHANGED <<world, scan, prog, link, reg, io, up, seen>> /\ (faults' = faults \/ Fault)
        /\ DOMAIN thr' = DOMAIN thr /\ DOMAIN air' = DOMAIN air /\ DOMAIN dev' = DOMAIN dev
        /\ \A s \in Threads : s # t => thr'[s] = thr[s] /\ air'[s] = air[s]
        /\ \A e \in Devices : e # d => dev'[e] = dev[e]
    BY SendIs
  <1>2. PICK late \in Remaining(t) : Sent(t, d, op, late)
    BY SendIs
  <1>3. \/ thr'[t] = AfterOp(t, IF op.write THEN ErrOk ELSE UppBadResponse)
        \/ thr'[t] = [thr[t] EXCEPT !.pc = "recv"]
    BY SendIs
  <1>4. air'[t] \in Seq(Frames) /\ dev'[d] \in [Cells(d) -> Content(d)]
    BY <1>1, <1>2, SentTyped
  <1>5. thr[t].pc \in Busy /\ world \in Worlds /\ ThreadRow(t, thr[t], air[t], up[t], reg)
    BY <1>1, RowsOf DEF Busy
  <1>6. ThreadRow(t, thr[t], air'[t], up'[t], reg)
    BY <1>1, <1>4, <1>5 DEF ThreadRow
  <1>7. ThreadRow(t, thr'[t], air'[t], up'[t], reg)
    <2>1. CASE thr'[t] = AfterOp(t, IF op.write THEN ErrOk ELSE UppBadResponse)
      <3>1. (IF op.write THEN ErrOk ELSE UppBadResponse) \in Int
        BY DEF ErrOk, UppBadResponse
      <3>2. ThreadRow(t, AfterOp(t, IF op.write THEN ErrOk ELSE UppBadResponse), air'[t], up'[t], reg)
        BY <1>5, <1>6, <3>1, AfterOpTyped
      <3> QED
        BY <2>1, <3>2
    <2>2. CASE thr'[t] = [thr[t] EXCEPT !.pc = "recv"]
      <3> DEFINE x == [thr[t] EXCEPT !.pc = "recv"]
      <3>1. DOMAIN thr[t] = ThreadFields
        BY <1>5 DEF ThreadRow
      <3>2. /\ DOMAIN x = ThreadFields /\ x.pc = "recv" /\ x.dev = thr[t].dev /\ x.ops = thr[t].ops
            /\ x.snap = thr[t].snap /\ x.news = thr[t].news /\ x.own = thr[t].own
            /\ x.readErr = thr[t].readErr /\ x.writeErr = thr[t].writeErr
        BY <3>1 DEF ThreadFields
      <3> HIDE DEF x
      <3>3. ThreadRow(t, x, air'[t], up'[t], reg)
        BY <1>1, <1>6, <3>2 DEF ThreadRow, Polls, Between, Busy
      <3> QED
        BY <2>2, <3>3 DEF x
    <2> QED
      BY <1>3, <2>1, <2>2
  <1> HIDE DEF d, op
  <1>8. \A e \in Devices : SharedRow(e, io'[e]) /\ SeenRow(e, seen'[e]) /\ dev'[e] \in [Cells(e) -> Content(e)]
    BY <1>1, <1>4, RowsOf
  <1> QED
    BY <1>1, <1>7, <1>8, ThreadMoves1

\* A step of thread t on its own state alone.
LEMMA OnlyThread ==
  ASSUME TypeInv, NEW t \in Threads, UNCHANGED <<world, scan, prog, link, reg, io, dev, seen>>,
         NEW x, thr' = [thr EXCEPT ![t] = x], DOMAIN air' = DOMAIN air, DOMAIN up' = DOMAIN up,
         \A s \in Threads : s # t => air'[s] = air[s] /\ up'[s] = up[s],
         faults' = faults \/ Fault,
         ThreadRow(t, x, air'[t], up'[t], reg)
  PROVE  TypeInv'
  <1>1. DOMAIN thr' = DOMAIN thr /\ thr'[t] = x /\ \A s \in Threads : s # t => thr'[s] = thr[s]
    BY RowsOf
  <1>2. \A e \in Devices : SharedRow(e, io'[e]) /\ SeenRow(e, seen'[e]) /\ dev'[e] \in [Cells(e) -> Content(e)]
    BY RowsOf
  <1> QED
    BY <1>1, <1>2, ThreadMoves1

\* A thread in the middle of a request goes on with it.
LEMMA StaysBusy ==
  ASSUME NEW t, NEW th, NEW x, NEW a, NEW u, NEW R, ThreadRow(t, th, a, u, R), th.pc \in Busy,
         DOMAIN x = ThreadFields, x.pc \in Busy \cup {"dead"}, x.dev = th.dev, x.ops = th.ops, x.snap = th.snap,
         x.news = th.news, x.own = th.own, x.readErr = th.readErr, x.writeErr = th.writeErr
  PROVE  ThreadRow(t, x, a, u, R)
  BY DEF ThreadRow, Polls, Between, Busy

LEMMA TypeTxRefused ==
  ASSUME TypeInv, NEW t \in Threads, TxRefused(t) PROVE TypeInv'
  <1>1. /\ UNCHANGED <<world, scan, prog, link, reg, io, air, up, dev, faults, seen>>
        /\ thr' = [thr EXCEPT ![t] = AfterOp(t, UppOutOfRange)] /\ thr[t].pc \in Busy
    BY DEF TxRefused, Busy
  <1>2. UppOutOfRange \in Int
    BY DEF UppOutOfRange
  <1>3. ThreadRow(t, AfterOp(t, UppOutOfRange), air[t], up[t], reg)
    BY <1>1, <1>2, RowsOf, AfterOpTyped
  <1> QED
    BY <1>1, <1>3, OnlyThread

LEMMA TimedOutTyped ==
  ASSUME TypeInv, NEW t \in Threads, thr[t].pc \in Busy
  PROVE  ThreadRow(t, TimedOut(t), air[t], up[t], reg)
  <1>1. world \in Worlds /\ ThreadRow(t, thr[t], air[t], up[t], reg)
    BY RowsOf
  <1>2. CASE t # Bus /\ thr[t].try = 1
    <2> DEFINE x == [thr[t] EXCEPT !.pc = "retry"]
    <2>1. DOMAIN thr[t] = ThreadFields
      BY <1>1 DEF ThreadRow
    <2>2. /\ DOMAIN x = ThreadFields /\ x.pc = "retry" /\ x.dev = thr[t].dev /\ x.ops = thr[t].ops
          /\ x.snap = thr[t].snap /\ x.news = thr[t].news /\ x.own = thr[t].own
          /\ x.readErr = thr[t].readErr /\ x.writeErr = thr[t].writeErr
      BY <2>1 DEF ThreadFields
    <2>3. "retry" \in Busy
      BY DEF Busy
    <2> HIDE DEF x
    <2>4. ThreadRow(t, x, air[t], up[t], reg)
      BY <1>1, <2>2, <2>3, StaysBusy
    <2> QED
      BY <1>2, <2>4 DEF TimedOut, x
  <1>3. CASE ~(t # Bus /\ thr[t].try = 1)
    <2> DEFINE e == IF Dev(thr[t].dev).proto = "upp" THEN UppTimeout ELSE ErrTimeout
    <2>1. e \in Int
      BY DEF UppTimeout, ErrTimeout
    <2>2. TimedOut(t) = AfterOp(t, e)
      BY <1>3 DEF TimedOut
    <2> HIDE DEF e
    <2> QED
      BY <1>1, <2>1, <2>2, AfterOpTyped
  <1> QED
    BY <1>2, <1>3

LEMMA TypeTxTimeout ==
  ASSUME TypeInv, NEW t \in Threads, TxTimeout(t) PROVE TypeInv'
  <1>1. /\ UNCHANGED <<world, scan, prog, link, reg, io, air, up, dev, seen>> /\ (faults' = faults \/ Fault)
        /\ thr' = [thr EXCEPT ![t] = TimedOut(t)] /\ thr[t].pc \in Busy
    BY DEF TxTimeout, Busy
  <1>2. ThreadRow(t, TimedOut(t), air[t], up[t], reg)
    BY <1>1, TimedOutTyped
  <1> QED
    BY <1>1, <1>2, OnlyThread

LEMMA TypeTxNotConnected ==
  ASSUME TypeInv, NEW t \in Threads, TxNotConnected(t) PROVE TypeInv'
  <1> DEFINE x == [thr[t] EXCEPT !.pc = "retry"]
  <1>1. /\ UNCHANGED <<world, scan, prog, link, reg, io, air, up, dev, faults, seen>>
        /\ thr' = [thr EXCEPT ![t] = x] /\ thr[t].pc \in Busy
    BY DEF TxNotConnected, Busy
  <1>2. DOMAIN thr[t] = ThreadFields
    BY RowsOf DEF ThreadRow
  <1>3. /\ DOMAIN x = ThreadFields /\ x.pc = "retry" /\ x.dev = thr[t].dev /\ x.ops = thr[t].ops
        /\ x.snap = thr[t].snap /\ x.news = thr[t].news /\ x.own = thr[t].own
        /\ x.readErr = thr[t].readErr /\ x.writeErr = thr[t].writeErr
    BY <1>2 DEF ThreadFields
  <1>4. "retry" \in Busy
    BY DEF Busy
  <1> HIDE DEF x
  <1>5. ThreadRow(t, x, air[t], up[t], reg)
    BY <1>1, <1>3, <1>4, RowsOf, StaysBusy
  <1> QED
    BY <1>1, <1>5, OnlyThread

LEMMA TypeReconnect ==
  ASSUME TypeInv, NEW t \in Threads, Reconnect(t) PROVE TypeInv'
  <1>1. /\ UNCHANGED <<world, scan, prog, link, reg, io, dev, seen>> /\ thr[t].pc \in Busy
        /\ air' = [air EXCEPT ![t] = <<>>]
    BY DEF Reconnect, Busy
  <1>2. DOMAIN air' = DOMAIN air /\ air'[t] = <<>> /\ \A s \in Threads : s # t => air'[s] = air[s]
    BY <1>1, RowsOf
  <1>3. DOMAIN thr[t] = ThreadFields /\ ThreadRow(t, thr[t], air[t], up[t], reg)
    BY RowsOf DEF ThreadRow
  <1>4. air'[t] \in Seq(Frames)
    BY <1>2
  <1>5. ASSUME NEW u \in BOOLEAN, up' = [up EXCEPT ![t] = u], NEW x, thr' = [thr EXCEPT ![t] = x],
               ThreadRow(t, x, air[t], up[t], reg), faults' = faults \/ Fault
        PROVE  TypeInv'
    <2>1. DOMAIN up' = DOMAIN up /\ up'[t] = u /\ \A s \in Threads : s # t => up'[s] = up[s]
      BY <1>5, RowsOf
    <2>2. ThreadRow(t, x, air'[t], up'[t], reg)
      BY <1>4, <1>5, <2>1 DEF ThreadRow
    <2> QED
      BY <1>1, <1>2, <1>5, <2>1, <2>2, OnlyThread
  <1>6. CASE up' = [up EXCEPT ![t] = TRUE] /\ thr' = [thr EXCEPT ![t].pc = "send", ![t].try = 2] /\ UNCHANGED faults
    <2> DEFINE x == [thr[t] EXCEPT !.pc = "send", !.try = 2]
    <2>1. /\ DOMAIN x = ThreadFields /\ x.pc = "send" /\ x.dev = thr[t].dev /\ x.ops = thr[t].ops
          /\ x.snap = thr[t].snap /\ x.news = thr[t].news /\ x.own = thr[t].own
          /\ x.readErr = thr[t].readErr /\ x.writeErr = thr[t].writeErr
      BY <1>3 DEF ThreadFields
    <2>2. "send" \in Busy
      BY DEF Busy
    <2>3. thr' = [thr EXCEPT ![t] = x]
      BY <1>6, RowsOf
    <2> HIDE DEF x
    <2>4. ThreadRow(t, x, air[t], up[t], reg)
      BY <1>1, <1>3, <2>1, <2>2, StaysBusy
    <2> QED
      BY <1>5, <1>6, <2>3, <2>4
  <1>7. CASE up' = [up EXCEPT ![t] = FALSE] /\ thr' = [thr EXCEPT ![t] = AfterOp(t, ErrTimeout)] /\ Fault
    <2>1. ErrTimeout \in Int
      BY DEF ErrTimeout
    <2>2. ThreadRow(t, AfterOp(t, ErrTimeout), air[t], up[t], reg)
      BY <1>1, <1>3, <2>1, RowsOf, AfterOpTyped
    <2> QED
      BY <1>5, <1>7, <2>2
  <1> QED
    BY <1>6, <1>7 DEF Reconnect

-----------------------------------------------------------------------------
(* Types: what arrives *)

\* Frame f is frame g, or what a damage on the line leaves of it.
Alike(f, g) ==
  /\ f.late = g.late
  /\ g \in ModbusFrames => /\ f \in ModbusFrames /\ f.from = g.from /\ f.fc = g.fc /\ f.addr = g.addr
                           /\ f.exc = g.exc /\ f.data = g.data /\ f.bytes = g.bytes
  /\ g \in UppFrames => /\ f \in UppFrames /\ f.from = g.from /\ f.cmd = g.cmd /\ f.echo = g.echo
                        /\ f.data = g.data /\ f.bytes = g.bytes /\ f.no = g.no
Result(t, f) ==
  LET d == thr[t].dev
      op == Head(thr[t].ops)
  IN IF Outcome(d, op, f) = ErrOk THEN Accept(t, d, op, f)
     ELSE thr' = [thr EXCEPT ![t] = AfterOp(t, Outcome(d, op, f))] /\ UNCHANGED <<io, seen>>

LEMMA DamagedIs ==
  ASSUME NEW g \in Frames, NEW f \in {g} \cup Damages(g)
  PROVE  f \in Frames /\ Alike(f, g)
  <1>1. CASE f = g
    BY <1>1 DEF Alike
  <1>2. CASE f = [g EXCEPT !.len = @ - 1]
    <2>1. CASE g \in ModbusFrames
      <3>1. /\ f \in ModbusFrames /\ f.from = g.from /\ f.fc = g.fc /\ f.addr = g.addr
            /\ f.exc = g.exc /\ f.data = g.data /\ f.bytes = g.bytes /\ f.late = g.late
        BY <1>2, <2>1 DEF ModbusFrames
      <3>2. g \notin UppFrames
        <4>1. "cmd" \notin DOMAIN g
          BY <2>1 DEF ModbusFrames
        <4>2. \A x \in UppFrames : "cmd" \in DOMAIN x
          BY DEF UppFrames
        <4> QED
          BY <4>1, <4>2
      <3> QED
        BY <3>1, <3>2 DEF Alike, Frames
    <2>2. CASE g \in UppFrames
      <3>1. /\ f \in UppFrames /\ f.from = g.from /\ f.cmd = g.cmd /\ f.echo = g.echo
            /\ f.data = g.data /\ f.bytes = g.bytes /\ f.late = g.late /\ f.no = g.no
        BY <1>2, <2>2 DEF UppFrames
      <3>2. g \notin ModbusFrames
        <4>1. "cmd" \in DOMAIN g
          BY <2>2 DEF UppFrames
        <4>2. \A x \in ModbusFrames : "cmd" \notin DOMAIN x
          BY DEF ModbusFrames
        <4> QED
          BY <4>1, <4>2
      <3> QED
        BY <3>1, <3>2 DEF Alike, Frames
    <2> QED
      BY <2>1, <2>2 DEF Frames
  <1>3. CASE "crc" \in DOMAIN g /\ f = [g EXCEPT !.crc = FALSE]
    <2>1. g \in ModbusFrames /\ g \notin UppFrames
      BY <1>3 DEF Frames, UppFrames
    <2>2. /\ f \in ModbusFrames /\ f.from = g.from /\ f.fc = g.fc /\ f.addr = g.addr
          /\ f.exc = g.exc /\ f.data = g.data /\ f.bytes = g.bytes /\ f.late = g.late
      BY <1>3, <2>1 DEF ModbusFrames
    <2> QED
      BY <2>1, <2>2 DEF Alike, Frames
  <1> QED
    BY <1>1, <1>2, <1>3 DEF Damages

LEMMA ResultIs ==
  ASSUME TypeInv, NEW t \in Threads, TxResult(t)
  PROVE  /\ thr[t].pc = "recv" /\ UNCHANGED <<world, scan, prog, link, reg, up, dev>>
         /\ faults' = faults \/ Fault
         /\ \E k \in 1..Len(air[t]), f \in Frames :
              /\ air[t][k] \in Frames /\ Alike(f, air[t][k]) /\ (t # Bus => k = 1 /\ f = air[t][k])
              /\ air' = [air EXCEPT ![t] = RemoveAt(@, k)] /\ Result(t, f)
  <1>1. thr[t].pc = "recv" /\ UNCHANGED <<world, scan, prog, link, reg, up, dev>> /\ air[t] # <<>>
    BY DEF TxResult
  <1>2. PICK k \in Arriving(t) :
        \E f \in {air[t][k]} \cup IF t = Bus THEN Damages(air[t][k]) ELSE {} :
            /\ air' = [air EXCEPT ![t] = RemoveAt(@, k)]
            /\ IF f = air[t][k] THEN UNCHANGED faults ELSE Fault
            /\ Result(t, f)
    BY DEF TxResult, Result
  <1>3. PICK f \in {air[t][k]} \cup IF t = Bus THEN Damages(air[t][k]) ELSE {} :
            /\ air' = [air EXCEPT ![t] = RemoveAt(@, k)]
            /\ IF f = air[t][k] THEN UNCHANGED faults ELSE Fault
            /\ Result(t, f)
    BY <1>2
  <1>4. air[t] \in Seq(Frames)
    BY RowsOf DEF ThreadRow
  <1>5. k \in 1..Len(air[t]) /\ (t # Bus => k = 1)
    BY <1>1, <1>4 DEF Arriving
  <1>6. air[t][k] \in Frames
    BY <1>4, <1>5
  <1>7. f \in {air[t][k]} \cup Damages(air[t][k]) /\ (t # Bus => f = air[t][k])
    BY <1>3
  <1>8. f \in Frames /\ Alike(f, air[t][k])
    BY <1>6, <1>7, DamagedIs
  <1>9. faults' = faults \/ Fault
    BY <1>3
  <1> QED
    BY <1>1, <1>3, <1>5, <1>6, <1>7, <1>8, <1>9

\* A thread that notes whether it took its own answer, and what it read.
LEMMA TookTyped ==
  ASSUME NEW t, NEW th, NEW a, NEW u, NEW R, ThreadRow(t, th, a, u, R), th.pc \notin Between, NEW b \in BOOLEAN
  PROVE  /\ ThreadRow(t, [th EXCEPT !.own = b], a, u, R)
         /\ \A row \in Rows(th.dev) : \A D :
              (\A n \in Indices(th.dev) : HasType(th.dev, n, row[n]) \/ row[n] = None)
                => ThreadRow(t, [th EXCEPT !.own = b, !.denied = D, !.news = row], a, u, R)
  <1>1. DOMAIN th = ThreadFields /\ Polls(t, th, R)
    BY DEF ThreadRow
  <1>2. ThreadRow(t, [th EXCEPT !.own = b], a, u, R)
    <2> DEFINE x == [th EXCEPT !.own = b]
    <2>1. /\ DOMAIN x = ThreadFields /\ x.pc = th.pc /\ x.dev = th.dev /\ x.ops = th.ops
          /\ x.snap = th.snap /\ x.news = th.news /\ x.readErr = th.readErr /\ x.writeErr = th.writeErr
      BY <1>1 DEF ThreadFields
    <2>2. x.own = b
      BY <1>1 DEF ThreadFields
    <2> HIDE DEF x
    <2>3. Polls(t, x, R)
      BY <1>1, <2>1 DEF Polls
    <2>4. x.own \in BOOLEAN
      BY <2>2
    <2>5. ThreadRow(t, x, a, u, R)
      BY <2>1, <2>3, <2>4 DEF ThreadRow
    <2> QED
      BY <2>5 DEF x
  <1>3. ASSUME NEW row \in Rows(th.dev), NEW D,
               \A n \in Indices(th.dev) : HasType(th.dev, n, row[n]) \/ row[n] = None
        PROVE  ThreadRow(t, [th EXCEPT !.own = b, !.denied = D, !.news = row], a, u, R)
    <2> DEFINE x == [th EXCEPT !.own = b, !.denied = D, !.news = row]
    <2>1. /\ DOMAIN x = ThreadFields /\ x.pc = th.pc /\ x.dev = th.dev /\ x.ops = th.ops
          /\ x.snap = th.snap /\ x.news = row /\ x.readErr = th.readErr /\ x.writeErr = th.writeErr
      BY <1>1 DEF ThreadFields
    <2>2. x.own = b
      BY <1>1 DEF ThreadFields
    <2> HIDE DEF x
    <2>3. Polls(t, x, R)
      BY <1>1, <1>3, <2>1 DEF Polls
    <2>4. x.own \in BOOLEAN
      BY <2>2
    <2>5. ThreadRow(t, x, a, u, R)
      BY <2>1, <2>3, <2>4 DEF ThreadRow
    <2> QED
      BY <2>5 DEF x
  <1> QED
    BY <1>2, <1>3

\* The thread after an answer it accepts.
LEMMA TakenTyped ==
  ASSUME TypeInv, NEW t \in Threads, thr[t].pc \in Busy, NEW b \in BOOLEAN, NEW a \in Seq(Frames)
  PROVE  LET x == AfterOp(t, ErrOk)
             d == thr[t].dev
         IN /\ x.dev = d /\ x.news = thr[t].news /\ x.own = thr[t].own
            /\ ThreadRow(t, [x EXCEPT !.own = b], a, up[t], reg)
            /\ \A row \in Rows(d) : \A D :
                 (\A n \in Indices(d) : HasType(d, n, row[n]) \/ row[n] = None)
                   => ThreadRow(t, [x EXCEPT !.own = b, !.denied = D, !.news = row], a, up[t], reg)
  <1> DEFINE x == AfterOp(t, ErrOk)
             d == thr[t].dev
             S == OpsOf(d, thr[t].snap)
  <1>1. world \in Worlds /\ ThreadRow(t, thr[t], air[t], up[t], reg)
    BY RowsOf
  <1>2. ErrOk \in Int
    BY DEF ErrOk
  <1>3. ThreadRow(t, thr[t], a, up[t], reg)
    BY <1>1 DEF ThreadRow
  <1>4. ThreadRow(t, x, a, up[t], reg)
    BY <1>1, <1>2, <1>3, AfterOpTyped
  <1>5. DOMAIN thr[t] = ThreadFields /\ thr[t].ops \in Seq(S) /\ thr[t].ops # <<>>
    BY BusyIs
  <1> HIDE DEF S
  <1>6. x.dev = d /\ x.news = thr[t].news /\ x.own = thr[t].own /\ x.pc \in {"send", "end"}
    BY <1>5, AfterOpIs
  <1> HIDE DEF x, d
  <1>7. x.pc \notin Between
    BY <1>6 DEF Between
  <1>8. /\ ThreadRow(t, [x EXCEPT !.own = b], a, up[t], reg)
        /\ \A row \in Rows(x.dev) : \A D :
             (\A n \in Indices(x.dev) : HasType(x.dev, n, row[n]) \/ row[n] = None)
               => ThreadRow(t, [x EXCEPT !.own = b, !.denied = D, !.news = row], a, up[t], reg)
    BY <1>4, <1>7, TookTyped
  <1> QED
    BY <1>6, <1>8 DEF x, d

LEMMA ExtractedIs ==
  ASSUME NEW op \in ModbusOps, NEW f \in ModbusFrames
  PROVE  /\ Extracted(op, f) \in Seq(Word)
         /\ IsBitFunction(op.fc) => Len(Extracted(op, f)) <= op.n
         /\ IsBitFunction(op.fc) /\ op.n <= 8 * f.bytes => Len(Extracted(op, f)) = op.n
         /\ ~IsBitFunction(op.fc) /\ ~IsBitFunction(f.fc) => Extracted(op, f) = f.data
  <1>1. op.n \in Nat /\ f.bytes \in Nat /\ f.data \in Seq(Word)
    BY DEF ModbusOps, ModbusFrames
  <1>2. CASE IsBitFunction(op.fc)
    <2> DEFINE m == Min({op.n, 8 * f.bytes})
               s == [j \in 1..m |-> IF j <= Len(f.data) THEN f.data[j] ELSE 0]
    <2>1. m \in Nat /\ m <= op.n /\ (op.n <= 8 * f.bytes => m = op.n)
      <3> DEFINE S == {op.n, 8 * f.bytes}
      <3>1. 8 * f.bytes \in Nat
        BY <1>1
      <3>2. \E x \in S : \A y \in S : x <= y
        BY <1>1, <3>1
      <3>3. m \in S /\ \A y \in S : m <= y
        BY <3>2 DEF Min
      <3> QED
        BY <1>1, <3>1, <3>3
    <2>2. Extracted(op, f) = s
      BY <1>2 DEF Extracted, ExtractCoils
    <2> HIDE DEF m
    <2>3. ASSUME NEW j \in 1..m PROVE (IF j <= Len(f.data) THEN f.data[j] ELSE 0) \in Word
      <3>1. 0 \in Word
        BY WordIs DEF WordSize
      <3> QED
        BY <1>1, <2>1, <3>1
    <2>4. s \in Seq(Word) /\ Len(s) = m
      BY <2>1, <2>3
    <2> QED
      BY <1>2, <2>1, <2>2, <2>4
  <1>3. CASE ~IsBitFunction(op.fc)
    <2>1. Extracted(op, f) = IF IsBitFunction(f.fc) THEN <<>> ELSE f.data
      BY <1>3 DEF Extracted, ExtractRegisters
    <2>2. <<>> \in Seq(Word)
      OBVIOUS
    <2> QED
      BY <1>1, <1>3, <2>1, <2>2
  <1> QED
    BY <1>2, <1>3

LEMMA StoredTyped ==
  ASSUME world \in Worlds, NEW d \in Devices, Modbus(d), NEW op \in Reads(d), NEW data \in Seq(Word),
         Len(data) <= Len(op.rest), Typed(d, io[d].read)
  PROVE  Typed(d, Stored(d, op, data))
  <1> DEFINE row == Stored(d, op, data)
  <1>1. /\ Listed(d, op.rest, InputIndices(d)) /\ op \in ModbusOps
        /\ Len(op.rest) \in Nat /\ Len(data) \in Nat /\ \A j \in 1..Len(data) : data[j] \in Word
    BY ReadOpIs DEF ModbusOps
  <1>2. ASSUME NEW n \in Indices(d)
        PROVE  row[n] \in Values /\ HasType(d, n, row[n])
    <2>1. CASE \E j \in 1..Len(data) : op.rest[j].io = n
      <3> DEFINE j == CHOOSE j \in 1..Len(data) : op.rest[j].io = n
      <3>1. j \in 1..Len(data) /\ op.rest[j].io = n
        BY <2>1
      <3>2. row[n] = FromRaw(data[j], op.rest[j])
        BY <2>1 DEF Stored
      <3> HIDE DEF j
      <3>3. op.rest[j] \in Registers /\ op.rest[j] = Register(Fields(d), n) /\ data[j] \in Int
        <4>1. j \in 1..Len(op.rest)
          BY <1>1, <3>1
        <4> QED
          BY <1>1, <3>1, <4>1, WordIs DEF Listed
      <3>4. row[n] \in Values /\ row[n].t = FromRaw(0, Register(Fields(d), n)).t
        BY <3>2, <3>3, FromRawIs
      <3>5. row[n].v \in Int
        BY <3>4 DEF Values
      <3> QED
        BY <3>4, <3>5 DEF HasType, Modbus
    <2>2. CASE ~ \E j \in 1..Len(data) : op.rest[j].io = n
      <3>1. row[n] = io[d].read[n]
        BY <2>2 DEF Stored
      <3> QED
        BY <3>1 DEF Typed, Rows
    <2> QED
      BY <2>1, <2>2
  <1>3. row = [n \in Indices(d) |-> row[n]]
    BY Zenon DEF Stored
  <1> HIDE DEF row
  <1>4. row \in Rows(d)
    BY <1>2, <1>3 DEF Rows
  <1> QED
    BY <1>2, <1>4 DEF Typed, row

\* What an answer changes, beside the line: the device that is polled and the thread.
LEMMA ResultTyped ==
  ASSUME TypeInv, NEW t \in Threads, thr[t].pc = "recv", NEW f \in Frames, Result(t, f), NEW a \in Seq(Frames)
  PROVE  LET d == thr[t].dev
         IN /\ DOMAIN io' = DOMAIN io /\ DOMAIN seen' = DOMAIN seen /\ DOMAIN thr' = DOMAIN thr
            /\ \A e \in Devices : e # d => io'[e] = io[e] /\ seen'[e] = seen[e]
            /\ \A s \in Threads : s # t => thr'[s] = thr[s]
            /\ SharedRow(d, io'[d]) /\ SeenRow(d, seen'[d])
            /\ ThreadRow(t, thr'[t], a, up[t], reg)
  <1> DEFINE d == thr[t].dev
             op == Head(thr[t].ops)
             x == AfterOp(t, ErrOk)
             b == x.own /\ f.late = 0
             w == thr[t].snap
  <1>1. /\ world \in Worlds /\ thr[t].pc \in Busy /\ ThreadRow(t, thr[t], air[t], up[t], reg)
        /\ DOMAIN io = Devices /\ DOMAIN seen = Devices /\ DOMAIN thr = Threads
    BY RowsOf DEF Busy
  <1>2. /\ d \in Devices /\ Dev(d).proto # "sim" /\ (Modbus(d) \/ Dev(d).proto = "upp")
        /\ Dev(d).proto = "upp" => ~Modbus(d)
        /\ w \in Rows(d) /\ op \in OpsOf(d, w) /\ Polls(t, thr[t], reg)
    BY <1>1, BusyIs
  <1>3. SharedRow(d, io[d]) /\ SeenRow(d, seen[d])
    BY <1>2, RowsOf
  <1>4. b \in BOOLEAN
    BY Zenon
  <1>5. /\ x.news = thr[t].news
        /\ ThreadRow(t, [x EXCEPT !.own = b], a, up[t], reg)
        /\ \A row \in Rows(d) : \A D :
             (\A n \in Indices(d) : HasType(d, n, row[n]) \/ row[n] = None)
               => ThreadRow(t, [x EXCEPT !.own = b, !.denied = D, !.news = row], a, up[t], reg)
    BY <1>1, <1>4, TakenTyped
  <1>6. CASE Outcome(d, op, f) # ErrOk
    <2>1. thr' = [thr EXCEPT ![t] = AfterOp(t, Outcome(d, op, f))] /\ UNCHANGED <<io, seen>>
      BY <1>6 DEF Result
    <2>2. Outcome(d, op, f) \in Int
      BY <1>1, <1>2, OutcomeIs
    <2>3. ThreadRow(t, thr[t], a, up[t], reg)
      BY <1>1 DEF ThreadRow
    <2>4. ThreadRow(t, AfterOp(t, Outcome(d, op, f)), a, up[t], reg)
      BY <1>1, <2>2, <2>3, AfterOpTyped
    <2> QED
      BY <1>1, <1>3, <2>1, <2>4
  <1>7. CASE Outcome(d, op, f) = ErrOk /\ Dev(d).proto = "upp"
    <2> DEFINE value == DecodedToValue(Decode(op.decoder, StripCommandEcho(op, f), f.data[1]), FieldOf(d, op.io).type)
               row == IF op.write THEN x.news ELSE [x.news EXCEPT ![op.io] = value]
               D == IF f.no THEN x.denied \cup {op.io} ELSE x.denied
    <2>1. /\ thr' = [thr EXCEPT ![t] = [x EXCEPT !.own = b, !.denied = D, !.news = row]]
          /\ seen' = IF ~op.write /\ f.cmd = op.cmd /\ value # None
                     THEN [seen EXCEPT ![d].got = @ \cup {op.io}] ELSE seen
          /\ UNCHANGED io
      BY <1>7 DEF Result, Accept
    <2>2. f \in UppFrames
      BY <1>1, <1>2, <1>7, OutcomeIs, ForeignIs
    <2>3. f.data[1] \in Int
      <3>1. f.data \in Seq(Int) /\ f.data # <<>>
        BY <2>2 DEF UppFrames
      <3> QED
        BY <3>1
    <2>4. value \in Values /\ (value = None \/ value.t = VarType(FieldOf(d, op.io).type))
      BY <2>3, DecodeIs, DecodedIs
    <2>5. op.io \in Indices(d) /\ (~op.write => op.io \in InputIndices(d))
      BY <1>1, <1>2, <1>7, UppOpIs
    <2> HIDE DEF value
    <2>6. HasType(d, op.io, value) \/ value = None
      BY <2>4 DEF Values, HasType
    <2>7. /\ x.news \in Rows(d)
          /\ \A n \in Indices(d) : HasType(d, n, x.news[n]) \/ x.news[n] = None
      BY <1>2, <1>5 DEF Polls
    <2>8. row \in Rows(d) /\ \A n \in Indices(d) : HasType(d, n, row[n]) \/ row[n] = None
      <3> DEFINE new == [x.news EXCEPT ![op.io] = value]
      <3>1. new \in Rows(d)
        BY <2>4, <2>5, <2>7 DEF Rows
      <3>2. \A n \in Indices(d) : new[n] = IF n = op.io THEN value ELSE x.news[n]
        BY <2>5, <2>7 DEF Rows
      <3>3. \A n \in Indices(d) : HasType(d, n, new[n]) \/ new[n] = None
        BY <2>6, <2>7, <3>2
      <3>4. row = x.news \/ row = new
        BY Zenon
      <3> HIDE DEF new, row
      <3> QED
        BY <2>7, <3>1, <3>3, <3>4
    <2>9. ThreadRow(t, [x EXCEPT !.own = b, !.denied = D, !.news = row], a, up[t], reg)
      BY <1>5, <2>8
    <2>10. DOMAIN seen' = DOMAIN seen /\ SeenRow(d, seen'[d]) /\ \A e \in Devices : e # d => seen'[e] = seen[e]
      <3>1. CASE seen' = seen
        BY <1>3, <3>1
      <3>2. CASE seen' = [seen EXCEPT ![d].got = @ \cup {op.io}] /\ ~op.write
        <4>1. seen'[d] = [seen[d] EXCEPT !.got = @ \cup {op.io}]
          BY <1>1, <1>2, <3>2
        <4>2. /\ DOMAIN seen'[d] = {"got", "own"} /\ seen'[d].got = seen[d].got \cup {op.io}
              /\ seen'[d].own = seen[d].own
          BY <1>3, <4>1 DEF SeenRow
        <4>3. SeenRow(d, seen'[d])
          BY <1>3, <2>5, <3>2, <4>2 DEF SeenRow
        <4> QED
          BY <1>1, <1>2, <3>2, <4>3
      <3> QED
        BY <2>1, <3>1, <3>2
    <2> HIDE DEF row, x, b, D
    <2> QED
      BY <1>1, <1>3, <2>1, <2>9, <2>10
  <1>8. CASE Outcome(d, op, f) = ErrOk /\ Modbus(d)
    <2>1. /\ Accept(t, d, op, f) /\ Dev(d).proto # "upp"
      BY <1>2, <1>8 DEF Result
    <2>2. f \in ModbusFrames
      BY <1>1, <1>2, <1>8, OutcomeIs, ForeignIs
    <2>3. /\ op \in ModbusOps /\ (IsReadFunction(op.fc) => op \in Reads(d))
      BY <1>1, <1>2, <1>8, ModbusOpIs
    <2>4. CASE ~IsReadFunction(op.fc)
      <3>1. thr' = [thr EXCEPT ![t] = [x EXCEPT !.own = b]] /\ UNCHANGED <<io, seen>>
        BY <2>1, <2>4 DEF Accept
      <3> HIDE DEF x, b
      <3> QED
        BY <1>1, <1>3, <1>5, <3>1
    <2>5. CASE IsReadFunction(op.fc)
      <3> DEFINE data == Extracted(op, f)
                 touched == {op.rest[j].io : j \in 1..Len(data)}
      <3>1. StoreRead(t, d, op, f)
        BY <2>1, <2>5 DEF Accept
      <3>2. data \in Seq(Word)
        BY <2>2, <2>3, ExtractedIs
      <3>3. CASE Len(data) > Len(op.rest)
        <4> DEFINE y == [thr[t] EXCEPT !.pc = "dead"]
        <4>1. thr' = [thr EXCEPT ![t].pc = "dead"] /\ UNCHANGED <<io, seen>>
          BY <3>1, <3>3 DEF StoreRead
        <4>2. thr'[t] = y /\ DOMAIN thr' = DOMAIN thr /\ \A s \in Threads : s # t => thr'[s] = thr[s]
          BY <1>1, <4>1
        <4>3. DOMAIN thr[t] = ThreadFields /\ ThreadRow(t, thr[t], a, up[t], reg)
          BY <1>1 DEF ThreadRow
        <4>4. /\ DOMAIN y = ThreadFields /\ y.pc = "dead" /\ y.dev = thr[t].dev /\ y.ops = thr[t].ops
              /\ y.snap = thr[t].snap /\ y.news = thr[t].news /\ y.own = thr[t].own
              /\ y.readErr = thr[t].readErr /\ y.writeErr = thr[t].writeErr
          BY <4>3 DEF ThreadFields
        <4> HIDE DEF y
        <4>5. ThreadRow(t, y, a, up[t], reg)
          BY <1>1, <4>3, <4>4, StaysBusy
        <4> QED
          BY <1>3, <4>1, <4>2, <4>5
      <3>4. CASE ~(Len(data) > Len(op.rest))
        <4>1. /\ io' = [io EXCEPT ![d].read = Stored(d, op, data)]
              /\ seen' = [seen EXCEPT ![d].got = (@ \ touched) \cup Genuine(op, f, data)]
              /\ thr' = [thr EXCEPT ![t] = [x EXCEPT !.own = b]]
          BY <3>1, <3>4 DEF StoreRead
        <4>2. Len(data) <= Len(op.rest) /\ Len(data) \in Nat /\ Len(op.rest) \in Nat
          <5>1. op.rest \in Seq(Registers)
            BY <2>3 DEF ModbusOps
          <5> HIDE DEF data
          <5>2. Len(data) \in Nat /\ Len(op.rest) \in Nat
            BY <3>2, <5>1, LenProperties
          <5> QED
            BY <3>4, <5>2
        <4> HIDE DEF data, touched, x, b
        <4>3. Typed(d, Stored(d, op, data))
          BY <1>1, <1>2, <1>3, <1>8, <2>3, <2>5, <3>2, <4>2, StoredTyped DEF SharedRow
        <4> DEFINE row == Stored(d, op, data)
        <4> HIDE DEF row
        <4>4. io'[d] = [io[d] EXCEPT !.read = row]
          BY <1>1, <1>2, <4>1 DEF row
        <4>5. /\ DOMAIN io'[d] = {"read", "write", "conn", "err"} /\ io'[d].read = row
              /\ io'[d].write = io[d].write /\ io'[d].conn = io[d].conn /\ io'[d].err = io[d].err
          BY <1>3, <4>4 DEF SharedRow
        <4>6. SharedRow(d, io'[d])
          BY <1>3, <4>3, <4>5 DEF SharedRow, row
        <4>7. Genuine(op, f, data) \subseteq InputIndices(d)
          <5>1. Listed(d, op.rest, InputIndices(d))
            BY <1>1, <1>2, <1>8, <2>3, <2>5, ReadOpIs
          <5> QED
            BY <4>2, <5>1 DEF Genuine, Listed
        <4> DEFINE good == Genuine(op, f, data)
        <4> HIDE DEF good
        <4>8. seen'[d] = [seen[d] EXCEPT !.got = (@ \ touched) \cup good]
          BY <1>1, <1>2, <4>1 DEF good
        <4>9. /\ DOMAIN seen'[d] = {"got", "own"} /\ seen'[d].got = (seen[d].got \ touched) \cup good
              /\ seen'[d].own = seen[d].own
          BY <1>3, <4>8 DEF SeenRow
        <4>10. SeenRow(d, seen'[d])
          BY <1>3, <4>7, <4>9 DEF SeenRow, good
        <4> QED
          BY <1>1, <1>2, <1>5, <4>1, <4>6, <4>10
      <3> QED
        BY <3>3, <3>4
    <2> QED
      BY <2>4, <2>5
  <1> QED
    BY <1>2, <1>6, <1>7, <1>8

LEMMA TypeTxResult ==
  ASSUME TypeInv, NEW t \in Threads, TxResult(t) PROVE TypeInv'
  <1> DEFINE d == thr[t].dev
  <1>1. thr[t].pc = "recv" /\ UNCHANGED <<world, scan, prog, link, reg, up, dev>> /\ (faults' = faults \/ Fault)
    BY ResultIs
  <1>2. PICK k \in 1..Len(air[t]), f \in Frames :
          air' = [air EXCEPT ![t] = RemoveAt(@, k)] /\ Result(t, f)
    BY ResultIs
  <1>3. air[t] \in Seq(Frames) /\ DOMAIN air = Threads
    BY RowsOf DEF ThreadRow
  <1>4. DOMAIN air' = DOMAIN air /\ air'[t] = RemoveAt(air[t], k) /\ \A s \in Threads : s # t => air'[s] = air[s]
    BY <1>2, <1>3
  <1>5. air'[t] \in Seq(Frames)
    BY <1>3, <1>4, RemovedIs
  <1>6. /\ DOMAIN io' = DOMAIN io /\ DOMAIN seen' = DOMAIN seen /\ DOMAIN thr' = DOMAIN thr
        /\ \A e \in Devices : e # d => io'[e] = io[e] /\ seen'[e] = seen[e]
        /\ \A s \in Threads : s # t => thr'[s] = thr[s]
        /\ SharedRow(d, io'[d]) /\ SeenRow(d, seen'[d])
        /\ ThreadRow(t, thr'[t], air'[t], up[t], reg)
    BY <1>1, <1>2, <1>5, ResultTyped
  <1> HIDE DEF d
  <1>7. \A e \in Devices : SharedRow(e, io'[e]) /\ SeenRow(e, seen'[e]) /\ dev'[e] \in [Cells(e) -> Content(e)]
    BY <1>1, <1>6, RowsOf
  <1> QED
    BY <1>1, <1>4, <1>6, <1>7, ThreadMoves1

LEMMA PollEndIs ==
  ASSUME TypeInv, NEW t \in Threads, PollEnd(t)
  PROVE  LET d == thr[t].dev
             err == PollError(d, thr[t])
         IN /\ thr[t].pc = "end" /\ UNCHANGED <<world, scan, prog, link, reg, dev, faults>>
            /\ d \in Devices /\ d \in reg /\ ThreadOf(d) = t /\ Dev(d).proto \in {"rtu", "tcp", "upp"}
            /\ thr[t].ops = <<>>
            /\ DOMAIN io' = DOMAIN io /\ DOMAIN seen' = DOMAIN seen /\ DOMAIN thr' = DOMAIN thr
            /\ DOMAIN air' = DOMAIN air /\ DOMAIN up' = DOMAIN up
            /\ \A e \in Devices : e # d => io'[e] = io[e] /\ seen'[e] = seen[e]
            /\ \A s \in Threads : s # t => thr'[s] = thr[s] /\ air'[s] = air[s] /\ up'[s] = up[s]
            /\ DOMAIN io'[d] = {"read", "write", "conn", "err"} /\ io'[d].write = io[d].write
            /\ io'[d].read = IF Dev(d).proto = "upp" THEN Published(io[d].read, thr[t].news) ELSE io[d].read
            /\ io'[d].conn \in BOOLEAN /\ (io'[d].conn <=> err = ErrOk) /\ io'[d].err = err
            /\ DOMAIN seen'[d] = {"got", "own"} /\ seen'[d].got = seen[d].got /\ seen'[d].own = thr[t].own
            /\ DOMAIN thr'[t] = ThreadFields /\ thr'[t].dev = "none" /\ thr'[t].ops = <<>>
            /\ thr'[t].pc = IF t = Bus THEN "round" ELSE "idle"
            /\ thr'[t].own = TRUE /\ thr'[t].readErr = ErrOk /\ thr'[t].writeErr = ErrOk
            /\ up'[t] \in BOOLEAN /\ air'[t] \in {air[t], <<>>} /\ (t = Bus => air'[t] = air[t])
            /\ t # Bus /\ err # ErrOk => air'[t] = <<>>
  <1> DEFINE d == thr[t].dev
             err == PollError(d, thr[t])
             b == (err = ErrOk)
             row == IF Dev(d).proto = "upp" THEN Published(io[d].read, thr[t].news) ELSE io[d].read
             own == thr[t].own
  <1>1. /\ world \in Worlds /\ ThreadRow(t, thr[t], air[t], up[t], reg)
        /\ DOMAIN io = Devices /\ DOMAIN seen = Devices /\ DOMAIN thr = Threads /\ DOMAIN air = Threads /\ DOMAIN up = Threads
    BY RowsOf
  <1>2. /\ thr[t].pc = "end" /\ UNCHANGED <<world, scan, prog, link, reg, dev, faults>>
        /\ io' = [io EXCEPT ![d] = [@ EXCEPT !.read = row, !.conn = b, !.err = err]]
        /\ seen' = [seen EXCEPT ![d].own = own]
    BY DEF PollEnd
  <1>3. Polls(t, thr[t], reg) /\ thr[t].ops = <<>>
    BY <1>1, <1>2 DEF ThreadRow, Between
  <1>4. d \in Devices /\ d \in reg /\ ThreadOf(d) = t
    BY <1>3 DEF Polls
  <1>5. Dev(d).proto \in {"rtu", "tcp", "upp"}
    BY <1>1, <1>4, RowsOf, DeviceIs
  <1>6. SharedRow(d, io[d]) /\ SeenRow(d, seen[d])
    BY <1>4, RowsOf
  <1>7. b \in BOOLEAN
    BY Zenon
  <1> HIDE DEF d, err, own
  <1>8. /\ DOMAIN io' = DOMAIN io /\ DOMAIN seen' = DOMAIN seen
        /\ \A e \in Devices : e # d => io'[e] = io[e] /\ seen'[e] = seen[e]
    BY <1>1, <1>2
  <1>9. io'[d] = [io[d] EXCEPT !.read = row, !.conn = b, !.err = err]
    BY <1>1, <1>2, <1>4
  <1> HIDE DEF row, b
  <1>10. /\ DOMAIN io'[d] = {"read", "write", "conn", "err"} /\ io'[d].write = io[d].write
         /\ io'[d].read = row /\ io'[d].err = err
    BY <1>6, <1>9 DEF SharedRow
  <1>11. io'[d].conn = b
    BY <1>6, <1>9 DEF SharedRow
  <1>12. seen'[d] = [seen[d] EXCEPT !.own = own]
    BY <1>1, <1>2, <1>4
  <1>13. DOMAIN seen'[d] = {"got", "own"} /\ seen'[d].got = seen[d].got
    BY <1>6, <1>12 DEF SeenRow
  <1>14. seen'[d].own = own
    BY <1>6, <1>12 DEF SeenRow
  <1>15. /\ DOMAIN NoThread = ThreadFields /\ NoThread.dev = "none" /\ NoThread.ops = <<>>
         /\ NoThread.readErr = ErrOk /\ NoThread.writeErr = ErrOk
    BY DEF NoThread, ThreadFields
  <1>16. NoThread.own = TRUE
    BY Zenon DEF NoThread
  <1>17. /\ DOMAIN thr' = DOMAIN thr /\ DOMAIN air' = DOMAIN air /\ DOMAIN up' = DOMAIN up
         /\ \A s \in Threads : s # t => thr'[s] = thr[s] /\ air'[s] = air[s] /\ up'[s] = up[s]
         /\ DOMAIN thr'[t] = ThreadFields /\ thr'[t].dev = "none" /\ thr'[t].ops = <<>>
         /\ thr'[t].pc = IF t = Bus THEN "round" ELSE "idle"
         /\ thr'[t].own = TRUE /\ thr'[t].readErr = ErrOk /\ thr'[t].writeErr = ErrOk
         /\ up'[t] \in BOOLEAN /\ air'[t] \in {air[t], <<>>} /\ (t = Bus => air'[t] = air[t])
         /\ t # Bus /\ ~b => air'[t] = <<>>
    <2>1. CASE t = Bus
      <3> DEFINE left == Tail(thr[t].left)
                 polled == thr[t].polled \cup {d}
                 x == [NoThread EXCEPT !.pc = "round", !.left = left, !.polled = polled, !.any = TRUE]
      <3>1. thr' = [thr EXCEPT ![t] = x] /\ UNCHANGED <<up, air>>
        BY <2>1 DEF PollEnd, d
      <3> HIDE DEF left, polled
      <3>2. /\ DOMAIN x = ThreadFields /\ x.dev = "none" /\ x.ops = <<>> /\ x.pc = "round"
            /\ x.readErr = ErrOk /\ x.writeErr = ErrOk
        BY <1>15 DEF ThreadFields
      <3>3. x.own = TRUE
        BY <1>15, <1>16 DEF ThreadFields
      <3>4. up[t] \in BOOLEAN
        BY <1>1 DEF ThreadRow
      <3> HIDE DEF x
      <3> QED
        BY <1>1, <2>1, <3>1, <3>2, <3>3, <3>4
    <2>2. CASE t # Bus
      <3> DEFINE x == [NoThread EXCEPT !.pc = "idle"]
                 ans == IF b THEN air[t] ELSE <<>>
      <3>1. thr' = [thr EXCEPT ![t] = x] /\ up' = [up EXCEPT ![t] = b] /\ air' = [air EXCEPT ![t] = ans]
        BY <2>2 DEF PollEnd, b, err, d
      <3>2. /\ DOMAIN x = ThreadFields /\ x.dev = "none" /\ x.ops = <<>> /\ x.pc = "idle"
            /\ x.readErr = ErrOk /\ x.writeErr = ErrOk
        BY <1>15 DEF ThreadFields
      <3>3. x.own = TRUE
        BY <1>15, <1>16 DEF ThreadFields
      <3>4. ans \in {air[t], <<>>} /\ (~b => ans = <<>>)
        OBVIOUS
      <3>5. up'[t] = b /\ up'[t] \in BOOLEAN
        BY <1>1, <1>7, <3>1, Zenon
      <3> HIDE DEF x, ans
      <3> QED
        BY <1>1, <2>2, <3>1, <3>2, <3>3, <3>4, <3>5
    <2> QED
      BY <2>1, <2>2
  <1>18. io'[d].conn \in BOOLEAN /\ (io'[d].conn <=> err = ErrOk)
    BY <1>7, <1>11, Zenon DEF b
  <1>19. t # Bus /\ err # ErrOk => air'[t] = <<>>
    BY <1>17 DEF b
  <1> QED
    BY <1>2, <1>3, <1>4, <1>5, <1>8, <1>10, <1>13, <1>14, <1>17, <1>18, <1>19 DEF d, err, row, own

LEMMA TypePollEnd ==
  ASSUME TypeInv, NEW t \in Threads, PollEnd(t) PROVE TypeInv'
  <1> DEFINE d == thr[t].dev
             err == PollError(d, thr[t])
  <1>1. /\ thr[t].pc = "end" /\ UNCHANGED <<world, scan, prog, link, reg, dev, faults>>
        /\ d \in Devices
        /\ DOMAIN io' = DOMAIN io /\ DOMAIN seen' = DOMAIN seen /\ DOMAIN thr' = DOMAIN thr
        /\ DOMAIN air' = DOMAIN air /\ DOMAIN up' = DOMAIN up
        /\ \A e \in Devices : e # d => io'[e] = io[e] /\ seen'[e] = seen[e]
        /\ \A s \in Threads : s # t => thr'[s] = thr[s] /\ air'[s] = air[s] /\ up'[s] = up[s]
    BY PollEndIs
  <1>2. /\ DOMAIN io'[d] = {"read", "write", "conn", "err"} /\ io'[d].write = io[d].write
        /\ io'[d].read = IF Dev(d).proto = "upp" THEN Published(io[d].read, thr[t].news) ELSE io[d].read
        /\ io'[d].conn \in BOOLEAN /\ (io'[d].conn => err = ErrOk) /\ io'[d].err = err
    BY PollEndIs
  <1>3. DOMAIN seen'[d] = {"got", "own"} /\ seen'[d].got = seen[d].got /\ seen'[d].own = thr[t].own
    BY PollEndIs
  <1>4. /\ DOMAIN thr'[t] = ThreadFields /\ thr'[t].dev = "none"
        /\ thr'[t].pc = (IF t = Bus THEN "round" ELSE "idle") /\ thr'[t].own = TRUE
        /\ thr'[t].readErr = ErrOk /\ thr'[t].writeErr = ErrOk
        /\ up'[t] \in BOOLEAN /\ air'[t] \in {air[t], <<>>}
    BY PollEndIs
  <1>5. SharedRow(d, io[d]) /\ SeenRow(d, seen[d]) /\ ThreadRow(t, thr[t], air[t], up[t], reg)
    BY <1>1, RowsOf
  <1>6. Polls(t, thr[t], reg)
    BY <1>1, <1>5 DEF ThreadRow, Between
  <1>7. /\ thr[t].news \in Rows(d) /\ \A n \in Indices(d) : HasType(d, n, thr[t].news[n]) \/ thr[t].news[n] = None
    BY <1>6 DEF Polls
  <1>8. Typed(d, Published(io[d].read, thr[t].news))
    <2> DEFINE old == io[d].read
               new == thr[t].news
               row == Published(old, new)
    <2>1. old \in Rows(d) /\ \A n \in Indices(d) : HasType(d, n, old[n])
      BY <1>5 DEF SharedRow, Typed
    <2>2. DOMAIN old = Indices(d)
      BY <2>1 DEF Rows
    <2>3. row = [n \in Indices(d) |-> IF new[n] = None THEN old[n] ELSE new[n]]
      BY <2>2, Zenon DEF Published
    <2> HIDE DEF old, new, row
    <2>4. row \in Rows(d)
      BY <1>7, <2>1, <2>3 DEF Rows, new
    <2>5. \A n \in Indices(d) : HasType(d, n, row[n])
      <3>1. \A n \in Indices(d) : row[n] = IF new[n] = None THEN old[n] ELSE new[n]
        BY <2>3
      <3> QED
        BY <1>7, <2>1, <3>1 DEF new
    <2> QED
      BY <2>4, <2>5 DEF Typed, old, new, row
  <1> HIDE DEF d, err
  <1>9. SharedRow(d, io'[d])
    BY <1>2, <1>5, <1>8 DEF SharedRow, ErrOk
  <1>10. SeenRow(d, seen'[d])
    BY <1>3, <1>5 DEF SeenRow, ThreadRow
  <1>11. air'[t] \in Seq(Frames)
    <2>1. air[t] \in Seq(Frames) /\ <<>> \in Seq(Frames)
      BY <1>5 DEF ThreadRow
    <2> QED
      BY <1>4, <2>1
  <1>12. ThreadRow(t, thr'[t], air'[t], up'[t], reg)
    <2>1. thr'[t].own \in BOOLEAN
      BY <1>4
    <2>2. thr'[t].pc \in Between /\ thr'[t].pc \notin Busy /\ thr'[t].pc # "end"
      BY <1>4 DEF Between, Busy
    <2>3. thr'[t].readErr \in Int /\ thr'[t].writeErr \in Int
      BY <1>4 DEF ErrOk
    <2> QED
      BY <1>4, <1>11, <2>1, <2>2, <2>3 DEF ThreadRow
  <1>13. \A e \in Devices : SharedRow(e, io'[e]) /\ SeenRow(e, seen'[e]) /\ dev'[e] \in [Cells(e) -> Content(e)]
    BY <1>1, <1>9, <1>10, RowsOf
  <1> QED
    BY <1>1, <1>12, <1>13, ThreadMoves1

-----------------------------------------------------------------------------
(* The type invariant *)

LEMMA TypeNext ==
  ASSUME TypeInv, [Next]_vars PROVE TypeInv'
  <1>1. CASE ScanNext
    BY <1>1, TypeScanStart, TypeExecRejected, TypeExecQueue, TypeExecCopy, TypeExecSimulated DEF ScanNext
  <1>2. CASE ExecRegister
    BY <1>2, TypeExecRegister
  <1>3. CASE SetInput
    BY <1>3, TypeSetInput
  <1>4. CASE BusStep
    BY <1>4, TypeBusStep
  <1>5. CASE \E d \in Devices : PollStart(d)
    BY <1>5, TypePollStart
  <1>6. CASE \E t \in Threads : ThreadStep(t)
    <2>1. PICK t \in Threads : ThreadStep(t)
      BY <1>6
    <2> QED
      BY <2>1, TypeTcpConnect, TypeTxSend, TypeTxRefused, TypeTxResult, TypeTxTimeout, TypeTxNotConnected,
         TypeReconnect, TypePollEnd DEF ThreadStep
  <1>7. CASE UNCHANGED vars
    <2>1. UNCHANGED <<world, scan, prog, link, reg, io, thr, air, up, dev, faults, seen>>
      BY <1>7 DEF vars
    <2> QED
      BY <2>1, ThreadIs, RowsOf, ThreadMoves1
  <1> QED
    BY <1>1, <1>2, <1>3, <1>4, <1>5, <1>6, <1>7 DEF Next

\* Every value, request, answer and register of the drivers keeps its type,
\* for every plant: whatever is lost, late, damaged or refused on the line.
THEOREM TypeInvariant == Spec => []TypeInv
  <1>1. Init => TypeInv
    BY TypeInit
  <1>2. TypeInv /\ [Next]_vars => TypeInv'
    BY TypeNext
  <1> QED
    BY <1>1, <1>2, PTL DEF Spec

-----------------------------------------------------------------------------
(* The outputs of one scan *)

\* The plain outputs among vals all come from the same assignment.
OneScan(d, vals) ==
  \E k \in 0..2 : \A n \in Selected(Fields(d), {"out"}) : vals[n] = Sample(FieldOf(d, n).type, k)

\* Request op sets register r; the registers v are as request op leaves them.
Sets(op, r) == ~IsReadFunction(op.fc) /\ \E j \in 1..op.n : op.rest[j] = r
Done(v, op) == ~IsReadFunction(op.fc) => \A j \in 1..op.n : v[Address(op.rest[j])] = op.vals[j]

\* Modbus device d with registers v while thread th polls it with answers a on
\* the line: a register holds the output found at the start of the poll, or a
\* request still sets it, or a write failed, or an answer was not to be trusted.
Settled(d, th, v) ==
  \A r \in Written(d) :
    \/ v[Address(r)] = ToRaw(th.snap[r.io], r)
    \/ \E k \in 1..Len(th.ops) : Sets(th.ops[k], r)
    \/ th.writeErr # ErrOk
    \/ ~th.own
Delivering(d, th, a, v) ==
  th.dev = d =>
    /\ OneScan(d, th.snap)
    /\ th.pc = "recv" =>
         \A k \in 1..Len(a) : a[k] \in ModbusFrames /\ a[k].late = 0 /\ ~a[k].exc => Done(v, Head(th.ops))
    /\ Settled(d, th, v)
\* The same device between two polls, with shared state i and last poll s.
Delivered(d, th, i, s, v) ==
  th.dev # d /\ i.conn /\ s.own =>
    \E k \in 0..2 : \A r \in Written(d) : v[Address(r)] = ToRaw(Sample(r.type, k), r)

ScanInv ==
  \A d \in Devices : Modbus(d) =>
    /\ OneScan(d, prog[d].vals) /\ OneScan(d, io[d].write)
    /\ OutputsApart(d) => /\ Delivering(d, thr[ThreadOf(d)], air[ThreadOf(d)], dev[d])
                          /\ Delivered(d, thr[ThreadOf(d)], io[d], seen[d], dev[d])

LEMMA ScanKept ==
  ASSUME world' = world
  PROVE  /\ \A d, vals : OneScan(d, vals)' <=> OneScan(d, vals)
         /\ \A d : OutputsApart(d)' <=> OutputsApart(d)
         /\ \A d, th, a, v : Delivering(d, th, a, v)' <=> Delivering(d, th, a, v)
         /\ \A d, th, i, s, v : Delivered(d, th, i, s, v)' <=> Delivered(d, th, i, s, v)
  <1>1. \A d, vals : OneScan(d, vals)' <=> OneScan(d, vals)
    BY WorldKept DEF OneScan
  <1>2. \A d : (OutputsApart(d)' <=> OutputsApart(d)) /\ Written(d)' = Written(d)
    BY WorldKept DEF OutputsApart, Written
  <1>3. \A d, th, v : Settled(d, th, v)' <=> Settled(d, th, v)
    BY <1>2 DEF Settled
  <1>4. \A d, th, a, v : Delivering(d, th, a, v)' <=> Delivering(d, th, a, v)
    BY <1>1, <1>3 DEF Delivering
  <1>5. \A d, th, i, s, v : Delivered(d, th, i, s, v)' <=> Delivered(d, th, i, s, v)
    BY <1>2 DEF Delivered
  <1> QED
    BY <1>1, <1>2, <1>4, <1>5

LEMMA ScanMoves ==
  ASSUME world' = world,
         \A d \in Devices : Modbus(d) =>
           /\ OneScan(d, prog'[d].vals) /\ OneScan(d, io'[d].write)
           /\ OutputsApart(d) => /\ Delivering(d, thr'[ThreadOf(d)], air'[ThreadOf(d)], dev'[d])
                                 /\ Delivered(d, thr'[ThreadOf(d)], io'[d], seen'[d], dev'[d])
  PROVE  ScanInv'
  BY WorldKept, RowsKept, ScanKept DEF ScanInv

\* A step of the scan thread.
LEMMA ProgramMoves ==
  ASSUME ScanInv, UNCHANGED <<world, thr, air, seen>>,
         \A d \in Devices : Modbus(d) =>
           /\ OneScan(d, prog'[d].vals) /\ OneScan(d, io'[d].write) /\ io'[d].conn = io[d].conn
           /\ dev'[d] = dev[d]
  PROVE  ScanInv'
  <1>1. \A d \in Devices : Modbus(d) /\ OutputsApart(d) => Delivered(d, thr[ThreadOf(d)], io'[d], seen[d], dev[d])
    BY DEF ScanInv, Delivered
  <1> QED
    BY <1>1, ScanMoves DEF ScanInv

\* A step of thread t, which polls device d if any.
LEMMA ScanThread ==
  ASSUME TypeInv, ScanInv, NEW t \in Threads, UNCHANGED <<world, prog>>,
         NEW d, thr[t].dev \in {d, "none"}, thr'[t].dev \in {d, "none"},
         \A e \in Devices : Modbus(e) => io'[e].write = io[e].write,
         \A e \in Devices : e # d => io'[e].conn = io[e].conn /\ seen'[e].own = seen[e].own /\ dev'[e] = dev[e],
         \A s \in Threads : s # t => thr'[s] = thr[s] /\ air'[s] = air[s],
         d \in Devices => ThreadOf(d) = t,
         d \in Devices /\ Modbus(d) /\ OutputsApart(d) =>
           /\ Delivering(d, thr'[t], air'[t], dev'[d])
           /\ Delivered(d, thr'[t], io'[d], seen'[d], dev'[d])
  PROVE  ScanInv'
  <1>1. ASSUME NEW e \in Devices, Modbus(e), OutputsApart(e), e # d
        PROVE  /\ Delivering(e, thr'[ThreadOf(e)], air'[ThreadOf(e)], dev'[e])
               /\ Delivered(e, thr'[ThreadOf(e)], io'[e], seen'[e], dev'[e])
    <2>1. world \in Worlds
      BY RowsOf
    <2>2. e # "none" /\ ThreadOf(e) \in Threads
      BY <1>1, <2>1, DeviceIs, ThreadIs DEF Modbus
    <2>3. /\ Delivering(e, thr[ThreadOf(e)], air[ThreadOf(e)], dev[e])
          /\ Delivered(e, thr[ThreadOf(e)], io[e], seen[e], dev[e])
      BY <1>1 DEF ScanInv
    <2>4. io'[e].conn = io[e].conn /\ seen'[e].own = seen[e].own /\ dev'[e] = dev[e]
      BY <1>1
    <2>5. CASE ThreadOf(e) = t
      <3>1. thr[t].dev # e /\ thr'[t].dev # e
        BY <1>1, <2>2
      <3> QED
        BY <2>3, <2>4, <2>5, <3>1 DEF Delivering, Delivered
    <2>6. CASE ThreadOf(e) # t
      <3>1. thr'[ThreadOf(e)] = thr[ThreadOf(e)] /\ air'[ThreadOf(e)] = air[ThreadOf(e)]
        BY <2>2, <2>6
      <3> QED
        BY <2>3, <2>4, <3>1 DEF Delivered
    <2> QED
      BY <2>5, <2>6
  <1>2. \A e \in Devices : Modbus(e) => OneScan(e, prog'[e].vals) /\ OneScan(e, io'[e].write)
    BY DEF ScanInv
  <1>3. \A e \in Devices : Modbus(e) /\ OutputsApart(e) =>
          /\ Delivering(e, thr'[ThreadOf(e)], air'[ThreadOf(e)], dev'[e])
          /\ Delivered(e, thr'[ThreadOf(e)], io'[e], seen'[e], dev'[e])
    BY <1>1
  <1> QED
    BY <1>2, <1>3, ScanMoves

LEMMA PlainOutputs ==
  ASSUME world \in Worlds, NEW d \in Devices, NEW n \in Selected(Fields(d), {"out"})
  PROVE  n \in Indices(d) /\ n \in OutputIndices(d) /\ n \notin InputIndices(d)
         /\ n \in Selected(Fields(d), Outputs)
  BY DEF Selected, Indices, OutputIndices, InputIndices, FieldOf, IsOutput, IsInput, Outputs, Inputs

LEMMA WrittenIs ==
  ASSUME world \in Worlds, NEW d \in Devices, Modbus(d), NEW r \in Written(d)
  PROVE  /\ r.io \in Selected(Fields(d), {"out"}) /\ r = Register(Fields(d), r.io)
         /\ r.type = FieldOf(d, r.io).type /\ r.kind \in WrittenKinds
         /\ \E k \in 1..Len(ExpandRegisters(Fields(d), Outputs)) : ExpandRegisters(Fields(d), Outputs)[k] = r
         /\ r \in ToSet(ExpandRegisters(Fields(d), Outputs)) /\ r \in Registers
  <1> DEFINE plain == ExpandRegisters(Fields(d), {"out"})
             all == ExpandRegisters(Fields(d), Outputs)
  <1>1. Profiled(Fields(d))
    BY DeviceIs
  <1>2. /\ plain \in Seq(Registers)
        /\ \A k \in 1..Len(plain) : plain[k].io \in Selected(Fields(d), {"out"}) /\ plain[k] = Register(Fields(d), plain[k].io)
    BY <1>1, ExpandIs
  <1>3. \A n \in Selected(Fields(d), Outputs) : \E k \in 1..Len(all) : all[k] = Register(Fields(d), n)
    BY <1>1, ExpandIs
  <1> HIDE DEF all
  <1>4. PICK k \in 1..Len(plain) : plain[k] = r
    BY DEF Written, ToSet
  <1>5. r.io \in Selected(Fields(d), {"out"}) /\ r = Register(Fields(d), r.io) /\ r \in Registers
    BY <1>2, <1>4
  <1>6. r.io \in Indices(d) /\ r.io \in Selected(Fields(d), Outputs)
    BY <1>5, PlainOutputs
  <1>7. r.type = FieldOf(d, r.io).type
    BY <1>1, <1>5, <1>6, RegisterIs DEF Indices, FieldOf
  <1>8. \E i \in 1..Len(all) : all[i] = r
    BY <1>3, <1>5, <1>6
  <1>9. r \in ToSet(all)
    BY <1>8 DEF ToSet
  <1>10. r.kind \in WrittenKinds
    BY DEF Written, WrittenKinds
  <1> QED
    BY <1>5, <1>7, <1>8, <1>9, <1>10 DEF all

LEMMA ScanInit ==
  ASSUME Init PROVE ScanInv
  <1>1. world \in Worlds
    BY DEF Init
  <1>2. ASSUME NEW d \in Devices PROVE OneScan(d, DefaultValues(Fields(d)))
    <2>1. ASSUME NEW n \in Selected(Fields(d), {"out"})
          PROVE  DefaultValues(Fields(d))[n] = Sample(FieldOf(d, n).type, 0)
      BY DEF Selected, DefaultValues, Sample, FieldOf
    <2>2. 0 \in 0..2
      OBVIOUS
    <2> QED
      BY <2>1, <2>2 DEF OneScan
  <1>3. ASSUME NEW d \in Devices, Modbus(d)
        PROVE  /\ OneScan(d, prog[d].vals) /\ OneScan(d, io[d].write)
               /\ Delivering(d, thr[ThreadOf(d)], air[ThreadOf(d)], dev[d])
               /\ Delivered(d, thr[ThreadOf(d)], io[d], seen[d], dev[d])
    <2>1. prog[d].vals = DefaultValues(Fields(d))
      BY DEF Init
    <2>2. io[d].write = DefaultValues(Fields(d))
      BY <1>3 DEF Init, Modbus
    <2>3. io[d].conn = FALSE
      BY Zenon DEF Init
    <2>4. d # "none" /\ ThreadOf(d) \in Threads
      BY <1>1, <1>3, DeviceIs, ThreadIs DEF Modbus
    <2>5. thr[ThreadOf(d)] = NoThread
      BY <2>4 DEF Init
    <2>6. thr[ThreadOf(d)].dev = "none"
      BY <2>5 DEF NoThread
    <2> QED
      BY <1>2, <2>1, <2>2, <2>3, <2>4, <2>6 DEF Delivering, Delivered
  <1> QED
    BY <1>3 DEF ScanInv

LEMMA ScanScanStart ==
  ASSUME TypeInv, ScanInv, ScanStart PROVE ScanInv'
  <1>1. UNCHANGED <<world, reg, io, thr, air, up, dev, seen>> /\ Assign
    BY DEF ScanStart
  <1>2. ASSUME NEW d \in Devices, Modbus(d) PROVE OneScan(d, prog'[d].vals)
    <2>1. CASE UNCHANGED prog
      BY <1>2, <2>1 DEF ScanInv
    <2>2. ASSUME NEW k \in 1..2, prog' = [e \in Devices |-> [prog[e] EXCEPT !.vals = Sampled(e, k)]]
          PROVE  OneScan(d, prog'[d].vals)
      <3>1. DOMAIN prog[d] = {"vals", "conn", "err"}
        BY DEF TypeInv, DeviceType, DeviceRow, BlockRow
      <3>2. prog'[d].vals = Sampled(d, k)
        BY <2>2, <3>1
      <3>3. ASSUME NEW n \in Selected(Fields(d), {"out"}) PROVE Sampled(d, k)[n] = Sample(FieldOf(d, n).type, k)
        <4>1. n \in Indices(d) /\ n \in OutputIndices(d)
          BY PlainOutputs DEF TypeInv
        <4> QED
          BY <4>1 DEF Sampled
      <3>4. k \in 0..2
        OBVIOUS
      <3> QED
        BY <3>2, <3>3, <3>4 DEF OneScan
    <2> QED
      BY <1>1, <2>1, <2>2 DEF Assign
  <1> QED
    BY <1>1, <1>2, ProgramMoves DEF ScanInv

LEMMA ScanExecRejected ==
  ASSUME TypeInv, ScanInv, ExecRejected PROVE ScanInv'
  <1>1. UNCHANGED <<world, link, reg, io, thr, air, up, dev, faults, seen>>
    BY DEF ExecRejected
  <1> DEFINE c == Current
             e == ConfigError(Current)
  <1>2. prog' = [prog EXCEPT ![c].conn = FALSE, ![c].err = e] /\ DOMAIN prog = Devices
    BY DEF ExecRejected, TypeInv, Shape
  <1>3. \A d \in Devices : DOMAIN prog[d] = {"vals", "conn", "err"}
    BY DEF TypeInv, DeviceType, DeviceRow, BlockRow
  <1>4. c \in Devices
    BY CurrentIs
  <1> HIDE DEF c, e
  <1>5. ASSUME NEW d \in Devices PROVE prog'[d].vals = prog[d].vals
    <2>1. CASE d # c
      BY <1>2, <2>1
    <2>2. CASE d = c
      <3>1. prog'[d] = [[prog[d] EXCEPT !.conn = FALSE] EXCEPT !.err = e]
        BY <1>2, <1>4, <2>2
      <3> QED
        BY <1>3, <3>1
    <2> QED
      BY <2>1, <2>2
  <1> QED
    BY <1>1, <1>5, ProgramMoves DEF ScanInv

LEMMA ScanExecQueue ==
  ASSUME TypeInv, ScanInv, ExecQueue PROVE ScanInv'
  <1>1. UNCHANGED <<world, prog, link, reg, thr, air, up, dev, faults, seen>>
    BY DEF ExecQueue
  <1> DEFINE c == Current
             w == IF Dev(c).proto = "upp" THEN QueueChanges(c) ELSE QueueOutputs(c)
  <1>2. c \in Devices /\ world \in Worlds /\ DOMAIN io = Devices
    BY CurrentIs, RowsOf
  <1>3. CASE UNCHANGED io
    BY <1>1, <1>3, ProgramMoves DEF ScanInv
  <1>4. CASE io' = [io EXCEPT ![c].write = w]
    <2>1. Modbus(c) => OneScan(c, w)
      <3>1. ASSUME Modbus(c) PROVE w = QueueOutputs(c)
        BY <3>1 DEF Modbus
      <3>2. \A n \in Selected(Fields(c), {"out"}) : QueueOutputs(c)[n] = prog[c].vals[n]
        BY <1>2, PlainOutputs DEF QueueOutputs
      <3> HIDE DEF w, c
      <3> QED
        BY <1>2, <3>1, <3>2 DEF ScanInv, OneScan
    <2>2. \A d \in Devices : DOMAIN io[d] = {"read", "write", "conn", "err"}
      BY RowsOf DEF SharedRow
    <2> HIDE DEF w, c
    <2>3. io'[c].write = w /\ io'[c].conn = io[c].conn /\ \A d \in Devices : d # c => io'[d] = io[d]
      BY <1>2, <1>4, <2>2
    <2>4. \A d \in Devices : Modbus(d) => OneScan(d, io'[d].write) /\ io'[d].conn = io[d].conn
      BY <2>1, <2>3 DEF ScanInv
    <2> QED
      BY <1>1, <2>4, ProgramMoves DEF ScanInv
  <1> QED
    BY <1>3, <1>4 DEF ExecQueue

LEMMA ScanExecCopy ==
  ASSUME TypeInv, ScanInv, ExecCopy PROVE ScanInv'
  <1>1. UNCHANGED <<world, link, reg, io, thr, air, up, dev, faults, seen>>
    BY DEF ExecCopy
  <1> DEFINE c == Current
             row == IF Dev(c).proto = "upp" THEN CopyAll(c) ELSE CopyInputs(c)
             conn == io[c].conn
             err == io[c].err
  <1>2. c \in Devices /\ world \in Worlds /\ DOMAIN prog = Devices
    BY CurrentIs DEF TypeInv, Shape
  <1>3. CASE UNCHANGED prog
    BY <1>1, <1>3, ProgramMoves DEF ScanInv
  <1>4. CASE prog' = [prog EXCEPT ![c] = [vals |-> row, conn |-> conn, err |-> err]]
    <2>1. Modbus(c) => OneScan(c, row)
      <3>1. ASSUME Modbus(c) PROVE row = CopyInputs(c)
        BY <3>1 DEF Modbus
      <3>2. \A n \in Selected(Fields(c), {"out"}) : CopyInputs(c)[n] = prog[c].vals[n]
        BY <1>2, PlainOutputs DEF CopyInputs
      <3> HIDE DEF row, c
      <3> QED
        BY <1>2, <3>1, <3>2 DEF ScanInv, OneScan
    <2> HIDE DEF row, conn, err, c
    <2>2. prog'[c].vals = row /\ \A d \in Devices : d # c => prog'[d] = prog[d]
      BY <1>2, <1>4
    <2>3. \A d \in Devices : Modbus(d) => OneScan(d, prog'[d].vals)
      BY <2>1, <2>2 DEF ScanInv
    <2> QED
      BY <1>1, <2>3, ProgramMoves DEF ScanInv
  <1> QED
    BY <1>3, <1>4 DEF ExecCopy

LEMMA ScanExecSimulated ==
  ASSUME TypeInv, ScanInv, ExecSimulated PROVE ScanInv'
  <1>1. UNCHANGED <<world, link, reg, io, thr, air, up, faults, seen>> /\ Dev(Current).proto = "sim"
    BY DEF ExecSimulated
  <1>2. DOMAIN prog = Devices /\ DOMAIN dev = Devices /\ Current \in Devices
    BY CurrentIs DEF TypeInv, Shape
  <1>3. \A d \in Devices : d # Current => prog'[d] = prog[d] /\ dev'[d] = dev[d]
    BY <1>2 DEF ExecSimulated
  <1>4. \A d \in Devices : Modbus(d) => prog'[d] = prog[d] /\ dev'[d] = dev[d]
    BY <1>1, <1>3 DEF Modbus
  <1> QED
    BY <1>1, <1>4, ProgramMoves DEF ScanInv

LEMMA ScanSetInput ==
  ASSUME TypeInv, ScanInv, SetInput PROVE ScanInv'
  <1>1. PICK e \in Devices, x \in {0, 1} :
          /\ Dev(e).proto = "sim"
          /\ \E n \in InputIndices(e) : dev' = [dev EXCEPT ![e][CellOf(e, n)] = x]
          /\ UNCHANGED <<world, scan, prog, link, reg, io, thr, air, up, faults, seen>>
    BY DEF SetInput
  <1>2. DOMAIN dev = Devices
    BY RowsOf
  <1>3. \A d \in Devices : d # e => dev'[d] = dev[d]
    BY <1>1, <1>2
  <1>4. \A d \in Devices : Modbus(d) => dev'[d] = dev[d]
    BY <1>1, <1>3 DEF Modbus
  <1> QED
    BY <1>1, <1>4, ProgramMoves DEF ScanInv

\* Steps of a thread between two polls.
LEMMA IdleSteps ==
  ASSUME TypeInv, ExecRegister \/ BusStep
  PROVE  /\ UNCHANGED <<world, prog, io, air, up, dev, seen>>
         /\ \E t \in Threads : /\ \A s \in Threads : s # t => thr'[s] = thr[s]
                               /\ \/ thr'[t] = thr[t]
                                  \/ /\ thr[t].dev = "none" /\ thr'[t].dev = "none"
                                     /\ thr[t].pc \in Between /\ thr'[t].pc \in Between
  <1>1. /\ DOMAIN thr = Threads /\ Bus \in Threads /\ world \in Worlds
        /\ \A t \in Threads : ThreadRow(t, thr[t], air[t], up[t], reg) /\ DOMAIN thr[t] = ThreadFields
    BY RowsOf DEF ThreadRow
  <1>2. UNCHANGED <<world, prog, io, air, up, dev, seen>>
    BY DEF ExecRegister, BusStep, BusStart, BusRound, SkipDevice, RoundEnd
  <1>3. ASSUME NEW t \in Threads, thr[t].pc \in Between PROVE thr[t].dev = "none"
    BY <1>1, <1>3 DEF ThreadRow
  <1>4. ASSUME NEW t \in Threads, thr[t].pc \in Between, NEW pc \in Between, thr' = [thr EXCEPT ![t].pc = pc]
        PROVE  /\ thr[t].dev = "none" /\ thr'[t].dev = "none" /\ thr'[t].pc \in Between
               /\ \A s \in Threads : s # t => thr'[s] = thr[s]
    <2>1. thr'[t] = [thr[t] EXCEPT !.pc = pc] /\ \A s \in Threads : s # t => thr'[s] = thr[s]
      BY <1>1, <1>4
    <2>2. thr'[t].dev = thr[t].dev /\ thr'[t].pc = pc
      BY <1>1, <2>1 DEF ThreadFields
    <2> QED
      BY <1>3, <1>4, <2>1, <2>2
  <1>5. CASE BusStep
    <2>1. thr[Bus].pc \in Between /\ thr[Bus].dev = "none"
      BY <1>1, <1>3, <1>5 DEF BusStep, BusStart, BusRound, SkipDevice, RoundEnd, Between
    <2>2. \A s \in Threads : s # Bus => thr'[s] = thr[s]
      BY <1>1, <1>5 DEF BusStep, BusStart, BusRound, SkipDevice, RoundEnd
    <2>3. thr'[Bus].dev = thr[Bus].dev /\ thr'[Bus].pc \in Between
      <3>1. CASE BusStart \/ RoundEnd
        BY <1>1, <3>1 DEF BusStart, RoundEnd, ThreadFields, Between
      <3>2. CASE BusRound
        BY <1>1, <3>2 DEF BusRound, ThreadFields, Between
      <3>3. CASE SkipDevice
        BY <1>1, <3>3 DEF SkipDevice, ThreadFields, Between
      <3> QED
        BY <1>5, <3>1, <3>2, <3>3 DEF BusStep
    <2> QED
      BY <1>1, <1>2, <2>1, <2>2, <2>3
  <1>6. CASE ExecRegister
    <2>1. /\ Current \in Devices /\ Current \notin reg /\ Dev(Current).proto # "sim"
      BY <1>6, CurrentIs DEF ExecRegister
    <2>2. CASE Serial(Current)
      <3>1. RegisterSerial(Current)
        BY <1>6, <2>2 DEF ExecRegister
      <3>2. CASE UNCHANGED thr
        BY <1>1, <1>2, <3>2
      <3>3. CASE thr[Bus].pc # "dead"
        <4> DEFINE pc == IF thr[Bus].pc = "off" THEN "wait" ELSE thr[Bus].pc
        <4>1. thr[Bus].pc \in Between
          BY <3>1, <3>3 DEF RegisterSerial, ListLocked, Between
        <4>2. thr' = [thr EXCEPT ![Bus].pc = pc]
          BY <3>1, <3>3 DEF RegisterSerial
        <4>3. pc \in Between
          BY <4>1 DEF Between
        <4> HIDE DEF pc
        <4> QED
          BY <1>1, <1>2, <1>4, <4>1, <4>2, <4>3
      <3> QED
        BY <3>1, <3>2, <3>3 DEF RegisterSerial
    <2>3. CASE ~Serial(Current)
      <3> DEFINE t == Current
      <3>1. StartTcp(t) /\ ThreadOf(t) = t
        BY <1>6, <2>3 DEF ExecRegister, ThreadOf
      <3>2. t \in Threads /\ t # Bus
        BY <1>1, <2>1, <3>1, ThreadIs, DeviceIs DEF Bus
      <3>3. thr[t].pc \in Between
        <4> SUFFICES ASSUME thr[t].pc \notin Between PROVE FALSE
          OBVIOUS
        <4>1. thr[t].dev \in Devices /\ thr[t].dev \in reg /\ ThreadOf(thr[t].dev) = t
          BY <1>1, <3>2 DEF ThreadRow, Polls
        <4>2. thr[t].dev = t
          BY <1>1, <2>1, <3>1, <3>2, <4>1, ThreadIs
        <4> QED
          BY <2>1, <4>1, <4>2
      <3>4. thr' = [thr EXCEPT ![t].pc = "idle"] /\ "idle" \in Between
        BY <3>1 DEF StartTcp, Between
      <3> HIDE DEF t
      <3> QED
        BY <1>2, <1>4, <3>2, <3>3, <3>4
    <2> QED
      BY <2>2, <2>3
  <1> QED
    BY <1>5, <1>6

LEMMA ScanIdle ==
  ASSUME TypeInv, ScanInv, ExecRegister \/ BusStep PROVE ScanInv'
  <1>1. UNCHANGED <<world, prog, io, air, up, dev, seen>>
    BY IdleSteps
  <1>2. PICK t \in Threads : /\ \A s \in Threads : s # t => thr'[s] = thr[s]
                             /\ \/ thr'[t] = thr[t]
                                \/ thr[t].dev = "none" /\ thr'[t].dev = "none"
    BY IdleSteps
  <1>3. CASE thr'[t] = thr[t]
    <2>1. \A d \in Devices : Modbus(d) => thr'[ThreadOf(d)] = thr[ThreadOf(d)]
      BY <1>2, <1>3, RowsOf, ThreadIs DEF Modbus
    <2> QED
      BY <1>1, <2>1, ScanMoves DEF ScanInv
  <1>4. CASE thr[t].dev = "none" /\ thr'[t].dev = "none"
    <2>1. "none" \notin Devices
      BY RowsOf, DeviceIs
    <2> QED
      BY <1>1, <1>2, <1>4, <2>1, ScanThread
  <1> QED
    BY <1>2, <1>3, <1>4

\* What connecting changes of the state of the device.
LEMMA ConnectIs ==
  ASSUME TypeInv, NEW t \in Threads, TcpConnect(t)
  PROVE  /\ UNCHANGED <<world, scan, prog, link, reg, thr, air, dev, seen>>
         /\ t \in Devices /\ ThreadOf(t) = t /\ thr[t].dev = "none"
         /\ \A e \in Devices : io'[e].write = io[e].write /\ (e # t => io'[e] = io[e])
         /\ io'[t].conn => io[t].conn
  <1>1. UNCHANGED <<world, scan, prog, link, reg, thr, air, dev, seen>> /\ t # Bus /\ thr[t].pc = "idle"
    BY DEF TcpConnect
  <1>2. t \in Devices /\ ThreadOf(t) = t /\ SharedRow(t, io[t]) /\ DOMAIN io = Devices
    BY <1>1, RowsOf, ThreadIs
  <1>3. thr[t].dev = "none"
    BY <1>1, RowsOf DEF ThreadRow, Between
  <1>4. CASE UNCHANGED io
    BY <1>1, <1>2, <1>3, <1>4
  <1>5. CASE io' = [io EXCEPT ![t].conn = FALSE, ![t].err = 2]
    <2> DEFINE i == [io[t] EXCEPT !.conn = FALSE]
               j == [i EXCEPT !.err = 2]
    <2>1. io'[t] = j /\ \A e \in Devices : e # t => io'[e] = io[e]
      BY <1>2, <1>5
    <2>2. DOMAIN i = {"read", "write", "conn", "err"} /\ i.write = io[t].write /\ i.conn = FALSE
      BY <1>2 DEF SharedRow
    <2> HIDE DEF i
    <2>3. j.write = io[t].write /\ j.conn = i.conn
      BY <2>2
    <2> HIDE DEF j
    <2>4. ~j.conn
      BY <2>2, <2>3, Zenon
    <2> QED
      BY <1>1, <1>2, <1>3, <2>1, <2>3, <2>4
  <1> QED
    BY <1>4, <1>5 DEF TcpConnect

LEMMA ScanTcpConnect ==
  ASSUME TypeInv, ScanInv, NEW t \in Threads, TcpConnect(t) PROVE ScanInv'
  <1>1. /\ UNCHANGED <<world, scan, prog, link, reg, thr, air, dev, seen>>
        /\ t \in Devices /\ ThreadOf(t) = t /\ thr[t].dev = "none"
        /\ \A e \in Devices : io'[e].write = io[e].write /\ (e # t => io'[e] = io[e])
        /\ io'[t].conn => io[t].conn
    BY ConnectIs
  <1>2. Modbus(t) /\ OutputsApart(t) =>
          Delivering(t, thr[t], air[t], dev[t]) /\ Delivered(t, thr[t], io'[t], seen[t], dev[t])
    BY <1>1 DEF ScanInv, Delivered
  <1> QED
    BY <1>1, <1>2, ScanThread

LEMMA ScanPollStart ==
  ASSUME TypeInv, ScanInv, NEW d \in Devices, PollStart(d) PROVE ScanInv'
  <1> DEFINE t == ThreadOf(d)
             x == thr'[t]
             w == io[d].write
  <1>1. /\ t \in Threads /\ Dev(d).proto # "sim" /\ world \in Worlds /\ d # "none"
        /\ UNCHANGED <<world, scan, prog, link, reg, air, up, dev, faults>> /\ thr[t].dev = "none"
        /\ \A s \in Threads : s # t => thr'[s] = thr[s]
        /\ x.pc = Step(Requests(d)) /\ x.dev = d /\ x.ops = Requests(d) /\ x.snap = w
        /\ \A e \in Devices : e # d => io'[e] = io[e] /\ seen'[e] = seen[e]
    BY PollStartIs, RowsOf, DeviceIs
  <1>2. Dev(d).proto # "upp" => io'[d].write = w
    BY PollStartIs
  <1>3. Modbus(d) => Dev(d).proto # "upp"
    BY DEF Modbus
  <1>4. \A e \in Devices : Modbus(e) => io'[e].write = io[e].write
    BY <1>1, <1>2, <1>3
  <1>5. ASSUME Modbus(d), OutputsApart(d)
        PROVE  Delivering(d, x, air'[t], dev'[d]) /\ Delivered(d, x, io'[d], seen'[d], dev'[d])
    <2> DEFINE regs == ExpandRegisters(Fields(d), Outputs)
    <2>1. OneScan(d, x.snap)
      BY <1>1, <1>5 DEF ScanInv
    <2>2. x.pc # "recv"
      BY <1>1 DEF Step
    <2>3. w \in Rows(d)
      BY RowsOf DEF SharedRow, Pending
    <2>4. Lists(Requests(d), OpsOf(d, w))
      BY <1>1, <2>3, RequestsAre
    <2>5. ASSUME NEW r \in Written(d) PROVE \E k \in 1..Len(x.ops) : Sets(x.ops[k], r)
      <3>1. PICK k \in 1..Len(regs) : regs[k] = r
        BY <1>1, <1>5, WrittenIs
      <3>2. r.kind \in WrittenKinds
        BY <1>1, <1>5, WrittenIs
      <3>3. regs \in Seq(Registers) /\ \A i \in 1..Len(regs) : regs[i].io \in Indices(d)
        BY <1>1, <1>5, ListIs DEF Listed, Selected, Indices
      <3>4. \A i \in 1..Len(regs) : w[regs[i].io] \in Values
        BY <2>3, <3>3 DEF Rows
      <3>5. regs[k].kind \in WrittenKinds
        BY <3>1, <3>2
      <3> HIDE DEF regs, w
      <3>6. PICK b \in 1..Len(WriteBatched(regs, w)) : \E j \in 1..WriteBatched(regs, w)[b].n :
              WriteBatched(regs, w)[b].rest[j] = regs[k]
        BY <3>3, <3>4, <3>5, WritesCover
      <3> DEFINE op == WriteBatched(regs, w)[b]
      <3>7. op \in Writes(d, w)
        BY DEF Writes, ToSet, regs
      <3> HIDE DEF op
      <3>8. ~IsReadFunction(op.fc)
        BY <1>1, <1>5, <2>3, <3>7, WriteOpIs DEF w
      <3>9. Sets(op, r)
        BY <3>1, <3>6, <3>8 DEF Sets, op
      <3>10. op \in OpsOf(d, w)
        BY <1>3, <1>5, <3>7 DEF OpsOf
      <3>11. PICK i \in 1..Len(Requests(d)) : Requests(d)[i] = op
        BY <2>4, <3>10 DEF Lists
      <3> QED
        BY <1>1, <3>9, <3>11
    <2>6. Settled(d, x, dev'[d])
      BY <2>5 DEF Settled
    <2> QED
      BY <1>1, <2>1, <2>2, <2>6 DEF Delivering, Delivered
  <1> HIDE DEF t
  <1>6. ThreadOf(d) = t
    BY DEF t
  <1> QED
    BY <1>1, <1>4, <1>5, <1>6, ScanThread

LEMMA ExecutedSets ==
  ASSUME world \in Worlds, NEW d \in Devices, Modbus(d), OutputsApart(d), NEW w \in Rows(d), NEW op \in OpsOf(d, w),
         dev[d] \in [Cells(d) -> Content(d)]
  PROVE  /\ Done(Executed(d, op), op)
         /\ \A r \in Written(d) : \/ Executed(d, op)[Address(r)] = ToRaw(w[r.io], r)
                                  \/ Executed(d, op)[Address(r)] = dev[d][Address(r)]
  <1> DEFINE v == Executed(d, op)
             regs == ExpandRegisters(Fields(d), Outputs)
  <1>1. CASE IsReadFunction(op.fc)
    <2>1. v = dev[d]
      BY <1>1, ModbusOpIs DEF Executed
    <2> QED
      BY <1>1, <2>1 DEF Done
  <1>2. CASE ~IsReadFunction(op.fc)
    <2>1. /\ op \in Writes(d, w) /\ Dev(d).proto # "upp" /\ IsWrite(d, op)
      BY <1>2, ModbusOpIs DEF Modbus
    <2>2. /\ op.n <= Len(op.rest) /\ Listed(d, op.rest, OutputIndices(d)) /\ op \in ModbusOps
          /\ \A j \in 1..op.n : op.rest[j] \in ToSet(regs) /\ op.vals[j] = ToRaw(w[op.rest[j].io], op.rest[j])
      BY <2>1, WriteOpIs
    <2>3. v = [c \in Cells(d) |->
                IF \E j \in 1..op.n : c = Address(op.rest[j])
                THEN op.vals[CHOOSE j \in 1..op.n : c = Address(op.rest[j])]
                ELSE dev[d][c]]
      BY <2>1 DEF Executed
    <2>4. op.n \in Nat /\ Len(op.rest) \in Nat
      BY <2>2 DEF ModbusOps
    <2>5. \A j \in 1..op.n : Address(op.rest[j]) \in Cells(d)
      BY <2>2, <2>4 DEF Listed
    <2> HIDE DEF v, regs
    <2>6. ASSUME NEW j \in 1..op.n PROVE v[Address(op.rest[j])] = op.vals[j]
      <3> DEFINE c == Address(op.rest[j])
                 i == CHOOSE i \in 1..op.n : c = Address(op.rest[i])
      <3>1. i \in 1..op.n /\ c = Address(op.rest[i])
        OBVIOUS
      <3>2. v[c] = op.vals[i]
        BY <2>3, <2>5
      <3> HIDE DEF i
      <3>3. op.rest[i] = op.rest[j]
        BY <2>2, <3>1 DEF OutputsApart, regs
      <3> QED
        BY <2>2, <3>1, <3>2, <3>3
    <2>7. ASSUME NEW r \in Written(d)
          PROVE  v[Address(r)] = ToRaw(w[r.io], r) \/ v[Address(r)] = dev[d][Address(r)]
      <3>1. r \in ToSet(regs) /\ r = Register(Fields(d), r.io) /\ r.io \in Indices(d)
        BY WrittenIs, PlainOutputs DEF regs
      <3>2. Address(r) \in Cells(d)
        <4>1. CellOf(d, r.io) = Address(r)
          BY <3>1 DEF CellOf, Modbus
        <4> QED
          BY <3>1, <4>1 DEF Cells
      <3>3. CASE \E j \in 1..op.n : Address(r) = Address(op.rest[j])
        <4>1. PICK j \in 1..op.n : Address(r) = Address(op.rest[j])
          BY <3>3
        <4>2. op.rest[j] = r
          BY <2>2, <3>1, <4>1 DEF OutputsApart, regs
        <4> QED
          BY <2>2, <2>6, <4>1, <4>2
      <3>4. CASE ~ \E j \in 1..op.n : Address(r) = Address(op.rest[j])
        BY <2>3, <3>2, <3>4
      <3> QED
        BY <3>3, <3>4
    <2> QED
      BY <2>6, <2>7 DEF Done, v
  <1> QED
    BY <1>1, <1>2

LEMMA ScanTxSend ==
  ASSUME TypeInv, ScanInv, NEW t \in Threads, TxSend(t) PROVE ScanInv'
  <1> DEFINE d == thr[t].dev
             op == Head(thr[t].ops)
             w == thr[t].snap
             x == thr'[t]
  <1>1. /\ thr[t].pc = "send" /\ op.sendable /\ UNCHANGED <<world, scan, prog, link, reg, io, up, seen>>
        /\ \A s \in Threads : s # t => thr'[s] = thr[s] /\ air'[s] = air[s]
        /\ \A e \in Devices : e # d => dev'[e] = dev[e]
    BY SendIs
  <1>2. PICK late \in Remaining(t) : Sent(t, d, op, late)
    BY SendIs
  <1>3. /\ thr[t].pc \in Busy /\ d \in Devices /\ ThreadOf(d) = t /\ w \in Rows(d) /\ op \in OpsOf(d, w)
        /\ DOMAIN thr[t] = ThreadFields /\ world \in Worlds /\ d # "none"
        /\ thr[t].ops # <<>> /\ thr[t].ops \in Seq(OpsOf(d, w))
    <2>1. thr[t].pc \in Busy
      BY <1>1 DEF Busy
    <2> QED
      BY <2>1, BusyIs, RowsOf, DeviceIs
  <1>4. \/ Dev(d).proto = "upp" /\ x = AfterOp(t, IF op.write THEN ErrOk ELSE UppBadResponse)
        \/ x = [thr[t] EXCEPT !.pc = "recv"]
    BY SendIs
  <1>5. x.dev = d
    <2> DEFINE S == OpsOf(d, w)
    <2>1. thr[t].ops \in Seq(S)
      BY <1>3
    <2> HIDE DEF S
    <2>2. \A err : AfterOp(t, err).dev = d
      BY <1>3, <2>1, AfterOpIs
    <2>3. [thr[t] EXCEPT !.pc = "recv"].dev = d
      BY <1>3 DEF ThreadFields
    <2> QED
      BY <1>4, <2>2, <2>3
  <1>6. ASSUME Modbus(d), OutputsApart(d)
        PROVE  Delivering(d, x, air'[t], dev'[d]) /\ Delivered(d, x, io'[d], seen'[d], dev'[d])
    <2>1. /\ x.ops = thr[t].ops /\ x.snap = w /\ x.writeErr = thr[t].writeErr /\ x.own = thr[t].own
      <3>1. x = [thr[t] EXCEPT !.pc = "recv"]
        BY <1>4, <1>6 DEF Modbus
      <3> QED
        BY <1>3, <3>1 DEF ThreadFields
    <2>2. Delivering(d, thr[t], air[t], dev[d])
      BY <1>3, <1>6 DEF ScanInv
    <2>3. OneScan(d, w) /\ Settled(d, thr[t], dev[d])
      BY <2>2 DEF Delivering
    <2>4. dev[d] \in [Cells(d) -> Content(d)] /\ air[t] \in Seq(Frames)
      BY <1>3, RowsOf DEF ThreadRow
    <2>5. /\ Done(Executed(d, op), op)
          /\ \A r \in Written(d) : \/ Executed(d, op)[Address(r)] = ToRaw(w[r.io], r)
                                   \/ Executed(d, op)[Address(r)] = dev[d][Address(r)]
      BY <1>3, <1>6, <2>4, ExecutedSets
    <2>6. dev'[d] = dev[d] \/ dev'[d] = Executed(d, op)
      BY <1>2 DEF Sent
    <2> HIDE DEF d, op, w, x
    <2>7. Settled(d, x, dev'[d])
      <3>1. CASE dev'[d] = dev[d]
        BY <2>1, <2>3, <3>1 DEF Settled, w
      <3>2. CASE dev'[d] = Executed(d, op)
        BY <2>1, <2>3, <2>5, <3>2 DEF Settled, w
      <3> QED
        BY <2>6, <3>1, <3>2
    <2>8. ASSUME NEW k \in 1..Len(air'[t]), air'[t][k].late = 0, ~air'[t][k].exc
          PROVE  Done(dev'[d], op)
      <3>1. late \in Seq(Frames) /\ \A j \in 1..Len(late) : late[j].late # 0
        BY <2>4, RemainingIs
      <3>2. CASE air'[t] = late
        BY <2>8, <3>1, <3>2
      <3>3. CASE air'[t] = Append(late, Answer(d, op, FALSE)) /\ dev'[d] = Executed(d, op)
        BY <2>5, <3>3
      <3>4. CASE air'[t] = Append(late, Answer(d, op, TRUE))
        <4> DEFINE g == Answer(d, op, TRUE)
        <4>1. g.exc = TRUE
          BY <1>3, <1>6, <2>4, ModbusAnswerIs DEF w
        <4> HIDE DEF g
        <4>2. \A j \in 1..Len(Append(late, g)) : (j \in 1..Len(late) /\ Append(late, g)[j] = late[j]) \/ Append(late, g)[j] = g
          BY <3>1
        <4>3. Append(late, g)[k] = g \/ (k \in 1..Len(late) /\ Append(late, g)[k] = late[k])
          BY <2>8, <3>4, <4>2 DEF g
        <4> QED
          BY <2>8, <3>1, <3>4, <4>1, <4>3 DEF g
      <3> QED
        BY <1>2, <3>2, <3>3, <3>4 DEF Sent
    <2> QED
      BY <1>5, <2>1, <2>3, <2>7, <2>8 DEF Delivering, Delivered, op
  <1> HIDE DEF d
  <1>7. thr[t].dev = d
    BY DEF d
  <1> QED
    BY <1>1, <1>3, <1>5, <1>6, <1>7, ScanThread

\* The thread that goes on to its next request has lost nothing it still owes.
LEMMA SettledAfter ==
  ASSUME TypeInv, NEW t \in Threads, thr[t].pc \in Busy, Modbus(thr[t].dev), Settled(thr[t].dev, thr[t], dev[thr[t].dev]),
         NEW x, x.ops = Tail(thr[t].ops), x.snap = thr[t].snap,
         \/ x.writeErr # ErrOk
         \/ ~x.own
         \/ /\ x.writeErr = thr[t].writeErr /\ thr[t].own
            /\ IsReadFunction(Head(thr[t].ops).fc) \/ Done(dev[thr[t].dev], Head(thr[t].ops))
  PROVE  Settled(thr[t].dev, x, dev[thr[t].dev])
  <1> DEFINE d == thr[t].dev
             op == Head(thr[t].ops)
             ops == thr[t].ops
             w == thr[t].snap
             S == OpsOf(d, w)
  <1>1. /\ d \in Devices /\ world \in Worlds /\ w \in Rows(d) /\ op \in S /\ ops \in Seq(S) /\ ops # <<>>
    BY BusyIs, RowsOf
  <1>2. CASE x.writeErr # ErrOk
    BY <1>2 DEF Settled
  <1>3. CASE ~x.own
    BY <1>3 DEF Settled
  <1>4. CASE /\ x.writeErr = thr[t].writeErr /\ thr[t].own
             /\ IsReadFunction(op.fc) \/ Done(dev[d], op)
    <2> SUFFICES ASSUME NEW r \in Written(d)
                 PROVE  \/ dev[d][Address(r)] = ToRaw(x.snap[r.io], r)
                        \/ \E k \in 1..Len(x.ops) : Sets(x.ops[k], r)
                        \/ x.writeErr # ErrOk
      BY DEF Settled
    <2>1. \/ dev[d][Address(r)] = ToRaw(w[r.io], r)
          \/ \E k \in 1..Len(ops) : Sets(ops[k], r)
          \/ thr[t].writeErr # ErrOk
      BY <1>4 DEF Settled
    <2>2. CASE \E k \in 1..Len(ops) : Sets(ops[k], r)
      <3>1. PICK k \in 1..Len(ops) : Sets(ops[k], r)
        BY <2>2
      <3>2. CASE k = 1
        <4>1. Sets(op, r)
          BY <1>1, <3>1, <3>2
        <4>2. PICK j \in 1..op.n : op.rest[j] = r
          BY <4>1 DEF Sets
        <4>3. ~IsReadFunction(op.fc)
          BY <4>1 DEF Sets
        <4>4. dev[d][Address(r)] = op.vals[j]
          BY <1>4, <4>2, <4>3 DEF Done
        <4>5. op \in Writes(d, w)
          BY <1>1, <4>3, ModbusOpIs
        <4>6. op.vals[j] = ToRaw(w[op.rest[j].io], op.rest[j])
          BY <1>1, <4>5, WriteOpIs
        <4> QED
          BY <4>2, <4>4, <4>6
      <3>3. CASE k # 1
        <4> HIDE DEF S, ops
        <4>1. k - 1 \in 1..Len(Tail(ops)) /\ Tail(ops)[k - 1] = ops[k]
          BY <1>1, <3>3
        <4> QED
          BY <3>1, <4>1 DEF ops
      <3> QED
        BY <3>2, <3>3
    <2> QED
      BY <1>4, <2>1, <2>2
  <1> QED
    BY <1>2, <1>3, <1>4

\* A request that failed.
LEMMA ScanFailed ==
  ASSUME TypeInv, ScanInv, NEW t \in Threads, thr[t].pc \in Busy, NEW err, err # ErrOk, NEW a
  PROVE  LET d == thr[t].dev
         IN /\ AfterOp(t, err).dev = d
            /\ Modbus(d) /\ OutputsApart(d) =>
                 Delivering(d, AfterOp(t, err), a, dev[d]) /\ Delivered(d, AfterOp(t, err), io[d], seen[d], dev[d])
  <1> DEFINE d == thr[t].dev
             op == Head(thr[t].ops)
             x == AfterOp(t, err)
             S == OpsOf(d, thr[t].snap)
  <1>1. /\ d \in Devices /\ ThreadOf(d) = t /\ world \in Worlds /\ DOMAIN thr[t] = ThreadFields
        /\ thr[t].ops \in Seq(S) /\ thr[t].ops # <<>>
    BY BusyIs, RowsOf
  <1> HIDE DEF S
  <1>2. /\ x.ops = Tail(thr[t].ops) /\ x.pc \in {"send", "end"} /\ x.dev = d /\ x.snap = thr[t].snap
        /\ x.own = thr[t].own
        /\ x.writeErr = IF err = ErrOk \/ ~IsWrite(d, op) THEN thr[t].writeErr ELSE err
    BY <1>1, AfterOpIs
  <1>3. ASSUME Modbus(d), OutputsApart(d) PROVE Delivering(d, x, a, dev[d]) /\ Delivered(d, x, io[d], seen[d], dev[d])
    <2>1. Delivering(d, thr[t], air[t], dev[d])
      BY <1>1, <1>3 DEF ScanInv
    <2>2. OneScan(d, thr[t].snap) /\ Settled(d, thr[t], dev[d])
      BY <2>1 DEF Delivering
    <2>3. IsWrite(d, op) <=> ~IsReadFunction(op.fc)
      BY <1>3 DEF IsWrite, Modbus
    <2> HIDE DEF x
    <2>4. Settled(d, x, dev[d])
      BY <1>2, <1>3, <2>2, <2>3, SettledAfter
    <2> QED
      BY <1>2, <2>2, <2>4 DEF Delivering, Delivered
  <1> QED
    BY <1>2, <1>3

\* A thread that repeats the request at hand.
LEMMA ScanAgain ==
  ASSUME TypeInv, ScanInv, NEW t \in Threads, thr[t].pc \in Busy, NEW x, NEW a, x.pc # "recv", x.dev = thr[t].dev,
         x.ops = thr[t].ops, x.snap = thr[t].snap, x.own = thr[t].own, x.writeErr = thr[t].writeErr
  PROVE  LET d == thr[t].dev
         IN Modbus(d) /\ OutputsApart(d) => Delivering(d, x, a, dev[d]) /\ Delivered(d, x, io[d], seen[d], dev[d])
  <1> DEFINE d == thr[t].dev
  <1>1. d \in Devices /\ ThreadOf(d) = t
    BY BusyIs
  <1>2. ASSUME Modbus(d), OutputsApart(d) PROVE Delivering(d, x, a, dev[d]) /\ Delivered(d, x, io[d], seen[d], dev[d])
    <2>1. Delivering(d, thr[t], air[t], dev[d])
      BY <1>1, <1>2 DEF ScanInv
    <2>2. OneScan(d, thr[t].snap) /\ Settled(d, thr[t], dev[d])
      BY <2>1 DEF Delivering
    <2>3. Settled(d, x, dev[d])
      BY <2>2 DEF Settled
    <2> QED
      BY <2>2, <2>3 DEF Delivering, Delivered
  <1> QED
    BY <1>2

\* Steps of a busy thread that leave the devices and the shared state alone.
LEMMA ScanAlone ==
  ASSUME TypeInv, ScanInv, NEW t \in Threads, thr[t].pc \in Busy, UNCHANGED <<world, prog, io, dev, seen>>,
         \A s \in Threads : s # t => thr'[s] = thr[s] /\ air'[s] = air[s],
         \/ \E err : err # ErrOk /\ thr'[t] = AfterOp(t, err)
         \/ /\ thr'[t].pc # "recv" /\ thr'[t].dev = thr[t].dev /\ thr'[t].ops = thr[t].ops
            /\ thr'[t].snap = thr[t].snap /\ thr'[t].own = thr[t].own /\ thr'[t].writeErr = thr[t].writeErr
  PROVE  ScanInv'
  <1> DEFINE d == thr[t].dev
             x == thr'[t]
  <1>1. d \in Devices /\ ThreadOf(d) = t
    BY BusyIs
  <1>2. /\ x.dev = d
        /\ Modbus(d) /\ OutputsApart(d) =>
             Delivering(d, x, air'[t], dev[d]) /\ Delivered(d, x, io[d], seen[d], dev[d])
    <2>1. ASSUME NEW err, err # ErrOk, x = AfterOp(t, err)
          PROVE  /\ x.dev = d
                 /\ Modbus(d) /\ OutputsApart(d) =>
                      Delivering(d, x, air'[t], dev[d]) /\ Delivered(d, x, io[d], seen[d], dev[d])
      BY <2>1, ScanFailed
    <2>2. ASSUME x.pc # "recv", x.dev = thr[t].dev, x.ops = thr[t].ops,
                 x.snap = thr[t].snap, x.own = thr[t].own, x.writeErr = thr[t].writeErr
          PROVE  /\ x.dev = d
                 /\ Modbus(d) /\ OutputsApart(d) =>
                      Delivering(d, x, air'[t], dev[d]) /\ Delivered(d, x, io[d], seen[d], dev[d])
      <3> HIDE DEF x
      <3> QED
        BY <2>2, ScanAgain
    <2> QED
      BY <2>1, <2>2
  <1> HIDE DEF d
  <1>3. thr[t].dev = d
    BY DEF d
  <1> QED
    BY <1>1, <1>2, <1>3, ScanThread

LEMMA ScanTxRefused ==
  ASSUME TypeInv, ScanInv, NEW t \in Threads, TxRefused(t) PROVE ScanInv'
  <1>1. /\ UNCHANGED <<world, scan, prog, link, reg, io, air, up, dev, faults, seen>>
        /\ thr' = [thr EXCEPT ![t] = AfterOp(t, UppOutOfRange)] /\ thr[t].pc \in Busy
    BY DEF TxRefused, Busy
  <1>2. UppOutOfRange # ErrOk
    BY DEF UppOutOfRange, ErrOk
  <1>3. thr'[t] = AfterOp(t, UppOutOfRange) /\ \A s \in Threads : s # t => thr'[s] = thr[s]
    BY <1>1, RowsOf
  <1> QED
    BY <1>1, <1>2, <1>3, ScanAlone

\* What the end of a deadline makes of the thread.
LEMMA TimedOutIs ==
  ASSUME TypeInv, NEW t \in Threads, thr[t].pc \in Busy
  PROVE  LET x == TimedOut(t)
         IN \/ \E err \in {UppTimeout, ErrTimeout} : err # ErrOk /\ x = AfterOp(t, err)
            \/ /\ t # Bus /\ DOMAIN x = ThreadFields /\ x.pc = "retry" /\ x.dev = thr[t].dev /\ x.ops = thr[t].ops
               /\ x.snap = thr[t].snap /\ x.news = thr[t].news /\ x.own = thr[t].own
               /\ x.readErr = thr[t].readErr /\ x.writeErr = thr[t].writeErr
  <1>1. DOMAIN thr[t] = ThreadFields
    BY BusyIs
  <1>2. CASE t # Bus /\ thr[t].try = 1
    <2>1. TimedOut(t) = [thr[t] EXCEPT !.pc = "retry"]
      BY <1>2 DEF TimedOut
    <2> QED
      BY <1>1, <1>2, <2>1 DEF ThreadFields
  <1>3. CASE ~(t # Bus /\ thr[t].try = 1)
    <2>1. TimedOut(t) = AfterOp(t, UppTimeout) \/ TimedOut(t) = AfterOp(t, ErrTimeout)
      BY <1>3 DEF TimedOut
    <2>2. UppTimeout # ErrOk /\ ErrTimeout # ErrOk
      BY DEF UppTimeout, ErrTimeout, ErrOk
    <2> QED
      BY <2>1, <2>2
  <1> QED
    BY <1>2, <1>3

LEMMA ScanTxTimeout ==
  ASSUME TypeInv, ScanInv, NEW t \in Threads, TxTimeout(t) PROVE ScanInv'
  <1>1. /\ UNCHANGED <<world, scan, prog, link, reg, io, air, up, dev, seen>>
        /\ thr' = [thr EXCEPT ![t] = TimedOut(t)] /\ thr[t].pc \in Busy
    BY DEF TxTimeout, Busy
  <1>2. thr'[t] = TimedOut(t) /\ \A s \in Threads : s # t => thr'[s] = thr[s]
    BY <1>1, RowsOf
  <1>3. \/ \E err : err # ErrOk /\ thr'[t] = AfterOp(t, err)
        \/ /\ thr'[t].pc # "recv" /\ thr'[t].dev = thr[t].dev /\ thr'[t].ops = thr[t].ops
           /\ thr'[t].snap = thr[t].snap /\ thr'[t].own = thr[t].own /\ thr'[t].writeErr = thr[t].writeErr
    BY <1>1, <1>2, TimedOutIs
  <1> QED
    BY <1>1, <1>2, <1>3, ScanAlone

LEMMA ScanTxNotConnected ==
  ASSUME TypeInv, ScanInv, NEW t \in Threads, TxNotConnected(t) PROVE ScanInv'
  <1>1. /\ UNCHANGED <<world, scan, prog, link, reg, io, air, up, dev, faults, seen>>
        /\ thr' = [thr EXCEPT ![t].pc = "retry"] /\ thr[t].pc \in Busy
    BY DEF TxNotConnected, Busy
  <1>2. thr'[t] = [thr[t] EXCEPT !.pc = "retry"] /\ \A s \in Threads : s # t => thr'[s] = thr[s]
    BY <1>1, RowsOf
  <1>3. DOMAIN thr[t] = ThreadFields
    BY <1>1, BusyIs
  <1>4. /\ thr'[t].pc # "recv" /\ thr'[t].dev = thr[t].dev /\ thr'[t].ops = thr[t].ops
        /\ thr'[t].snap = thr[t].snap /\ thr'[t].own = thr[t].own /\ thr'[t].writeErr = thr[t].writeErr
    BY <1>2, <1>3 DEF ThreadFields
  <1> QED
    BY <1>1, <1>2, <1>4, ScanAlone

LEMMA ReconnectIs ==
  ASSUME TypeInv, NEW t \in Threads, Reconnect(t)
  PROVE  LET x == thr'[t]
         IN /\ UNCHANGED <<world, scan, prog, link, reg, io, dev, seen>> /\ thr[t].pc = "retry" /\ thr[t].pc \in Busy
            /\ \A s \in Threads : s # t => thr'[s] = thr[s] /\ air'[s] = air[s]
            /\ air'[t] = <<>>
            /\ \/ x = AfterOp(t, ErrTimeout)
               \/ /\ DOMAIN x = ThreadFields /\ x.pc = "send" /\ x.dev = thr[t].dev /\ x.ops = thr[t].ops
                  /\ x.snap = thr[t].snap /\ x.news = thr[t].news /\ x.own = thr[t].own
                  /\ x.readErr = thr[t].readErr /\ x.writeErr = thr[t].writeErr /\ x.denied = thr[t].denied
  <1>1. /\ UNCHANGED <<world, scan, prog, link, reg, io, dev, seen>> /\ thr[t].pc = "retry" /\ thr[t].pc \in Busy
        /\ air' = [air EXCEPT ![t] = <<>>]
    BY DEF Reconnect, Busy
  <1>2. air'[t] = <<>> /\ \A s \in Threads : s # t => air'[s] = air[s]
    BY <1>1, RowsOf
  <1>3. DOMAIN thr[t] = ThreadFields /\ DOMAIN thr = Threads
    BY <1>1, BusyIs, RowsOf
  <1>4. CASE thr' = [thr EXCEPT ![t] = AfterOp(t, ErrTimeout)]
    BY <1>1, <1>2, <1>3, <1>4
  <1>5. CASE thr' = [thr EXCEPT ![t].pc = "send", ![t].try = 2]
    <2>1. thr'[t] = [[thr[t] EXCEPT !.pc = "send"] EXCEPT !.try = 2] /\ \A s \in Threads : s # t => thr'[s] = thr[s]
      BY <1>3, <1>5
    <2>2. LET x == thr'[t]
          IN /\ DOMAIN x = ThreadFields /\ x.pc = "send" /\ x.dev = thr[t].dev /\ x.ops = thr[t].ops
             /\ x.snap = thr[t].snap /\ x.news = thr[t].news /\ x.own = thr[t].own
             /\ x.readErr = thr[t].readErr /\ x.writeErr = thr[t].writeErr
      BY <1>3, <2>1 DEF ThreadFields
    <2> QED
      BY <1>1, <1>2, <2>1, <2>2
  <1> QED
    BY <1>4, <1>5 DEF Reconnect

LEMMA ScanReconnect ==
  ASSUME TypeInv, ScanInv, NEW t \in Threads, Reconnect(t) PROVE ScanInv'
  <1>1. /\ UNCHANGED <<world, scan, prog, link, reg, io, dev, seen>> /\ thr[t].pc \in Busy
        /\ \A s \in Threads : s # t => thr'[s] = thr[s] /\ air'[s] = air[s]
    BY ReconnectIs
  <1>2. \/ thr'[t] = AfterOp(t, ErrTimeout)
        \/ /\ thr'[t].pc # "recv" /\ thr'[t].dev = thr[t].dev /\ thr'[t].ops = thr[t].ops
           /\ thr'[t].snap = thr[t].snap /\ thr'[t].own = thr[t].own /\ thr'[t].writeErr = thr[t].writeErr
    BY ReconnectIs
  <1>3. ErrTimeout # ErrOk
    BY DEF ErrTimeout, ErrOk
  <1> QED
    BY <1>1, <1>2, <1>3, ScanAlone

\* State x of thread t after it took frame f.
Took(t, x, f) ==
  /\ DOMAIN x = ThreadFields
  /\ x.ops = Tail(thr[t].ops) /\ x.pc \in {"send", "end"} /\ x.dev = thr[t].dev /\ x.snap = thr[t].snap
  /\ x.readErr = thr[t].readErr /\ x.writeErr = thr[t].writeErr
  /\ x.own <=> thr[t].own /\ f.late = 0

LEMMA TookIs ==
  ASSUME TypeInv, NEW t \in Threads, thr[t].pc \in Busy, NEW f, NEW x,
         \/ x = [AfterOp(t, ErrOk) EXCEPT !.own = @ /\ f.late = 0]
         \/ \E row, D : x = [AfterOp(t, ErrOk) EXCEPT !.own = @ /\ f.late = 0, !.denied = D, !.news = row]
  PROVE  Took(t, x, f)
  <1> DEFINE y == AfterOp(t, ErrOk)
             b == y.own /\ f.late = 0
             S == OpsOf(thr[t].dev, thr[t].snap)
  <1>1. DOMAIN thr[t] = ThreadFields /\ thr[t].ops \in Seq(S) /\ thr[t].ops # <<>>
    BY BusyIs
  <1> HIDE DEF S
  <1>2. /\ DOMAIN y = ThreadFields /\ y.ops = Tail(thr[t].ops) /\ y.pc \in {"send", "end"} /\ y.dev = thr[t].dev
        /\ y.snap = thr[t].snap /\ y.readErr = thr[t].readErr /\ y.writeErr = thr[t].writeErr
        /\ y.own = thr[t].own
    BY <1>1, AfterOpIs
  <1>3. b <=> thr[t].own /\ f.late = 0
    BY <1>2
  <1>4. x = [y EXCEPT !.own = b] \/ \E row, D : x = [y EXCEPT !.own = b, !.denied = D, !.news = row]
    OBVIOUS
  <1> HIDE DEF y, b
  <1>5. /\ DOMAIN x = ThreadFields /\ x.ops = y.ops /\ x.pc = y.pc /\ x.dev = y.dev /\ x.snap = y.snap
        /\ x.readErr = y.readErr /\ x.writeErr = y.writeErr
    <2>1. CASE x = [y EXCEPT !.own = b]
      BY <1>2, <2>1 DEF ThreadFields
    <2>2. ASSUME NEW row, NEW D, x = [y EXCEPT !.own = b, !.denied = D, !.news = row]
          PROVE  /\ DOMAIN x = ThreadFields /\ x.ops = y.ops /\ x.pc = y.pc /\ x.dev = y.dev /\ x.snap = y.snap
                 /\ x.readErr = y.readErr /\ x.writeErr = y.writeErr
      BY <1>2, <2>2 DEF ThreadFields
    <2> QED
      BY <1>4, <2>1, <2>2
  <1>6. x.own = b
    <2>1. CASE x = [y EXCEPT !.own = b]
      BY <1>2, <2>1 DEF ThreadFields
    <2>2. ASSUME NEW row, NEW D, x = [y EXCEPT !.own = b, !.denied = D, !.news = row] PROVE x.own = b
      BY <1>2, <2>2 DEF ThreadFields
    <2> QED
      BY <1>4, <2>1, <2>2
  <1> QED
    BY <1>2, <1>3, <1>5, <1>6 DEF Took

LEMMA ResultModbus ==
  ASSUME TypeInv, NEW t \in Threads, thr[t].pc = "recv", NEW f \in Frames, Result(t, f), Modbus(thr[t].dev)
  PROVE  LET d == thr[t].dev
             op == Head(thr[t].ops)
             x == thr'[t]
             data == Extracted(op, f)
             touched == {op.rest[j].io : j \in 1..Len(data)}
         IN /\ io'[d].write = io[d].write /\ io'[d].conn = io[d].conn /\ seen'[d].own = seen[d].own
            /\ \/ Outcome(d, op, f) # ErrOk /\ x = AfterOp(t, Outcome(d, op, f)) /\ seen' = seen
               \/ /\ Outcome(d, op, f) = ErrOk /\ IsReadFunction(op.fc) /\ x = [thr[t] EXCEPT !.pc = "dead"]
                  /\ seen' = seen
               \/ /\ Outcome(d, op, f) = ErrOk /\ Took(t, x, f)
                  /\ IsReadFunction(op.fc) =>
                       /\ ~(Len(data) > Len(op.rest))
                       /\ seen'[d].got = (seen[d].got \ touched) \cup Genuine(op, f, data)
                  /\ ~IsReadFunction(op.fc) => seen' = seen
  <1> DEFINE d == thr[t].dev
             op == Head(thr[t].ops)
             x == thr'[t]
             data == Extracted(op, f)
             touched == {op.rest[j].io : j \in 1..Len(data)}
  <1>1. /\ thr[t].pc \in Busy /\ DOMAIN io = Devices /\ DOMAIN seen = Devices /\ DOMAIN thr = Threads
    BY RowsOf DEF Busy
  <1>2. d \in Devices /\ Dev(d).proto # "upp"
    BY <1>1, BusyIs DEF Modbus
  <1>3. SharedRow(d, io[d]) /\ SeenRow(d, seen[d])
    BY <1>2, RowsOf
  <1>4. CASE Outcome(d, op, f) # ErrOk
    BY <1>1, <1>4 DEF Result
  <1>5. CASE Outcome(d, op, f) = ErrOk /\ ~IsReadFunction(op.fc)
    <2>1. thr' = [thr EXCEPT ![t] = [AfterOp(t, ErrOk) EXCEPT !.own = @ /\ f.late = 0]] /\ UNCHANGED <<io, seen>>
      BY <1>2, <1>5 DEF Result, Accept
    <2>2. x = [AfterOp(t, ErrOk) EXCEPT !.own = @ /\ f.late = 0]
      BY <1>1, <2>1
    <2>3. Took(t, x, f)
      BY <1>1, <2>2, TookIs
    <2> QED
      BY <1>5, <2>1, <2>3
  <1>6. CASE Outcome(d, op, f) = ErrOk /\ IsReadFunction(op.fc)
    <2>1. StoreRead(t, d, op, f)
      BY <1>2, <1>6 DEF Result, Accept
    <2>2. CASE Len(data) > Len(op.rest)
      BY <1>1, <1>6, <2>1, <2>2 DEF StoreRead
    <2>3. CASE ~(Len(data) > Len(op.rest))
      <3> DEFINE row == Stored(d, op, data)
                 good == Genuine(op, f, data)
      <3>1. /\ io' = [io EXCEPT ![d].read = row]
            /\ seen' = [seen EXCEPT ![d].got = (@ \ touched) \cup good]
            /\ thr' = [thr EXCEPT ![t] = [AfterOp(t, ErrOk) EXCEPT !.own = @ /\ f.late = 0]]
        BY <2>1, <2>3 DEF StoreRead
      <3>2. x = [AfterOp(t, ErrOk) EXCEPT !.own = @ /\ f.late = 0]
        BY <1>1, <3>1
      <3>3. Took(t, x, f)
        BY <1>1, <3>2, TookIs
      <3> HIDE DEF row, good, touched
      <3>4. io'[d] = [io[d] EXCEPT !.read = row]
        BY <1>1, <1>2, <3>1
      <3>5. io'[d].write = io[d].write /\ io'[d].conn = io[d].conn
        BY <1>3, <3>4 DEF SharedRow
      <3>6. seen'[d] = [seen[d] EXCEPT !.got = (@ \ touched) \cup good]
        BY <1>1, <1>2, <3>1
      <3>7. seen'[d].got = (seen[d].got \ touched) \cup good /\ seen'[d].own = seen[d].own
        BY <1>3, <3>6 DEF SeenRow
      <3> QED
        BY <1>6, <2>3, <3>3, <3>5, <3>7 DEF good, touched
    <2> QED
      BY <2>2, <2>3
  <1> QED
    BY <1>4, <1>5, <1>6

LEMMA ResultUpp ==
  ASSUME TypeInv, NEW t \in Threads, thr[t].pc = "recv", NEW f \in Frames, Result(t, f), Dev(thr[t].dev).proto = "upp"
  PROVE  LET d == thr[t].dev
             op == Head(thr[t].ops)
             x == thr'[t]
             value == DecodedToValue(Decode(op.decoder, StripCommandEcho(op, f), f.data[1]), FieldOf(d, op.io).type)
         IN /\ UNCHANGED io /\ seen'[d].own = seen[d].own
            /\ \/ Outcome(d, op, f) # ErrOk /\ x = AfterOp(t, Outcome(d, op, f)) /\ seen' = seen
               \/ /\ Outcome(d, op, f) = ErrOk /\ Took(t, x, f)
                  /\ seen'[d].got = IF ~op.write /\ f.cmd = op.cmd /\ value # None
                                    THEN seen[d].got \cup {op.io} ELSE seen[d].got
                  /\ x.news = IF op.write THEN thr[t].news ELSE [thr[t].news EXCEPT ![op.io] = value]
                  /\ x.denied = IF f.no THEN thr[t].denied \cup {op.io} ELSE thr[t].denied
  <1> DEFINE d == thr[t].dev
             op == Head(thr[t].ops)
             x == thr'[t]
             value == DecodedToValue(Decode(op.decoder, StripCommandEcho(op, f), f.data[1]), FieldOf(d, op.io).type)
             y == AfterOp(t, ErrOk)
             row == IF op.write THEN y.news ELSE [y.news EXCEPT ![op.io] = value]
             D == IF f.no THEN y.denied \cup {op.io} ELSE y.denied
             S == OpsOf(d, thr[t].snap)
  <1>1. /\ thr[t].pc \in Busy /\ DOMAIN io = Devices /\ DOMAIN seen = Devices /\ DOMAIN thr = Threads
    BY RowsOf DEF Busy
  <1>2. d \in Devices /\ DOMAIN thr[t] = ThreadFields /\ thr[t].ops \in Seq(S) /\ thr[t].ops # <<>>
    BY <1>1, BusyIs
  <1>3. SeenRow(d, seen[d])
    BY <1>2, RowsOf
  <1>4. CASE Outcome(d, op, f) # ErrOk
    BY <1>1, <1>4 DEF Result
  <1>5. CASE Outcome(d, op, f) = ErrOk
    <2>1. /\ thr' = [thr EXCEPT ![t] = [y EXCEPT !.own = @ /\ f.late = 0, !.denied = D, !.news = row]]
          /\ seen' = IF ~op.write /\ f.cmd = op.cmd /\ value # None
                     THEN [seen EXCEPT ![d].got = @ \cup {op.io}] ELSE seen
          /\ UNCHANGED io
      BY <1>5 DEF Result, Accept
    <2>2. x = [y EXCEPT !.own = @ /\ f.late = 0, !.denied = D, !.news = row]
      BY <1>1, <2>1
    <2>3. Took(t, x, f)
      <3> HIDE DEF row, D
      <3> QED
        BY <1>1, <2>2, TookIs
    <2> HIDE DEF S
    <2>4. y.news = thr[t].news /\ y.denied = thr[t].denied /\ DOMAIN y = ThreadFields
      BY <1>2, AfterOpIs
    <2> HIDE DEF value, y
    <2>5. x.news = row /\ x.denied = D
      <3> HIDE DEF row, D
      <3> QED
        BY <2>2, <2>4 DEF ThreadFields
    <2>6. /\ seen'[d].own = seen[d].own
          /\ seen'[d].got = IF ~op.write /\ f.cmd = op.cmd /\ value # None
                            THEN seen[d].got \cup {op.io} ELSE seen[d].got
      <3>1. CASE ~op.write /\ f.cmd = op.cmd /\ value # None
        <4>1. seen'[d] = [seen[d] EXCEPT !.got = @ \cup {op.io}]
          BY <1>1, <1>2, <2>1, <3>1
        <4> QED
          BY <1>3, <3>1, <4>1 DEF SeenRow
      <3>2. CASE ~(~op.write /\ f.cmd = op.cmd /\ value # None)
        BY <2>1, <3>2
      <3> QED
        BY <3>1, <3>2
    <2> QED
      BY <1>5, <2>1, <2>3, <2>4, <2>5, <2>6 DEF value
  <1> QED
    BY <1>4, <1>5

\* What the Modbus drivers have checked of an answer they take.
LEMMA AcceptedIs ==
  ASSUME world \in Worlds, NEW d \in Devices, Modbus(d), NEW op, NEW f \in Frames, Outcome(d, op, f) = ErrOk
  PROVE  /\ f \in ModbusFrames /\ ~f.exc
         /\ Dev(d).proto = "rtu" => f.from = Dev(d).slave /\ f.fc = op.fc
  <1>1. Dev(d).proto # "sim" /\ Dev(d).proto \in {"rtu", "tcp"}
    BY DEF Modbus
  <1>2. ~Foreign(d, f)
    BY <1>1, OutcomeIs
  <1>3. f \in ModbusFrames
    BY <1>2, ForeignIs
  <1>4. CASE Dev(d).proto = "tcp"
    <2>1. TcpOutcome(f) = ErrOk
      BY <1>1, <1>2, <1>4, OutcomeIs
    <2> QED
      BY <1>3, <1>4, <2>1 DEF TcpOutcome, ErrOk, ErrModbusException
  <1>5. CASE Dev(d).proto = "rtu"
    <2>1. RtuOutcome(Dev(d).slave, op, f) = ErrOk
      BY <1>1, <1>2, <1>5, OutcomeIs
    <2>2. RtuFrameParse(Dev(d).slave, op, f) = ErrOk /\ ParseResponse(f) = ErrOk
      BY <2>1 DEF RtuOutcome
    <2>3. f.from = Dev(d).slave /\ f.fc = op.fc
      BY <2>2 DEF RtuFrameParse, ErrSlaveMismatch, ErrFcMismatch, ErrOk
    <2>4. ~f.exc
      BY <2>2 DEF ParseResponse, ErrCrc, ErrModbusException, ErrOk
    <2> QED
      BY <1>3, <2>3, <2>4
  <1> QED
    BY <1>1, <1>4, <1>5

LEMMA AlikeModbus ==
  ASSUME NEW f \in ModbusFrames, NEW g \in Frames, Alike(f, g)
  PROVE  /\ g \in ModbusFrames /\ f.late = g.late /\ f.from = g.from /\ f.fc = g.fc /\ f.addr = g.addr
         /\ f.exc = g.exc /\ f.data = g.data /\ f.bytes = g.bytes
  <1>1. g \notin UppFrames
    <2>1. "cmd" \notin DOMAIN f
      BY DEF ModbusFrames
    <2>2. \A h \in UppFrames : "cmd" \in DOMAIN h
      BY DEF UppFrames
    <2> QED
      BY <2>1, <2>2 DEF Alike
  <1>2. g \in ModbusFrames
    BY <1>1 DEF Frames
  <1> QED
    BY <1>2 DEF Alike

LEMMA ScanTxResult ==
  ASSUME TypeInv, ScanInv, NEW t \in Threads, TxResult(t) PROVE ScanInv'
  <1> DEFINE d == thr[t].dev
             op == Head(thr[t].ops)
             x == thr'[t]
             S == OpsOf(d, thr[t].snap)
  <1>1. thr[t].pc = "recv" /\ thr[t].pc \in Busy /\ UNCHANGED <<world, scan, prog, link, reg, up, dev>>
    BY ResultIs DEF Busy
  <1>2. PICK k \in 1..Len(air[t]), f \in Frames :
              /\ air[t][k] \in Frames /\ Alike(f, air[t][k]) /\ (t # Bus => k = 1 /\ f = air[t][k])
              /\ air' = [air EXCEPT ![t] = RemoveAt(@, k)] /\ Result(t, f)
    BY ResultIs
  <1>3. /\ d \in Devices /\ ThreadOf(d) = t /\ world \in Worlds /\ DOMAIN thr[t] = ThreadFields
        /\ (Modbus(d) \/ Dev(d).proto = "upp") /\ (Dev(d).proto = "upp" => ~Modbus(d))
        /\ thr[t].ops \in Seq(S) /\ thr[t].ops # <<>> /\ air[t] \in Seq(Frames)
    BY <1>1, BusyIs, RowsOf DEF ThreadRow
  <1>4. \A s \in Threads : s # t => thr'[s] = thr[s] /\ air'[s] = air[s]
    <2>1. DOMAIN air = Threads
      BY RowsOf
    <2> QED
      BY <1>1, <1>2, <1>3, <2>1, ResultTyped
  <1>5. \A e \in Devices : e # d => io'[e] = io[e] /\ seen'[e] = seen[e]
    BY <1>1, <1>2, <1>3, ResultTyped
  <1> HIDE DEF S
  <1>6. /\ x.dev = d
        /\ io'[d].conn = io[d].conn /\ (Modbus(d) => io'[d].write = io[d].write) /\ seen'[d].own = seen[d].own
        /\ Modbus(d) /\ OutputsApart(d) =>
             Delivering(d, x, air'[t], dev[d]) /\ Delivered(d, x, io'[d], seen'[d], dev[d])
    <2>1. CASE Dev(d).proto = "upp"
      <3>1. /\ UNCHANGED io /\ seen'[d].own = seen[d].own
            /\ x = AfterOp(t, Outcome(d, op, f)) \/ Took(t, x, f)
        BY <1>1, <1>2, <2>1, ResultUpp
      <3>2. AfterOp(t, Outcome(d, op, f)).dev = d
        BY <1>3, AfterOpIs
      <3> QED
        BY <1>3, <2>1, <3>1, <3>2 DEF Took
    <2>2. CASE Modbus(d)
      <3>1. /\ io'[d].write = io[d].write /\ io'[d].conn = io[d].conn /\ seen'[d].own = seen[d].own
            /\ \/ Outcome(d, op, f) # ErrOk /\ x = AfterOp(t, Outcome(d, op, f))
               \/ x = [thr[t] EXCEPT !.pc = "dead"]
               \/ Outcome(d, op, f) = ErrOk /\ Took(t, x, f)
        BY <1>1, <1>2, <2>2, ResultModbus
      <3> SUFFICES /\ x.dev = d
                   /\ Modbus(d) /\ OutputsApart(d) =>
                        Delivering(d, x, air'[t], dev[d]) /\ Delivered(d, x, io[d], seen[d], dev[d])
        BY <3>1 DEF Delivered
      <3>2. CASE Outcome(d, op, f) # ErrOk /\ x = AfterOp(t, Outcome(d, op, f))
        BY <1>1, <3>2, ScanFailed
      <3>3. CASE x = [thr[t] EXCEPT !.pc = "dead"]
        <4>1. /\ x.pc # "recv" /\ x.dev = thr[t].dev /\ x.ops = thr[t].ops
              /\ x.snap = thr[t].snap /\ x.own = thr[t].own /\ x.writeErr = thr[t].writeErr
          BY <1>3, <3>3 DEF ThreadFields
        <4> HIDE DEF x
        <4> QED
          BY <1>1, <4>1, ScanAgain
      <3>4. CASE Outcome(d, op, f) = ErrOk /\ Took(t, x, f)
        <4>1. /\ x.ops = Tail(thr[t].ops) /\ x.pc \in {"send", "end"} /\ x.dev = thr[t].dev /\ x.snap = thr[t].snap
              /\ x.writeErr = thr[t].writeErr /\ (x.own <=> thr[t].own /\ f.late = 0)
          BY <3>4 DEF Took
        <4> HIDE DEF x
        <4>2. ASSUME OutputsApart(d) PROVE Delivering(d, x, air'[t], dev[d]) /\ Delivered(d, x, io[d], seen[d], dev[d])
          <5>1. Delivering(d, thr[t], air[t], dev[d])
            BY <1>3, <2>2, <4>2 DEF ScanInv
          <5>2. /\ OneScan(d, thr[t].snap) /\ Settled(d, thr[t], dev[d])
                /\ air[t][k] \in ModbusFrames /\ air[t][k].late = 0 /\ ~air[t][k].exc => Done(dev[d], op)
            BY <1>1, <5>1 DEF Delivering
          <5>3. f \in ModbusFrames /\ ~f.exc
            BY <1>3, <2>2, <3>4, AcceptedIs
          <5>4. air[t][k] \in ModbusFrames /\ f.late = air[t][k].late /\ f.exc = air[t][k].exc
            BY <1>2, <5>3, AlikeModbus
          <5>5. ~x.own \/ (thr[t].own /\ Done(dev[d], op))
            BY <4>1, <5>2, <5>3, <5>4
          <5>6. Settled(d, x, dev[d])
            BY <1>1, <2>2, <4>1, <5>2, <5>5, SettledAfter
          <5> QED
            BY <4>1, <5>2, <5>6 DEF Delivering, Delivered
        <4> QED
          BY <4>1, <4>2 DEF x
      <3> QED
        BY <3>1, <3>2, <3>3, <3>4
    <2> QED
      BY <1>3, <2>1, <2>2
  <1> HIDE DEF d
  <1>7. thr[t].dev = d
    BY DEF d
  <1>8. \A e \in Devices : Modbus(e) => io'[e].write = io[e].write
    BY <1>5, <1>6
  <1> QED
    BY <1>1, <1>3, <1>4, <1>5, <1>6, <1>7, <1>8, ScanThread

\* A poll that ends without errors has put the outputs found at its start, all
\* from one scan, into the registers.
LEMMA ScanPollEnd ==
  ASSUME TypeInv, ScanInv, NEW t \in Threads, PollEnd(t) PROVE ScanInv'
  <1> DEFINE d == thr[t].dev
             err == PollError(d, thr[t])
             x == thr'[t]
  <1>1. /\ thr[t].pc = "end" /\ UNCHANGED <<world, scan, prog, link, reg, dev, faults>>
        /\ d \in Devices /\ ThreadOf(d) = t /\ Dev(d).proto \in {"rtu", "tcp", "upp"} /\ thr[t].ops = <<>>
        /\ \A e \in Devices : e # d => io'[e] = io[e] /\ seen'[e] = seen[e]
        /\ \A s \in Threads : s # t => thr'[s] = thr[s] /\ air'[s] = air[s]
        /\ io'[d].write = io[d].write /\ x.dev = "none"
    <2>1. /\ thr[t].pc = "end" /\ UNCHANGED <<world, scan, prog, link, reg, dev, faults>>
          /\ d \in Devices /\ ThreadOf(d) = t /\ Dev(d).proto \in {"rtu", "tcp", "upp"} /\ thr[t].ops = <<>>
          /\ io'[d].write = io[d].write /\ x.dev = "none"
      BY PollEndIs
    <2>2. \A e \in Devices : e # d => io'[e] = io[e] /\ seen'[e] = seen[e]
      BY PollEndIs, Zenon
    <2>3. \A s \in Threads : s # t => thr'[s] = thr[s] /\ air'[s] = air[s] /\ up'[s] = up[s]
      BY PollEndIs
    <2> QED
      BY <2>1, <2>2, <2>3
  <1>5. (io'[d].conn <=> err = ErrOk) /\ seen'[d].own = thr[t].own
    BY PollEndIs, Zenon
  <1>6. world \in Worlds
    BY RowsOf
  <1>2. d # "none"
    BY <1>1, <1>6, DeviceIs
  <1> HIDE DEF x
  <1>3. ASSUME Modbus(d), OutputsApart(d)
        PROVE  Delivering(d, x, air'[t], dev[d]) /\ Delivered(d, x, io'[d], seen'[d], dev[d])
    <2>1. Delivering(d, x, air'[t], dev[d])
      BY <1>1, <1>2 DEF Delivering
    <2>2. ASSUME err = ErrOk, thr[t].own
          PROVE  \E k \in 0..2 : \A r \in Written(d) : dev[d][Address(r)] = ToRaw(Sample(r.type, k), r)
      <3>1. thr[t].writeErr = ErrOk
        <4>1. CASE Dev(d).proto = "rtu"
          <5>1. CombineCycleErrors(thr[t].readErr, thr[t].writeErr) = ErrOk
            BY <2>2, <4>1 DEF PollError
          <5> QED
            BY <5>1 DEF CombineCycleErrors
        <4>2. CASE Dev(d).proto = "tcp"
          <5>1. err = IF thr[t].readErr # ErrOk \/ thr[t].writeErr # ErrOk THEN 10 ELSE 0
            BY <4>2 DEF PollError
          <5> QED
            BY <2>2, <5>1 DEF ErrOk
        <4> QED
          BY <1>3, <4>1, <4>2 DEF Modbus
      <3>2. Delivering(d, thr[t], air[t], dev[d])
        BY <1>1, <1>3 DEF ScanInv
      <3>3. OneScan(d, thr[t].snap) /\ Settled(d, thr[t], dev[d])
        BY <3>2 DEF Delivering
      <3>4. Len(thr[t].ops) = 0
        BY <1>1
      <3>5. \A r \in Written(d) : dev[d][Address(r)] = ToRaw(thr[t].snap[r.io], r)
        BY <2>2, <3>1, <3>3, <3>4 DEF Settled
      <3>6. PICK k \in 0..2 : \A n \in Selected(Fields(d), {"out"}) : thr[t].snap[n] = Sample(FieldOf(d, n).type, k)
        BY <3>3 DEF OneScan
      <3>7. ASSUME NEW r \in Written(d) PROVE dev[d][Address(r)] = ToRaw(Sample(r.type, k), r)
        <4>1. r.io \in Selected(Fields(d), {"out"}) /\ r.type = FieldOf(d, r.io).type
          BY <1>1, <1>3, <1>6, WrittenIs
        <4> QED
          BY <3>5, <3>6, <4>1
      <3> QED
        BY <3>7
    <2> QED
      BY <1>5, <2>1, <2>2 DEF Delivered
  <1> HIDE DEF d
  <1>4. thr[t].dev = d
    BY DEF d
  <1> QED
    BY <1>1, <1>3, <1>4, ScanThread DEF x

-----------------------------------------------------------------------------
(* The outputs of one scan: the invariant *)

LEMMA ScanStep ==
  ASSUME TypeInv, ScanInv, [Next]_vars PROVE ScanInv'
  <1>1. CASE ScanNext
    BY <1>1, ScanScanStart, ScanExecRejected, ScanExecQueue, ScanExecCopy, ScanExecSimulated DEF ScanNext
  <1>2. CASE ExecRegister \/ BusStep
    BY <1>2, ScanIdle
  <1>3. CASE SetInput
    BY <1>3, ScanSetInput
  <1>4. CASE \E d \in Devices : PollStart(d)
    BY <1>4, ScanPollStart
  <1>5. CASE \E t \in Threads : ThreadStep(t)
    <2>1. PICK t \in Threads : ThreadStep(t)
      BY <1>5
    <2> QED
      BY <2>1, ScanTcpConnect, ScanTxSend, ScanTxRefused, ScanTxResult, ScanTxTimeout, ScanTxNotConnected,
         ScanReconnect, ScanPollEnd DEF ThreadStep
  <1>6. CASE UNCHANGED vars
    <2>1. UNCHANGED <<world, scan, prog, link, reg, io, thr, air, up, dev, faults, seen>>
      BY <1>6 DEF vars
    <2> QED
      BY <2>1, ScanMoves DEF ScanInv
  <1> QED
    BY <1>1, <1>2, <1>3, <1>4, <1>5, <1>6 DEF Next

\* For every plant, whatever the line does: after a poll without errors that
\* took no late answer, the outputs in the registers of a Modbus device are
\* those of one scan (bus.rs, modbus_tcp.rs: the snapshot taken at the start
\* of the poll), although the program went on writing its outputs meanwhile.
THEOREM OneScanOutputs == Spec => []OutputsFromOneScan
  <1> DEFINE Inv == TypeInv /\ ScanInv
  <1>1. Init => Inv
    BY TypeInit, ScanInit
  <1>2. Inv /\ [Next]_vars => Inv'
    BY TypeNext, ScanStep
  <1>3. Inv => OutputsFromOneScan
    <2> SUFFICES ASSUME Inv, NEW d \in Devices, Dev(d).proto \in {"rtu", "tcp"}, OutputsApart(d),
                        io[d].conn, ~Polling(d), seen[d].own
                 PROVE  \E k \in 0..2 : \A r \in Written(d) : dev[d][Address(r)] = ToRaw(Sample(r.type, k), r)
      BY DEF OutputsFromOneScan
    <2>1. Delivered(d, thr[ThreadOf(d)], io[d], seen[d], dev[d])
      BY DEF ScanInv, Modbus
    <2> QED
      BY <2>1 DEF Delivered, Polling
  <1> QED
    BY <1>1, <1>2, <1>3, PTL DEF Spec

-----------------------------------------------------------------------------
(* The profile as it is served *)

\* The requests ops are the batches of the registers of the given kinds.
Batched(regs, kinds, ops) ==
  /\ regs \in Seq(Registers)
  /\ \A i, k \in 1..Len(regs) : i < k => regs[i].io < regs[k].io
  /\ Len(ops) = Len(InOrder(BatchStarts(regs, kinds)))
  /\ \A b \in 1..Len(ops) : IsBatch(ops[b], regs, InOrder(BatchStarts(regs, kinds))[b])
Once(regs, kinds, ops, r) ==
  Cardinality({p \in (1..Len(ops)) \X (1..Len(regs)) :
                  p[2] <= ops[p[1]].n /\ ops[p[1]].rest[p[2]].io = r.io})
    = IF r.kind \in kinds THEN 1 ELSE 0
Aligned(op, kind) ==
  \A j \in 1..op.n : op.rest[j].kind = kind /\ op.rest[j].addr = (op.addr + j - 1) % WordSize

LEMMA BatchAligned ==
  ASSUME NEW regs, regs \in Seq(Registers), NEW i \in 1..Len(regs), NEW op, IsBatch(op, regs, i)
  PROVE  Aligned(op, regs[i].kind)
  <1>1. \A j \in 1..op.n : op.rest[j].kind = regs[i].kind /\ op.rest[j].addr = (op.addr + j - 1) % WordSize
    BY BatchIs
  <1> QED
    BY <1>1, Zenon DEF Aligned

\* Each register of a wanted kind is in exactly one batch, every other in none.
LEMMA BatchedOnce ==
  ASSUME NEW regs, NEW kinds, NEW ops, Batched(regs, kinds, ops), NEW r \in ToSet(regs)
  PROVE  Once(regs, kinds, ops, r)
  <1> DEFINE starts == InOrder(BatchStarts(regs, kinds))
             P == {p \in (1..Len(ops)) \X (1..Len(regs)) :
                        p[2] <= ops[p[1]].n /\ ops[p[1]].rest[p[2]].io = r.io}
  <1> SUFFICES Cardinality(P) = IF r.kind \in kinds THEN 1 ELSE 0
    BY Zenon DEF Once
  <1>0. regs \in Seq(Registers) /\ \A i, k \in 1..Len(regs) : i < k => regs[i].io < regs[k].io
    BY DEF Batched
  <1>1. /\ Len(starts) \in Nat
        /\ \A b \in 1..Len(starts) : /\ starts[b] \in BatchStarts(regs, kinds)
                                     /\ starts[b] \in 1..Len(regs) /\ regs[starts[b]].kind \in kinds
        /\ \A i \in BatchStarts(regs, kinds) : \E b \in 1..Len(starts) : starts[b] = i
        /\ \A a, b \in 1..Len(starts) : a < b => starts[a] < starts[b]
    BY <1>0, StartsAre
  <1>2. Len(ops) = Len(starts) /\ \A b \in 1..Len(ops) : IsBatch(ops[b], regs, starts[b])
    BY DEF Batched
  <1>3. PICK k \in 1..Len(regs) : regs[k] = r
    BY DEF ToSet
  <1>4. Len(regs) \in Nat /\ \A i \in 1..Len(regs) : regs[i] \in Registers /\ regs[i].io \in Int
    <2>1. \A x \in Registers : x.io \in Int
      BY DEF Registers
    <2> QED
      BY <1>0, <2>1
  <1> HIDE DEF starts
  <1>5. ASSUME NEW b \in 1..Len(ops), NEW j \in 1..Len(regs), j <= ops[b].n, ops[b].rest[j].io = r.io
        PROVE  /\ starts[b] + j - 1 = k /\ starts[b] <= k /\ k <= BatchEnd(regs, starts[b])
               /\ r.kind \in kinds
    <2> DEFINE i == starts[b]
               op == ops[b]
    <2>1. i \in 1..Len(regs) /\ regs[i].kind \in kinds /\ IsBatch(op, regs, i)
      BY <1>1, <1>2
    <2> HIDE DEF i, op
    <2>2. j <= op.n /\ op.rest[j].io = r.io
      BY <1>5 DEF op
    <2>3. /\ op.n \in Nat /\ op.n <= Len(op.rest)
          /\ \A m \in 1..op.n : i + m - 1 \in i..BatchEnd(regs, i)
          /\ \A m \in 1..Len(op.rest) : op.rest[m] = regs[i + m - 1] /\ i + m - 1 \in 1..Len(regs)
          /\ \A m \in 1..op.n : op.rest[m].kind = regs[i].kind
          /\ Len(op.rest) = Len(regs) - i + 1
      <3>1. regs \in Seq(Registers)
        BY <1>0
      <3>2. op.n \in Nat /\ op.n <= Len(op.rest) /\ Len(op.rest) = Len(regs) - i + 1
        BY <3>1, <2>1, BatchIs
      <3>3. \A m \in 1..op.n : i + m - 1 \in i..BatchEnd(regs, i)
        BY <3>1, <2>1, BatchIs
      <3>4. \A m \in 1..Len(op.rest) : op.rest[m] = regs[i + m - 1] /\ i + m - 1 \in 1..Len(regs)
        BY <3>1, <2>1, BatchIs
      <3>5. \A m \in 1..op.n : op.rest[m].kind = regs[i].kind /\ op.rest[m].addr = (op.addr + m - 1) % WordSize
        BY <3>1, <2>1, BatchIs
      <3> QED
        BY <3>2, <3>3, <3>4, <3>5
    <2>4. j \in 1..op.n /\ j \in 1..Len(op.rest)
      BY <1>4, <2>1, <2>2, <2>3
    <2>5. op.rest[j] = regs[i + j - 1] /\ i + j - 1 \in 1..Len(regs) /\ i + j - 1 \in i..BatchEnd(regs, i)
      BY <2>3, <2>4
    <2>6. i + j - 1 = k
      BY <1>0, <1>3, <1>4, <2>2, <2>5
    <2>7. BatchEnd(regs, i) \in Nat
      BY <1>0, <1>4, <2>1, BatchEndIs
    <2>8. r.kind \in kinds
      BY <1>3, <2>1, <2>3, <2>4, <2>5, <2>6
    <2> QED
      BY <1>4, <2>1, <2>5, <2>6, <2>7, <2>8 DEF i
  <1>6. CASE r.kind \notin kinds
    <2>1. P = {}
      BY <1>5, <1>6
    <2> QED
      BY <1>6, <2>1, FS_EmptySet
  <1>7. CASE r.kind \in kinds
    <2>1. PICK i \in BatchStarts(regs, kinds) : i <= k /\ k <= BatchEnd(regs, i)
      BY <1>0, <1>3, <1>7, BatchCovers
    <2>2. PICK b \in 1..Len(starts) : starts[b] = i
      BY <1>1
    <2> DEFINE op == ops[b]
               j == k - i + 1
    <2>3. i \in 1..Len(regs) /\ IsBatch(op, regs, i) /\ b \in 1..Len(ops)
      BY <1>1, <1>2, <2>2
    <2> HIDE DEF op
    <2>4. /\ op.n \in Nat /\ op.n = BatchEnd(regs, i) - i + 1 /\ op.n <= Len(op.rest)
          /\ \A m \in 1..Len(op.rest) : op.rest[m] = regs[i + m - 1]
      BY <1>0, <2>3, BatchIs DEF IsBatch
    <2>5. BatchEnd(regs, i) \in i..Len(regs)
      BY <1>0, <2>3, BatchEndIs
    <2>6. j \in 1..op.n /\ j \in 1..Len(regs) /\ j \in 1..Len(op.rest) /\ i + j - 1 = k
      <3>1. i \in Int /\ k \in Int /\ BatchEnd(regs, i) \in Int /\ i <= k /\ k <= BatchEnd(regs, i) /\ i >= 1
        BY <1>4, <2>1, <2>3, <2>5
      <3>2. BatchEnd(regs, i) <= Len(regs) /\ Len(regs) \in Nat /\ Len(op.rest) \in Nat
        BY <1>0, <2>4, <2>5
      <3>3. op.n \in Nat /\ op.n = BatchEnd(regs, i) - i + 1 /\ op.n <= Len(op.rest)
        BY <2>4
      <3>4. j \in Int /\ 1 <= j /\ j <= op.n /\ j <= Len(regs) /\ i + j - 1 = k
        BY <3>1, <3>2, <3>3
      <3> HIDE DEF j
      <3> QED
        BY <3>2, <3>3, <3>4
    <2>7. op.rest[j].io = r.io
      BY <1>3, <2>4, <2>6
    <2>8. <<b, j>> \in P
      BY <2>3, <2>6, <2>7 DEF op
    <2>9. ASSUME NEW p \in P PROVE p = <<b, j>>
      <3>1. PICK c \in 1..Len(ops), m \in 1..Len(regs) : p = <<c, m>> /\ m <= ops[c].n /\ ops[c].rest[m].io = r.io
        OBVIOUS
      <3>2. starts[c] + m - 1 = k /\ starts[c] <= k /\ k <= BatchEnd(regs, starts[c])
        BY <1>5, <3>1
      <3> DEFINE h == starts[c]
      <3>3. h \in BatchStarts(regs, kinds) /\ h \in 1..Len(regs)
        BY <1>1, <1>2
      <3> HIDE DEF h
      <3>4. h <= k /\ k <= BatchEnd(regs, h) /\ BatchEnd(regs, h) \in Nat /\ BatchEnd(regs, i) \in Nat
        <4>1. h <= k /\ k <= BatchEnd(regs, h)
          BY <3>2 DEF h
        <4>2. BatchEnd(regs, h) \in h..Len(regs) /\ BatchEnd(regs, i) \in i..Len(regs)
          BY <1>0, <2>3, <3>3, BatchEndIs
        <4> QED
          BY <1>4, <2>3, <3>3, <4>1, <4>2
      <3>5. ~(h < i) /\ ~(i < h)
        <4>1. h \in Int /\ i \in Int /\ k \in Int /\ i <= k /\ k <= BatchEnd(regs, i)
          BY <1>4, <2>1, <2>3, <3>3
        <4>2. h < i => BatchEnd(regs, h) < i
          BY <1>0, <2>1, <3>3, BatchesApart
        <4>3. i < h => BatchEnd(regs, i) < h
          BY <1>0, <2>1, <3>3, BatchesApart
        <4> QED
          BY <3>4, <4>1, <4>2, <4>3
      <3>6. h = i
        BY <2>3, <3>3, <3>5
      <3>7. c = b
        <4>1. c \in 1..Len(starts) /\ b \in 1..Len(starts) /\ starts[c] = starts[b]
          BY <1>2, <2>2, <3>6 DEF h
        <4>2. ~(c < b) /\ ~(b < c)
          <5>1. starts[b] \in Int
            BY <2>2, <2>3
          <5>2. c < b => starts[c] < starts[b]
            BY <1>1, <4>1
          <5>3. b < c => starts[b] < starts[c]
            BY <1>1, <4>1
          <5> QED
            BY <4>1, <5>1, <5>2, <5>3
        <4> QED
          BY <1>1, <4>1, <4>2
      <3>8. m = j
        BY <1>4, <2>3, <2>6, <3>2, <3>6 DEF h
      <3> QED
        BY <3>1, <3>7, <3>8
    <2>10. P = {<<b, j>>}
      BY <2>8, <2>9
    <2> QED
      BY <1>7, <2>10, FS_Singleton
  <1> QED
    BY <1>6, <1>7

LEMMA RequestsOnce ==
  ASSUME TypeInv PROVE RequestsCoverProfile
  <1> SUFFICES ASSUME NEW d \in Devices, Modbus(d)
               PROVE  LET inputs == ExpandRegisters(Fields(d), Inputs)
                          outputs == ExpandRegisters(Fields(d), Outputs)
                      IN /\ Covers(inputs, ReadBatched(inputs), RegisterKinds \ {"virtual"}, LAMBDA k, n : ReadFunction(k))
                         /\ Covers(outputs, WriteBatched(outputs, io[d].write), {"coil", "holding"}, WriteFunction)
    BY DEF RequestsCoverProfile, Modbus
  <1> DEFINE inputs == ExpandRegisters(Fields(d), Inputs)
             outputs == ExpandRegisters(Fields(d), Outputs)
             reads == ReadBatched(inputs)
             writes == WriteBatched(outputs, io[d].write)
  <1>1. world \in Worlds /\ SharedRow(d, io[d]) /\ Profiled(Fields(d))
    BY RowsOf, DeviceIs
  <1>2. /\ inputs \in Seq(Registers) /\ \A i, k \in 1..Len(inputs) : i < k => inputs[i].io < inputs[k].io
        /\ outputs \in Seq(Registers) /\ \A i, k \in 1..Len(outputs) : i < k => outputs[i].io < outputs[k].io
        /\ \A k \in 1..Len(outputs) : outputs[k].io \in Selected(Fields(d), Outputs)
    BY <1>1, ExpandIs
  <1>3. \A k \in 1..Len(outputs) : io[d].write[outputs[k].io] \in Values
    <2>1. io[d].write \in Rows(d)
      BY <1>1 DEF SharedRow, Pending
    <2>2. \A n \in Selected(Fields(d), Outputs) : n \in Indices(d)
      BY DEF Selected, Indices
    <2> QED
      BY <1>2, <2>1, <2>2 DEF Rows
  <1> HIDE DEF inputs, outputs
  <1>4. Covers(inputs, reads, RegisterKinds \ {"virtual"}, LAMBDA k, n : ReadFunction(k))
    <2> DEFINE starts == InOrder(BatchStarts(inputs, ReadKinds))
    <2>1. /\ Len(reads) = Len(starts)
          /\ \A b \in 1..Len(reads) :
               /\ starts[b] \in 1..Len(inputs) /\ inputs[starts[b]].kind \in ReadKinds
               /\ IsBatch(reads[b], inputs, starts[b])
               /\ reads[b].fc = ReadFunction(inputs[starts[b]].kind)
      BY <1>2, ReadBatchedIs
    <2> HIDE DEF reads
    <2>2. ASSUME NEW r \in ToSet(inputs)
          PROVE  Cardinality({p \in (1..Len(reads)) \X (1..Len(inputs)) :
                        p[2] <= reads[p[1]].n /\ reads[p[1]].rest[p[2]].io = r.io})
                   = IF r.kind \in RegisterKinds \ {"virtual"} THEN 1 ELSE 0
      <3>1. Batched(inputs, ReadKinds, reads)
        BY <1>2, <2>1 DEF Batched
      <3>2. Once(inputs, ReadKinds, reads, r)
        BY <3>1, BatchedOnce
      <3> QED
        BY <3>2, Zenon DEF Once, ReadKinds
    <2>3. ASSUME NEW b \in 1..Len(reads), NEW j \in 1..reads[b].n
          PROVE  /\ reads[b].rest[j].addr = (reads[b].addr + j - 1) % WordSize
                 /\ ReadFunction(reads[b].rest[j].kind) = reads[b].fc
      <3> DEFINE op == reads[b]
                 i == starts[b]
      <3>1. i \in 1..Len(inputs) /\ IsBatch(op, inputs, i) /\ op.fc = ReadFunction(inputs[i].kind)
        BY <2>1
      <3>2. j \in 1..op.n
        OBVIOUS
      <3> HIDE DEF op, i
      <3>3. op.rest[j].kind = inputs[i].kind /\ op.rest[j].addr = (op.addr + j - 1) % WordSize
        <4>1. inputs \in Seq(Registers) /\ i \in 1..Len(inputs) /\ IsBatch(op, inputs, i)
          BY <1>2, <3>1
        <4>2. Aligned(op, inputs[i].kind)
          BY <4>1, BatchAligned
        <4> QED
          BY <3>2, <4>2, Zenon DEF Aligned
      <3> QED
        BY <3>1, <3>3 DEF op
    <2> QED
      BY <2>2, <2>3 DEF Covers
  <1>5. Covers(outputs, writes, {"coil", "holding"}, WriteFunction)
    <2> DEFINE starts == InOrder(BatchStarts(outputs, WrittenKinds))
    <2>1. /\ Len(writes) = Len(starts)
          /\ \A b \in 1..Len(writes) :
               /\ starts[b] \in 1..Len(outputs) /\ outputs[starts[b]].kind \in WrittenKinds
               /\ IsBatch(writes[b], outputs, starts[b])
               /\ writes[b].fc = WriteFunction(outputs[starts[b]].kind, writes[b].n)
      BY <1>2, <1>3, WriteBatchedIs
    <2> HIDE DEF writes
    <2>2. ASSUME NEW r \in ToSet(outputs)
          PROVE  Cardinality({p \in (1..Len(writes)) \X (1..Len(outputs)) :
                        p[2] <= writes[p[1]].n /\ writes[p[1]].rest[p[2]].io = r.io})
                   = IF r.kind \in {"coil", "holding"} THEN 1 ELSE 0
      <3>1. Batched(outputs, WrittenKinds, writes)
        BY <1>2, <2>1 DEF Batched
      <3>2. Once(outputs, WrittenKinds, writes, r)
        BY <3>1, BatchedOnce
      <3> QED
        BY <3>2, Zenon DEF Once, WrittenKinds
    <2>3. ASSUME NEW b \in 1..Len(writes), NEW j \in 1..writes[b].n
          PROVE  /\ writes[b].rest[j].addr = (writes[b].addr + j - 1) % WordSize
                 /\ WriteFunction(writes[b].rest[j].kind, writes[b].n) = writes[b].fc
      <3> DEFINE op == writes[b]
                 i == starts[b]
      <3>1. i \in 1..Len(outputs) /\ IsBatch(op, outputs, i) /\ op.fc = WriteFunction(outputs[i].kind, op.n)
        BY <2>1
      <3>2. j \in 1..op.n
        OBVIOUS
      <3> HIDE DEF op, i
      <3>3. op.rest[j].kind = outputs[i].kind /\ op.rest[j].addr = (op.addr + j - 1) % WordSize
        <4>1. outputs \in Seq(Registers) /\ i \in 1..Len(outputs) /\ IsBatch(op, outputs, i)
          BY <1>2, <3>1
        <4>2. Aligned(op, outputs[i].kind)
          BY <4>1, BatchAligned
        <4> QED
          BY <3>2, <4>2, Zenon DEF Aligned
      <3> QED
        BY <3>1, <3>3 DEF op
    <2> QED
      BY <2>2, <2>3 DEF Covers
  <1> QED
    BY <1>4, <1>5 DEF inputs, outputs

\* Without arrays a field starts where its number says.
LEMMA OffsetWithoutArrays ==
  ASSUME NEW fields, Fielded(fields), NEW i \in 1..Len(fields), \A k \in 1..i : ~(ElementCount(fields[k]) > 1)
  PROVE  FieldOffset(fields, i) = i - 1
  <1> DEFINE O(k) == FieldOffset(fields, k)
             Bad == {k \in 1..i : O(k) # k - 1}
  <1>1. Len(fields) \in Nat /\ \A k \in 1..i : ElementCount(fields[k]) = 1
    BY DEF Fielded, ElementCount
  <1>2. O(1) = 0 /\ \A k \in 1..i : O(k + 1) = O(k) + ElementCount(fields[k])
    BY <1>1, OffsetStep
  <1> HIDE DEF O
  <1>3. ASSUME Bad # {} PROVE FALSE
    <2>1. Bad \subseteq Nat
      BY <1>1
    <2>2. PICK k \in Bad : \A m \in Bad : k <= m
      BY <1>3, <2>1, LeastNumber
    <2>3. k # 1
      BY <1>2
    <2>4. k - 1 \in 1..i /\ k - 1 \notin Bad /\ (k - 1) + 1 = k
      BY <1>1, <2>2, <2>3
    <2> QED
      BY <1>1, <1>2, <2>2, <2>4
  <1> QED
    BY <1>1, <1>3 DEF O

LEMMA SlotsServed ==
  ASSUME world \in Worlds PROVE SlotsAgree
  <1> SUFFICES ASSUME NEW d \in Devices
               PROVE  LET proto == Dev(d).proto
                      IN /\ \A i \in 1..Len(Fields(d)) :
                              \/ DriverSlot(proto, Fields(d), i) = MemorySlot(proto, Fields(d), i)
                              \/ proto \in {"sim", "upp"} /\ \E k \in 1..i : ElementCount(Fields(d)[k]) > 1
                         /\ FixedSlots(proto)[DriverDiagnostics(proto)[1] + 1] = "connected"
                         /\ FixedSlots(proto)[DriverDiagnostics(proto)[2] + 1] = "error_code"
    BY DEF SlotsAgree
  <1> DEFINE proto == Dev(d).proto
             fields == Fields(d)
  <1>1. proto \in {"sim", "rtu", "tcp", "upp"} /\ Fielded(fields)
    BY DeviceIs
  <1> HIDE DEF proto, fields
  <1>2. /\ proto = "sim" => FixedSlots(proto) = SimulatedSlots /\ DriverDiagnostics(proto) = <<1, 2>>
        /\ proto = "rtu" => FixedSlots(proto) = RtuSlots /\ DriverDiagnostics(proto) = <<5, 6>>
        /\ proto = "upp" => FixedSlots(proto) = UppSlots /\ DriverDiagnostics(proto) = <<5, 6>>
        /\ proto = "tcp" => FixedSlots(proto) = TcpSlots /\ DriverDiagnostics(proto) = <<4, 5>>
    BY DEF FixedSlots, DriverDiagnostics
  <1>3. ASSUME NEW i \in 1..Len(fields)
        PROVE  /\ proto = "sim" => DriverSlot(proto, fields, i) = 5 + (i - 1)
               /\ proto = "rtu" => DriverSlot(proto, fields, i) = 10 + FieldOffset(fields, i)
               /\ proto = "upp" => DriverSlot(proto, fields, i) = 10 + (i - 1)
               /\ proto = "tcp" => DriverSlot(proto, fields, i) = 8 + FieldOffset(fields, i)
    BY DEF DriverSlot
  <1>4. Len(SimulatedSlots) = 5 /\ Len(RtuSlots) = 10 /\ Len(UppSlots) = 10 /\ Len(TcpSlots) = 8
    BY DEF SimulatedSlots, RtuSlots, UppSlots, TcpSlots
  <1>5. /\ SimulatedSlots[2] = "connected" /\ SimulatedSlots[3] = "error_code"
        /\ RtuSlots[6] = "connected" /\ RtuSlots[7] = "error_code"
        /\ UppSlots[6] = "connected" /\ UppSlots[7] = "error_code"
        /\ TcpSlots[5] = "connected" /\ TcpSlots[6] = "error_code"
    BY DEF SimulatedSlots, RtuSlots, UppSlots, TcpSlots
  <1>6. /\ FixedSlots(proto)[DriverDiagnostics(proto)[1] + 1] = "connected"
        /\ FixedSlots(proto)[DriverDiagnostics(proto)[2] + 1] = "error_code"
    BY <1>1, <1>2, <1>5
  <1>7. ASSUME NEW i \in 1..Len(fields)
        PROVE  \/ DriverSlot(proto, fields, i) = MemorySlot(proto, fields, i)
               \/ proto \in {"sim", "upp"} /\ \E k \in 1..i : ElementCount(fields[k]) > 1
    <2>1. MemorySlot(proto, fields, i) = Len(FixedSlots(proto)) + FieldOffset(fields, i)
      BY DEF MemorySlot
    <2>2. CASE proto \in {"rtu", "tcp"}
      BY <1>2, <1>3, <1>4, <2>1, <2>2
    <2>3. CASE proto \in {"sim", "upp"} /\ \A k \in 1..i : ~(ElementCount(fields[k]) > 1)
      <3>1. FieldOffset(fields, i) = i - 1
        BY <1>1, <2>3, OffsetWithoutArrays
      <3> QED
        BY <1>2, <1>3, <1>4, <2>1, <2>3, <3>1
    <2> QED
      BY <1>1, <2>2, <2>3
  <1> QED
    BY <1>6, <1>7 DEF proto, fields

LEMMA TypesServed ==
  ASSUME TypeInv PROVE FieldbusTypeOK
  <1>1. /\ world \in Worlds /\ reg \subseteq Devices /\ faults \in 0..world.maxFaults
        /\ scan.pc \in {"start", "exec", "queue", "copy", "dead"} /\ scan.i \in 1..Len(world.order)
    BY DEF TypeInv, Shape
  <1>2. link.open \in BOOLEAN /\ link.conn \in BOOLEAN /\ link.err \in 0..3
    BY DEF TypeInv, Shape
  <1>3. ASSUME NEW d \in Devices
        PROVE  /\ \A n \in Indices(d) : HasType(d, n, prog[d].vals[n]) /\ HasType(d, n, io[d].read[n])
               /\ \A n \in Indices(d) :
                    HasType(d, n, io[d].write[n]) \/ (Dev(d).proto = "upp" /\ io[d].write[n] = None)
               /\ io[d].conn \in BOOLEAN /\ prog[d].conn \in BOOLEAN
               /\ io[d].conn => io[d].err = 0
               /\ seen[d].got \subseteq InputIndices(d)
               /\ \A c \in DOMAIN dev[d] : dev[d][c] \in IF Dev(d).proto = "sim" THEN Int ELSE Word
    <2>1. /\ BlockRow(d, prog[d]) /\ SharedRow(d, io[d]) /\ SeenRow(d, seen[d])
          /\ dev[d] \in [Cells(d) -> Content(d)]
      BY DEF TypeInv, DeviceType, DeviceRow
    <2>2. /\ \A n \in Indices(d) : HasType(d, n, prog[d].vals[n]) /\ HasType(d, n, io[d].read[n])
          /\ \A n \in Indices(d) :
               HasType(d, n, io[d].write[n]) \/ (Dev(d).proto = "upp" /\ io[d].write[n] = None)
      BY <2>1, Zenon DEF BlockRow, SharedRow, Typed, Pending
    <2>3. io[d].conn \in BOOLEAN /\ prog[d].conn \in BOOLEAN /\ (io[d].conn => io[d].err = 0)
      BY <2>1, Zenon DEF BlockRow, SharedRow
    <2>4. seen[d].got \subseteq InputIndices(d)
      BY <2>1 DEF SeenRow
    <2>5. \A c \in DOMAIN dev[d] : dev[d][c] \in IF Dev(d).proto = "sim" THEN Int ELSE Word
      BY <2>1 DEF Content
    <2> QED
      BY <2>2, <2>3, <2>4, <2>5
  <1>4. ASSUME NEW t \in Threads
        PROVE  /\ thr[t].pc \in {"off", "wait", "idle", "sleep", "round", "send", "recv", "retry", "end", "dead"}
               /\ thr[t].dev # "none" => thr[t].dev \in reg /\ ThreadOf(thr[t].dev) = t
               /\ thr[t].pc \in {"send", "recv", "retry"} => thr[t].ops # <<>>
    <2>1. ThreadRow(t, thr[t], air[t], up[t], reg)
      BY RowsOf
    <2> QED
      BY <2>1 DEF ThreadRow, Polls, Between, Busy
  <1> QED
    BY <1>1, <1>2, <1>3, <1>4 DEF FieldbusTypeOK

\* Registers are those of a profile in which every field has one plain word.
LEMMA OptionsServed ==
  ASSUME world \in Worlds PROVE OptionsIgnored
  <1> SUFFICES ASSUME NEW d \in Devices, Modbus(d), NEW n \in Indices(d), ~IsBit(Register(Fields(d), n))
               PROVE  LET f == FieldOf(d, n)
                          r == Register(Fields(d), n)
                          j == n - FieldOffset(Fields(d), FieldAt(Fields(d), n)) - 1
                      IN /\ DeclaredWords(PlainWord(f), j) = {r.addr}
                         /\ \A raw \in Probes : FromRaw(raw, r) = DeclaredValue(PlainWord(f), raw)
                         /\ f.words > 1 => DeclaredWords(f, j) # {r.addr}
    BY DEF OptionsIgnored, Modbus
  <1> DEFINE fields == Fields(d)
             i == FieldAt(fields, n)
             f == FieldOf(d, n)
             g == PlainWord(f)
             r == Register(fields, n)
             j == n - FieldOffset(fields, i) - 1
             a == f.addr
  <1>1. Profiled(fields) /\ n \in 1..TotalValues(fields) /\ f = fields[i]
    BY DeviceIs DEF Indices, FieldOf
  <1>2. i \in 1..Len(fields) /\ FieldOffset(fields, i) < n /\ TotalValues(fields) \in Nat
    BY <1>1, FieldAtIs DEF Profiled
  <1>3. FieldOffset(fields, i) \in Nat
    BY <1>1, <1>2, OffsetsGrow DEF Profiled, Fielded
  <1>4. j \in Nat /\ a \in Nat /\ f.words \in Nat
    <2>1. \A k \in 1..Len(fields) : fields[k].addr \in Nat /\ fields[k].words \in 0..255
      BY <1>1, Zenon DEF Profiled
    <2>2. f.addr \in Nat /\ f.words \in 0..255
      BY <1>1, <1>2, <2>1, Zenon
    <2>3. n \in Nat /\ FieldOffset(fields, i) < n
      BY <1>1, <1>2
    <2>4. n - FieldOffset(fields, i) - 1 \in Nat
      BY <1>3, <2>3
    <2> QED
      BY <2>2, <2>4
  <1>5. r.addr = (a + (n - FieldOffset(fields, i)) - 1) % WordSize
    BY <1>1 DEF Register
  <1>6. r.type = f.type /\ r.scale = f.scale /\ r.offset = f.offset
    BY <1>1 DEF Register
  <1>7. /\ g.addr = a /\ g.type = f.type /\ g.scale = f.scale /\ g.offset = f.offset
        /\ g.bit = -1 /\ g.order = "big-endian" /\ g.words = 1
    BY DEF PlainWord
  <1>8. a + (n - FieldOffset(fields, i)) - 1 = a + j
    BY <1>1, <1>2, <1>3, <1>4
  <1>9. r.addr = (a + j) % WordSize
    BY <1>5, <1>8
  <1>10. ~IsBit(r)
    OBVIOUS
  <1> HIDE DEF g, r, j, a, f, i, fields
  <1>11. DeclaredWords(g, j) = {r.addr}
    <2>1. DeclaredWords(g, j) = {(a + j * 1 + k) % WordSize : k \in 0..(1 - 1)}
      BY <1>7 DEF DeclaredWords
    <2>2. a + j * 1 + 0 = a + j /\ \A k \in 0..(1 - 1) : k = 0
      BY <1>4
    <2>3. 0 \in 0..(1 - 1)
      OBVIOUS
    <2> QED
      BY <1>9, <2>1, <2>2, <2>3
  <1>12. ASSUME NEW raw \in Probes PROVE FromRaw(raw, r) = DeclaredValue(g, raw)
    <2>1. FromRaw(raw, r) = RegisterToValue(raw, r)
      BY <1>10 DEF FromRaw
    <2>2. DeclaredValue(g, raw) = RegisterToValue(raw, g)
      BY <1>7 DEF DeclaredValue
    <2>3. RegisterToValue(raw, r) = RegisterToValue(raw, g)
      BY <1>6, <1>7 DEF RegisterToValue
    <2> QED
      BY <2>1, <2>2, <2>3
  <1>13. ASSUME f.words > 1 PROVE DeclaredWords(f, j) # {r.addr}
    <2> DEFINE p == j * f.words
    <2>1. p \in Nat
      BY <1>4
    <2>2. DeclaredWords(f, j) = {(a + p + k) % WordSize : k \in 0..(f.words - 1)}
      BY DEF DeclaredWords, a
    <2> HIDE DEF p
    <2>3. 0 \in 0..(f.words - 1) /\ 1 \in 0..(f.words - 1)
      BY <1>4, <1>13
    <2>4. (a + p + 0) % WordSize \in DeclaredWords(f, j) /\ (a + p + 1) % WordSize \in DeclaredWords(f, j)
      BY <2>2, <2>3
    <2>5. a + p \in Nat /\ a + p + 0 = a + p
      BY <1>4, <2>1
    <2>6. (a + p) % WordSize # (a + p + 1) % WordSize
      <3>1. \A x \in Nat : x % 65536 # (x + 1) % 65536
        OBVIOUS
      <3> QED
        BY <2>5, <3>1 DEF WordSize
    <2> QED
      BY <2>4, <2>5, <2>6
  <1> QED
    BY <1>11, <1>12, <1>13 DEF g, r, j, f, i, fields

\* For every profile: values keep their types, the slot numbers written into
\* the drivers are those of the layout the compiler was given (profile.rs,
\* simulated.rs, modbus_rtu.rs, modbus_tcp.rs, upp.rs), and the batches of a
\* poll (read_batched_io, write_batched_io) ask for every register exactly
\* once, under its own address and function, also where addresses wrap round.
\* A field with one big-endian word and no bit is read as device-profiles.md
\* declares it; the options bit, byte_order and word_count of RegisterMapping
\* have no effect, so every other field is read as if it were such a field.
THEOREM ProfileIsServed == Spec => []ProfileServed
  <1>1. TypeInv => ProfileServed
    <2> SUFFICES ASSUME TypeInv PROVE ProfileServed
      OBVIOUS
    <2>1. world \in Worlds
      BY RowsOf
    <2> QED
      BY <2>1, TypesServed, SlotsServed, RequestsOnce, OptionsServed DEF ProfileServed
  <1> QED
    BY <1>1, TypeInvariant, PTL

-----------------------------------------------------------------------------
(* Connected means read *)

\* Frame f is what Modbus device e answers to the read request op.
AnswerTo(e, op, f) ==
  /\ f.from = Dev(e).slave /\ f.fc = op.fc /\ f.addr = op.addr
  /\ Len(f.data) = op.n /\ f.bytes = ByteCount(op.fc, op.n)
\* Frame f is what UPP device e answers about its n-th field.
AnswerAbout(e, n, f) ==
  /\ f.from = OwnAddress(e) /\ f.cmd = FieldOf(e, n).cmd
  /\ \/ f.bytes = AnswerDigits(f.cmd) /\ f.echo = ""
     \/ n \in OutputIndices(e) /\ f.bytes = 2 + ParameterDigits(f.cmd) /\ f.echo \in {"", f.cmd}
     \/ n \in OutputIndices(e) /\ f.bytes = 2 /\ f.echo = ""
\* A frame on the serial line is an answer of some device, however late.
KnownModbus(f) ==
  ~f.exc /\ IsReadFunction(f.fc) => \E e \in Devices : Dev(e).proto = "rtu" /\ \E op \in Reads(e) : AnswerTo(e, op, f)
KnownUpp(f) ==
  \E e \in Devices : Dev(e).proto = "upp" /\ \E n \in Indices(e) : AnswerAbout(e, n, f)
Known(f) == (f \in ModbusFrames => KnownModbus(f)) /\ (f \in UppFrames => KnownUpp(f))

Clean(th) == th.readErr = ErrOk /\ th.writeErr = ErrOk
\* Thread th of TCP device t with answers a in its stream: nothing is left over
\* as long as no request has failed.
Stream(t, th, a) ==
  /\ th.pc \in Between => a = <<>>
  /\ Clean(th) /\ th.pc \in {"send", "end"} => a = <<>>
  /\ Clean(th) /\ th.pc = "recv" =>
       /\ Len(a) <= 1
       /\ a # <<>> /\ ~a[1].exc /\ IsReadFunction(Head(th.ops).fc) => AnswerTo(t, Head(th.ops), a[1])

\* Device d while thread th polls it, with last poll s: what is not read yet is
\* still asked for.
Asks(d, op, n) ==
  IF Dev(d).proto = "upp" THEN ~op.write /\ op.io = n
  ELSE IsReadFunction(op.fc) /\ \E j \in 1..op.n : op.rest[j].io = n
Reading(d, th, s) ==
  th.dev = d /\ Clean(th) =>
    /\ s.got \subseteq Readable(d)
    /\ \A n \in Readable(d) : n \in s.got \/ \E k \in 1..Len(th.ops) : Asks(d, th.ops[k], n)
WasRead(d, th, i, s) == th.dev # d /\ i.conn => s.got = Readable(d)

Apart(d) == SlavesApart(d) /\ AnswersApart(d) /\ Decodable(d)
ReadInv ==
  /\ \A k \in 1..Len(air[Bus]) : Known(air[Bus][k])
  /\ \A t \in Threads \ {Bus} : Stream(t, thr[t], air[t])
  /\ \A d \in Devices : Dev(d).proto # "sim" /\ Apart(d) =>
       Reading(d, thr[ThreadOf(d)], seen[d]) /\ WasRead(d, thr[ThreadOf(d)], io[d], seen[d])

LEMMA ReadKept ==
  ASSUME world' = world
  PROVE  /\ \A f : Known(f)' <=> Known(f)
         /\ \A t, th, a : Stream(t, th, a)' <=> Stream(t, th, a)
         /\ \A d : Apart(d)' <=> Apart(d)
         /\ \A d, th, s : Reading(d, th, s)' <=> Reading(d, th, s)
         /\ \A d, th, i, s : WasRead(d, th, i, s)' <=> WasRead(d, th, i, s)
  <1>1. \A e, op, f : AnswerTo(e, op, f)' <=> AnswerTo(e, op, f)
    BY WorldKept DEF AnswerTo
  <1>2. \A d : OwnAddress(d)' = OwnAddress(d)
    BY WorldKept DEF OwnAddress
  <1>3. \A e, n, f : AnswerAbout(e, n, f)' <=> AnswerAbout(e, n, f)
    BY <1>2, WorldKept DEF AnswerAbout
  <1>4. \A f : KnownModbus(f)' <=> KnownModbus(f)
    BY <1>1, WorldKept, RowsKept DEF KnownModbus
  <1>5. \A f : KnownUpp(f)' <=> KnownUpp(f)
    BY <1>3, WorldKept DEF KnownUpp
  <1>6. \A t, th, a : Stream(t, th, a)' <=> Stream(t, th, a)
    BY <1>1 DEF Stream
  <1>7. \A d : Readable(d)' = Readable(d)
    BY WorldKept DEF Readable
  <1>8. \A d, op, n : Asks(d, op, n)' <=> Asks(d, op, n)
    BY WorldKept DEF Asks
  <1>9. \A d, th, s : Reading(d, th, s)' <=> Reading(d, th, s)
    BY <1>7, <1>8 DEF Reading
  <1>10. \A d, th, i, s : WasRead(d, th, i, s)' <=> WasRead(d, th, i, s)
    BY <1>7 DEF WasRead
  <1>11. \A d : SlavesApart(d)' <=> SlavesApart(d)
    BY <1>2, WorldKept DEF SlavesApart
  <1>12. \A d : AnswersApart(d)' <=> AnswersApart(d)
    BY WorldKept DEF AnswersApart
  <1>13. \A d : Decodable(d)' <=> Decodable(d)
    BY WorldKept DEF Decodable
  <1> QED
    BY <1>4, <1>5, <1>6, <1>9, <1>10, <1>11, <1>12, <1>13 DEF Known, Apart

LEMMA ReadMoves ==
  ASSUME world' = world,
         \A k \in 1..Len(air'[Bus]) : Known(air'[Bus][k]),
         \A t \in Threads \ {Bus} : Stream(t, thr'[t], air'[t]),
         \A d \in Devices : Dev(d).proto # "sim" /\ Apart(d) =>
           Reading(d, thr'[ThreadOf(d)], seen'[d]) /\ WasRead(d, thr'[ThreadOf(d)], io'[d], seen'[d])
  PROVE  ReadInv'
  <1>1. (\A k \in 1..Len(air[Bus]) : Known(air[Bus][k]))'
    BY ReadKept DEF Bus
  <1>2. (\A t \in Threads \ {Bus} : Stream(t, thr[t], air[t]))'
    BY ReadKept, WorldKept DEF Bus
  <1>3. (\A d \in Devices : Dev(d).proto # "sim" /\ Apart(d) =>
           Reading(d, thr[ThreadOf(d)], seen[d]) /\ WasRead(d, thr[ThreadOf(d)], io[d], seen[d]))'
    BY ReadKept, WorldKept
  <1> QED
    BY <1>1, <1>2, <1>3 DEF ReadInv

\* A step of the scan thread.
LEMMA ReadProgram ==
  ASSUME ReadInv, UNCHANGED <<world, thr, air, seen>>,
         \A d \in Devices : Dev(d).proto # "sim" => io'[d].conn = io[d].conn
  PROVE  ReadInv'
  <1>1. \A d \in Devices : Dev(d).proto # "sim" /\ Apart(d) => WasRead(d, thr[ThreadOf(d)], io'[d], seen[d])
    BY DEF ReadInv, WasRead
  <1> QED
    BY <1>1, ReadMoves DEF ReadInv

\* A step of thread t, which polls device d if any.
LEMMA ReadThread ==
  ASSUME TypeInv, ReadInv, NEW t \in Threads, world' = world,
         NEW d, thr[t].dev \in {d, "none"}, thr'[t].dev \in {d, "none"},
         \A e \in Devices : e # d => io'[e].conn = io[e].conn /\ seen'[e].got = seen[e].got,
         \A s \in Threads : s # t => thr'[s] = thr[s] /\ air'[s] = air[s],
         d \in Devices => ThreadOf(d) = t,
         t = Bus => \A k \in 1..Len(air'[Bus]) : Known(air'[Bus][k]),
         t # Bus => Stream(t, thr'[t], air'[t]),
         d \in Devices /\ Dev(d).proto # "sim" /\ Apart(d) =>
           Reading(d, thr'[t], seen'[d]) /\ WasRead(d, thr'[t], io'[d], seen'[d])
  PROVE  ReadInv'
  <1>1. ASSUME NEW e \in Devices, Dev(e).proto # "sim", Apart(e), e # d
        PROVE  Reading(e, thr'[ThreadOf(e)], seen'[e]) /\ WasRead(e, thr'[ThreadOf(e)], io'[e], seen'[e])
    <2>1. world \in Worlds
      BY RowsOf
    <2>2. e # "none" /\ ThreadOf(e) \in Threads
      BY <1>1, <2>1, DeviceIs, ThreadIs
    <2>3. Reading(e, thr[ThreadOf(e)], seen[e]) /\ WasRead(e, thr[ThreadOf(e)], io[e], seen[e])
      BY <1>1 DEF ReadInv
    <2>4. io'[e].conn = io[e].conn /\ seen'[e].got = seen[e].got
      BY <1>1
    <2>5. CASE ThreadOf(e) = t
      <3>1. thr[t].dev # e /\ thr'[t].dev # e
        BY <1>1, <2>2
      <3> QED
        BY <2>3, <2>4, <2>5, <3>1 DEF Reading, WasRead
    <2>6. CASE ThreadOf(e) # t
      <3>1. thr'[ThreadOf(e)] = thr[ThreadOf(e)]
        BY <2>2, <2>6
      <3> QED
        BY <2>3, <2>4, <3>1 DEF Reading, WasRead
    <2> QED
      BY <2>5, <2>6
  <1>2. \A e \in Devices : Dev(e).proto # "sim" /\ Apart(e) =>
          Reading(e, thr'[ThreadOf(e)], seen'[e]) /\ WasRead(e, thr'[ThreadOf(e)], io'[e], seen'[e])
    BY <1>1
  <1>3. \A k \in 1..Len(air'[Bus]) : Known(air'[Bus][k])
    <2>1. CASE t # Bus
      <3>1. air'[Bus] = air[Bus]
        BY <2>1, RowsOf
      <3> QED
        BY <3>1 DEF ReadInv
    <2> QED
      BY <2>1
  <1>4. \A s \in Threads \ {Bus} : Stream(s, thr'[s], air'[s])
    <2>1. \A s \in Threads \ {Bus} : s # t => Stream(s, thr'[s], air'[s])
      BY DEF ReadInv
    <2> QED
      BY <2>1
  <1> QED
    BY <1>2, <1>3, <1>4, ReadMoves

LEMMA ReadInit ==
  ASSUME Init PROVE ReadInv
  <1>1. world \in Worlds /\ air = [t \in Threads |-> <<>>] /\ thr = [t \in Threads |-> NoThread]
    BY DEF Init
  <1>2. Bus \in Threads
    BY <1>1, ThreadIs
  <1>3. \A t \in Threads : Len(air[t]) = 0 /\ air[t] = <<>>
    BY <1>1
  <1>4. \A t \in Threads : Stream(t, thr[t], air[t])
    BY <1>3 DEF Stream
  <1>5. ASSUME NEW d \in Devices, Dev(d).proto # "sim"
        PROVE  Reading(d, thr[ThreadOf(d)], seen[d]) /\ WasRead(d, thr[ThreadOf(d)], io[d], seen[d])
    <2>1. d # "none" /\ ThreadOf(d) \in Threads
      BY <1>1, <1>5, DeviceIs, ThreadIs
    <2>2. thr[ThreadOf(d)].dev = "none"
      BY <1>1, <2>1 DEF NoThread
    <2>3. io[d].conn = FALSE
      BY Zenon DEF Init
    <2> QED
      BY <2>1, <2>2, <2>3 DEF Reading, WasRead
  <1>6. \A k \in 1..Len(air[Bus]) : Known(air[Bus][k])
    BY <1>2, <1>3
  <1> QED
    BY <1>4, <1>5, <1>6 DEF ReadInv

LEMMA ReadScan ==
  ASSUME TypeInv, ReadInv, ScanNext \/ SetInput PROVE ReadInv'
  <1>1. CASE ScanStart \/ ExecRejected \/ ExecCopy \/ ExecSimulated \/ SetInput
    <2>1. UNCHANGED <<world, thr, air, seen, io>>
      BY <1>1 DEF ScanStart, ExecRejected, ExecCopy, ExecSimulated, SetInput
    <2> QED
      BY <2>1, ReadProgram
  <1>2. CASE ExecQueue
    <2> DEFINE c == Current
               w == IF Dev(c).proto = "upp" THEN QueueChanges(c) ELSE QueueOutputs(c)
    <2>1. UNCHANGED <<world, thr, air, seen>> /\ (UNCHANGED io \/ io' = [io EXCEPT ![c].write = w])
      BY <1>2 DEF ExecQueue
    <2>2. c \in Devices /\ DOMAIN io = Devices
      BY CurrentIs, RowsOf
    <2> HIDE DEF c, w
    <2>3. ASSUME NEW d \in Devices PROVE io'[d].conn = io[d].conn
      <3>1. DOMAIN io[d] = {"read", "write", "conn", "err"}
        BY RowsOf DEF SharedRow
      <3>2. io'[d] = io[d] \/ io'[d] = [io[d] EXCEPT !.write = w]
        BY <2>1, <2>2
      <3> QED
        BY <3>1, <3>2
    <2> QED
      BY <2>1, <2>3, ReadProgram
  <1> QED
    BY <1>1, <1>2 DEF ScanNext

LEMMA ReadIdle ==
  ASSUME TypeInv, ReadInv, ExecRegister \/ BusStep PROVE ReadInv'
  <1>1. UNCHANGED <<world, prog, io, air, up, dev, seen>>
    BY IdleSteps
  <1>2. PICK t \in Threads : /\ \A s \in Threads : s # t => thr'[s] = thr[s]
                             /\ \/ thr'[t] = thr[t]
                                \/ /\ thr[t].dev = "none" /\ thr'[t].dev = "none"
                                   /\ thr[t].pc \in Between /\ thr'[t].pc \in Between
    BY IdleSteps
  <1>3. CASE thr'[t] = thr[t]
    <2>1. \A s \in Threads : thr'[s] = thr[s]
      BY <1>2, <1>3
    <2>2. \A d \in Devices : Dev(d).proto # "sim" => thr'[ThreadOf(d)] = thr[ThreadOf(d)]
      BY <2>1, RowsOf, ThreadIs
    <2> QED
      BY <1>1, <2>1, <2>2, ReadMoves DEF ReadInv
  <1>4. CASE /\ thr[t].dev = "none" /\ thr'[t].dev = "none"
             /\ thr[t].pc \in Between /\ thr'[t].pc \in Between
    <2>1. "none" \notin Devices
      BY RowsOf, DeviceIs
    <2>2. t # Bus => Stream(t, thr'[t], air'[t])
      <3>1. t # Bus => air[t] = <<>>
        BY <1>4 DEF ReadInv, Stream
      <3>2. thr'[t].pc \notin {"send", "end", "recv"}
        BY <1>4 DEF Between
      <3> QED
        BY <1>1, <3>1, <3>2 DEF Stream
    <2>3. \A k \in 1..Len(air'[Bus]) : Known(air'[Bus][k])
      BY <1>1 DEF ReadInv
    <2> QED
      BY <1>1, <1>2, <1>4, <2>1, <2>2, <2>3, ReadThread
  <1> QED
    BY <1>2, <1>3, <1>4

LEMMA ReadTcpConnect ==
  ASSUME TypeInv, ReadInv, NEW t \in Threads, TcpConnect(t) PROVE ReadInv'
  <1>1. /\ UNCHANGED <<world, scan, prog, link, reg, thr, air, dev, seen>>
        /\ t \in Devices /\ ThreadOf(t) = t /\ thr[t].dev = "none"
        /\ \A e \in Devices : io'[e].write = io[e].write /\ (e # t => io'[e] = io[e])
        /\ io'[t].conn => io[t].conn
    BY ConnectIs
  <1>2. Dev(t).proto # "sim" /\ Apart(t) => Reading(t, thr[t], seen[t]) /\ WasRead(t, thr[t], io'[t], seen[t])
    BY <1>1 DEF ReadInv, WasRead
  <1>3. t # Bus => Stream(t, thr[t], air[t])
    BY DEF ReadInv
  <1>4. \A k \in 1..Len(air'[Bus]) : Known(air'[Bus][k])
    BY <1>1 DEF ReadInv
  <1> QED
    BY <1>1, <1>2, <1>3, <1>4, ReadThread

\* A poll asks for every input.
LEMMA RequestsAsk ==
  ASSUME world \in Worlds, NEW d \in Devices, Dev(d).proto # "sim", io[d].write \in Rows(d), NEW n \in Readable(d)
  PROVE  \E k \in 1..Len(Requests(d)) : Asks(d, Requests(d)[k], n)
  <1> DEFINE w == io[d].write
             regs == ExpandRegisters(Fields(d), Inputs)
  <1>1. Lists(Requests(d), OpsOf(d, w))
    BY RequestsAre
  <1>2. n \in InputIndices(d) /\ n \in Indices(d) /\ (Dev(d).proto = "upp" \/ FieldOf(d, n).kind # "virtual")
    BY DEF Readable, InputIndices
  <1>3. \E op \in OpsOf(d, w) : Asks(d, op, n)
    <2>1. CASE Dev(d).proto = "upp"
      <3> DEFINE op == UppRead(d, n)
      <3>1. op \in OpsOf(d, w)
        BY <1>2, <2>1 DEF OpsOf, UppReads
      <3>2. ~op.write /\ op.io = n
        BY DEF UppRead
      <3> HIDE DEF op
      <3> QED
        BY <2>1, <3>1, <3>2 DEF Asks
    <2>2. CASE Dev(d).proto # "upp"
      <3>1. Modbus(d) /\ Profiled(Fields(d)) /\ InputIndices(d) = Selected(Fields(d), Inputs)
            /\ ProfileField(Dev(d).proto, FieldOf(d, n))
        BY <1>2, <2>2, DeviceIs DEF Modbus
      <3>2. regs \in Seq(Registers)
        BY <3>1, ListIs
      <3>3. PICK k \in 1..Len(regs) : regs[k] = Register(Fields(d), n)
        BY <1>2, <3>1, ExpandIs
      <3>4. regs[k].io = n /\ regs[k].kind = FieldOf(d, n).kind
        BY <1>2, <3>1, <3>3, RegisterIs DEF Indices, FieldOf
      <3>5. regs[k].kind \in ReadKinds
        BY <1>2, <2>2, <3>1, <3>4 DEF ReadKinds, ProfileField, Modbus
      <3> HIDE DEF regs
      <3>6. PICK b \in 1..Len(ReadBatched(regs)) : \E j \in 1..ReadBatched(regs)[b].n :
              ReadBatched(regs)[b].rest[j] = regs[k]
        BY <3>2, <3>5, ReadsCover
      <3> DEFINE op == ReadBatched(regs)[b]
      <3>7. op \in Reads(d)
        BY DEF Reads, ToSet, regs
      <3>8. PICK j \in 1..op.n : op.rest[j] = regs[k]
        BY <3>6
      <3> HIDE DEF op
      <3>9. IsReadFunction(op.fc)
        BY <3>1, <3>7, ReadOpIs
      <3>10. Asks(d, op, n)
        BY <2>2, <3>4, <3>8, <3>9 DEF Asks
      <3>11. op \in OpsOf(d, w)
        BY <2>2, <3>7 DEF OpsOf
      <3> QED
        BY <3>10, <3>11
    <2> QED
      BY <2>1, <2>2
  <1>4. PICK op \in OpsOf(d, w) : Asks(d, op, n)
    BY <1>3
  <1>5. PICK i \in 1..Len(Requests(d)) : Requests(d)[i] = op
    BY <1>1, <1>4 DEF Lists
  <1> QED
    BY <1>4, <1>5

LEMMA ReadPollStart ==
  ASSUME TypeInv, ReadInv, NEW d \in Devices, PollStart(d) PROVE ReadInv'
  <1> DEFINE t == ThreadOf(d)
             x == thr'[t]
  <1>1. /\ t \in Threads /\ Dev(d).proto # "sim" /\ world \in Worlds
        /\ UNCHANGED <<world, scan, prog, link, reg, air, up, dev, faults>>
        /\ thr[t].pc \in {"round", "idle"} /\ thr[t].dev = "none"
        /\ \A s \in Threads : s # t => thr'[s] = thr[s]
        /\ x.pc = Step(Requests(d)) /\ x.dev = d /\ x.ops = Requests(d)
        /\ \A e \in Devices : e # d => io'[e] = io[e] /\ seen'[e] = seen[e]
        /\ seen'[d].got = {}
    BY PollStartIs, RowsOf
  <1>2. io[d].write \in Rows(d)
    BY RowsOf DEF SharedRow, Pending
  <1>3. \A n \in Readable(d) : \E k \in 1..Len(Requests(d)) : Asks(d, Requests(d)[k], n)
    BY <1>1, <1>2, RequestsAsk
  <1>4. Reading(d, x, seen'[d]) /\ WasRead(d, x, io'[d], seen'[d])
    BY <1>1, <1>3 DEF Reading, WasRead
  <1>5. t # Bus => Stream(t, x, air'[t])
    <2>1. t # Bus => air[t] = <<>>
      BY <1>1 DEF ReadInv, Stream, Between
    <2>2. x.pc # "recv"
      BY <1>1 DEF Step
    <2> QED
      BY <1>1, <2>1, <2>2 DEF Stream
  <1>6. \A k \in 1..Len(air'[Bus]) : Known(air'[Bus][k])
    BY <1>1 DEF ReadInv
  <1> HIDE DEF t
  <1>7. ThreadOf(d) = t
    BY DEF t
  <1> QED
    BY <1>1, <1>4, <1>5, <1>6, <1>7, ReadThread

\* A request that failed leaves its mark.
LEMMA FailedIs ==
  ASSUME TypeInv, NEW t \in Threads, thr[t].pc \in Busy, NEW err, err # ErrOk
  PROVE  /\ AfterOp(t, err).dev = thr[t].dev /\ ~Clean(AfterOp(t, err)) /\ AfterOp(t, err).pc \in {"send", "end"}
  <1> DEFINE x == AfterOp(t, err)
             S == OpsOf(thr[t].dev, thr[t].snap)
             write == IsWrite(thr[t].dev, Head(thr[t].ops))
  <1>1. DOMAIN thr[t] = ThreadFields /\ thr[t].ops \in Seq(S) /\ thr[t].ops # <<>>
    BY BusyIs
  <1> HIDE DEF S
  <1>2. /\ x.dev = thr[t].dev /\ x.pc \in {"send", "end"}
        /\ x.readErr = IF err = ErrOk \/ write THEN thr[t].readErr ELSE err
        /\ x.writeErr = IF err = ErrOk \/ ~write THEN thr[t].writeErr ELSE err
    BY <1>1, AfterOpIs
  <1> HIDE DEF x, write
  <1>3. ~Clean(x)
    BY <1>2 DEF Clean
  <1> QED
    BY <1>2, <1>3 DEF x

\* Steps of a busy thread that take no answer: the request failed, or it is to
\* be repeated.
LEMMA ReadAlone ==
  ASSUME TypeInv, ReadInv, NEW t \in Threads, thr[t].pc \in Busy, UNCHANGED <<world, io, seen>>,
         \A s \in Threads : s # t => thr'[s] = thr[s] /\ air'[s] = air[s],
         air'[t] \in {air[t], <<>>},
         \/ \E err : err # ErrOk /\ thr'[t] = AfterOp(t, err)
         \/ /\ thr'[t].pc = "retry" \/ (thr'[t].pc = "send" /\ air'[t] = <<>>)
            /\ thr'[t].dev = thr[t].dev /\ thr'[t].ops = thr[t].ops
            /\ thr'[t].readErr = thr[t].readErr /\ thr'[t].writeErr = thr[t].writeErr
  PROVE  ReadInv'
  <1> DEFINE d == thr[t].dev
             x == thr'[t]
  <1>1. d \in Devices /\ ThreadOf(d) = t /\ Dev(d).proto # "sim"
    BY BusyIs
  <1>2. \/ x.dev = d /\ ~Clean(x) /\ x.pc \in {"send", "end"}
        \/ /\ x.pc = "retry" \/ (x.pc = "send" /\ air'[t] = <<>>)
           /\ x.dev = d /\ x.ops = thr[t].ops /\ (Clean(x) <=> Clean(thr[t]))
    <2>1. ASSUME NEW err, err # ErrOk, x = AfterOp(t, err) PROVE x.dev = d /\ ~Clean(x) /\ x.pc \in {"send", "end"}
      BY <2>1, FailedIs
    <2> QED
      BY <2>1 DEF Clean
  <1>3. Apart(d) => Reading(d, thr[t], seen[d])
    BY <1>1 DEF ReadInv
  <1>4. Apart(d) => Reading(d, x, seen'[d]) /\ WasRead(d, x, io'[d], seen'[d])
    <2> HIDE DEF x, d
    <2> QED
      BY <1>2, <1>3 DEF Reading, WasRead, d
  <1>5. t # Bus => Stream(t, x, air'[t])
    <2>1. "retry" \notin Between /\ "send" \notin Between /\ "end" \notin Between
      BY DEF Between
    <2> HIDE DEF x, d
    <2> QED
      BY <1>2, <2>1 DEF Stream
  <1>6. t = Bus => \A k \in 1..Len(air'[Bus]) : Known(air'[Bus][k])
    <2>1. CASE air'[t] = air[t]
      BY <2>1 DEF ReadInv
    <2>2. CASE air'[t] = <<>>
      BY <2>2
    <2> QED
      BY <2>1, <2>2
  <1>7. x.dev = d
    BY <1>2
  <1> HIDE DEF d
  <1>8. thr[t].dev = d
    BY DEF d
  <1> QED
    BY <1>1, <1>4, <1>5, <1>6, <1>7, <1>8, ReadThread

LEMMA ReadTxRefused ==
  ASSUME TypeInv, ReadInv, NEW t \in Threads, TxRefused(t) PROVE ReadInv'
  <1>1. /\ UNCHANGED <<world, scan, prog, link, reg, io, air, up, dev, faults, seen>>
        /\ thr' = [thr EXCEPT ![t] = AfterOp(t, UppOutOfRange)] /\ thr[t].pc \in Busy
    BY DEF TxRefused, Busy
  <1>2. UppOutOfRange # ErrOk
    BY DEF UppOutOfRange, ErrOk
  <1>3. thr'[t] = AfterOp(t, UppOutOfRange) /\ \A s \in Threads : s # t => thr'[s] = thr[s]
    BY <1>1, RowsOf
  <1> QED
    BY <1>1, <1>2, <1>3, ReadAlone

LEMMA ReadTxTimeout ==
  ASSUME TypeInv, ReadInv, NEW t \in Threads, TxTimeout(t) PROVE ReadInv'
  <1>1. /\ UNCHANGED <<world, scan, prog, link, reg, io, air, up, dev, seen>>
        /\ thr' = [thr EXCEPT ![t] = TimedOut(t)] /\ thr[t].pc \in Busy
    BY DEF TxTimeout, Busy
  <1>2. thr'[t] = TimedOut(t) /\ \A s \in Threads : s # t => thr'[s] = thr[s]
    BY <1>1, RowsOf
  <1>3. \/ \E err : err # ErrOk /\ thr'[t] = AfterOp(t, err)
        \/ /\ thr'[t].pc = "retry" /\ thr'[t].dev = thr[t].dev /\ thr'[t].ops = thr[t].ops
           /\ thr'[t].readErr = thr[t].readErr /\ thr'[t].writeErr = thr[t].writeErr
    BY <1>1, <1>2, TimedOutIs
  <1> QED
    BY <1>1, <1>2, <1>3, ReadAlone

LEMMA ReadTxNotConnected ==
  ASSUME TypeInv, ReadInv, NEW t \in Threads, TxNotConnected(t) PROVE ReadInv'
  <1>1. /\ UNCHANGED <<world, scan, prog, link, reg, io, air, up, dev, faults, seen>>
        /\ thr' = [thr EXCEPT ![t].pc = "retry"] /\ thr[t].pc \in Busy
    BY DEF TxNotConnected, Busy
  <1>2. thr'[t] = [thr[t] EXCEPT !.pc = "retry"] /\ \A s \in Threads : s # t => thr'[s] = thr[s]
    BY <1>1, RowsOf
  <1>3. DOMAIN thr[t] = ThreadFields
    BY <1>1, BusyIs
  <1>4. /\ thr'[t].pc = "retry" /\ thr'[t].dev = thr[t].dev /\ thr'[t].ops = thr[t].ops
        /\ thr'[t].readErr = thr[t].readErr /\ thr'[t].writeErr = thr[t].writeErr
    BY <1>2, <1>3 DEF ThreadFields
  <1> QED
    BY <1>1, <1>2, <1>4, ReadAlone

LEMMA ReadReconnect ==
  ASSUME TypeInv, ReadInv, NEW t \in Threads, Reconnect(t) PROVE ReadInv'
  <1>1. /\ UNCHANGED <<world, scan, prog, link, reg, io, dev, seen>> /\ thr[t].pc \in Busy
        /\ \A s \in Threads : s # t => thr'[s] = thr[s] /\ air'[s] = air[s]
        /\ air'[t] = <<>>
    BY ReconnectIs
  <1>2. \/ thr'[t] = AfterOp(t, ErrTimeout)
        \/ /\ thr'[t].pc = "send" /\ thr'[t].dev = thr[t].dev /\ thr'[t].ops = thr[t].ops
           /\ thr'[t].readErr = thr[t].readErr /\ thr'[t].writeErr = thr[t].writeErr
    BY ReconnectIs
  <1>3. ErrTimeout # ErrOk
    BY DEF ErrTimeout, ErrOk
  <1> QED
    BY <1>1, <1>2, <1>3, ReadAlone

LEMMA ReadPollEnd ==
  ASSUME TypeInv, ReadInv, NEW t \in Threads, PollEnd(t) PROVE ReadInv'
  <1> DEFINE d == thr[t].dev
             err == PollError(d, thr[t])
             x == thr'[t]
  <1>1. /\ thr[t].pc = "end" /\ world' = world
        /\ d \in Devices /\ ThreadOf(d) = t /\ Dev(d).proto \in {"rtu", "tcp", "upp"} /\ thr[t].ops = <<>>
        /\ x.dev = "none" /\ x.pc = (IF t = Bus THEN "round" ELSE "idle")
        /\ seen'[d].got = seen[d].got
    BY PollEndIs
  <1>2. \A e \in Devices : e # d => io'[e] = io[e] /\ seen'[e] = seen[e]
    BY PollEndIs, Zenon
  <1>3. \A s \in Threads : s # t => thr'[s] = thr[s] /\ air'[s] = air[s] /\ up'[s] = up[s]
    BY PollEndIs
  <1>4. io'[d].conn <=> err = ErrOk
    BY PollEndIs, Zenon
  <1>5. air'[t] \in {air[t], <<>>} /\ (t = Bus => air'[t] = air[t]) /\ (t # Bus /\ err # ErrOk => air'[t] = <<>>)
    BY PollEndIs
  <1>6. err = ErrOk => Clean(thr[t])
    <2>1. CASE Dev(d).proto = "rtu"
      <3>1. err = CombineCycleErrors(thr[t].readErr, thr[t].writeErr)
        BY <2>1 DEF PollError
      <3> QED
        BY <3>1 DEF CombineCycleErrors, Clean
    <2>2. CASE Dev(d).proto = "tcp"
      <3>1. err = IF thr[t].readErr # ErrOk \/ thr[t].writeErr # ErrOk THEN 10 ELSE 0
        BY <2>2 DEF PollError
      <3> QED
        BY <3>1 DEF ErrOk, Clean
    <2>3. CASE Dev(d).proto = "upp"
      <3>1. err = IF thr[t].readErr # ErrOk THEN thr[t].readErr ELSE thr[t].writeErr
        BY <2>3 DEF PollError
      <3> QED
        BY <3>1 DEF Clean
    <2> QED
      BY <1>1, <2>1, <2>2, <2>3
  <1>7. d # "none"
    BY <1>1, RowsOf, DeviceIs
  <1> HIDE DEF err, x
  <1>8. Apart(d) => Reading(d, x, seen'[d]) /\ WasRead(d, x, io'[d], seen'[d])
    <2> SUFFICES ASSUME Apart(d), err = ErrOk PROVE seen[d].got = Readable(d)
      BY <1>1, <1>4, <1>7 DEF Reading, WasRead
    <2>1. Reading(d, thr[t], seen[d])
      BY <1>1 DEF ReadInv
    <2>2. Len(thr[t].ops) = 0
      BY <1>1
    <2>3. /\ seen[d].got \subseteq Readable(d)
          /\ \A n \in Readable(d) : n \in seen[d].got \/ \E k \in 1..Len(thr[t].ops) : Asks(d, thr[t].ops[k], n)
      BY <1>6, <2>1 DEF Reading
    <2>4. \A k : k \notin 1..Len(thr[t].ops)
      BY <2>2
    <2> QED
      BY <2>3, <2>4, Zenon
  <1>9. t # Bus => Stream(t, x, air'[t])
    <2>1. ASSUME t # Bus PROVE air'[t] = <<>>
      <3>1. CASE err = ErrOk
        <4>1. air[t] = <<>>
          BY <1>1, <1>6, <2>1, <3>1 DEF ReadInv, Stream
        <4> QED
          BY <1>5, <4>1
      <3> QED
        BY <1>5, <2>1, <3>1
    <2>2. x.pc # "recv"
      BY <1>1
    <2> QED
      BY <2>1, <2>2 DEF Stream
  <1>10. t = Bus => \A k \in 1..Len(air'[Bus]) : Known(air'[Bus][k])
    BY <1>5 DEF ReadInv
  <1> HIDE DEF d
  <1>11. thr[t].dev = d
    BY DEF d
  <1> QED
    BY <1>1, <1>2, <1>3, <1>8, <1>9, <1>10, <1>11, ReadThread DEF x

LEMMA FramesApart ==
  \A f : ~(f \in ModbusFrames /\ f \in UppFrames)
  <1>1. \A f \in ModbusFrames : "cmd" \notin DOMAIN f
    BY DEF ModbusFrames
  <1>2. \A f \in UppFrames : "cmd" \in DOMAIN f
    BY DEF UppFrames
  <1> QED
    BY <1>1, <1>2

LEMMA KnownLater ==
  ASSUME NEW f \in Frames, NEW g, Known(f), Later(f, g) PROVE Known(g)
  <1>1. CASE f \in ModbusFrames
    <2>1. /\ g \in ModbusFrames /\ g.from = f.from /\ g.fc = f.fc /\ g.addr = f.addr
          /\ g.exc = f.exc /\ g.data = f.data /\ g.bytes = f.bytes
      BY <1>1 DEF Later
    <2>2. KnownModbus(f)
      BY <1>1 DEF Known
    <2>3. \A e, op : AnswerTo(e, op, f) => AnswerTo(e, op, g)
      BY <2>1 DEF AnswerTo
    <2>4. KnownModbus(g)
      BY <2>1, <2>2, <2>3 DEF KnownModbus
    <2> QED
      BY <2>1, <2>4, FramesApart DEF Known
  <1>2. CASE f \in UppFrames
    <2>1. /\ g \in UppFrames /\ g.from = f.from /\ g.cmd = f.cmd /\ g.echo = f.echo /\ g.bytes = f.bytes
      BY <1>2 DEF Later
    <2>2. KnownUpp(f)
      BY <1>2 DEF Known
    <2>3. \A e, n : AnswerAbout(e, n, f) => AnswerAbout(e, n, g)
      BY <2>1 DEF AnswerAbout
    <2>4. KnownUpp(g)
      BY <2>2, <2>3 DEF KnownUpp
    <2> QED
      BY <2>1, <2>4, FramesApart DEF Known
  <1> QED
    BY <1>1, <1>2 DEF Frames

\* The answer of a Modbus device is an answer to the request.
LEMMA ModbusAnswers ==
  ASSUME world \in Worlds, NEW d \in Devices, Modbus(d), NEW w \in Rows(d), NEW op \in OpsOf(d, w),
         dev[d] \in [Cells(d) -> Content(d)], NEW refused \in BOOLEAN
  PROVE  LET f == Answer(d, op, refused)
         IN /\ f \in ModbusFrames /\ f.fc = op.fc /\ f.exc = refused
            /\ ~refused /\ IsReadFunction(op.fc) => op \in Reads(d) /\ AnswerTo(d, op, f)
  <1> DEFINE f == Answer(d, op, refused)
             row == [j \in 1..op.n |-> dev[d][Address(op.rest[j])]]
  <1>1. /\ f \in ModbusFrames /\ f.exc = refused /\ f.fc = op.fc /\ f.addr = op.addr /\ f.from = Dev(d).slave
        /\ f.data = IF IsReadFunction(op.fc) /\ ~refused THEN row ELSE <<>>
        /\ f.bytes = IF f.data = <<>> THEN 0 ELSE ByteCount(op.fc, op.n)
    BY ModbusAnswerIs
  <1>2. op \in ModbusOps /\ op.n >= 1 /\ (IsReadFunction(op.fc) => op \in Reads(d))
    BY ModbusOpIs
  <1>3. op.n \in Nat
    BY <1>2 DEF ModbusOps
  <1> HIDE DEF f
  <1>4. ASSUME ~refused, IsReadFunction(op.fc) PROVE AnswerTo(d, op, f)
    <2>1. f.data = row /\ f.data \in Seq(Word)
      BY <1>1, <1>4 DEF ModbusFrames
    <2>2. DOMAIN f.data = 1..op.n
      BY <2>1
    <2>3. Len(f.data) = op.n
      BY <1>3, <2>1, <2>2
    <2>4. f.data # <<>>
      BY <1>2, <1>3, <2>3
    <2> QED
      BY <1>1, <2>3, <2>4 DEF AnswerTo
  <1> QED
    BY <1>1, <1>2, <1>4 DEF f

LEMMA KnownAnswer ==
  ASSUME world \in Worlds, NEW d \in Devices, Serial(d), NEW w \in Rows(d), NEW op \in OpsOf(d, w),
         dev[d] \in [Cells(d) -> Content(d)], op.sendable, NEW refused \in BOOLEAN, refused => Refusable(d, op)
  PROVE  Known(Answer(d, op, refused))
  <1> DEFINE f == Answer(d, op, refused)
  <1>1. CASE Dev(d).proto = "rtu"
    <2>1. Modbus(d)
      BY <1>1 DEF Modbus
    <2>2. f \in ModbusFrames /\ f.fc = op.fc /\ f.exc = refused
          /\ (~refused /\ IsReadFunction(op.fc) => op \in Reads(d) /\ AnswerTo(d, op, f))
      BY <2>1, ModbusAnswers
    <2> HIDE DEF f
    <2>3. KnownModbus(f)
      BY <1>1, <2>2 DEF KnownModbus
    <2> QED
      BY <2>2, <2>3, FramesApart DEF Known, f
  <1>2. CASE Dev(d).proto = "upp"
    <2>1. refused => op.write
      BY <1>2 DEF Refusable
    <2>2. /\ f \in UppFrames /\ f.cmd = op.cmd /\ f.from = OwnAddress(d)
          /\ f.echo = IF op.write /\ EchoesCommand(op) /\ ~refused THEN op.cmd ELSE ""
          /\ f.bytes = IF refused THEN 2
                       ELSE IF op.write THEN 2 + ParameterDigits(op.cmd) ELSE AnswerDigits(op.cmd)
      BY <1>2, UppAnswerIs
    <2>3. op.io \in Indices(d) /\ op.cmd = FieldOf(d, op.io).cmd
      BY <1>2, UppOpIs
    <2>4. op.write => op.io \in OutputIndices(d)
      BY <1>2 DEF OpsOf, UppReads, UppWrites, UppRead, UppWrite
    <2> HIDE DEF f
    <2>5. AnswerAbout(d, op.io, f)
      <3>1. CASE refused
        BY <2>1, <2>2, <2>3, <2>4, <3>1 DEF AnswerAbout
      <3>2. CASE ~refused
        BY <2>2, <2>3, <2>4, <3>2 DEF AnswerAbout
      <3> QED
        BY <3>1, <3>2
    <2>6. KnownUpp(f)
      BY <1>2, <2>3, <2>5 DEF KnownUpp
    <2> QED
      BY <2>2, <2>6, FramesApart DEF Known, f
  <1> QED
    BY <1>1, <1>2 DEF Serial

\* The thread goes on to its next request, having read what the last one asked for.
LEMMA ReadingAfter ==
  ASSUME TypeInv, NEW t \in Threads, thr[t].pc \in Busy, Reading(thr[t].dev, thr[t], seen[thr[t].dev]),
         NEW x, x.ops = Tail(thr[t].ops), Clean(x) => Clean(thr[t]),
         NEW s, Clean(x) => /\ s.got \subseteq Readable(thr[t].dev) /\ seen[thr[t].dev].got \subseteq s.got
                            /\ \A n \in Readable(thr[t].dev) : Asks(thr[t].dev, Head(thr[t].ops), n) => n \in s.got
  PROVE  Reading(thr[t].dev, x, s)
  <1> DEFINE d == thr[t].dev
             ops == thr[t].ops
             S == OpsOf(d, thr[t].snap)
  <1>1. ops \in Seq(S) /\ ops # <<>>
    BY BusyIs
  <1> HIDE DEF S
  <1> SUFFICES ASSUME Clean(x), NEW n \in Readable(d)
               PROVE  n \in s.got \/ \E k \in 1..Len(x.ops) : Asks(d, x.ops[k], n)
    BY DEF Reading
  <1>2. n \in seen[d].got \/ \E k \in 1..Len(ops) : Asks(d, ops[k], n)
    BY DEF Reading
  <1>3. CASE \E k \in 1..Len(ops) : Asks(d, ops[k], n)
    <2>1. PICK k \in 1..Len(ops) : Asks(d, ops[k], n)
      BY <1>3
    <2>2. CASE k = 1
      <3>1. ops[k] = Head(ops)
        BY <1>1, <2>2
      <3> QED
        BY <2>1, <3>1
    <2>3. CASE k # 1
      <3> HIDE DEF ops
      <3>1. k - 1 \in 1..Len(Tail(ops)) /\ Tail(ops)[k - 1] = ops[k]
        BY <1>1, <2>3
      <3> QED
        BY <2>1, <3>1 DEF ops
    <2> QED
      BY <2>2, <2>3
  <1> QED
    BY <1>2, <1>3

LEMMA ReadTxSend ==
  ASSUME TypeInv, ReadInv, NEW t \in Threads, TxSend(t) PROVE ReadInv'
  <1> DEFINE d == thr[t].dev
             op == Head(thr[t].ops)
             w == thr[t].snap
             x == thr'[t]
             S == OpsOf(d, w)
  <1>1. /\ thr[t].pc = "send" /\ op.sendable /\ UNCHANGED <<world, scan, prog, link, reg, io, up, seen>>
        /\ \A s \in Threads : s # t => thr'[s] = thr[s] /\ air'[s] = air[s]
    BY SendIs
  <1>2. PICK late \in Remaining(t) : Sent(t, d, op, late)
    BY SendIs
  <1>3. /\ thr[t].pc \in Busy /\ d \in Devices /\ ThreadOf(d) = t /\ w \in Rows(d) /\ op \in S
        /\ DOMAIN thr[t] = ThreadFields /\ world \in Worlds /\ Dev(d).proto # "sim"
        /\ thr[t].ops # <<>> /\ thr[t].ops \in Seq(S)
    <2>1. thr[t].pc \in Busy
      BY <1>1 DEF Busy
    <2> QED
      BY <2>1, BusyIs, RowsOf
  <1>4. dev[d] \in [Cells(d) -> Content(d)] /\ air[t] \in Seq(Frames)
    BY <1>3, RowsOf DEF ThreadRow
  <1>5. /\ late \in Seq(Frames)
        /\ \A j \in 1..Len(late) : \E k \in 1..Len(air[t]) : Later(air[t][k], late[j])
        /\ t # Bus => Len(late) = Len(air[t])
    BY <1>4, RemainingIs
  <1>6. \/ Dev(d).proto = "upp" /\ x = AfterOp(t, IF op.write THEN ErrOk ELSE UppBadResponse)
        \/ x = [thr[t] EXCEPT !.pc = "recv"]
    BY SendIs
  <1>7. x.dev = d /\ (Apart(d) => Reading(d, x, seen[d]))
    <2>1. Apart(d) => Reading(d, thr[t], seen[d])
      BY <1>3 DEF ReadInv
    <2>2. CASE x = [thr[t] EXCEPT !.pc = "recv"]
      <3>1. x.dev = d /\ x.ops = thr[t].ops /\ x.readErr = thr[t].readErr /\ x.writeErr = thr[t].writeErr
        BY <1>3, <2>2 DEF ThreadFields
      <3> HIDE DEF x
      <3> QED
        BY <2>1, <3>1 DEF Reading, Clean
    <2>3. CASE Dev(d).proto = "upp" /\ op.write /\ x = AfterOp(t, ErrOk)
      <3> HIDE DEF S
      <3>1. /\ x.dev = d /\ x.ops = Tail(thr[t].ops)
            /\ x.readErr = thr[t].readErr /\ x.writeErr = thr[t].writeErr
        BY <1>3, <2>3, AfterOpIs
      <3>2. \A n : ~Asks(d, op, n)
        BY <2>3 DEF Asks
      <3>3. Apart(d) => (Clean(x) => seen[d].got \subseteq Readable(d))
        BY <2>1, <3>1 DEF Reading, Clean
      <3>4. Clean(x) => Clean(thr[t])
        BY <3>1 DEF Clean
      <3> HIDE DEF x, op
      <3> QED
        BY <1>3, <2>1, <3>1, <3>2, <3>3, <3>4, ReadingAfter DEF op
    <2>4. CASE Dev(d).proto = "upp" /\ ~op.write /\ x = AfterOp(t, UppBadResponse)
      <3>1. UppBadResponse # ErrOk
        BY DEF UppBadResponse, ErrOk
      <3>2. x.dev = d /\ ~Clean(x)
        BY <1>3, <2>4, <3>1, FailedIs
      <3> QED
        BY <3>2 DEF Reading
    <2> QED
      BY <1>6, <2>2, <2>3, <2>4
  <1>8. WasRead(d, x, io'[d], seen'[d])
    BY <1>7 DEF WasRead
  <1>9. t # Bus => Stream(t, x, air'[t])
    <2> SUFFICES ASSUME t # Bus PROVE Stream(t, x, air'[t])
      OBVIOUS
    <2>1. Dev(d).proto # "upp" /\ d = t /\ Modbus(d)
      BY <1>3, ThreadIs DEF Modbus, Serial
    <2>2. x = [thr[t] EXCEPT !.pc = "recv"]
      BY <1>6, <2>1
    <2>3. x.pc = "recv" /\ x.ops = thr[t].ops /\ x.readErr = thr[t].readErr /\ x.writeErr = thr[t].writeErr
      BY <1>3, <2>2 DEF ThreadFields
    <2> HIDE DEF x, d
    <2>4. ASSUME Clean(x)
          PROVE  /\ Len(air'[t]) <= 1
                 /\ air'[t] # <<>> /\ ~air'[t][1].exc /\ IsReadFunction(op.fc) => AnswerTo(t, op, air'[t][1])
      <3>1. air[t] = <<>>
        BY <1>1, <2>3, <2>4 DEF ReadInv, Stream, Clean
      <3>2. late = <<>>
        BY <1>5, <3>1
      <3>3. \/ air'[t] = <<>>
            \/ \E refused \in BOOLEAN : air'[t] = Append(<<>>, Answer(d, op, refused))
        BY <1>2, <3>2 DEF Sent
      <3>4. ASSUME NEW refused \in BOOLEAN, air'[t] = Append(<<>>, Answer(d, op, refused))
            PROVE  /\ Len(air'[t]) <= 1
                   /\ ~air'[t][1].exc /\ IsReadFunction(op.fc) => AnswerTo(t, op, air'[t][1])
        <4> DEFINE f == Answer(d, op, refused)
        <4>1. f \in ModbusFrames /\ f.exc = refused /\ (~refused /\ IsReadFunction(op.fc) => AnswerTo(d, op, f))
          BY <1>3, <1>4, <2>1, ModbusAnswers
        <4> HIDE DEF f
        <4>2. Len(air'[t]) = 1 /\ air'[t][1] = f
          BY <3>4 DEF f
        <4> QED
          BY <2>1, <4>1, <4>2
      <3>5. CASE air'[t] = <<>>
        BY <3>5
      <3> QED
        BY <3>3, <3>4, <3>5
    <2> QED
      BY <2>3, <2>4 DEF Stream, Between
  <1>10. t = Bus => \A k \in 1..Len(air'[Bus]) : Known(air'[Bus][k])
    <2> SUFFICES ASSUME t = Bus PROVE \A k \in 1..Len(air'[t]) : Known(air'[t][k])
      OBVIOUS
    <2>1. Serial(d)
      BY <1>3, ThreadIs
    <2>2. \A j \in 1..Len(late) : Known(late[j])
      <3>1. \A k \in 1..Len(air[t]) : Known(air[t][k]) /\ air[t][k] \in Frames
        BY <1>4 DEF ReadInv
      <3> QED
        BY <1>5, <3>1, KnownLater
    <2>3. \A refused \in BOOLEAN : (refused => Refusable(d, op)) => Known(Answer(d, op, refused))
      BY <1>1, <1>3, <1>4, <2>1, KnownAnswer
    <2>4. CASE air'[t] = late
      BY <2>2, <2>4
    <2>5. ASSUME NEW f, Known(f), air'[t] = Append(late, f)
          PROVE  \A k \in 1..Len(air'[t]) : Known(air'[t][k])
      <3>1. \A k \in 1..Len(Append(late, f)) :
              (k \in 1..Len(late) /\ Append(late, f)[k] = late[k]) \/ Append(late, f)[k] = f
        BY <1>5
      <3> QED
        BY <2>2, <2>5, <3>1
    <2> QED
      BY <1>2, <2>3, <2>4, <2>5 DEF Sent
  <1> HIDE DEF d
  <1>11. thr[t].dev = d
    BY DEF d
  <1> QED
    BY <1>1, <1>3, <1>7, <1>8, <1>9, <1>10, <1>11, ReadThread

\* What an answer to the very request brings.
LEMMA AnswerStored ==
  ASSUME world \in Worlds, NEW d \in Devices, Modbus(d), NEW op \in Reads(d), NEW f \in ModbusFrames, AnswerTo(d, op, f)
  PROVE  LET data == Extracted(op, f)
             touched == {op.rest[j].io : j \in 1..Len(data)}
         IN /\ Genuine(op, f, data) = touched /\ touched \subseteq Readable(d)
            /\ \A n : Asks(d, op, n) => n \in touched
  <1> DEFINE data == Extracted(op, f)
  <1>1. /\ op \in ModbusOps /\ IsReadFunction(op.fc) /\ op.n >= 1 /\ op.n <= Len(op.rest)
        /\ Listed(d, op.rest, InputIndices(d))
        /\ \A j \in 1..op.n : /\ ReadFunction(op.rest[j].kind) = op.fc
                              /\ op.rest[j].kind \in ReadKinds
                              /\ op.rest[j].addr = (op.addr + j - 1) % WordSize
    BY ReadOpIs
  <1>2. op.n \in Nat /\ op.fc \in Nat /\ Len(op.rest) \in Nat
    BY <1>1 DEF ModbusOps
  <1>3. f.fc = op.fc /\ f.addr = op.addr /\ Len(f.data) = op.n /\ f.bytes = ByteCount(op.fc, op.n)
    BY DEF AnswerTo
  <1>4. Len(data) = op.n
    <2>1. CASE IsBitFunction(op.fc)
      <3>1. f.bytes = (op.n + 7) \div 8
        BY <1>3, <2>1 DEF ByteCount
      <3>2. op.n <= 8 * f.bytes
        BY <1>2, <3>1
      <3> QED
        BY <1>1, <2>1, <3>2, ExtractedIs
    <2>2. CASE ~IsBitFunction(op.fc)
      <3>1. data = f.data
        BY <1>1, <1>3, <2>2, ExtractedIs
      <3> QED
        BY <1>3, <3>1
    <2> QED
      BY <2>1, <2>2
  <1> HIDE DEF data
  <1>5. \A k \in 1..Len(data) : f.fc = ReadFunction(op.rest[k].kind) /\ (f.addr + k - 1) % WordSize = op.rest[k].addr
    BY <1>1, <1>3, <1>4
  <1>6. Genuine(op, f, data) = {op.rest[j].io : j \in 1..Len(data)}
    <2>1. {k \in 1..Len(data) : f.fc = ReadFunction(op.rest[k].kind) /\ (f.addr + k - 1) % WordSize = op.rest[k].addr}
            = 1..Len(data)
      BY <1>5, Zenon
    <2> QED
      BY <2>1, Zenon DEF Genuine
  <1>7. ASSUME NEW j \in 1..Len(data) PROVE op.rest[j].io \in Readable(d)
    <2>1. j \in 1..op.n /\ j \in 1..Len(op.rest)
      BY <1>1, <1>2, <1>4
    <2>2. op.rest[j].io \in InputIndices(d) /\ op.rest[j] = Register(Fields(d), op.rest[j].io)
      BY <1>1, <2>1 DEF Listed
    <2>3. op.rest[j].kind \in ReadKinds
      BY <1>1, <2>1
    <2>4. op.rest[j].io \in Indices(d) /\ Profiled(Fields(d))
      BY <2>2, DeviceIs DEF InputIndices
    <2>5. op.rest[j].kind = FieldOf(d, op.rest[j].io).kind
      <3> DEFINE n == op.rest[j].io
      <3>1. n \in Indices(d) /\ op.rest[j] = Register(Fields(d), n)
        BY <2>2, <2>4
      <3> HIDE DEF n
      <3>2. op.rest[j].kind = FieldOf(d, n).kind
        BY <2>4, <3>1, RegisterIs DEF Indices, FieldOf
      <3> QED
        BY <3>2 DEF n
    <2> QED
      BY <2>2, <2>3, <2>5 DEF Readable, ReadKinds
  <1>8. ASSUME NEW n, Asks(d, op, n) PROVE n \in {op.rest[j].io : j \in 1..Len(data)}
    <2>1. Dev(d).proto # "upp"
      BY DEF Modbus
    <2> QED
      BY <1>4, <1>8, <2>1 DEF Asks
  <1> QED
    BY <1>6, <1>7, <1>8 DEF data

\* On a serial line of slaves and requests that can be told apart, an answer
\* that is taken is one to the request at hand.
LEMMA TakenRtu ==
  ASSUME world \in Worlds, NEW d \in Devices, Dev(d).proto = "rtu", Apart(d), NEW op \in Reads(d),
         NEW f \in Frames, NEW g \in Frames, Alike(f, g), Known(g), Outcome(d, op, f) = ErrOk
  PROVE  f \in ModbusFrames /\ AnswerTo(d, op, f)
  <1>1. Modbus(d)
    BY DEF Modbus
  <1>2. f \in ModbusFrames /\ ~f.exc /\ f.from = Dev(d).slave /\ f.fc = op.fc
    BY <1>1, AcceptedIs
  <1>3. /\ g \in ModbusFrames /\ f.from = g.from /\ f.fc = g.fc /\ f.addr = g.addr
        /\ f.exc = g.exc /\ f.data = g.data /\ f.bytes = g.bytes
    BY <1>2, AlikeModbus
  <1>4. IsReadFunction(op.fc)
    BY <1>1, ReadOpIs
  <1>5. KnownModbus(g) /\ ~g.exc /\ IsReadFunction(g.fc)
    BY <1>2, <1>3, <1>4 DEF Known
  <1>6. PICK e \in Devices : Dev(e).proto = "rtu" /\ \E r \in Reads(e) : AnswerTo(e, r, g)
    BY <1>5 DEF KnownModbus
  <1>7. PICK r \in Reads(e) : AnswerTo(e, r, g)
    BY <1>6
  <1>8. g.from = Dev(e).slave /\ g.fc = r.fc
    BY <1>7 DEF AnswerTo
  <1>9. e = d
    BY <1>2, <1>3, <1>6, <1>8 DEF Apart, SlavesApart
  <1>10. r = op
    <2> DEFINE ops == ReadBatched(ExpandRegisters(Fields(d), Inputs))
    <2>1. PICK a \in 1..Len(ops) : ops[a] = r
      BY <1>7, <1>9 DEF Reads, ToSet
    <2>2. PICK b \in 1..Len(ops) : ops[b] = op
      BY DEF Reads, ToSet
    <2>3. \A i, j \in 1..Len(ops) : ops[i].fc = ops[j].fc => i = j
      BY DEF Apart, AnswersApart
    <2>4. ops[a].fc = ops[b].fc
      BY <1>2, <1>3, <1>8, <2>1, <2>2
    <2>5. a = b
      BY <2>3, <2>4
    <2> QED
      BY <2>1, <2>2, <2>5
  <1> QED
    BY <1>2, <1>3, <1>7, <1>9, <1>10 DEF AnswerTo

\* Whether a decoded value fits the type of its field depends on the decoder alone.
LEMMA FitsByTag ==
  ASSUME NEW x, NEW y, x.t = y.t, NEW type, DecodedToValue(y, type) = None
  PROVE  DecodedToValue(x, type) = None
  <1> DEFINE fits == \/ x.t \in {"Temperature", "InternalTemp"} /\ type \in RealTypes
                     \/ x.t \in {"Temperature", "InternalTemp"} /\ type \in SignedTypes \ {"SINT"}
                     \/ x.t = "UInt" /\ type \in UnsignedTypes \ {"BYTE"}
                     \/ x.t = "UInt" /\ type \in SignedTypes
                     \/ x.t = "UInt" /\ type \in RealTypes
                     \/ x.t = "Per1000" /\ type \in RealTypes
                     \/ x.t = "Enum" /\ type \in SignedTypes
                     \/ x.t = "Enum" /\ type \in {"USINT", "UINT", "UDINT", "ULINT"}
                     \/ x.t \in {"Bool", "Ack"} /\ type = "BOOL"
                     \/ x.t = "Text" /\ type = "STRING"
  <1>1. ASSUME NEW tag \in {"Real", "Int", "UInt", "Bool", "String"}, NEW v PROVE Value(tag, v) # None
    BY <1>1 DEF Value, None
  <1>2. ~fits
    <2> SUFFICES ASSUME fits PROVE FALSE
      OBVIOUS
    <2>1. \E tag \in {"Real", "Int", "UInt", "Bool", "String"} :
            \E v : DecodedToValue(y, type) = Value(tag, v)
      BY DEF DecodedToValue
    <2> QED
      BY <1>1, <2>1
  <1> QED
    BY <1>2 DEF DecodedToValue

LEMMA DecodedTag ==
  ASSUME NEW dec, NEW digits, NEW raw, Decode(dec, digits, raw) # None
  PROVE  Decode(dec, digits, raw).t = DecodedVariant(dec) /\ DecoderDigits(dec) \in {0, digits}
  <1>1. DecoderDigits(dec) \in {0, digits}
    BY DEF Decode
  <1>2. \/ DecodedVariant(dec) = "Temperature" /\ Decode(dec, digits, raw) = Value("Temperature", raw * 1000)
        \/ DecodedVariant(dec) = "InternalTemp" /\ Decode(dec, digits, raw) = Value("InternalTemp", raw * 10000)
        \/ Decode(dec, digits, raw) = Value(DecodedVariant(dec), raw)
    BY <1>1 DEF Decode
  <1>3. \A tag, v : Value(tag, v).t = tag
    BY DEF Value
  <1> QED
    BY <1>1, <1>2, <1>3

LEMMA AlikeUpp ==
  ASSUME NEW f \in UppFrames, NEW g \in Frames, Alike(f, g)
  PROVE  g \in UppFrames /\ f.from = g.from /\ f.cmd = g.cmd /\ f.echo = g.echo /\ f.bytes = g.bytes
  <1>1. g \in UppFrames
    BY FramesApart DEF Alike, Frames
  <1> QED
    BY <1>1 DEF Alike

\* Limits queries are asked under the mnemonic of the command they are about.
LEMMA MnemonicIs ==
  ASSUME NEW cmd \in LimitsQueries PROVE Mnemonic(cmd) # ""
  BY DEF LimitsQueries, Mnemonic

\* On a serial line of addresses and answers that can be told apart, the same
\* for UPP, and the value fits the field.
LEMMA TakenUpp ==
  ASSUME world \in Worlds, NEW d \in Devices, Dev(d).proto = "upp", Apart(d),
         NEW w \in Rows(d), NEW op \in OpsOf(d, w), ~op.write,
         NEW f \in Frames, NEW g \in Frames, Alike(f, g), Known(g), Outcome(d, op, f) = ErrOk
  PROVE  /\ f.cmd = op.cmd
         /\ DecodedToValue(Decode(op.decoder, StripCommandEcho(op, f), f.data[1]), FieldOf(d, op.io).type) # None
  <1>1. /\ op.io \in InputIndices(d) /\ op.cmd = FieldOf(d, op.io).cmd /\ op.decoder = FieldOf(d, op.io).decoder
    BY UppOpIs
  <1>2. ~Foreign(d, f) /\ UppTransact(Dev(d).slave, op, f) = ErrOk
    BY OutcomeIs
  <1>3. f \in UppFrames
    BY <1>2, ForeignIs
  <1>4. g \in UppFrames /\ f.from = g.from /\ f.cmd = g.cmd /\ f.echo = g.echo /\ f.bytes = g.bytes
    BY <1>3, AlikeUpp
  <1> DEFINE digits == StripCommandEcho(op, f)
             raw == f.data[1]
             dec == op.decoder
             m == op.io
  <1>5. UppTransaction(Dev(d).slave, f) = ErrOk /\ Decode(dec, digits, raw) # None
    BY <1>2 DEF UppTransact, UppBadResponse, ErrOk
  <1>6. AddressesMatch(Dev(d).slave, f.from)
    BY <1>5 DEF UppTransaction, UppTimeout, UppAddressMismatch, ErrOk
  <1>7. Decode(dec, digits, raw).t = DecodedVariant(dec) /\ DecoderDigits(dec) \in {0, digits}
    BY <1>5, DecodedTag
  <1>8. DecodedToValue(Decode(dec, digits, raw), FieldOf(d, m).type) # None
    <2> DEFINE x == Value(DecodedVariant(dec), 0)
    <2>1. DecodedToValue(x, FieldOf(d, m).type) # None
      BY <1>1 DEF Apart, Decodable
    <2>2. x.t = DecodedVariant(dec)
      BY DEF Value
    <2> HIDE DEF x, digits, raw, dec
    <2> QED
      BY <1>7, <2>1, <2>2, FitsByTag
  <1>9. PICK e \in Devices : Dev(e).proto = "upp" /\ \E n \in Indices(e) : AnswerAbout(e, n, g)
    BY <1>4 DEF Known, KnownUpp
  <1>10. e = d
    <2>1. g.from = OwnAddress(e)
      BY <1>9 DEF AnswerAbout
    <2> QED
      BY <1>4, <1>6, <1>9, <2>1 DEF Apart, SlavesApart
  <1>11. PICK n \in Indices(d) : AnswerAbout(d, n, g)
    BY <1>9, <1>10
  <1> DEFINE cmd == FieldOf(d, n).cmd
  <1>12. /\ f.cmd = cmd
         /\ \/ f.bytes = AnswerDigits(cmd) /\ f.echo = ""
            \/ n \in OutputIndices(d) /\ f.bytes = 2 + ParameterDigits(cmd) /\ f.echo \in {"", cmd}
            \/ n \in OutputIndices(d) /\ f.bytes = 2 /\ f.echo = ""
    BY <1>4, <1>11 DEF AnswerAbout
  <1>13. LET accepted == DecoderDigits(dec)
         IN /\ cmd # op.cmd => accepted \notin {0, AnswerDigits(cmd)}
            /\ n \in OutputIndices(d) => /\ accepted \notin {0, 2, 2 + ParameterDigits(cmd)}
                                         /\ Mnemonic(op.cmd) = cmd => cmd = op.cmd \/ accepted # ParameterDigits(cmd)
    BY <1>1 DEF Apart, AnswersApart
  <1>14. /\ digits = f.bytes \/ (digits = f.bytes - 2 /\ f.echo = Mnemonic(op.cmd) /\ f.echo # "")
    <2>1. CASE EchoesCommand(op) /\ f.echo = Mnemonic(op.cmd)
      <3>1. op.cmd \in LimitsQueries
        BY <2>1 DEF EchoesCommand
      <3> QED
        BY <2>1, <3>1, MnemonicIs DEF StripCommandEcho
    <2>2. CASE ~(EchoesCommand(op) /\ f.echo = Mnemonic(op.cmd))
      BY <2>2 DEF StripCommandEcho
    <2> QED
      BY <2>1, <2>2
  <1>15. ParameterDigits(cmd) \in Nat
    BY DEF ParameterDigits
  <1> HIDE DEF digits, cmd, dec
  <1>16. f.cmd = op.cmd
    <2>1. CASE f.bytes = AnswerDigits(cmd) /\ f.echo = ""
      BY <1>7, <1>12, <1>13, <1>14, <2>1
    <2>2. CASE n \in OutputIndices(d) /\ f.bytes = 2 + ParameterDigits(cmd) /\ f.echo \in {"", cmd}
      <3>1. CASE digits = f.bytes
        BY <1>7, <1>13, <2>2, <3>1
      <3>2. CASE digits = f.bytes - 2 /\ f.echo = Mnemonic(op.cmd) /\ f.echo # ""
        <4>1. digits = ParameterDigits(cmd)
          <5>1. \A p \in Nat : (2 + p) - 2 = p
            OBVIOUS
          <5> QED
            BY <1>15, <2>2, <3>2, <5>1, Zenon
        <4>2. Mnemonic(op.cmd) = cmd
          BY <2>2, <3>2, Zenon
        <4> QED
          BY <1>7, <1>12, <1>13, <2>2, <4>1, <4>2
      <3> QED
        BY <1>14, <3>1, <3>2
    <2>3. CASE n \in OutputIndices(d) /\ f.bytes = 2 /\ f.echo = ""
      <3>1. digits = 2
        BY <1>14, <2>3
      <3> QED
        BY <1>7, <1>13, <2>3, <3>1
    <2> QED
      BY <1>12, <2>1, <2>2, <2>3
  <1> QED
    BY <1>8, <1>16 DEF digits, dec

LEMMA ReadTxResult ==
  ASSUME TypeInv, ReadInv, NEW t \in Threads, TxResult(t) PROVE ReadInv'
  <1> DEFINE d == thr[t].dev
             op == Head(thr[t].ops)
             w == thr[t].snap
             x == thr'[t]
             S == OpsOf(d, w)
  <1>1. thr[t].pc = "recv" /\ thr[t].pc \in Busy /\ UNCHANGED <<world, scan, prog, link, reg, up, dev>>
    BY ResultIs DEF Busy
  <1>2. PICK k \in 1..Len(air[t]), f \in Frames :
              /\ air[t][k] \in Frames /\ Alike(f, air[t][k]) /\ (t # Bus => k = 1 /\ f = air[t][k])
              /\ air' = [air EXCEPT ![t] = RemoveAt(@, k)] /\ Result(t, f)
    BY ResultIs
  <1>3. /\ d \in Devices /\ ThreadOf(d) = t /\ world \in Worlds /\ DOMAIN thr[t] = ThreadFields
        /\ (Modbus(d) \/ Dev(d).proto = "upp") /\ (Dev(d).proto = "upp" => ~Modbus(d))
        /\ thr[t].ops \in Seq(S) /\ thr[t].ops # <<>> /\ air[t] \in Seq(Frames)
        /\ w \in Rows(d) /\ op \in S /\ Dev(d).proto # "sim"
    BY <1>1, BusyIs, RowsOf DEF ThreadRow
  <1>4. \A s \in Threads : s # t => thr'[s] = thr[s] /\ air'[s] = air[s]
    <2>1. DOMAIN air = Threads
      BY RowsOf
    <2> QED
      BY <1>1, <1>2, <1>3, <2>1, ResultTyped
  <1>5. \A e \in Devices : e # d => io'[e] = io[e] /\ seen'[e] = seen[e]
    BY <1>1, <1>2, <1>3, ResultTyped
  <1>6. air'[t] = RemoveAt(air[t], k)
    BY <1>2, RowsOf
  <1>7. Apart(d) => Reading(d, thr[t], seen[d])
    BY <1>3 DEF ReadInv
  <1>8. ~Clean(x) \/ x.pc = "dead" \/ Took(t, x, f)
    <2>1. CASE Dev(d).proto = "upp"
      <3>1. (Outcome(d, op, f) # ErrOk /\ x = AfterOp(t, Outcome(d, op, f))) \/ Took(t, x, f)
        BY <1>1, <1>2, <2>1, ResultUpp
      <3> QED
        BY <1>1, <3>1, FailedIs
    <2>2. CASE Modbus(d)
      <3>1. \/ Outcome(d, op, f) # ErrOk /\ x = AfterOp(t, Outcome(d, op, f))
            \/ x = [thr[t] EXCEPT !.pc = "dead"]
            \/ Took(t, x, f)
        BY <1>1, <1>2, <2>2, ResultModbus
      <3>2. x = [thr[t] EXCEPT !.pc = "dead"] => x.pc = "dead"
        BY <1>3 DEF ThreadFields
      <3> QED
        BY <1>1, <3>1, <3>2, FailedIs
    <2> QED
      BY <1>3, <2>1, <2>2
  <1>9. t = Bus => \A j \in 1..Len(air'[Bus]) : Known(air'[Bus][j])
    <2>1. \A j \in 1..Len(RemoveAt(air[t], k)) : \E i \in 1..Len(air[t]) : RemoveAt(air[t], k)[j] = air[t][i]
      <3>1. air[t] \in Seq(Frames) /\ k \in 1..Len(air[t])
        BY <1>3
      <3> QED
        BY <3>1, RemovedIs, Zenon
    <2> QED
      BY <1>6, <2>1 DEF ReadInv
  <1>10. t # Bus => x.pc \notin Between /\ (Took(t, x, f) /\ Clean(x) => air'[t] = <<>>)
    <2> SUFFICES ASSUME t # Bus PROVE x.pc \notin Between /\ (Took(t, x, f) /\ Clean(x) => air'[t] = <<>>)
      OBVIOUS
    <2>1. x.pc \notin Between
      <3>1. Modbus(d)
        BY <1>3, ThreadIs DEF Serial
      <3>2. \/ Outcome(d, op, f) # ErrOk /\ x = AfterOp(t, Outcome(d, op, f))
            \/ x = [thr[t] EXCEPT !.pc = "dead"]
            \/ Took(t, x, f)
        BY <1>1, <1>2, <3>1, ResultModbus
      <3>3. x = [thr[t] EXCEPT !.pc = "dead"] => x.pc = "dead"
        BY <1>3 DEF ThreadFields
      <3>4. Outcome(d, op, f) # ErrOk => AfterOp(t, Outcome(d, op, f)).pc \in {"send", "end"}
        BY <1>1, FailedIs
      <3>5. Took(t, x, f) => x.pc \in {"send", "end"}
        BY DEF Took
      <3> QED
        BY <3>2, <3>3, <3>4, <3>5 DEF Between
    <2>2. ASSUME Took(t, x, f), Clean(x) PROVE air'[t] = <<>>
      <3>1. Clean(thr[t])
        BY <2>2 DEF Took, Clean
      <3>2. Len(air[t]) <= 1
        BY <1>1, <3>1 DEF ReadInv, Stream
      <3>3. RemoveAt(air[t], k) \in Seq(Frames) /\ Len(RemoveAt(air[t], k)) = Len(air[t]) - 1
        BY <1>3, RemovedIs
      <3> QED
        BY <1>3, <1>6, <3>2, <3>3
    <2> QED
      BY <2>1, <2>2
  <1>11. t # Bus => Stream(t, x, air'[t])
    <2>1. Took(t, x, f) => x.pc \in {"send", "end"}
      BY DEF Took
    <2>2. t # Bus /\ Clean(x) /\ x.pc # "dead" => air'[t] = <<>> /\ x.pc # "recv"
      BY <1>8, <1>10, <2>1
    <2> HIDE DEF x
    <2> QED
      BY <1>10, <2>2 DEF Stream
  <1>12. x.dev = d /\ (Apart(d) => Reading(d, x, seen'[d]))
    <2>1. CASE Outcome(d, op, f) # ErrOk /\ x = AfterOp(t, Outcome(d, op, f))
      BY <1>1, <2>1, FailedIs DEF Reading
    <2>2. CASE x = [thr[t] EXCEPT !.pc = "dead"] /\ seen' = seen
      <3>1. x.dev = d /\ x.ops = thr[t].ops /\ x.readErr = thr[t].readErr /\ x.writeErr = thr[t].writeErr
        BY <1>3, <2>2 DEF ThreadFields
      <3> HIDE DEF x
      <3> QED
        BY <1>7, <2>2, <3>1 DEF Reading, Clean
    <2>3. ASSUME Took(t, x, f),
                 Apart(d) /\ Clean(thr[t]) =>
                   /\ seen'[d].got \subseteq Readable(d) /\ seen[d].got \subseteq seen'[d].got
                   /\ \A n \in Readable(d) : Asks(d, op, n) => n \in seen'[d].got
          PROVE  x.dev = d /\ (Apart(d) => Reading(d, x, seen'[d]))
      <3>1. x.dev = d /\ x.ops = Tail(thr[t].ops) /\ (Clean(x) => Clean(thr[t]))
        BY <2>3 DEF Took, Clean
      <3> HIDE DEF x
      <3> QED
        BY <1>1, <1>7, <2>3, <3>1, ReadingAfter
    <2>4. Apart(d) /\ Clean(thr[t]) => seen[d].got \subseteq Readable(d)
      BY <1>7 DEF Reading
    <2>5. CASE Dev(d).proto = "upp"
      <3> DEFINE value == DecodedToValue(Decode(op.decoder, StripCommandEcho(op, f), f.data[1]), FieldOf(d, op.io).type)
      <3>1. \/ Outcome(d, op, f) # ErrOk /\ x = AfterOp(t, Outcome(d, op, f))
            \/ /\ Outcome(d, op, f) = ErrOk /\ Took(t, x, f)
               /\ seen'[d].got = IF ~op.write /\ f.cmd = op.cmd /\ value # None
                                 THEN seen[d].got \cup {op.io} ELSE seen[d].got
        BY <1>1, <1>2, <2>5, ResultUpp
      <3>2. \A n : Asks(d, op, n) => ~op.write /\ op.io = n
        BY <2>5 DEF Asks
      <3>3. ASSUME Apart(d), Outcome(d, op, f) = ErrOk, ~op.write PROVE f.cmd = op.cmd /\ value # None
        <4>1. t = Bus
          BY <1>3, <2>5 DEF ThreadOf, Serial
        <4>2. Known(air[t][k])
          BY <1>2, <4>1 DEF ReadInv
        <4> QED
          BY <1>2, <1>3, <2>5, <3>3, <4>2, TakenUpp
      <3>4. ~op.write => op.io \in Readable(d)
        BY <1>3, <2>5, UppOpIs DEF Readable
      <3> HIDE DEF value, x, d, op
      <3>5. Outcome(d, op, f) = ErrOk /\ Took(t, x, f) /\ Apart(d) /\ Clean(thr[t]) =>
                   /\ seen'[d].got \subseteq Readable(d) /\ seen[d].got \subseteq seen'[d].got
                   /\ \A n \in Readable(d) : Asks(d, op, n) => n \in seen'[d].got
        <4> SUFFICES ASSUME Outcome(d, op, f) = ErrOk, Took(t, x, f), Apart(d), Clean(thr[t])
                     PROVE  /\ seen'[d].got \subseteq Readable(d) /\ seen[d].got \subseteq seen'[d].got
                            /\ \A n \in Readable(d) : Asks(d, op, n) => n \in seen'[d].got
          OBVIOUS
        <4>1. seen[d].got \subseteq Readable(d)
          BY <2>4
        <4>2. CASE op.write
          <5>1. seen'[d].got = seen[d].got
            BY <3>1, <4>2
          <5> QED
            BY <3>2, <4>1, <4>2, <5>1
        <4>3. CASE ~op.write
          <5>1. seen'[d].got = seen[d].got \cup {op.io}
            BY <3>1, <3>3, <4>3
          <5> QED
            BY <3>2, <3>4, <4>1, <4>3, <5>1
        <4> QED
          BY <4>2, <4>3
      <3> QED
        BY <2>1, <2>3, <3>1, <3>5
    <2>6. CASE Modbus(d)
      <3> DEFINE data == Extracted(op, f)
                 touched == {op.rest[j].io : j \in 1..Len(data)}
      <3>1. \/ Outcome(d, op, f) # ErrOk /\ x = AfterOp(t, Outcome(d, op, f))
            \/ x = [thr[t] EXCEPT !.pc = "dead"] /\ seen' = seen
            \/ /\ Outcome(d, op, f) = ErrOk /\ Took(t, x, f)
               /\ IsReadFunction(op.fc) => seen'[d].got = (seen[d].got \ touched) \cup Genuine(op, f, data)
               /\ ~IsReadFunction(op.fc) => seen' = seen
        BY <1>1, <1>2, <2>6, ResultModbus
      <3>2. Dev(d).proto # "upp" /\ (IsReadFunction(op.fc) => op \in Reads(d))
        BY <1>3, <2>6, ModbusOpIs DEF Modbus
      <3>3. ASSUME Apart(d), Clean(thr[t]), Outcome(d, op, f) = ErrOk, IsReadFunction(op.fc)
            PROVE  /\ Genuine(op, f, data) = touched /\ touched \subseteq Readable(d)
                   /\ \A n : Asks(d, op, n) => n \in touched
        <4>1. f \in ModbusFrames /\ AnswerTo(d, op, f)
          <5>1. CASE Dev(d).proto = "rtu"
            <6>1. t = Bus
              BY <1>3, <5>1 DEF ThreadOf, Serial
            <6>2. Known(air[t][k])
              BY <1>2, <6>1 DEF ReadInv
            <6> QED
              BY <1>2, <1>3, <3>2, <3>3, <5>1, <6>2, TakenRtu
          <5>2. CASE Dev(d).proto = "tcp"
            <6>1. t # Bus /\ d = t
              BY <1>3, <5>2, DeviceIs DEF ThreadOf, Serial, Bus
            <6>2. k = 1 /\ f = air[t][1] /\ air[t] # <<>>
              BY <1>2, <1>3, <6>1
            <6>3. f \in ModbusFrames /\ ~f.exc
              BY <1>3, <2>6, <3>3, AcceptedIs
            <6>4. Stream(t, thr[t], air[t])
              BY <6>1 DEF ReadInv
            <6>5. AnswerTo(t, op, air[t][1])
              BY <1>1, <3>3, <6>2, <6>3, <6>4 DEF Stream
            <6> QED
              BY <6>1, <6>2, <6>3, <6>5
          <5> QED
            BY <2>6, <5>1, <5>2 DEF Modbus
        <4> QED
          BY <1>3, <2>6, <3>2, <3>3, <4>1, AnswerStored
      <3>4. ~IsReadFunction(op.fc) => \A n : ~Asks(d, op, n)
        BY <3>2 DEF Asks
      <3> DEFINE good == Genuine(op, f, data)
      <3>5. ASSUME Apart(d), Clean(thr[t]), Outcome(d, op, f) = ErrOk, IsReadFunction(op.fc)
            PROVE  good = touched /\ touched \subseteq Readable(d) /\ \A n : Asks(d, op, n) => n \in touched
        BY <3>3, <3>5
      <3>6. \/ Outcome(d, op, f) # ErrOk /\ x = AfterOp(t, Outcome(d, op, f))
            \/ x = [thr[t] EXCEPT !.pc = "dead"] /\ seen' = seen
            \/ /\ Outcome(d, op, f) = ErrOk /\ Took(t, x, f)
               /\ IsReadFunction(op.fc) => seen'[d].got = (seen[d].got \ touched) \cup good
               /\ ~IsReadFunction(op.fc) => seen' = seen
        BY <3>1
      <3> HIDE DEF touched, data, x, d, op, good
      <3>7. ASSUME Outcome(d, op, f) = ErrOk, Apart(d), Clean(thr[t]),
                   IsReadFunction(op.fc) => seen'[d].got = (seen[d].got \ touched) \cup good,
                   ~IsReadFunction(op.fc) => seen' = seen
            PROVE  /\ seen'[d].got \subseteq Readable(d) /\ seen[d].got \subseteq seen'[d].got
                   /\ \A n \in Readable(d) : Asks(d, op, n) => n \in seen'[d].got
        <4>1. seen[d].got \subseteq Readable(d)
          BY <2>4, <3>7
        <4>2. CASE ~IsReadFunction(op.fc)
          <5>1. seen'[d].got = seen[d].got
            BY <3>7, <4>2
          <5> QED
            BY <3>4, <4>1, <4>2, <5>1
        <4>3. CASE IsReadFunction(op.fc)
          <5>1. /\ seen'[d].got = (seen[d].got \ touched) \cup good /\ good = touched /\ touched \subseteq Readable(d)
                /\ \A n : Asks(d, op, n) => n \in touched
            BY <3>5, <3>7, <4>3
          <5> QED
            BY <4>1, <5>1
        <4> QED
          BY <4>2, <4>3
      <3>8. CASE Outcome(d, op, f) # ErrOk /\ x = AfterOp(t, Outcome(d, op, f))
        BY <2>1, <3>8
      <3>9. CASE x = [thr[t] EXCEPT !.pc = "dead"] /\ seen' = seen
        BY <2>2, <3>9
      <3>10. CASE /\ Outcome(d, op, f) = ErrOk /\ Took(t, x, f)
                  /\ IsReadFunction(op.fc) => seen'[d].got = (seen[d].got \ touched) \cup good
                  /\ ~IsReadFunction(op.fc) => seen' = seen
        BY <2>3, <3>7, <3>10
      <3> QED
        BY <3>6, <3>8, <3>9, <3>10
    <2> QED
      BY <1>3, <2>5, <2>6
  <1>13. WasRead(d, x, io'[d], seen'[d])
    BY <1>12 DEF WasRead
  <1> HIDE DEF d
  <1>14. thr[t].dev = d
    BY DEF d
  <1> QED
    BY <1>1, <1>3, <1>4, <1>5, <1>9, <1>11, <1>12, <1>13, <1>14, ReadThread

LEMMA ReadStep ==
  ASSUME TypeInv, ReadInv, [Next]_vars PROVE ReadInv'
  <1>1. CASE ScanNext \/ SetInput
    BY <1>1, ReadScan
  <1>2. CASE ExecRegister \/ BusStep
    BY <1>2, ReadIdle
  <1>3. CASE \E d \in Devices : PollStart(d)
    BY <1>3, ReadPollStart
  <1>4. CASE \E t \in Threads : ThreadStep(t)
    <2>1. PICK t \in Threads : ThreadStep(t)
      BY <1>4
    <2> QED
      BY <2>1, ReadTcpConnect, ReadTxSend, ReadTxRefused, ReadTxResult, ReadTxTimeout, ReadTxNotConnected,
         ReadReconnect, ReadPollEnd DEF ThreadStep
  <1>5. CASE UNCHANGED vars
    <2>1. UNCHANGED <<world, scan, prog, link, reg, io, thr, air, up, dev, faults, seen>>
      BY <1>5 DEF vars
    <2> QED
      BY <2>1, ReadMoves DEF ReadInv
  <1> QED
    BY <1>1, <1>2, <1>3, <1>4, <1>5 DEF Next

\* For every plant, whatever the line and the devices do: a device that is
\* reported as connected had every input read by its last poll, and each from
\* an answer about that very register or command, also where answers are lost,
\* damaged or late, the stream is reopened or the threads of other devices go
\* on meanwhile (bus.rs, modbus_tcp.rs: what a poll stores and when it reports
\* success).  On a serial line, as long as answers can be told apart by what
\* the frame parsers compare; over TCP without any condition.
THEOREM ConnectedIsRead == Spec => []ConnectedMeansRead
  <1> DEFINE Inv == TypeInv /\ ReadInv
  <1>1. Init => Inv
    BY TypeInit, ReadInit
  <1>2. Inv /\ [Next]_vars => Inv'
    BY TypeNext, ReadStep
  <1>3. Inv => ConnectedMeansRead
    <2> SUFFICES ASSUME Inv, NEW d \in Devices, Dev(d).proto # "sim", io[d].conn, ~Polling(d),
                        SlavesApart(d), AnswersApart(d), Decodable(d)
                 PROVE  seen[d].got = Readable(d)
      BY DEF ConnectedMeansRead
    <2>1. WasRead(d, thr[ThreadOf(d)], io[d], seen[d])
      BY DEF ReadInv, Apart
    <2> QED
      BY <2>1 DEF WasRead, Polling
  <1> QED
    BY <1>1, <1>2, <1>3, PTL DEF Spec

-----------------------------------------------------------------------------
(* What is written is read back *)

\* Writes come before reads; a request is still to be made.
Ordered(ops) == \A i, j \in 1..Len(ops) : i < j /\ ops[j].write => ops[i].write
Awaits(ops, op) == \E k \in 1..Len(ops) : ops[k] = op

\* The device with contents v was given value for field n.
Applied(d, n, value, v) ==
  /\ EncodeRequest(FieldOf(d, n).cmd, value)
  /\ v[FieldOf(d, n).cmd] = BuildWriteCommand(FieldOf(d, n).cmd, value).v
\* Frame f answers request op of a device with contents v.
Answered(op, f, v) ==
  IF op.write THEN op.sendable /\ (v[op.cmd] = op.vals[1] \/ f.no)
  ELSE f.data[1] = v[op.cmd] /\ f.bytes = AnswerDigits(op.cmd) /\ f.echo = ""

\* As long as there are writes to make, field n is still to be read.
Unread(d, ops, n) == ops # <<>> /\ Head(ops).write => Awaits(ops, UppRead(d, n))
\* What was read of field n is what the device with contents v holds.
Found(d, news, v, n) == news[n] = Held(d, n, v) /\ news[n] # None
\* Field n, found written at the start of the poll: an error or a late answer
\* spoils the poll, or the write and then the read are still to be made, or
\* they have had their effect, or the device refused the write.  A broadcast is
\* never answered, so its poll ends in an error.
OnItsWay(d, th, v, n) ==
  \/ ~Clean(th)
  \/ ~th.own
  \/ /\ ExpectsResponse(Dev(d).slave)
     /\ Unread(d, th.ops, n)
     /\ Awaits(th.ops, UppWrite(d, n, th.snap[n])) \/ Applied(d, n, th.snap[n], v) \/ n \in th.denied
     /\ Awaits(th.ops, UppRead(d, n)) \/ Found(d, th.news, v, n)
  \/ ~ExpectsResponse(Dev(d).slave) /\ Awaits(th.ops, UppRead(d, n))
\* UPP device d with contents v while thread th polls it with answers a.
Returning(d, th, a, v) ==
  th.dev = d =>
    /\ Ordered(th.ops)
    /\ th.pc = "recv" =>
         /\ ExpectsResponse(Dev(d).slave)
         /\ \A k \in 1..Len(a) : a[k] \in UppFrames /\ a[k].late = 0 => Answered(Head(th.ops), a[k], v)
    /\ \A n \in Settable(d) : th.snap[n] # None => OnItsWay(d, th, v, n)

BackInv == \A d \in Devices : Dev(d).proto = "upp" => Returning(d, thr[Bus], air[Bus], dev[d])

LEMMA BackKept ==
  ASSUME world' = world
  PROVE  \A d, th, a, v : Returning(d, th, a, v)' <=> Returning(d, th, a, v)
  <1>1. \A d : Settable(d)' = Settable(d)
    BY WorldKept DEF Settable
  <1>2. \A d, n, x, v : Applied(d, n, x, v)' <=> Applied(d, n, x, v)
    BY WorldKept DEF Applied
  <1>3. \A d, n, x : UppWrite(d, n, x)' = UppWrite(d, n, x) /\ UppRead(d, n)' = UppRead(d, n)
    BY WorldKept DEF UppWrite, UppRead
  <1>4. \A d, news, v, n : Found(d, news, v, n)' <=> Found(d, news, v, n)
    BY WorldKept DEF Found, Held
  <1>5. \A d, ops, n : Unread(d, ops, n)' <=> Unread(d, ops, n)
    BY <1>3 DEF Unread
  <1>6. \A d, th, v, n : OnItsWay(d, th, v, n)' <=> OnItsWay(d, th, v, n)
    BY <1>2, <1>3, <1>4, <1>5, WorldKept DEF OnItsWay
  <1> QED
    BY <1>1, <1>6, WorldKept DEF Returning

LEMMA BackMoves ==
  ASSUME world' = world, \A d \in Devices : Dev(d).proto = "upp" => Returning(d, thr'[Bus], air'[Bus], dev'[d])
  PROVE  BackInv'
  BY WorldKept, BackKept DEF BackInv, Bus

\* A step that leaves the bus thread, its line and the UPP devices alone.
LEMMA BackElsewhere ==
  ASSUME BackInv, world' = world, thr'[Bus] = thr[Bus], air'[Bus] = air[Bus],
         \A d \in Devices : Dev(d).proto = "upp" => dev'[d] = dev[d]
  PROVE  BackInv'
  BY BackMoves DEF BackInv

\* A step of the bus thread, which then polls device d if any.
LEMMA BackThread ==
  ASSUME TypeInv, world' = world, NEW d, thr'[Bus].dev \in {d, "none"},
         d \in Devices /\ Dev(d).proto = "upp" => Returning(d, thr'[Bus], air'[Bus], dev'[d])
  PROVE  BackInv'
  <1>1. "none" \notin Devices
    BY RowsOf, DeviceIs
  <1>2. ASSUME NEW e \in Devices, Dev(e).proto = "upp" PROVE Returning(e, thr'[Bus], air'[Bus], dev'[e])
    <2>1. CASE e = d
      BY <1>2, <2>1
    <2>2. CASE e # d
      <3>1. thr'[Bus].dev # e
        BY <1>1, <2>2
      <3> QED
        BY <3>1 DEF Returning
    <2> QED
      BY <2>1, <2>2
  <1> QED
    BY <1>2, BackMoves

LEMMA BackInit ==
  ASSUME Init PROVE BackInv
  <1>1. world \in Worlds
    BY DEF Init
  <1>2. "none" \notin Devices /\ Bus \in Threads
    BY <1>1, DeviceIs, ThreadIs
  <1>3. thr[Bus] = NoThread
    BY <1>2 DEF Init
  <1>4. thr[Bus].dev = "none"
    BY <1>3 DEF NoThread
  <1> QED
    BY <1>2, <1>4 DEF BackInv, Returning

\* The conversions are inverse to each other up to the rounding of a REAL: what
\* the device keeps for a value that was sent decodes to that value.
LEMMA RoundTrip ==
  ASSUME NEW f, Suited(f), NEW value \in Values, value.t = VarType(f.type), EncodeRequest(f.cmd, value),
         NEW raw, raw = BuildWriteCommand(f.cmd, value).v
  PROVE  CameBack(DecodedToValue(Decode(f.decoder, AnswerDigits(f.cmd), raw), f.type), value)
  <1> DEFINE param == BuildWriteCommand(f.cmd, value)
  <1>1. value = Value(value.t, value.v) /\ value.v \in Int
    BY DEF Values, Value
  <1>2. param # None /\ param.v \in ParameterRange(f.cmd)
    BY DEF EncodeRequest
  <1>3. CASE f.cmd \in {"em", "et", "ev"} /\ f.decoder = "u16_dec_milli" /\ f.type \in RealTypes
    <2>1. value.t = "Real"
      BY <1>3 DEF VarType, RealTypes, UnsignedTypes
    <2>2. param = RealToMilli(value)
      BY <1>3 DEF BuildWriteCommand
    <2>3. param = Value("Param", (value.v + 5) \div 10)
      BY <1>2, <2>1, <2>2 DEF RealToMilli
    <2>4. raw = (value.v + 5) \div 10
      BY <2>3 DEF Value
    <2>5. AnswerDigits(f.cmd) = 4
      BY <1>3 DEF AnswerDigits
    <2>6. Decode(f.decoder, 4, raw) = Value("Per1000", raw)
      BY <1>3 DEF Decode, DecoderDigits, DecodedVariant
    <2>7. DecodedToValue(Value("Per1000", raw), f.type) = Value("Real", raw * 10)
      BY <1>3 DEF DecodedToValue, Value
    <2>8. \A x, y : Value(x, y).t = x /\ Value(x, y).v = y
      BY DEF Value
    <2>9. (raw * 10) % 10 = 0 /\ raw * 10 - value.v \in -5..5
      BY <1>1, <2>4
    <2>10. Abs(raw * 10 - value.v) <= 5
      BY <1>1, <2>4, <2>9 DEF Abs
    <2> QED
      BY <2>1, <2>5, <2>6, <2>7, <2>8, <2>9, <2>10 DEF CameBack
  <1>4. ASSUME f.cmd \in {"ez", "lz", "fh", "ka", "la"} PROVE raw = value.v /\ AnswerDigits(f.cmd) = 1
    <2>1. param = BoolAsU8(value) \/ param = IntAsU8(value)
      BY <1>4 DEF BuildWriteCommand
    <2>2. param = Value("Param", value.v)
      BY <1>2, <2>1 DEF BoolAsU8, IntAsU8
    <2>3. raw = value.v
      BY <2>2 DEF Value
    <2>4. AnswerDigits(f.cmd) = 1
      BY <1>4 DEF AnswerDigits
    <2> QED
      BY <2>3, <2>4
  <1>5. CASE f.cmd \in {"fh", "la"} /\ f.decoder = "bool_digit" /\ f.type = "BOOL"
    <2>1. value.t = "Bool"
      BY <1>5 DEF VarType, UnsignedTypes, RealTypes
    <2>2. raw = value.v /\ AnswerDigits(f.cmd) = 1
      BY <1>4, <1>5
    <2>3. raw \in {0, 1}
      <3>1. ParameterRange(f.cmd) = 0..1
        BY <1>5 DEF ParameterRange
      <3> QED
        BY <1>2, <3>1
    <2>4. Decode(f.decoder, 1, raw) = Value("Bool", raw)
      BY <1>5, <2>3 DEF Decode, DecoderDigits, DecodedVariant
    <2>5. DecodedToValue(Value("Bool", raw), f.type) = Value("Bool", raw)
      BY <1>5 DEF DecodedToValue, Value, RealTypes, SignedTypes, UnsignedTypes
    <2> QED
      BY <1>1, <2>1, <2>2, <2>4, <2>5 DEF CameBack
  <1>6. CASE /\ f.cmd \in {"ez", "lz", "fh", "ka", "la"} /\ DecodedVariant(f.decoder) = "Enum" /\ f.decoder \in Decoders
             /\ f.type \in SignedTypes \cup {"USINT", "UINT", "UDINT", "ULINT"}
    <2>1. raw = value.v /\ AnswerDigits(f.cmd) = 1
      BY <1>4, <1>6
    <2>2. f.decoder \in {"enum_1", "enum_response_time", "enum_op_mode", "enum_1_wide", "enum_clear_peak"}
      BY <1>6 DEF Decoders, DecodedVariant
    <2>3. DecoderDigits(f.decoder) = 1
      BY <2>2 DEF DecoderDigits
    <2>4. Decode(f.decoder, 1, raw) = Value("Enum", raw)
      BY <1>6, <2>2, <2>3 DEF Decode
    <2>5. CASE f.type \in SignedTypes
      <3>1. value.t = "Int"
        BY <2>5 DEF VarType, SignedTypes, UnsignedTypes, RealTypes
      <3>2. DecodedToValue(Value("Enum", raw), f.type) = Value("Int", raw)
        BY <2>5 DEF DecodedToValue, Value, SignedTypes
      <3> QED
        BY <1>1, <2>1, <2>4, <3>1, <3>2 DEF CameBack
    <2>6. CASE f.type \in {"USINT", "UINT", "UDINT", "ULINT"}
      <3>1. value.t = "UInt"
        BY <2>6 DEF VarType, UnsignedTypes, RealTypes
      <3>2. DecodedToValue(Value("Enum", raw), f.type) = Value("UInt", raw)
        BY <2>6 DEF DecodedToValue, Value, SignedTypes
      <3> QED
        BY <1>1, <2>1, <2>4, <3>1, <3>2 DEF CameBack
    <2> QED
      BY <1>6, <2>5, <2>6
  <1> QED
    BY <1>3, <1>5, <1>6 DEF Suited

\* What a suitable decoder accepts fits the type of the field.
LEMMA SuitedFits ==
  ASSUME NEW f, Suited(f), NEW digits, NEW raw, Decode(f.decoder, digits, raw) # None
  PROVE  DecodedToValue(Decode(f.decoder, digits, raw), f.type) # None
  <1> DEFINE y == Decode(f.decoder, digits, raw)
  <1>1. y.t = DecodedVariant(f.decoder)
    BY DecodedTag
  <1>2. \A tag, v : tag \in {"Real", "Bool", "Int", "UInt"} => Value(tag, v) # None
    BY DEF Value, None
  <1> HIDE DEF y
  <1>3. CASE f.decoder = "u16_dec_milli" /\ f.type \in RealTypes
    <2>1. y.t = "Per1000"
      BY <1>1, <1>3 DEF DecodedVariant
    <2>2. DecodedToValue(y, f.type) = Value("Real", y.v * 10)
      BY <1>3, <2>1 DEF DecodedToValue
    <2> QED
      BY <1>2, <2>2 DEF y
  <1>4. CASE f.decoder = "bool_digit" /\ f.type = "BOOL"
    <2>1. y.t = "Bool"
      BY <1>1, <1>4 DEF DecodedVariant
    <2>2. DecodedToValue(y, f.type) = Value("Bool", y.v)
      BY <1>4, <2>1 DEF DecodedToValue, RealTypes, SignedTypes, UnsignedTypes
    <2> QED
      BY <1>2, <2>2 DEF y
  <1>5. CASE DecodedVariant(f.decoder) = "Enum" /\ f.type \in SignedTypes \cup {"USINT", "UINT", "UDINT", "ULINT"}
    <2>1. DecodedToValue(y, f.type) = Value("Int", y.v) \/ DecodedToValue(y, f.type) = Value("UInt", y.v)
      BY <1>1, <1>5 DEF DecodedToValue
    <2> QED
      BY <1>2, <2>1 DEF y
  <1> QED
    BY <1>3, <1>4, <1>5 DEF Suited

\* A UPP poll writes before it reads.
LEMMA RequestsOrdered ==
  ASSUME world \in Worlds, NEW d \in Devices, Dev(d).proto = "upp", io[d].write \in Rows(d)
  PROVE  Ordered(Requests(d))
  <1> DEFINE w == io[d].write
             p == InOrder({n \in OutputIndices(d) : w[n] # None})
             q == InOrder(InputIndices(d))
             m == Len(p)
             r == Len(q)
             a == [k \in 1..m |-> UppWrite(d, p[k], w[p[k]])]
             b == [k \in 1..r |-> UppRead(d, q[k])]
  <1>1. Requests(d) = a \o b
    BY DEF Requests, UppRequests
  <1>2. m \in Nat /\ r \in Nat
    <2>1. Indices(d) \subseteq Int /\ IsFiniteSet(Indices(d))
      <3>1. TotalValues(Fields(d)) \in Nat
        BY DeviceIs
      <3>2. IsFiniteSet(1..TotalValues(Fields(d)))
        BY <3>1, FS_Interval
      <3> QED
        BY <3>1, <3>2 DEF Indices
    <2>2. ASSUME NEW S \in SUBSET Indices(d) PROVE Len(InOrder(S)) \in Nat
      <3>1. IsFiniteSet(S) /\ S \subseteq Int
        BY <2>1, FS_Subset
      <3> QED
        BY <3>1, InOrderIs
    <2>3. {n \in OutputIndices(d) : w[n] # None} \subseteq Indices(d) /\ InputIndices(d) \subseteq Indices(d)
      BY DEF InputIndices, OutputIndices
    <2> QED
      BY <2>2, <2>3
  <1>3. \A k \in 1..m : a[k].write = TRUE
    BY DEF UppWrite
  <1>4. \A k \in 1..r : b[k].write = FALSE
    BY DEF UppRead
  <1>5. a = [k \in 1..m |-> a[k]] /\ b = [k \in 1..r |-> b[k]]
    BY Zenon
  <1> DEFINE S == {a[k] : k \in 1..m} \cup {b[k] : k \in 1..r}
  <1> HIDE DEF a, b, m, r
  <1>6. a \in Seq(S) /\ b \in Seq(S) /\ Len(a) = m /\ Len(b) = r
    <2>1. \A k \in 1..m : a[k] \in S
      OBVIOUS
    <2>2. \A k \in 1..r : b[k] \in S
      OBVIOUS
    <2> HIDE DEF S
    <2>3. a \in [1..m -> S] /\ b \in [1..r -> S]
      BY <1>5, <2>1, <2>2
    <2> QED
      BY <1>2, <2>3
  <1> HIDE DEF S
  <1>7. /\ Len(a \o b) = m + r
        /\ \A k \in 1..(m + r) : (a \o b)[k] = IF k <= m THEN a[k] ELSE b[k - m]
    BY <1>2, <1>6
  <1>8. ASSUME NEW i \in 1..(m + r), NEW j \in 1..(m + r), i < j, (a \o b)[j].write PROVE (a \o b)[i].write
    <2>1. j <= m
      <3> SUFFICES ASSUME ~(j <= m) PROVE FALSE
        OBVIOUS
      <3>1. j - m \in 1..r
        BY <1>2
      <3>2. (a \o b)[j] = b[j - m]
        BY <1>7
      <3> QED
        BY <1>4, <1>8, <3>1, <3>2
    <2>2. i \in 1..m
      BY <1>2, <1>8, <2>1
    <2>3. (a \o b)[i] = a[i]
      BY <1>7, <2>2
    <2> QED
      BY <1>3, <2>2, <2>3
  <1> QED
    BY <1>1, <1>7, <1>8 DEF Ordered

LEMMA OrderedTail ==
  ASSUME NEW S, NEW ops \in Seq(S), ops # <<>>, Ordered(ops)
  PROVE  /\ Ordered(Tail(ops))
         /\ \A op : Awaits(ops, op) /\ op # Head(ops) => Awaits(Tail(ops), op)
         /\ ~Head(ops).write => \A k \in 1..Len(ops) : ~ops[k].write
  <1>1. Len(ops) \in Nat /\ Len(ops) >= 1 /\ Len(Tail(ops)) = Len(ops) - 1 /\ Head(ops) = ops[1]
    OBVIOUS
  <1>2. \A k \in 1..(Len(ops) - 1) : Tail(ops)[k] = ops[k + 1]
    OBVIOUS
  <1>3. Ordered(Tail(ops))
    <2> SUFFICES ASSUME NEW i \in 1..Len(Tail(ops)), NEW j \in 1..Len(Tail(ops)), i < j, Tail(ops)[j].write
                 PROVE  Tail(ops)[i].write
      BY DEF Ordered
    <2>1. i + 1 \in 1..Len(ops) /\ j + 1 \in 1..Len(ops) /\ i + 1 < j + 1
      BY <1>1
    <2>2. Tail(ops)[i] = ops[i + 1] /\ Tail(ops)[j] = ops[j + 1]
      BY <1>1, <1>2
    <2>3. ops[j + 1].write => ops[i + 1].write
      BY <2>1 DEF Ordered
    <2> QED
      BY <2>2, <2>3
  <1>4. ASSUME NEW op, Awaits(ops, op), op # Head(ops) PROVE Awaits(Tail(ops), op)
    <2>1. PICK k \in 1..Len(ops) : ops[k] = op
      BY <1>4 DEF Awaits
    <2>2. k # 1
      BY <1>1, <1>4, <2>1
    <2>3. k - 1 \in 1..Len(Tail(ops)) /\ k - 1 \in 1..(Len(ops) - 1) /\ (k - 1) + 1 = k
      BY <1>1, <2>2
    <2>4. Tail(ops)[k - 1] = op
      BY <1>2, <2>1, <2>3
    <2> QED
      BY <2>3, <2>4 DEF Awaits
  <1>5. ASSUME ~Head(ops).write, NEW k \in 1..Len(ops) PROVE ~ops[k].write
    <2>1. CASE k = 1
      BY <1>1, <1>5, <2>1
    <2>2. CASE k # 1
      <3>1. 1 \in 1..Len(ops) /\ 1 < k
        BY <1>1, <2>2
      <3> QED
        BY <1>1, <1>5, <3>1 DEF Ordered
    <2> QED
      BY <2>1, <2>2
  <1> QED
    BY <1>3, <1>4, <1>5

LEMMA ReadIs ==
  ASSUME NEW d, NEW n
  PROVE  LET op == UppRead(d, n)
         IN op.write = FALSE /\ op.io = n /\ op.cmd = FieldOf(d, n).cmd /\ op.decoder = FieldOf(d, n).decoder
  BY DEF UppRead

LEMMA UnreadTail ==
  ASSUME NEW S, NEW ops \in Seq(S), ops # <<>>, Ordered(ops), NEW d, NEW n, Unread(d, ops, n)
  PROVE  Unread(d, Tail(ops), n)
  <1> SUFFICES ASSUME Tail(ops) # <<>>, Head(Tail(ops)).write PROVE Awaits(Tail(ops), UppRead(d, n))
    BY DEF Unread
  <1>1. 1 \in 1..Len(ops) /\ 2 \in 1..Len(ops) /\ Head(Tail(ops)) = ops[2] /\ Head(ops) = ops[1]
    OBVIOUS
  <1>2. Head(ops).write
    BY <1>1 DEF Ordered
  <1>3. Awaits(ops, UppRead(d, n))
    BY <1>2 DEF Unread
  <1>4. UppRead(d, n) # Head(ops)
    <2>1. ~UppRead(d, n).write
      BY ReadIs
    <2> QED
      BY <1>2, <2>1, Zenon
  <1> QED
    BY <1>3, <1>4, OrderedTail

LEMMA BackPollStart ==
  ASSUME TypeInv, BackInv, NEW d \in Devices, PollStart(d) PROVE BackInv'
  <1> DEFINE t == ThreadOf(d)
             x == thr'[t]
             w == io[d].write
  <1>1. t \in Threads /\ Dev(d).proto # "sim" /\ world \in Worlds /\ UNCHANGED <<world, air, dev>>
    BY PollStartIs, RowsOf
  <1>2. \A s \in Threads : s # t => thr'[s] = thr[s]
    BY PollStartIs
  <1>3. x.dev = d /\ x.ops = Requests(d) /\ x.snap = w /\ x.pc = Step(Requests(d))
    BY PollStartIs
  <1>4. CASE t # Bus
    <2>1. thr'[Bus] = thr[Bus]
      BY <1>2, <1>4, RowsOf
    <2> QED
      BY <1>1, <2>1, BackElsewhere
  <1>5. CASE t = Bus
    <2>1. ASSUME Dev(d).proto = "upp" PROVE Returning(d, x, air'[Bus], dev'[d])
      <3>1. w \in Rows(d)
        BY RowsOf DEF SharedRow, Pending
      <3>2. Ordered(Requests(d))
        BY <1>1, <2>1, <3>1, RequestsOrdered
      <3>3. Step(Requests(d)) # "recv"
        BY DEF Step
      <3>4. \A op \in OpsOf(d, w) : Awaits(Requests(d), op)
        BY <1>1, <3>1, RequestsAre DEF Lists, Awaits
      <3>5. ASSUME NEW n \in Settable(d), w[n] # None
            PROVE  UppWrite(d, n, w[n]) \in OpsOf(d, w) /\ UppRead(d, n) \in OpsOf(d, w)
        <4>1. n \in InputIndices(d) /\ n \in OutputIndices(d)
          BY DEF Settable
        <4> QED
          BY <2>1, <3>5, <4>1 DEF OpsOf, UppReads, UppWrites
      <3> HIDE DEF x, w
      <3>6. ASSUME NEW n \in Settable(d), x.snap[n] # None PROVE OnItsWay(d, x, dev'[d], n)
        <4>1. Awaits(x.ops, UppWrite(d, n, x.snap[n])) /\ Awaits(x.ops, UppRead(d, n))
          BY <1>3, <3>4, <3>5, <3>6
        <4> QED
          BY <4>1 DEF OnItsWay, Unread
      <3> QED
        BY <1>3, <3>2, <3>3, <3>6 DEF Returning
    <2> QED
      BY <1>1, <1>3, <1>5, <2>1, BackThread
  <1> QED
    BY <1>4, <1>5

\* The scan thread leaves the bus thread, its line and the UPP devices alone.
LEMMA BackScan ==
  ASSUME TypeInv, BackInv, ScanNext \/ SetInput PROVE BackInv'
  <1>1. UNCHANGED <<world, thr, air>>
    BY DEF ScanNext, ScanStart, ExecRejected, ExecQueue, ExecCopy, ExecSimulated, SetInput
  <1>2. DOMAIN dev = Devices /\ Current \in Devices
    BY CurrentIs, RowsOf
  <1>3. \A d \in Devices : Dev(d).proto = "upp" => dev'[d] = dev[d]
    <2>1. CASE ScanStart \/ ExecRejected \/ ExecQueue \/ ExecCopy
      BY <2>1 DEF ScanStart, ExecRejected, ExecQueue, ExecCopy
    <2>2. CASE ExecSimulated
      <3>1. \A d \in Devices : d # Current => dev'[d] = dev[d]
        BY <1>2, <2>2 DEF ExecSimulated
      <3>2. Dev(Current).proto = "sim"
        BY <2>2 DEF ExecSimulated
      <3> QED
        BY <3>1, <3>2
    <2>3. CASE SetInput
      <3>1. PICK e \in Devices, x \in {0, 1} :
              /\ Dev(e).proto = "sim"
              /\ \E n \in InputIndices(e) : dev' = [dev EXCEPT ![e][CellOf(e, n)] = x]
        BY <2>3 DEF SetInput
      <3>2. \A d \in Devices : d # e => dev'[d] = dev[d]
        BY <1>2, <3>1
      <3> QED
        BY <3>1, <3>2
    <2> QED
      BY <2>1, <2>2, <2>3 DEF ScanNext
  <1> QED
    BY <1>1, <1>3, BackElsewhere

LEMMA BackIdle ==
  ASSUME TypeInv, BackInv, ExecRegister \/ BusStep PROVE BackInv'
  <1>1. UNCHANGED <<world, prog, io, air, up, dev, seen>>
    BY IdleSteps
  <1>2. PICK t \in Threads : /\ \A s \in Threads : s # t => thr'[s] = thr[s]
                             /\ \/ thr'[t] = thr[t]
                                \/ thr[t].dev = "none" /\ thr'[t].dev = "none"
    BY IdleSteps
  <1>3. Bus \in Threads /\ "none" \notin Devices
    BY RowsOf, DeviceIs
  <1>4. CASE thr'[Bus] = thr[Bus]
    BY <1>1, <1>4, BackElsewhere
  <1>5. CASE thr'[Bus] # thr[Bus]
    <2>1. thr'[Bus].dev = "none"
      BY <1>2, <1>3, <1>5
    <2> QED
      BY <1>1, <1>3, <2>1, BackThread
  <1> QED
    BY <1>4, <1>5

\* The threads of the TCP devices leave the bus thread, its line and the UPP
\* devices alone.
LEMMA OtherThread ==
  ASSUME TypeInv, NEW t \in Threads, t # Bus, ThreadStep(t)
  PROVE  /\ world' = world /\ thr'[Bus] = thr[Bus] /\ air'[Bus] = air[Bus]
         /\ \A d \in Devices : Dev(d).proto = "upp" => dev'[d] = dev[d]
  <1>1. DOMAIN thr = Threads /\ DOMAIN air = Threads /\ DOMAIN dev = Devices /\ Bus \in Threads
    BY RowsOf
  <1>2. CASE TcpConnect(t)
    BY <1>2 DEF TcpConnect
  <1>3. CASE TxSend(t)
    <2>1. world' = world /\ thr'[Bus] = thr[Bus] /\ air'[Bus] = air[Bus] /\ thr[t].pc \in Busy
      BY <1>1, <1>3, SendIs DEF Busy
    <2>2. Dev(thr[t].dev).proto # "upp"
      BY <2>1, BusyIs
    <2>3. \A d \in Devices : d # thr[t].dev => dev'[d] = dev[d]
      BY <1>3, SendIs
    <2> QED
      BY <2>1, <2>2, <2>3
  <1>4. CASE TxRefused(t)
    BY <1>1, <1>4 DEF TxRefused
  <1>5. CASE TxResult(t)
    <2>1. UNCHANGED <<world, scan, prog, link, reg, up, dev>> /\ thr[t].pc = "recv"
      BY <1>5, ResultIs
    <2>2. PICK k \in 1..Len(air[t]), f \in Frames : air' = [air EXCEPT ![t] = RemoveAt(@, k)] /\ Result(t, f)
      BY <1>5, ResultIs
    <2>3. air'[Bus] = air[Bus]
      BY <1>1, <2>2
    <2>4. thr'[Bus] = thr[Bus]
      BY <1>1, <2>2 DEF Result, Accept, StoreRead
    <2> QED
      BY <2>1, <2>3, <2>4
  <1>6. CASE TxTimeout(t)
    BY <1>1, <1>6 DEF TxTimeout
  <1>7. CASE TxNotConnected(t)
    BY <1>1, <1>7 DEF TxNotConnected
  <1>8. CASE Reconnect(t)
    BY <1>1, <1>8, ReconnectIs
  <1>9. CASE PollEnd(t)
    <2>1. UNCHANGED <<world, scan, prog, link, reg, dev, faults>>
      BY <1>9, PollEndIs
    <2>2. \A s \in Threads : s # t => thr'[s] = thr[s] /\ air'[s] = air[s] /\ up'[s] = up[s]
      BY <1>9, PollEndIs
    <2> QED
      BY <1>1, <2>1, <2>2
  <1> QED
    BY <1>2, <1>3, <1>4, <1>5, <1>6, <1>7, <1>8, <1>9 DEF ThreadStep

\* The bus thread neither connects nor repeats a request.
LEMMA BusRetries ==
  ASSUME TypeInv, BackInv, ThreadStep(Bus)
  PROVE  \/ TxSend(Bus) \/ TxRefused(Bus) \/ TxResult(Bus) \/ TxTimeout(Bus) \/ Reconnect(Bus) \/ PollEnd(Bus)
  BY DEF ThreadStep, TcpConnect, TxNotConnected

\* The requests of a UPP poll by what they are about.
LEMMA UppOpOf ==
  ASSUME world \in Worlds, NEW d \in Devices, Dev(d).proto = "upp", NEW w \in Rows(d), NEW op \in OpsOf(d, w)
  PROVE  /\ ~op.write => op = UppRead(d, op.io) /\ op.io \in InputIndices(d)
         /\ op.write => op = UppWrite(d, op.io, w[op.io]) /\ op.io \in OutputIndices(d) /\ w[op.io] # None
  <1>1. op \in UppReads(d) \/ op \in UppWrites(d, w)
    BY DEF OpsOf
  <1>2. CASE op \in UppReads(d)
    <2>1. PICK n \in InputIndices(d) : op = UppRead(d, n)
      BY <1>2 DEF UppReads
    <2>2. op.io = n /\ op.write = FALSE
      BY <2>1 DEF UppRead
    <2> QED
      BY <2>1, <2>2
  <1>3. CASE op \in UppWrites(d, w)
    <2>1. PICK n \in OutputIndices(d) : w[n] # None /\ op = UppWrite(d, n, w[n])
      BY <1>3 DEF UppWrites
    <2>2. op.io = n /\ op.write = TRUE
      BY <2>1 DEF UppWrite
    <2> QED
      BY <2>1, <2>2
  <1> QED
    BY <1>1, <1>2, <1>3

\* What a request does to a UPP device: a value that was given stays, because
\* no other output has its command.
LEMMA ExecutedUpp ==
  ASSUME world \in Worlds, NEW d \in Devices, Dev(d).proto = "upp", NEW w \in Rows(d), NEW op \in OpsOf(d, w),
         dev[d] \in [Cells(d) -> Content(d)], op.sendable
  PROVE  /\ ~op.write => Executed(d, op) = dev[d]
         /\ op.write => Executed(d, op)[op.cmd] = op.vals[1]
         /\ \A n \in Settable(d) : Applied(d, n, w[n], dev[d]) => Applied(d, n, w[n], Executed(d, op))
  <1>1. IsWrite(d, op) = op.write
    BY DEF IsWrite
  <1>2. ~op.write => Executed(d, op) = dev[d]
    BY <1>1 DEF Executed
  <1>3. op.write => Executed(d, op) = [dev[d] EXCEPT ![op.cmd] = op.vals[1]]
    BY <1>1 DEF Executed
  <1>4. op.cmd \in Cells(d)
    BY UppOpIs
  <1>5. op.write => Executed(d, op)[op.cmd] = op.vals[1]
    BY <1>3, <1>4
  <1>6. ASSUME NEW n \in Settable(d), Applied(d, n, w[n], dev[d]) PROVE Applied(d, n, w[n], Executed(d, op))
    <2>1. CASE ~op.write
      BY <1>2, <1>6, <2>1
    <2>2. CASE op.write
      <3> DEFINE c == FieldOf(d, n).cmd
      <3>1. CASE c # op.cmd
        <4>1. Executed(d, op)[c] = dev[d][c]
          <5>1. n \in Indices(d)
            BY DEF Settable, InputIndices
          <5>2. c \in Cells(d)
            <6>1. c = CellOf(d, n)
              BY DEF CellOf
            <6> QED
              BY <5>1, <6>1 DEF Cells
          <5> QED
            BY <1>3, <2>2, <3>1, <5>2
        <4> QED
          BY <1>6, <4>1 DEF Applied
      <3>2. CASE c = op.cmd
        <4>1. op = UppWrite(d, op.io, w[op.io]) /\ op.io \in OutputIndices(d)
          BY <2>2, UppOpOf
        <4>2. FieldOf(d, op.io).cmd = c
          BY <3>2, UppOpIs
        <4>3. op.io = n
          BY <4>1, <4>2 DEF Settable
        <4>4. op.vals[1] = BuildWriteCommand(c, w[n]).v
          <5>1. UppWrite(d, n, w[n]).vals[1] = BuildWriteCommand(c, w[n]).v
            BY DEF UppWrite
          <5> QED
            BY <4>1, <4>3, <5>1
        <4> QED
          BY <1>5, <1>6, <2>2, <3>2, <4>4 DEF Applied
      <3> QED
        BY <3>1, <3>2
    <2> QED
      BY <2>1, <2>2
  <1> QED
    BY <1>2, <1>5, <1>6

\* A request that failed.
LEMMA BackFailed ==
  ASSUME TypeInv, BackInv, thr[Bus].pc \in Busy, world' = world, NEW err, err # ErrOk, thr'[Bus] = AfterOp(Bus, err)
  PROVE  BackInv'
  <1> DEFINE d == thr[Bus].dev
             x == thr'[Bus]
             S == OpsOf(d, thr[Bus].snap)
  <1>1. d \in Devices /\ DOMAIN thr[Bus] = ThreadFields /\ thr[Bus].ops \in Seq(S) /\ thr[Bus].ops # <<>>
    BY BusyIs, RowsOf
  <1>2. x.dev = d /\ ~Clean(x) /\ x.pc \in {"send", "end"}
    BY RowsOf, FailedIs
  <1>3. x.ops = Tail(thr[Bus].ops)
    <2> HIDE DEF S
    <2> QED
      BY <1>1, AfterOpIs
  <1>4. ASSUME Dev(d).proto = "upp" PROVE Returning(d, x, air'[Bus], dev'[d])
    <2>1. Ordered(thr[Bus].ops)
      BY <1>1, <1>4 DEF BackInv, Returning
    <2> HIDE DEF S
    <2>2. Ordered(x.ops)
      BY <1>1, <1>3, <2>1, OrderedTail
    <2> HIDE DEF x, d
    <2> QED
      BY <1>2, <2>2 DEF Returning, OnItsWay
  <1> HIDE DEF d
  <1> QED
    BY <1>2, <1>4, BackThread

LEMMA BackGivenUp ==
  ASSUME TypeInv, BackInv, TxRefused(Bus) \/ TxTimeout(Bus) \/ Reconnect(Bus) PROVE BackInv'
  <1>1. UppOutOfRange # ErrOk /\ ErrTimeout # ErrOk /\ UppTimeout # ErrOk
    BY DEF UppOutOfRange, ErrTimeout, UppTimeout, ErrOk
  <1>2. Bus \in Threads /\ DOMAIN thr = Threads
    BY RowsOf
  <1>3. CASE TxRefused(Bus)
    <2>1. thr[Bus].pc \in Busy /\ world' = world /\ thr'[Bus] = AfterOp(Bus, UppOutOfRange)
      BY <1>2, <1>3 DEF TxRefused, Busy
    <2> QED
      BY <1>1, <2>1, BackFailed
  <1>4. CASE TxTimeout(Bus)
    <2>1. thr[Bus].pc \in Busy /\ world' = world /\ thr'[Bus] = TimedOut(Bus)
      BY <1>2, <1>4 DEF TxTimeout, Busy
    <2>2. PICK err \in {UppTimeout, ErrTimeout} : TimedOut(Bus) = AfterOp(Bus, err)
      BY <1>2, <2>1, TimedOutIs
    <2> QED
      BY <1>1, <2>1, <2>2, BackFailed
  <1>5. CASE Reconnect(Bus)
    <2>1. /\ thr[Bus].pc \in Busy /\ UNCHANGED <<world, dev>> /\ air'[Bus] = <<>>
          /\ \/ thr'[Bus] = AfterOp(Bus, ErrTimeout)
             \/ /\ thr'[Bus].pc = "send" /\ thr'[Bus].dev = thr[Bus].dev /\ thr'[Bus].ops = thr[Bus].ops
                /\ thr'[Bus].snap = thr[Bus].snap /\ thr'[Bus].news = thr[Bus].news
                /\ thr'[Bus].own = thr[Bus].own /\ thr'[Bus].denied = thr[Bus].denied
                /\ thr'[Bus].readErr = thr[Bus].readErr /\ thr'[Bus].writeErr = thr[Bus].writeErr
      BY <1>2, <1>5, ReconnectIs
    <2>2. CASE thr'[Bus] = AfterOp(Bus, ErrTimeout)
      BY <1>1, <2>1, <2>2, BackFailed
    <2>3. CASE /\ thr'[Bus].pc = "send" /\ thr'[Bus].dev = thr[Bus].dev /\ thr'[Bus].ops = thr[Bus].ops
               /\ thr'[Bus].snap = thr[Bus].snap /\ thr'[Bus].news = thr[Bus].news /\ thr'[Bus].own = thr[Bus].own
               /\ thr'[Bus].denied = thr[Bus].denied
               /\ thr'[Bus].readErr = thr[Bus].readErr /\ thr'[Bus].writeErr = thr[Bus].writeErr
      <3>1. ASSUME NEW e \in Devices, Dev(e).proto = "upp" PROVE Returning(e, thr'[Bus], air'[Bus], dev'[e])
        <4>1. Returning(e, thr[Bus], air[Bus], dev[e])
          BY <3>1 DEF BackInv
        <4> QED
          BY <2>1, <2>3, <4>1 DEF Returning, OnItsWay, Clean
      <3> QED
        BY <2>1, <3>1, BackMoves
    <2> QED
      BY <2>1, <2>2, <2>3
  <1> QED
    BY <1>3, <1>4, <1>5

\* A broadcast is not answered, every other request is.
LEMMA SilentIs ==
  ASSUME TypeInv, NEW t \in Threads, TxSend(t), Dev(thr[t].dev).proto = "upp"
  PROVE  LET op == Head(thr[t].ops)
         IN thr'[t] = IF ExpectsResponse(Dev(thr[t].dev).slave) THEN [thr[t] EXCEPT !.pc = "recv"]
                      ELSE AfterOp(t, IF op.write THEN ErrOk ELSE UppBadResponse)
  <1> DEFINE silent == Dev(thr[t].dev).proto = "upp" /\ ~ExpectsResponse(Dev(thr[t].dev).slave)
             x == IF silent THEN AfterOp(t, IF Head(thr[t].ops).write THEN ErrOk ELSE UppBadResponse)
                  ELSE [thr[t] EXCEPT !.pc = "recv"]
  <1>1. thr' = [thr EXCEPT ![t] = x]
    BY DEF TxSend
  <1>2. DOMAIN thr = Threads
    BY RowsOf
  <1>3. thr'[t] = x
    <2> HIDE DEF x
    <2> QED
      BY <1>1, <1>2
  <1> QED
    BY <1>3

LEMMA BackTxSend ==
  ASSUME TypeInv, BackInv, TxSend(Bus) PROVE BackInv'
  <1> DEFINE d == thr[Bus].dev
             op == Head(thr[Bus].ops)
             ops == thr[Bus].ops
             w == thr[Bus].snap
             x == thr'[Bus]
             S == OpsOf(d, w)
  <1>0. Bus \in Threads
    BY RowsOf
  <1>1. thr[Bus].pc = "send" /\ op.sendable /\ world' = world /\ thr[Bus].pc \in Busy
    BY <1>0, SendIs DEF Busy
  <1>2. PICK late \in Remaining(Bus) : Sent(Bus, d, op, late)
    BY <1>0, SendIs
  <1>3. /\ d \in Devices /\ w \in Rows(d) /\ op \in S /\ DOMAIN thr[Bus] = ThreadFields
        /\ world \in Worlds /\ ops # <<>> /\ ops \in Seq(S)
    BY <1>0, <1>1, BusyIs, RowsOf
  <1>4. dev[d] \in [Cells(d) -> Content(d)] /\ air[Bus] \in Seq(Frames)
    BY <1>0, <1>3, RowsOf DEF ThreadRow
  <1>5. x.dev = d
    <2>1. \A err : AfterOp(Bus, err).dev = d
      <3> HIDE DEF S
      <3> QED
        BY <1>3, AfterOpIs
    <2>2. [thr[Bus] EXCEPT !.pc = "recv"].dev = d
      BY <1>3 DEF ThreadFields
    <2>3. x \in {AfterOp(Bus, ErrOk), AfterOp(Bus, UppBadResponse), [thr[Bus] EXCEPT !.pc = "recv"]}
      BY <1>0, SendIs
    <2> QED
      BY <2>1, <2>2, <2>3
  <1>6. ASSUME Dev(d).proto = "upp" PROVE Returning(d, x, air'[Bus], dev'[d])
    <2>1. Returning(d, thr[Bus], air[Bus], dev[d])
      BY <1>3, <1>6 DEF BackInv
    <2>2. Ordered(ops) /\ \A n \in Settable(d) : w[n] # None => OnItsWay(d, thr[Bus], dev[d], n)
      BY <2>1 DEF Returning
    <2>3. CASE ~ExpectsResponse(Dev(d).slave)
      <3>1. x = AfterOp(Bus, IF op.write THEN ErrOk ELSE UppBadResponse)
        BY <1>0, <1>6, <2>3, SilentIs
      <3>2. CASE ~op.write
        <4>1. UppBadResponse # ErrOk
          BY DEF UppBadResponse, ErrOk
        <4>2. ~Clean(x) /\ x.pc \in {"send", "end"} /\ x.ops = Tail(ops)
          <5>1. ~Clean(x) /\ x.pc \in {"send", "end"}
            BY <1>0, <1>1, <3>1, <3>2, <4>1, FailedIs
          <5>2. x.ops = Tail(ops)
            <6> HIDE DEF S
            <6> QED
              BY <1>3, <3>1, AfterOpIs
          <5> QED
            BY <5>1, <5>2
        <4>3. Ordered(x.ops)
          <5> HIDE DEF S
          <5> QED
            BY <1>3, <2>2, <4>2, OrderedTail
        <4> HIDE DEF x, d
        <4> QED
          BY <4>2, <4>3 DEF Returning, OnItsWay
      <3>3. CASE op.write
        <4>1. /\ x.ops = Tail(ops) /\ x.pc \in {"send", "end"} /\ x.snap = w /\ x.own = thr[Bus].own
              /\ x.readErr = thr[Bus].readErr /\ x.writeErr = thr[Bus].writeErr
          <5> HIDE DEF S
          <5> QED
            BY <1>3, <3>1, <3>3, AfterOpIs
        <4>2. Ordered(Tail(ops)) /\ \A o : Awaits(ops, o) /\ o # op => Awaits(Tail(ops), o)
          <5> HIDE DEF S
          <5> QED
            BY <1>3, <2>2, OrderedTail
        <4>3. ASSUME NEW n \in Settable(d), x.snap[n] # None PROVE OnItsWay(d, x, dev'[d], n)
          <5>1. OnItsWay(d, thr[Bus], dev[d], n)
            BY <2>2, <4>1, <4>3
          <5>2. UppRead(d, n) # op
            <6>1. ~UppRead(d, n).write
              BY ReadIs
            <6> QED
              BY <3>3, <6>1, Zenon
          <5>3. ~Clean(thr[Bus]) \/ ~thr[Bus].own \/ Awaits(ops, UppRead(d, n))
            BY <2>3, <5>1 DEF OnItsWay
          <5>4. Awaits(ops, UppRead(d, n)) => Awaits(x.ops, UppRead(d, n))
            BY <4>1, <4>2, <5>2
          <5> HIDE DEF x, d, op, ops
          <5> QED
            BY <2>3, <4>1, <5>3, <5>4 DEF OnItsWay, Clean
        <4> HIDE DEF x, d, op, ops
        <4> QED
          BY <4>1, <4>2, <4>3 DEF Returning
      <3> QED
        BY <3>2, <3>3
    <2>4. CASE ExpectsResponse(Dev(d).slave)
      <3>1. x = [thr[Bus] EXCEPT !.pc = "recv"]
        BY <1>0, <1>6, <2>4, SilentIs
      <3>2. /\ x.ops = ops /\ x.snap = w /\ x.own = thr[Bus].own /\ x.news = thr[Bus].news
            /\ x.readErr = thr[Bus].readErr /\ x.writeErr = thr[Bus].writeErr /\ x.denied = thr[Bus].denied
        BY <1>3, <3>1 DEF ThreadFields
      <3>3. dev'[d] = dev[d] \/ dev'[d] = Executed(d, op)
        BY <1>2 DEF Sent
      <3>4. /\ ~op.write => Executed(d, op) = dev[d]
            /\ op.write => Executed(d, op)[op.cmd] = op.vals[1]
            /\ \A n \in Settable(d) : Applied(d, n, w[n], dev[d]) => Applied(d, n, w[n], Executed(d, op))
        BY <1>1, <1>3, <1>4, <1>6, ExecutedUpp
      <3>5. ASSUME NEW n \in Settable(d), x.snap[n] # None PROVE OnItsWay(d, x, dev'[d], n)
        <4>1. OnItsWay(d, thr[Bus], dev[d], n)
          BY <2>2, <3>2, <3>5
        <4>2. Applied(d, n, w[n], dev[d]) => Applied(d, n, w[n], dev'[d])
          BY <3>3, <3>4
        <4>3. ASSUME Unread(d, ops, n), Awaits(ops, UppRead(d, n)) \/ Found(d, thr[Bus].news, dev[d], n)
              PROVE  Awaits(ops, UppRead(d, n)) \/ Found(d, thr[Bus].news, dev'[d], n)
          <5>1. CASE op.write
            BY <1>3, <4>3, <5>1 DEF Unread
          <5>2. CASE ~op.write
            <6>1. dev'[d] = dev[d]
              BY <3>3, <3>4, <5>2
            <6> QED
              BY <4>3, <6>1
          <5> QED
            BY <5>1, <5>2
        <4> HIDE DEF x, d, op, ops
        <4> QED
          BY <2>4, <3>2, <4>1, <4>2, <4>3 DEF OnItsWay, Clean, w, ops
      <3>6. ASSUME NEW k \in 1..Len(air'[Bus]), air'[Bus][k] \in UppFrames, air'[Bus][k].late = 0
            PROVE  Answered(op, air'[Bus][k], dev'[d])
        <4>1. late \in Seq(Frames) /\ \A j \in 1..Len(late) : late[j].late # 0
          BY <1>4, RemainingIs
        <4>2. CASE air'[Bus] = late
          BY <3>6, <4>1, <4>2
        <4>3. CASE air'[Bus] = Append(late, Answer(d, op, FALSE)) /\ dev'[d] = Executed(d, op)
          <5> DEFINE g == Answer(d, op, FALSE)
          <5>1. ~op.write => /\ g.echo = "" /\ g.data = <<dev[d][op.cmd]>>
                             /\ g.bytes = AnswerDigits(op.cmd)
            BY <1>1, <1>3, <1>4, <1>6, UppAnswerIs
          <5> HIDE DEF g
          <5>2. \A j \in 1..Len(Append(late, g)) : (j \in 1..Len(late) /\ Append(late, g)[j] = late[j]) \/ Append(late, g)[j] = g
            BY <4>1
          <5>3. Append(late, g)[k] = g \/ (k \in 1..Len(late) /\ Append(late, g)[k] = late[k])
            BY <3>6, <4>3, <5>2 DEF g
          <5>4. air'[Bus][k] = g
            BY <3>6, <4>1, <4>3, <5>3 DEF g
          <5>5. CASE op.write
            BY <1>1, <3>4, <4>3, <5>5 DEF Answered
          <5>6. CASE ~op.write
            <6>1. g.data[1] = dev[d][op.cmd] /\ g.bytes = AnswerDigits(op.cmd) /\ g.echo = ""
              <7>1. g.data = <<dev[d][op.cmd]>> /\ g.bytes = AnswerDigits(op.cmd) /\ g.echo = ""
                BY <5>1, <5>6, Zenon
              <7>2. \A y : <<y>>[1] = y
                OBVIOUS
              <7> QED
                BY <7>1, <7>2, Zenon
            <6>2. dev'[d] = dev[d]
              BY <3>4, <4>3, <5>6
            <6> QED
              BY <5>4, <5>6, <6>1, <6>2 DEF Answered
          <5> QED
            BY <5>5, <5>6
        <4>4. CASE Refusable(d, op) /\ air'[Bus] = Append(late, Answer(d, op, TRUE))
          <5> DEFINE g == Answer(d, op, TRUE)
          <5>1. op.write
            BY <1>6, <4>4 DEF Refusable
          <5>2. g.no
            <6>1. g.no = TRUE
              BY <1>1, <1>3, <1>4, <1>6, UppAnswerIs
            <6> QED
              BY <6>1
          <5> HIDE DEF g
          <5>3. \A j \in 1..Len(Append(late, g)) : (j \in 1..Len(late) /\ Append(late, g)[j] = late[j]) \/ Append(late, g)[j] = g
            BY <4>1
          <5>4. Append(late, g)[k] = g \/ (k \in 1..Len(late) /\ Append(late, g)[k] = late[k])
            BY <3>6, <4>4, <5>3 DEF g
          <5>5. air'[Bus][k] = g
            BY <3>6, <4>1, <4>4, <5>4 DEF g
          <5> QED
            BY <1>1, <5>1, <5>2, <5>5, Zenon DEF Answered
        <4> QED
          BY <1>2, <4>2, <4>3, <4>4 DEF Sent
      <3> HIDE DEF x, d
      <3> QED
        BY <2>2, <2>4, <3>2, <3>5, <3>6 DEF Returning
    <2> QED
      BY <2>3, <2>4
  <1> HIDE DEF d
  <1> QED
    BY <1>1, <1>5, <1>6, BackThread

LEMMA BackTxResult ==
  ASSUME TypeInv, BackInv, TxResult(Bus) PROVE BackInv'
  <1> DEFINE d == thr[Bus].dev
             op == Head(thr[Bus].ops)
             ops == thr[Bus].ops
             w == thr[Bus].snap
             x == thr'[Bus]
             S == OpsOf(d, w)
  <1>0. Bus \in Threads
    BY RowsOf
  <1>1. thr[Bus].pc = "recv" /\ thr[Bus].pc \in Busy /\ UNCHANGED <<world, scan, prog, link, reg, up, dev>>
    BY <1>0, ResultIs DEF Busy
  <1>2. PICK k \in 1..Len(air[Bus]), f \in Frames :
          air[Bus][k] \in Frames /\ Alike(f, air[Bus][k]) /\ Result(Bus, f)
    BY <1>0, ResultIs
  <1>3. /\ d \in Devices /\ w \in Rows(d) /\ op \in S /\ DOMAIN thr[Bus] = ThreadFields
        /\ world \in Worlds /\ ops # <<>> /\ ops \in Seq(S) /\ Polls(Bus, thr[Bus], reg) /\ Pending(d, w)
        /\ Dev(d).proto # "sim" /\ d # "none" /\ (Modbus(d) \/ Dev(d).proto = "upp")
    BY <1>0, <1>1, BusyIs, RowsOf, DeviceIs
  <1>4. CASE Modbus(d)
    <2>1. x.dev = d
      <3>1. x.dev = thr[Bus].dev
        <4> DEFINE err == Outcome(thr[Bus].dev, Head(thr[Bus].ops), f)
        <4>1. \/ err # ErrOk /\ thr'[Bus] = AfterOp(Bus, err)
              \/ thr'[Bus] = [thr[Bus] EXCEPT !.pc = "dead"]
              \/ Took(Bus, thr'[Bus], f)
          BY <1>0, <1>1, <1>2, <1>4, ResultModbus
        <4> HIDE DEF err
        <4>2. CASE err # ErrOk /\ thr'[Bus] = AfterOp(Bus, err)
          BY <1>0, <1>1, <4>2, FailedIs
        <4>3. CASE thr'[Bus] = [thr[Bus] EXCEPT !.pc = "dead"]
          BY <1>3, <4>3 DEF ThreadFields
        <4>4. CASE Took(Bus, thr'[Bus], f)
          BY <4>4 DEF Took
        <4> QED
          BY <4>1, <4>2, <4>3, <4>4
      <3> QED
        BY <3>1
    <2>2. Dev(d).proto # "upp"
      BY <1>4 DEF Modbus
    <2> HIDE DEF d
    <2> QED
      BY <1>1, <2>1, <2>2, BackThread
  <1>5. CASE Dev(d).proto = "upp"
    <2> DEFINE value == DecodedToValue(Decode(op.decoder, StripCommandEcho(op, f), f.data[1]), FieldOf(d, op.io).type)
    <2>1. \/ Outcome(d, op, f) # ErrOk /\ x = AfterOp(Bus, Outcome(d, op, f))
          \/ /\ Outcome(d, op, f) = ErrOk /\ Took(Bus, x, f)
             /\ x.news = IF op.write THEN thr[Bus].news ELSE [thr[Bus].news EXCEPT ![op.io] = value]
             /\ x.denied = IF f.no THEN thr[Bus].denied \cup {op.io} ELSE thr[Bus].denied
      BY <1>0, <1>1, <1>2, <1>5, ResultUpp
    <2>2. CASE Outcome(d, op, f) # ErrOk /\ x = AfterOp(Bus, Outcome(d, op, f))
      BY <1>1, <2>2, BackFailed
    <2>3. CASE /\ Outcome(d, op, f) = ErrOk /\ Took(Bus, x, f)
               /\ x.news = IF op.write THEN thr[Bus].news ELSE [thr[Bus].news EXCEPT ![op.io] = value]
               /\ x.denied = IF f.no THEN thr[Bus].denied \cup {op.io} ELSE thr[Bus].denied
      <3>1. /\ x.ops = Tail(ops) /\ x.pc \in {"send", "end"} /\ x.dev = d /\ x.snap = w
            /\ x.readErr = thr[Bus].readErr /\ x.writeErr = thr[Bus].writeErr
        BY <2>3 DEF Took
      <3>2. x.own => thr[Bus].own /\ f.late = 0
        BY <2>3 DEF Took
      <3>3. Returning(d, thr[Bus], air[Bus], dev[d])
        BY <1>3, <1>5 DEF BackInv
      <3>4. /\ Ordered(ops) /\ ExpectsResponse(Dev(d).slave)
            /\ \A n \in Settable(d) : w[n] # None => OnItsWay(d, thr[Bus], dev[d], n)
        BY <1>1, <3>3 DEF Returning
      <3>5. /\ Ordered(Tail(ops)) /\ \A o : Awaits(ops, o) /\ o # op => Awaits(Tail(ops), o)
            /\ ~op.write => \A i \in 1..Len(ops) : ~ops[i].write
            /\ \A n : Unread(d, ops, n) => Unread(d, Tail(ops), n)
        <4> HIDE DEF S
        <4>1. \A n : Unread(d, ops, n) => Unread(d, Tail(ops), n)
          BY <1>3, <3>4, UnreadTail
        <4> QED
          BY <1>3, <3>4, <4>1, OrderedTail
      <3>6. f \in UppFrames
        BY <1>3, <1>5, <2>3, OutcomeIs, ForeignIs
      <3>7. f.late = 0 => /\ Answered(op, air[Bus][k], dev[d]) /\ f.echo = air[Bus][k].echo
                          /\ f.bytes = air[Bus][k].bytes /\ f.data = air[Bus][k].data /\ f.no = air[Bus][k].no
        <4>1. /\ air[Bus][k] \in UppFrames /\ f.late = air[Bus][k].late /\ f.no = air[Bus][k].no
              /\ f.echo = air[Bus][k].echo /\ f.bytes = air[Bus][k].bytes /\ f.data = air[Bus][k].data
          BY <1>2, <3>6, FramesApart DEF Alike, Frames
        <4> QED
          BY <1>1, <3>3, <4>1 DEF Returning
      <3>8. ASSUME NEW n \in Settable(d), x.snap[n] # None PROVE OnItsWay(d, x, dev[d], n)
        <4> SUFFICES ASSUME Clean(x), x.own PROVE OnItsWay(d, x, dev[d], n)
          BY DEF OnItsWay
        <4>1. /\ Awaits(ops, UppWrite(d, n, w[n])) \/ Applied(d, n, w[n], dev[d]) \/ n \in thr[Bus].denied
              /\ Awaits(ops, UppRead(d, n)) \/ Found(d, thr[Bus].news, dev[d], n)
              /\ Unread(d, ops, n)
          <5>1. OnItsWay(d, thr[Bus], dev[d], n)
            BY <3>1, <3>4, <3>8
          <5>2. Clean(thr[Bus]) /\ thr[Bus].own
            BY <3>1, <3>2 DEF Clean
          <5> QED
            BY <3>4, <5>1, <5>2 DEF OnItsWay
        <4>2. Answered(op, air[Bus][k], dev[d]) /\ f.echo = air[Bus][k].echo
              /\ f.bytes = air[Bus][k].bytes /\ f.data = air[Bus][k].data /\ f.no = air[Bus][k].no
          BY <3>2, <3>7
        <4>0. Unread(d, x.ops, n) /\ (n \in thr[Bus].denied => n \in x.denied)
          BY <2>3, <3>1, <3>5, <4>1
        <4>3. CASE op.write
          <5>1. UppRead(d, n) # op
            <6>1. ~UppRead(d, n).write
              BY ReadIs
            <6> QED
              BY <4>3, <6>1, Zenon
          <5>2. Awaits(x.ops, UppRead(d, n)) \/ Found(d, x.news, dev[d], n)
            <6>1. x.news = thr[Bus].news
              BY <2>3, <4>3
            <6> QED
              BY <3>1, <3>5, <4>1, <5>1, <6>1
          <5>3. Awaits(x.ops, UppWrite(d, n, w[n])) \/ Applied(d, n, w[n], dev[d]) \/ n \in x.denied
            <6>1. CASE op # UppWrite(d, n, w[n])
              BY <3>1, <3>5, <4>0, <4>1, <6>1
            <6>2. CASE op = UppWrite(d, n, w[n])
              <7>1. op.sendable /\ (dev[d][op.cmd] = op.vals[1] \/ f.no)
                BY <4>2, <4>3, Zenon DEF Answered
              <7>2. /\ op.cmd = FieldOf(d, n).cmd /\ op.vals[1] = BuildWriteCommand(FieldOf(d, n).cmd, w[n]).v
                BY <6>2 DEF UppWrite
              <7>3. op.sendable = EncodeRequest(FieldOf(d, n).cmd, w[n])
                BY <6>2 DEF UppWrite
              <7>4. op.io = n
                BY <6>2 DEF UppWrite
              <7>5. f.no => n \in x.denied
                BY <2>3, <7>4, Zenon
              <7> QED
                BY <7>1, <7>2, <7>3, <7>5 DEF Applied
            <6> QED
              BY <6>1, <6>2
          <5> HIDE DEF x, d, op, ops
          <5> QED
            BY <3>1, <3>4, <4>0, <5>2, <5>3 DEF OnItsWay
        <4>4. CASE ~op.write
          <5>1. Applied(d, n, w[n], dev[d]) \/ n \in x.denied
            <6> SUFFICES ASSUME Awaits(ops, UppWrite(d, n, w[n])) PROVE FALSE
              BY <4>0, <4>1
            <6>1. PICK i \in 1..Len(ops) : ops[i] = UppWrite(d, n, w[n])
              BY DEF Awaits
            <6>2. UppWrite(d, n, w[n]).write
              BY DEF UppWrite
            <6>3. ~ops[i].write
              BY <3>5, <4>4
            <6> QED
              BY <6>1, <6>2, <6>3, Zenon
          <5>2. op = UppRead(d, op.io) /\ op.io \in InputIndices(d)
            BY <1>3, <1>5, <4>4, UppOpOf
          <5>3. op.cmd = FieldOf(d, op.io).cmd /\ op.decoder = FieldOf(d, op.io).decoder /\ op.io \in Indices(d)
            BY <1>3, <1>5, UppOpIs
          <5>4. thr[Bus].news \in Rows(d)
            BY <1>3 DEF Polls
          <5>5. x.news = [thr[Bus].news EXCEPT ![op.io] = value]
            BY <2>3, <4>4
          <5>6. CASE op.io # n
            <6>1. op # UppRead(d, n)
              BY <5>6 DEF UppRead
            <6>2. n \in Indices(d)
              BY DEF Settable, InputIndices
            <6>3. x.news[n] = thr[Bus].news[n]
              <7> HIDE DEF value, x
              <7> QED
                BY <5>4, <5>5, <5>6, <6>2 DEF Rows
            <6>4. Awaits(x.ops, UppRead(d, n)) \/ Found(d, x.news, dev[d], n)
              BY <3>1, <3>5, <4>1, <6>1, <6>3 DEF Found
            <6> HIDE DEF x, d, op, ops
            <6> QED
              BY <3>1, <3>4, <4>0, <5>1, <6>4 DEF OnItsWay
          <5>7. CASE op.io = n
            <6>1. f.data[1] = dev[d][op.cmd] /\ f.bytes = AnswerDigits(op.cmd) /\ f.echo = ""
              BY <4>2, <4>4 DEF Answered
            <6>2. StripCommandEcho(op, f) = AnswerDigits(op.cmd)
              <7>1. ~(EchoesCommand(op) /\ f.echo = Mnemonic(op.cmd))
                <8>1. EchoesCommand(op) => op.cmd \in LimitsQueries
                  BY <4>4 DEF EchoesCommand
                <8> QED
                  BY <6>1, <8>1, MnemonicIs
              <7> QED
                BY <6>1, <7>1 DEF StripCommandEcho
            <6> DEFINE fd == FieldOf(d, n)
            <6>3. Suited(fd) /\ n \in Indices(d)
              BY DEF Settable, InputIndices
            <6>4. value = Held(d, n, dev[d])
              BY <5>3, <5>7, <6>1, <6>2 DEF Held
            <6>5. value # None
              <7> DEFINE digits == StripCommandEcho(op, f)
                         raw == f.data[1]
              <7>1. UppTransact(Dev(d).slave, op, f) = ErrOk
                BY <1>3, <1>5, <2>3, OutcomeIs
              <7>2. Decode(fd.decoder, digits, raw) # None
                BY <4>4, <5>3, <5>7, <7>1 DEF UppTransact, UppBadResponse, ErrOk
              <7>3. value = DecodedToValue(Decode(fd.decoder, digits, raw), fd.type)
                BY <5>3, <5>7
              <7> HIDE DEF digits, raw, fd, value
              <7> QED
                BY <6>3, <7>2, <7>3, SuitedFits
            <6>6. x.news[n] = value
              <7> HIDE DEF value, x
              <7> QED
                BY <5>3, <5>4, <5>5, <5>7 DEF Rows
            <6>7. Found(d, x.news, dev[d], n)
              <7> HIDE DEF value
              <7> QED
                BY <6>4, <6>5, <6>6 DEF Found
            <6> HIDE DEF x, d, op, ops
            <6> QED
              BY <3>1, <3>4, <4>0, <5>1, <6>7 DEF OnItsWay
          <5> QED
            BY <5>6, <5>7
        <4> QED
          BY <4>3, <4>4
      <3>9. Returning(d, x, air'[Bus], dev'[d])
        <4> HIDE DEF x, d, op, ops
        <4> QED
          BY <1>1, <3>1, <3>5, <3>8 DEF Returning
      <3> HIDE DEF d
      <3> QED
        BY <1>1, <3>1, <3>9, BackThread
    <2> QED
      BY <2>1, <2>2, <2>3
  <1> QED
    BY <1>3, <1>4, <1>5

LEMMA BackPollEnd ==
  ASSUME TypeInv, BackInv, PollEnd(Bus) PROVE BackInv'
  <1>1. world' = world /\ thr'[Bus].dev = "none"
    BY RowsOf, PollEndIs
  <1>2. "none" \notin Devices
    BY RowsOf, DeviceIs
  <1> QED
    BY <1>1, <1>2, BackThread

LEMMA BackStep ==
  ASSUME TypeInv, BackInv, [Next]_vars PROVE BackInv'
  <1>1. CASE ScanNext \/ SetInput
    BY <1>1, BackScan
  <1>2. CASE ExecRegister \/ BusStep
    BY <1>2, BackIdle
  <1>3. CASE \E d \in Devices : PollStart(d)
    BY <1>3, BackPollStart
  <1>4. ASSUME NEW t \in Threads, ThreadStep(t) PROVE BackInv'
    <2>1. CASE t # Bus
      <3>1. /\ world' = world /\ thr'[Bus] = thr[Bus] /\ air'[Bus] = air[Bus]
            /\ \A d \in Devices : Dev(d).proto = "upp" => dev'[d] = dev[d]
        BY <1>4, <2>1, OtherThread
      <3> QED
        BY <3>1, BackElsewhere
    <2>2. CASE t = Bus
      BY <1>4, <2>2, BusRetries, BackTxSend, BackGivenUp, BackTxResult, BackPollEnd
    <2> QED
      BY <2>1, <2>2
  <1>5. CASE UNCHANGED vars
    <2>1. UNCHANGED <<world, thr, air, dev>>
      BY <1>5 DEF vars
    <2> QED
      BY <2>1, BackElsewhere
  <1> QED
    BY <1>1, <1>2, <1>3, <1>4, <1>5 DEF Next

\* The poll of a UPP device ends by the last step of its bus thread and by no
\* other.
LEMMA UppPollEnds ==
  ASSUME TypeInv, BackInv, [Next]_vars, NEW d \in Devices, Dev(d).proto = "upp",
         Polling(d), thr[Bus].pc = "end", ~Polling(d)'
  PROVE  PollEnd(Bus) /\ thr[Bus].dev = d
  <1>1. ThreadOf(d) = Bus /\ Bus \in Threads /\ d # "none"
    BY RowsOf, DeviceIs DEF ThreadOf, Serial
  <1>2. thr[Bus].dev = d
    BY <1>1 DEF Polling
  <1>3. ASSUME world' = world, thr'[Bus] = thr[Bus] PROVE FALSE
    <2>1. ThreadOf(d)' = Bus
      BY <1>1, <1>3, WorldKept
    <2> QED
      BY <1>2, <1>3, <2>1 DEF Polling
  <1>4. CASE ScanNext \/ SetInput \/ UNCHANGED vars
    <2>1. UNCHANGED <<world, thr>>
      BY <1>4 DEF ScanNext, ScanStart, ExecRejected, ExecQueue, ExecCopy, ExecSimulated, SetInput, vars
    <2> QED
      BY <1>3, <2>1
  <1>5. CASE ExecRegister \/ BusStep
    <2>1. world' = world
      BY <1>5, IdleSteps
    <2>2. PICK t \in Threads : /\ \A s \in Threads : s # t => thr'[s] = thr[s]
                               /\ thr'[t] = thr[t] \/ thr[t].dev = "none"
      BY <1>5, IdleSteps
    <2> QED
      BY <1>1, <1>2, <1>3, <2>1, <2>2
  <1>6. ASSUME NEW e \in Devices, PollStart(e) PROVE FALSE
    <2>1. world' = world /\ \A s \in Threads : s # ThreadOf(e) => thr'[s] = thr[s]
      BY <1>6, PollStartIs
    <2>2. thr[ThreadOf(e)].dev = "none"
      BY <1>6, PollStartIs
    <2> QED
      BY <1>1, <1>2, <1>3, <2>1, <2>2
  <1>7. ASSUME NEW t \in Threads, ThreadStep(t) PROVE PollEnd(Bus)
    <2>1. CASE t # Bus
      BY <1>3, <1>7, <2>1, OtherThread
    <2>2. CASE t = Bus
      <3>1. ThreadStep(Bus)
        BY <1>7, <2>2
      <3>2. ~TxSend(Bus) /\ ~TxRefused(Bus) /\ ~TxResult(Bus) /\ ~TxTimeout(Bus) /\ ~Reconnect(Bus)
        BY DEF TxSend, TxRefused, TxResult, TxTimeout, Reconnect
      <3> QED
        BY <3>1, <3>2, BusRetries
    <2> QED
      BY <2>1, <2>2
  <1> QED
    BY <1>2, <1>4, <1>5, <1>6, <1>7 DEF Next

\* A poll that ends has made every request, so a field on its way has arrived.
LEMMA UppPublishes ==
  ASSUME TypeInv, BackInv, PollEnd(Bus), NEW d \in Devices, Dev(d).proto = "upp", thr[Bus].dev = d,
         thr[Bus].own, io'[d].conn, NEW n \in Settable(d), thr[Bus].snap[n] # None
  PROVE  /\ io'[d].read[n] = Held(d, n, dev[d])
         /\ n \notin thr[Bus].denied => CameBack(io'[d].read[n], thr[Bus].snap[n])
  <1> DEFINE fd == FieldOf(d, n)
             w == thr[Bus].snap
             raw == dev[d][fd.cmd]
  <1>1. /\ thr[Bus].ops = <<>> /\ io'[d].read = Published(io[d].read, thr[Bus].news)
        /\ PollError(d, thr[Bus]) = ErrOk
    BY RowsOf, PollEndIs
  <1>2. Clean(thr[Bus])
    BY <1>1 DEF PollError, Clean
  <1>3. OnItsWay(d, thr[Bus], dev[d], n)
    BY DEF BackInv, Returning
  <1>4. \A op : ~Awaits(thr[Bus].ops, op)
    BY <1>1 DEF Awaits
  <1>5. /\ thr[Bus].news[n] = Held(d, n, dev[d]) /\ thr[Bus].news[n] # None
        /\ Applied(d, n, w[n], dev[d]) \/ n \in thr[Bus].denied
    BY <1>2, <1>3, <1>4 DEF OnItsWay, Found
  <1>6. n \in DOMAIN io[d].read
    <2>1. SharedRow(d, io[d]) /\ n \in Indices(d)
      BY RowsOf DEF Settable, InputIndices
    <2> QED
      BY <2>1 DEF SharedRow, Typed, Rows
  <1>7. io'[d].read[n] = Held(d, n, dev[d])
    BY <1>1, <1>5, <1>6 DEF Published
  <1>8. Suited(fd) /\ n \in Indices(d)
    BY DEF Settable, InputIndices
  <1>9. w[n] \in Values /\ w[n].t = VarType(fd.type)
    <2>1. Pending(d, w)
      <3>1. Bus \in Threads /\ thr[Bus].pc = "end"
        BY RowsOf, PollEndIs
      <3>2. ThreadRow(Bus, thr[Bus], air[Bus], up[Bus], reg)
        BY <3>1, RowsOf
      <3>3. Polls(Bus, thr[Bus], reg)
        BY <3>1, <3>2 DEF ThreadRow, Between
      <3> QED
        BY <3>3 DEF Polls
    <2>2. HasType(d, n, w[n]) /\ w \in Rows(d)
      BY <1>8, <2>1 DEF Pending
    <2>3. Dev(d).proto \notin {"rtu", "tcp"}
      OBVIOUS
    <2> QED
      BY <1>8, <2>2, <2>3 DEF HasType, Rows
  <1>10. ASSUME n \notin thr[Bus].denied PROVE CameBack(io'[d].read[n], w[n])
    <2>1. EncodeRequest(fd.cmd, w[n]) /\ raw = BuildWriteCommand(fd.cmd, w[n]).v
      BY <1>5, <1>10 DEF Applied
    <2>2. io'[d].read[n] = DecodedToValue(Decode(fd.decoder, AnswerDigits(fd.cmd), raw), fd.type)
      BY <1>7 DEF Held
    <2> HIDE DEF fd, raw, w
    <2> QED
      BY <1>8, <1>9, <2>1, <2>2, RoundTrip
  <1> QED
    BY <1>7, <1>10

\* For every plant, whatever the program, the line and the devices do: a UPP
\* poll that ends without an error, and without having taken an answer to an
\* earlier request for its own, publishes for each settable field it wrote what
\* the device then holds.  Unless the device refused the write, that is the
\* value the program had assigned, a REAL rounded to thousandths (device_fb.rs,
\* poll: the pending writes are sent before the reads, what was read is
\* published at the end, and the answer to a write is not looked at).
THEOREM ReadsBack == Spec => ReadBack
  <1> DEFINE Inv == TypeInv /\ BackInv
             Back == \A d \in Devices :
                       (/\ Dev(d).proto = "upp" /\ Polling(d) /\ thr[Bus].pc = "end" /\ ~Polling(d)'
                        /\ thr[Bus].own /\ io'[d].conn)
                       => \A n \in Settable(d) : thr[Bus].snap[n] # None =>
                             /\ io'[d].read[n] = Held(d, n, dev[d])
                             /\ n \notin thr[Bus].denied => CameBack(io'[d].read[n], thr[Bus].snap[n])
  <1>1. Init => Inv
    BY TypeInit, BackInit
  <1>2. Inv /\ [Next]_vars => Inv'
    BY TypeNext, BackStep
  <1>3. Inv /\ [Next]_vars => [Back]_vars
    <2> SUFFICES ASSUME Inv, [Next]_vars, NEW d \in Devices, Dev(d).proto = "upp", Polling(d),
                        thr[Bus].pc = "end", ~Polling(d)', thr[Bus].own, io'[d].conn,
                        NEW n \in Settable(d), thr[Bus].snap[n] # None
                 PROVE  /\ io'[d].read[n] = Held(d, n, dev[d])
                        /\ n \notin thr[Bus].denied => CameBack(io'[d].read[n], thr[Bus].snap[n])
      BY Zenon
    <2>1. PollEnd(Bus) /\ thr[Bus].dev = d
      BY UppPollEnds
    <2> QED
      BY <2>1, UppPublishes
  <1> QED
    BY <1>1, <1>2, <1>3, PTL DEF Spec, ReadBack

=============================================================================

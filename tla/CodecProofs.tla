----------------------------- MODULE CodecProofs -----------------------------
(***************************************************************************)
(* Proofs about the bytes of a permit: for bytes of any number of values,   *)
(* fields and integers of any width and whatever happens to the bytes, what *)
(* is written is read back, the two readers agree, and a permit has one     *)
(* encoding.                                                                *)
(* What the recursive functions of PermitCodec compute is proved with       *)
(* lemmas on induction and recursion whose parameters are sets and          *)
(* functions, where the library's take operators.                           *)
(***************************************************************************)
EXTENDS PermitCodec, SequenceTheorems, WellFoundedInduction, TLAPS

-----------------------------------------------------------------------------
(* Induction and recursion.                                                 *)

LEMMA NatOrder ==
  IsWellFoundedOn({ss \in Nat \X Nat : ss[1] < ss[2]}, Nat)
BY NatLessThanWellFounded DEF OpToRel

LEMMA Smallest ==
  ASSUME NEW S \in SUBSET Nat, S # {}
  PROVE  \E n \in S : \A k \in S : n <= k
<1> DEFINE R == {ss \in Nat \X Nat : ss[1] < ss[2]}
<1>1. PICK n \in S : \A k \in S : ~(<<k, n>> \in R)
  <2>1. IsWellFoundedOn(R, Nat)
    BY NatOrder
  <2> HIDE DEF R
  <2> QED
    BY <2>1, WFMin
<1>2. ASSUME NEW k \in S PROVE n <= k
  <2>1. <<k, n>> \in Nat \X Nat
    OBVIOUS
  <2>2. ~(<<k, n>>[1] < <<k, n>>[2])
    BY <1>1, <2>1
  <2> QED
    BY <2>2
<1> QED
  BY <1>2

LEMMA Induction ==
  ASSUME NEW S, 0 \in S, \A n \in Nat : n \in S => n + 1 \in S
  PROVE  Nat \subseteq S
<1> SUFFICES ASSUME NEW x \in Nat, x \notin S PROVE FALSE
  OBVIOUS
<1>1. PICK m \in Nat \ S : \A k \in Nat \ S : m <= k
  BY Smallest
<1>2. m # 0 /\ m - 1 \in Nat
  BY <1>1
<1>3. m - 1 \in S
  BY <1>1, <1>2
<1> QED
  BY <1>1, <1>2, <1>3

LEMMA BoundedInduction ==
  ASSUME NEW N \in Nat, NEW S, 0 \in S, \A i \in 1..N : i - 1 \in S => i \in S
  PROVE  0..N \subseteq S
<1> DEFINE U == {n \in Nat : n <= N => n \in S}
<1>1. ASSUME NEW n \in Nat, n \in U PROVE n + 1 \in U
  <2> SUFFICES ASSUME n + 1 <= N PROVE n + 1 \in S
    OBVIOUS
  <2>1. n + 1 \in 1..N /\ (n + 1) - 1 = n /\ n \in S
    BY <1>1
  <2> QED
    BY <2>1
<1>2. Nat \subseteq U
  <2>1. 0 \in U
    OBVIOUS
  <2> HIDE DEF U
  <2> QED
    BY <1>1, <2>1, Induction
<1> QED
  BY <1>2

\* f is defined by a first value and N steps, each from the value before it.
Steps(V, N) == [(1..N) \X V -> V]

Follows(f, V, a, N, step) ==
    /\ f \in [0..N -> V]
    /\ f[0] = a
    /\ \A i \in 1..N : f[i] = step[<<i, f[i - 1]>>]

LEMMA Recursion ==
  ASSUME NEW V, NEW a \in V, NEW N \in Nat, NEW step \in Steps(V, N)
  PROVE  \E f : Follows(f, V, a, N, step)
<1> DEFINE Is(f, n) == f[0] = a /\ \A i \in 1..n : f[i] = step[<<i, f[i - 1]>>]
           S == {n \in 0..N : \E f \in [0..n -> V] : Is(f, n)}
<1>1. 0 \in S
  <2> DEFINE f == [i \in 0..0 |-> a]
  <2>1. f \in [0..0 -> V] /\ Is(f, 0)
    OBVIOUS
  <2> HIDE DEF f, Is
  <2> QED
    BY <2>1
<1>2. ASSUME NEW n \in 1..N, n - 1 \in S PROVE n \in S
  <2>1. PICK f \in [0..(n - 1) -> V] : Is(f, n - 1)
    BY <1>2
  <2> DEFINE g == [i \in 0..n |-> IF i = n THEN step[<<n, f[n - 1]>>] ELSE f[i]]
  <2>2. step[<<n, f[n - 1]>>] \in V
    BY DEF Steps
  <2>3. g \in [0..n -> V]
    BY <2>2
  <2>4. g[0] = a
    BY <2>1
  <2>5. ASSUME NEW i \in 1..n PROVE g[i] = step[<<i, g[i - 1]>>]
    <3>1. g[i - 1] = f[i - 1]
      OBVIOUS
    <3>2. CASE i = n
      <4>1. g[n] = step[<<n, f[n - 1]>>]
        OBVIOUS
      <4> HIDE DEF g
      <4> QED
        BY <3>1, <3>2, <4>1
    <3>3. CASE i # n
      <4>1. i \in 1..(n - 1) /\ g[i] = f[i]
        BY <3>3
      <4>2. f[i] = step[<<i, f[i - 1]>>]
        BY <2>1, <4>1
      <4> QED
        BY <3>1, <4>1, <4>2
    <3> QED
      BY <3>2, <3>3
  <2>6. Is(g, n)
    BY <2>4, <2>5
  <2> HIDE DEF g, Is
  <2> QED
    BY <2>3, <2>6
<1>3. 0..N \subseteq S
  <2> HIDE DEF S
  <2> QED
    BY <1>1, <1>2, BoundedInduction
<1> QED
  BY <1>3 DEF Follows

-----------------------------------------------------------------------------
(* Quotients and powers.                                                    *)

LEMMA Division ==
  ASSUME NEW a \in Int, NEW b \in Nat \ {0}
  PROVE  /\ a \div b \in Int /\ a % b \in 0..(b - 1)
         /\ a = b * (a \div b) + (a % b)
OBVIOUS

LEMMA Quotient ==
  ASSUME NEW a \in Int, NEW b \in Nat \ {0}, NEW q \in Int, NEW r \in 0..(b - 1),
         a = b * q + r
  PROVE  a \div b = q /\ a % b = r
OBVIOUS

LEMMA Monotonic ==
  ASSUME NEW a \in Int, NEW b \in Int, NEW c \in Nat, a <= b
  PROVE  a * c <= b * c
OBVIOUS

LEMMA QuotientOfQuotient ==
  ASSUME NEW a \in Int, NEW b \in Nat \ {0}, NEW c \in Nat \ {0}
  PROVE  a \div (b * c) = (a \div b) \div c
<1> DEFINE q == a \div b
           r == a % b
           p == q \div c
           s == q % c
<1>1. a = b * q + r /\ q \in Int /\ r \in 0..(b - 1)
  BY Division
<1>2. q = c * p + s /\ p \in Int /\ s \in 0..(c - 1)
  BY <1>1, Division
<1> HIDE DEF q, r, p, s
<1>3. a = (b * c) * p + (b * s + r)
  BY <1>1, <1>2
<1>4. b * s + r \in 0..(b * c - 1)
  <2>1. b * s <= b * (c - 1)
    BY <1>2, Monotonic
  <2>2. b * s >= 0
    BY <1>2
  <2> QED
    BY <2>1, <2>2, <1>1, <1>2
<1>5. a \div (b * c) = p
  BY <1>2, <1>3, <1>4, Quotient
<1> QED
  BY <1>5 DEF p, q

\* The powers exist, and are what their definition says.
LEMMA Powers ==
  /\ pow[0] = 1
  /\ \A n \in Nat : pow[n] \in Nat \ {0} /\ pow[n + 1] = Base * pow[n]
<1> DEFINE Is(f) == f = [n \in Nat |-> IF n = 0 THEN 1 ELSE Base * f[n - 1]]
<1>1. \E f : Is(f)
  <2> DEFINE Upto(g, N) == g = [n \in 0..N |-> IF n = 0 THEN 1 ELSE Base * g[n - 1]]
             f == [n \in Nat |-> (CHOOSE g : Upto(g, n))[n]]
  <2>1. ASSUME NEW N \in Nat PROVE \E g : Upto(g, N)
    <3> DEFINE step == [x \in (1..N) \X Nat |-> Base * x[2]]
    <3>1. step \in [(1..N) \X Nat -> Nat]
      BY ConstantsAssumption
    <3> HIDE DEF step
    <3>2. PICK g \in [0..N -> Nat] : g[0] = 1 /\ \A i \in 1..N : g[i] = step[<<i, g[i - 1]>>]
      <4>1. step \in Steps(Nat, N)
        BY <3>1 DEF Steps
      <4>2. PICK g : Follows(g, Nat, 1, N, step)
        BY <4>1, Recursion
      <4> QED
        BY <4>2 DEF Follows
    <3>3. ASSUME NEW i \in 0..N PROVE g[i] = IF i = 0 THEN 1 ELSE Base * g[i - 1]
      <4>1. CASE i = 0
        BY <3>2, <4>1
      <4>2. CASE i # 0
        <5>1. i \in 1..N /\ <<i, g[i - 1]>> \in (1..N) \X Nat
          BY <4>2
        <5> QED
          BY <3>2, <4>2, <5>1 DEF step
      <4> QED
        BY <4>1, <4>2
    <3>4. Upto(g, N)
      <4>1. g = [i \in 0..N |-> g[i]]
        OBVIOUS
      <4> QED
        BY <3>3, <4>1
    <3> HIDE DEF Upto
    <3> QED
      BY <3>4
  <2>2. ASSUME NEW N \in Nat, NEW g, Upto(g, N), NEW M \in 0..N, NEW h, Upto(h, M)
        PROVE  g[M] = h[M]
    <3> DEFINE S == {n \in 0..M : g[n] = h[n]}
    <3>1. 0 \in S
      BY <2>2
    <3>2. ASSUME NEW n \in 1..M, n - 1 \in S PROVE n \in S
      <4>1. n \in 0..N /\ n \in 0..M /\ n # 0
        OBVIOUS
      <4>2. g[n] = Base * g[n - 1] /\ h[n] = Base * h[n - 1]
        BY <2>2, <4>1
      <4> QED
        BY <3>2, <4>2
    <3>3. 0..M \subseteq S
      <4> HIDE DEF S
      <4> QED
        BY <3>1, <3>2, BoundedInduction
    <3> QED
      BY <3>3
  <2>3. ASSUME NEW n \in Nat PROVE f[n] = IF n = 0 THEN 1 ELSE Base * f[n - 1]
    <3> DEFINE g == CHOOSE g : Upto(g, n)
               h == CHOOSE h : Upto(h, n - 1)
    <3>1. Upto(g, n)
      <4> HIDE DEF Upto
      <4> QED
        BY <2>1
    <3>2. f[n] = g[n]
      OBVIOUS
    <3>3. CASE n = 0
      <4> HIDE DEF f, g
      <4> QED
        BY <3>1, <3>2, <3>3
    <3>4. CASE n # 0
      <4>1. n - 1 \in Nat /\ n - 1 \in 0..n
        BY <3>4
      <4>2. Upto(h, n - 1)
        <5> HIDE DEF Upto
        <5> QED
          BY <2>1, <4>1
      <4>3. f[n - 1] = h[n - 1]
        BY <4>1
      <4>4. g[n - 1] = h[n - 1]
        <5> HIDE DEF Upto, g, h
        <5> QED
          BY <2>2, <3>1, <4>1, <4>2
      <4>5. g[n] = Base * g[n - 1]
        <5> HIDE DEF f, g, h
        <5> QED
          BY <3>1, <3>4
      <4> HIDE DEF f, g, h
      <4> QED
        BY <3>2, <3>4, <4>3, <4>4, <4>5
    <3> QED
      BY <3>3, <3>4
  <2>4. Is(f)
    <3>1. f = [n \in Nat |-> f[n]]
      OBVIOUS
    <3> HIDE DEF f
    <3> QED
      BY <2>3, <3>1
  <2> HIDE DEF f, Is
  <2> QED
    BY <2>4
<1>2. Is(pow)
  <2>1. pow = CHOOSE f : Is(f)
    BY DEF pow
  <2> HIDE DEF Is
  <2> QED
    BY <1>1, <2>1
<1>3. ASSUME NEW n \in Nat PROVE pow[n + 1] = Base * pow[n]
  BY <1>2
<1>4. pow[0] = 1
  BY <1>2
<1>5. ASSUME NEW n \in Nat PROVE pow[n] \in Nat \ {0}
  <2> DEFINE S == {k \in Nat : pow[k] \in Nat \ {0}}
  <2>1. 0 \in S
    BY <1>4
  <2>2. ASSUME NEW k \in Nat, k \in S PROVE k + 1 \in S
    <3>1. pow[k] \in Nat /\ pow[k] # 0
      BY <2>2
    <3>2. \A x \in Nat : x # 0 => Base * x \in Nat /\ Base * x # 0
      BY ConstantsAssumption
    <3>3. pow[k + 1] \in Nat /\ pow[k + 1] # 0
      BY <1>3, <3>1, <3>2
    <3> QED
      BY <3>3
  <2>3. Nat \subseteq S
    <3> HIDE DEF S
    <3> QED
      BY <2>1, <2>2, Induction
  <2> QED
    BY <2>3
<1> QED
  BY <1>3, <1>4, <1>5

-----------------------------------------------------------------------------
(* Integers.                                                                *)

LEMMA BaseType == Base \in Nat \ {0}
BY ConstantsAssumption

\* The value of the first i digits, for each i.
Partials(digits, g) ==
    /\ g \in [0..Len(digits) -> Nat]
    /\ g[0] = 0
    /\ \A i \in 1..Len(digits) : g[i] = g[i - 1] * Base + digits[i]

LEMMA ReadsPartials ==
  ASSUME NEW digits \in Seq(Nat)
  PROVE  \E g : Partials(digits, g) /\ readInt(digits) = g[Len(digits)]
<1> DEFINE N == Len(digits)
           Is(f) == f = [i \in 0..N |-> IF i = 0 THEN 0 ELSE f[i - 1] * Base + digits[i]]
           step == [x \in (1..N) \X Nat |-> x[2] * Base + digits[x[1]]]
           value == CHOOSE f : Is(f)
<1>1. N \in Nat /\ \A i \in 1..N : digits[i] \in Nat
  OBVIOUS
<1>2. \A x \in (1..N) \X Nat : x[2] * Base + digits[x[1]] \in Nat
  BY <1>1, BaseType
<1>3. step \in Steps(Nat, N)
  BY <1>2 DEF Steps
<1> HIDE DEF step
<1>4. PICK f : Follows(f, Nat, 0, N, step)
  BY <1>1, <1>3, Recursion
<1>5. ASSUME NEW i \in 1..N PROVE f[i] = f[i - 1] * Base + digits[i]
  <2>1. <<i, f[i - 1]>> \in (1..N) \X Nat
    BY <1>1, <1>4 DEF Follows
  <2> QED
    BY <1>4, <2>1 DEF Follows, step
<1>6. Is(f)
  <2>1. f = [i \in 0..N |-> f[i]] /\ f[0] = 0
    BY <1>4 DEF Follows
  <2>2. ASSUME NEW i \in 0..N
        PROVE  f[i] = IF i = 0 THEN 0 ELSE f[i - 1] * Base + digits[i]
    <3>1. i = 0 \/ i \in 1..N
      BY <1>1
    <3> QED
      BY <1>5, <2>1, <3>1
  <2> HIDE DEF N
  <2> QED
    BY <2>1, <2>2
<1>7. readInt(digits) = value[N]
  BY DEF readInt
<1>8. Is(value)
  <2> HIDE DEF Is
  <2> QED
    BY <1>6
<1> HIDE DEF value
<1>9. value[0] = 0 /\ \A i \in 1..N : value[i] = value[i - 1] * Base + digits[i]
  BY <1>1, <1>8
<1>10. value \in [0..N -> Nat]
  <2> DEFINE S == {i \in 0..N : value[i] \in Nat}
  <2>1. 0 \in S
    BY <1>1, <1>9
  <2>2. ASSUME NEW i \in 1..N, i - 1 \in S PROVE i \in S
    <3>1. value[i - 1] \in Nat /\ digits[i] \in Nat
      BY <1>1, <2>2
    <3>2. \A x, y \in Nat : x * Base + y \in Nat
      BY BaseType
    <3>3. value[i] \in Nat
      BY <1>9, <3>1, <3>2
    <3> QED
      BY <3>3
  <2>3. 0..N \subseteq S
    <3> HIDE DEF S
    <3> QED
      BY <1>1, <2>1, <2>2, BoundedInduction
  <2>4. value = [i \in 0..N |-> value[i]]
    BY <1>8
  <2> QED
    BY <2>3, <2>4
<1> QED
  BY <1>7, <1>9, <1>10 DEF Partials

\* There is no other such function.
LEMMA PartialsUnique ==
  ASSUME NEW digits \in Seq(Nat), NEW g, Partials(digits, g), NEW h, Partials(digits, h)
  PROVE  g[Len(digits)] = h[Len(digits)]
<1> DEFINE N == Len(digits)
           S == {i \in 0..N : g[i] = h[i]}
<1>1. N \in Nat
  OBVIOUS
<1>2. 0 \in S
  BY <1>1 DEF Partials
<1>3. ASSUME NEW i \in 1..N, i - 1 \in S PROVE i \in S
  BY <1>1, <1>3 DEF Partials
<1>4. 0..N \subseteq S
  <2> HIDE DEF S
  <2> QED
    BY <1>1, <1>2, <1>3, BoundedInduction
<1> QED
  BY <1>1, <1>4

\* A byte alone is its value.
LEMMA ReadByte ==
  ASSUME NEW b \in Nat
  PROVE  readInt(<<b>>) = b
<1>1. <<b>> \in Seq(Nat) /\ Len(<<b>>) = 1 /\ <<b>>[1] = b
  OBVIOUS
<1>2. PICK g : Partials(<<b>>, g) /\ readInt(<<b>>) = g[1]
  BY <1>1, ReadsPartials
<1>3. g[0] = 0 /\ g[1] = g[1 - 1] * Base + b
  BY <1>1, <1>2 DEF Partials
<1> QED
  BY <1>2, <1>3, BaseType

\* An integer takes as many bytes as its width.
LEMMA WrittenType ==
  ASSUME NEW v \in Int, NEW size \in Nat
  PROVE  /\ writeInt(v, size) \in Seq(Byte)
         /\ Len(writeInt(v, size)) = size
         /\ \A i \in 1..size : writeInt(v, size)[i] = (v \div pow[size - i]) % Base
<1>1. ASSUME NEW i \in 1..size PROVE (v \div pow[size - i]) % Base \in Byte
  <2>1. pow[size - i] \in Nat \ {0}
    BY Powers
  <2>2. v \div pow[size - i] \in Int
    BY <2>1, Division
  <2> QED
    BY <2>2, BaseType, Division DEF Byte
<1>2. writeInt(v, size) \in [1..size -> Byte]
  BY <1>1 DEF writeInt
<1> QED
  BY <1>2 DEF writeInt

\* An integer in its range is read as it was written.
LEMMA IntegerReadBack ==
  ASSUME NEW size \in Nat, NEW v \in 0..(pow[size] - 1)
  PROVE  readInt(writeInt(v, size)) = v
<1> DEFINE digits == writeInt(v, size)
           h == [i \in 0..size |-> v \div pow[size - i]]
<1>1. v \in Int /\ pow[size] \in Nat \ {0}
  BY Powers
<1>2. /\ digits \in Seq(Byte) /\ Len(digits) = size
      /\ \A i \in 1..size : digits[i] = h[i] % Base
  BY <1>1, WrittenType
<1>3. digits \in Seq(Nat)
  BY <1>2, BaseType DEF Byte
<1>4. ASSUME NEW i \in 0..size PROVE h[i] \in Nat
  <2>1. pow[size - i] \in Nat \ {0}
    BY Powers
  <2>2. v \div pow[size - i] \in Nat
    BY <2>1
  <2> QED
    BY <2>2
<1>5. h[0] = 0
  <2>1. v = pow[size] * 0 + v /\ v \in 0..(pow[size] - 1)
    BY <1>1
  <2> QED
    BY <1>1, <2>1, Quotient
<1>6. ASSUME NEW i \in 1..size PROVE h[i] = h[i - 1] * Base + digits[i]
  <2> DEFINE p == pow[size - i]
  <2>1. p \in Nat \ {0} /\ pow[size - i + 1] = Base * p
    BY Powers
  <2>2. size - (i - 1) = size - i + 1
    OBVIOUS
  <2>3. h[i - 1] = v \div (Base * p)
    BY <2>1, <2>2
  <2>4. h[i - 1] = h[i] \div Base
    <3>1. v \div (p * Base) = (v \div p) \div Base
      BY <1>1, <2>1, BaseType, QuotientOfQuotient
    <3>2. p * Base = Base * p
      BY <2>1, BaseType
    <3> QED
      BY <2>3, <3>1, <3>2
  <2>5. h[i] = Base * (h[i] \div Base) + (h[i] % Base)
    <3>1. h[i] \in Int
      BY <1>4
    <3> HIDE DEF h
    <3> QED
      BY <3>1, BaseType, Division
  <2>6. digits[i] = h[i] % Base /\ h[i - 1] \in Nat
    <3>1. i - 1 \in 0..size
      OBVIOUS
    <3> HIDE DEF h, digits
    <3> QED
      BY <1>2, <1>4, <3>1
  <2> HIDE DEF h, digits
  <2> QED
    BY <2>4, <2>5, <2>6, BaseType
<1>7. h[size] = v
  <2>1. pow[0] = 1
    BY Powers
  <2>2. v = 1 * v + 0
    BY <1>1
  <2>3. v \div 1 = v
    BY <1>1
  <2> QED
    BY <2>1, <2>3
<1>8. Partials(digits, h)
  <2>1. h \in [0..size -> Nat]
    BY <1>4
  <2> HIDE DEF h, digits
  <2> QED
    BY <1>2, <1>5, <1>6, <2>1 DEF Partials
<1>9. PICK g : Partials(digits, g) /\ readInt(digits) = g[Len(digits)]
  BY <1>3, ReadsPartials
<1> HIDE DEF h, digits
<1>10. g[Len(digits)] = h[Len(digits)]
  BY <1>3, <1>8, <1>9, PartialsUnique
<1> QED
  BY <1>2, <1>7, <1>9, <1>10 DEF digits

\* Any digits are those that are written for their value, which is in range.
LEMMA IntegerWrittenBack ==
  ASSUME NEW digits \in Seq(Byte)
  PROVE  /\ readInt(digits) \in 0..(pow[Len(digits)] - 1)
         /\ writeInt(readInt(digits), Len(digits)) = digits
<1> DEFINE size == Len(digits)
           v == readInt(digits)
<1>1. digits \in Seq(Nat) /\ size \in Nat
  BY BaseType DEF Byte
<1>2. PICK g : Partials(digits, g) /\ v = g[size]
  BY <1>1, ReadsPartials
<1>3. ASSUME NEW i \in 1..size PROVE digits[i] \in 0..(Base - 1)
  <2>1. digits[i] \in Byte
    OBVIOUS
  <2> QED
    BY <2>1 DEF Byte
<1>4. /\ \A i \in 0..size : g[i] \in Nat
      /\ g[0] = 0
      /\ \A i \in 1..size : g[i] = g[i - 1] * Base + digits[i]
  BY <1>2 DEF Partials
<1>5. v \in Nat
  BY <1>1, <1>2, <1>4
<1> HIDE DEF v, size
<1>6. ASSUME NEW i \in 1..size
      PROVE  g[i] \div Base = g[i - 1] /\ g[i] % Base = digits[i]
  <2>1. g[i] = Base * g[i - 1] + digits[i] /\ g[i] \in Int /\ g[i - 1] \in Int
    BY <1>1, <1>3, <1>4, BaseType
  <2>2. digits[i] \in 0..(Base - 1)
    BY <1>3
  <2> QED
    BY <2>1, <2>2, BaseType, Quotient
<1>7. ASSUME NEW k \in 0..size PROVE g[size - k] = v \div pow[k]
  <2> DEFINE S == {j \in 0..size : g[size - j] = v \div pow[j]}
  <2>1. 0 \in S
    <3>1. v \div 1 = v
      BY <1>5
    <3>2. size - 0 = size /\ pow[0] = 1
      BY <1>1, Powers
    <3> QED
      BY <1>1, <1>2, <3>1, <3>2
  <2>2. ASSUME NEW j \in 1..size, j - 1 \in S PROVE j \in S
    <3> DEFINE i == size - (j - 1)
    <3>1. i \in 1..size /\ i - 1 = size - j
      BY <1>1
    <3>2. pow[j - 1] \in Nat \ {0} /\ pow[j] = Base * pow[j - 1]
      <4>1. j - 1 \in Nat /\ (j - 1) + 1 = j
        OBVIOUS
      <4> QED
        BY <4>1, Powers
    <3>3. g[i] = v \div pow[j - 1]
      BY <2>2
    <3>4. v \div (pow[j - 1] * Base) = (v \div pow[j - 1]) \div Base
      BY <1>5, <3>2, BaseType, QuotientOfQuotient
    <3>5. pow[j - 1] * Base = pow[j]
      BY <3>2, BaseType
    <3>6. g[i] \div Base = g[i - 1]
      BY <1>6, <3>1
    <3> QED
      BY <3>1, <3>3, <3>4, <3>5, <3>6
  <2>3. 0..size \subseteq S
    <3> HIDE DEF S
    <3> QED
      BY <1>1, <2>1, <2>2, BoundedInduction
  <2> QED
    BY <2>3
<1>8. v \in 0..(pow[size] - 1)
  <2> DEFINE p == pow[size]
  <2>1. g[size - size] = v \div p
    BY <1>1, <1>7
  <2>2. 0 = v \div p
    BY <1>1, <1>4, <2>1
  <2>3. p \in Nat \ {0}
    BY <1>1, Powers
  <2> HIDE DEF p
  <2>4. v % p \in 0..(p - 1) /\ v = p * (v \div p) + (v % p)
    BY <1>5, <2>3, Division
  <2>5. p * (v \div p) = 0
    BY <2>2, <2>3
  <2>6. v \in 0..(p - 1)
    BY <1>5, <2>3, <2>4, <2>5
  <2> QED
    BY <2>6 DEF p
<1>9. ASSUME NEW i \in 1..size PROVE writeInt(v, size)[i] = digits[i]
  <2>1. writeInt(v, size)[i] = (v \div pow[size - i]) % Base
    BY <1>1, <1>5, WrittenType
  <2>2. size - i \in 0..size /\ size - (size - i) = i
    BY <1>1
  <2>3. g[i] = v \div pow[size - i]
    BY <1>7, <2>2
  <2> QED
    BY <1>6, <2>1, <2>3
<1>10. writeInt(v, size) \in Seq(Byte) /\ Len(writeInt(v, size)) = size
  BY <1>1, <1>5, WrittenType
<1>11. writeInt(v, size) = digits
  BY <1>9, <1>10 DEF size
<1> QED
  BY <1>8, <1>11 DEF v, size

-----------------------------------------------------------------------------
(* One field: what decodePermit makes of it.                                *)

\* w is in the bytes after the offset.
At(from, offset, w) ==
    /\ offset + Len(w) <= Len(from)
    /\ \A k \in 1..Len(w) : from[offset + k] = w[k]

Fields ==
    [kind : {"fixed", "integer", "optional"}, size : Nat \ {0}]
      \union [kind : {"counted"}, lengths : SUBSET Byte]

\* What the types let the value of a field be.
ValuesOf(field) ==
    CASE field.kind \in {"fixed", "counted"} -> Text
      [] field.kind = "integer" -> Int
      [] field.kind = "optional" -> Optional

AnyValue == Text \union Int \union Optional

LEMMA BytesType ==
  ASSUME NEW from \in Seq(Byte)
  PROVE  /\ Len(from) \in Nat
         /\ \A k \in 1..Len(from) : from[k] \in Byte /\ from[k] \in Nat
<1>1. \A b \in Byte : b \in Nat
  BY BaseType DEF Byte
<1> QED
  BY <1>1

LEMMA Slices ==
  ASSUME NEW from \in Seq(Byte), NEW o \in Nat, NEW n \in Nat, o + n <= Len(from)
  PROVE  /\ slice(from, o, n) \in Seq(Byte)
         /\ Len(slice(from, o, n)) = n
         /\ \A k \in 1..n : slice(from, o, n)[k] = from[o + k]
<1>1. Len(from) \in Nat
  OBVIOUS
<1>2. \A k \in (o + 1)..(o + n) : from[k] \in Byte
  BY <1>1
<1> QED
  BY <1>1, <1>2, SubSeqProperties DEF slice

\* What is found at an offset is the slice there.
LEMMA SliceAt ==
  ASSUME NEW from \in Seq(Byte), NEW o \in Nat, NEW w \in Seq(Nat), At(from, o, w)
  PROVE  slice(from, o, Len(w)) = w
<1>1. Len(w) \in Nat /\ o + Len(w) <= Len(from)
  BY DEF At
<1>2. /\ slice(from, o, Len(w)) \in Seq(Byte) /\ Len(slice(from, o, Len(w))) = Len(w)
      /\ \A k \in 1..Len(w) : slice(from, o, Len(w))[k] = w[k]
  BY <1>1, Slices DEF At
<1> QED
  BY <1>2

LEMMA Bodies ==
  ASSUME NEW field \in Fields, NEW prefix \in Nat
  PROVE  /\ field.kind \in {"fixed", "integer"} => bodySize(field, prefix) = {field.size}
         /\ field.kind = "optional" =>
              bodySize(field, prefix) = IF prefix = 0 THEN {0}
                                        ELSE IF prefix = 1 THEN {field.size} ELSE {}
         /\ field.kind = "counted" =>
              bodySize(field, prefix) = IF prefix \in field.lengths THEN {prefix} ELSE {}
<1>1. CASE field.kind \in {"fixed", "integer"}
  BY <1>1 DEF bodySize
<1>2. CASE field.kind = "optional"
  BY <1>2 DEF bodySize
<1>3. CASE field.kind = "counted"
  BY <1>3 DEF bodySize
<1> QED
  BY <1>1, <1>2, <1>3 DEF Fields

\* A field without a marker.
LEMMA ReadsUnmarked ==
  ASSUME NEW from \in Seq(Byte), NEW o \in 0..Len(from), NEW values, NEW field \in Fields,
         field.kind \in {"fixed", "integer"}
  PROVE  readField(from, Reading(values, o), field) =
           IF o + field.size <= Len(from)
           THEN Reading(Append(values, valueOf(field, 0, slice(from, o, field.size))),
                        o + field.size)
           ELSE DecodingFailed
<1> DEFINE body == valueOf(field, 0, slice(from, o, field.size))
<1>1. bodySize(field, 0) = {field.size}
  BY Bodies
<1>2. (CHOOSE n \in bodySize(field, 0) : TRUE) = field.size
  BY <1>1
<1>3. o \in Nat /\ o + 0 = o
  OBVIOUS
<1>4. /\ Reading(values, o).error = "none" /\ Reading(values, o).values = values
      /\ Reading(values, o).offset = o
  BY DEF Reading
<1> HIDE DEF body
<1>5. CASE o + field.size <= Len(from)
  BY <1>1, <1>2, <1>3, <1>4, <1>5 DEF readField, body
<1>6. CASE ~(o + field.size <= Len(from))
  BY <1>1, <1>3, <1>4, <1>6 DEF readField
<1> QED
  BY <1>5, <1>6 DEF body

\* A field whose marker or length allows a value of n bytes, or none at all.
LEMMA ReadsMarked ==
  ASSUME NEW from \in Seq(Byte), NEW o \in 0..Len(from), NEW values, NEW field \in Fields,
         field.kind \in {"optional", "counted"}
  PROVE  /\ o = Len(from) => readField(from, Reading(values, o), field) = DecodingFailed
         /\ o < Len(from) /\ bodySize(field, from[o + 1]) = {} =>
              readField(from, Reading(values, o), field) = DecodingFailed
         /\ \A n \in Nat : o < Len(from) /\ bodySize(field, from[o + 1]) = {n} =>
              readField(from, Reading(values, o), field) =
                IF o + 1 + n <= Len(from)
                THEN Reading(Append(values, valueOf(field, from[o + 1], slice(from, o + 1, n))),
                             o + 1 + n)
                ELSE DecodingFailed
<1>1. o \in Nat /\ Len(from) \in Nat
  OBVIOUS
<1>2. ASSUME o = Len(from)
      PROVE  readField(from, Reading(values, o), field) = DecodingFailed
  <2>1. ASSUME NEW n \in bodySize(field, 0) PROVE ~(o + 1 + n <= Len(from))
    <3>1. n \in Nat
      BY Bodies, BaseType DEF Fields, Byte
    <3> QED
      BY <1>1, <1>2, <3>1
  <2> QED
    BY <1>1, <1>2, <2>1 DEF readField, Reading
<1> DEFINE body(n) == valueOf(field, from[o + 1], slice(from, o + 1, n))
           picked == CHOOSE n \in bodySize(field, from[o + 1]) : TRUE
<1>3. ASSUME o < Len(from)
      PROVE  readField(from, Reading(values, o), field) =
               IF \E n \in bodySize(field, from[o + 1]) : o + 1 + n <= Len(from)
               THEN Reading(Append(values, body(picked)), o + 1 + picked)
               ELSE DecodingFailed
  <2>1. /\ Reading(values, o).error = "none" /\ Reading(values, o).values = values
        /\ Reading(values, o).offset = o
    BY DEF Reading
  <2>2. o + 1 <= Len(from)
    BY <1>1, <1>3
  <2> QED
    BY <2>1, <2>2 DEF readField
<1> HIDE DEF body, picked
<1>4. ASSUME NEW n \in Nat, o < Len(from), bodySize(field, from[o + 1]) = {n}
      PROVE  readField(from, Reading(values, o), field) =
               IF o + 1 + n <= Len(from) THEN Reading(Append(values, body(n)), o + 1 + n)
               ELSE DecodingFailed
  <2>1. picked = n
    BY <1>4 DEF picked
  <2> QED
    BY <1>3, <1>4, <2>1
<1>5. ASSUME o < Len(from), bodySize(field, from[o + 1]) = {}
      PROVE  readField(from, Reading(values, o), field) = DecodingFailed
  BY <1>3, <1>5
<1> QED
  BY <1>2, <1>4, <1>5 DEF body

\* The same for each kind of field.
LEMMA ReadsFixed ==
  ASSUME NEW from \in Seq(Byte), NEW o \in 0..Len(from), NEW values, NEW field \in Fields,
         field.kind = "fixed"
  PROVE  readField(from, Reading(values, o), field) =
           IF o + field.size <= Len(from)
           THEN Reading(Append(values, slice(from, o, field.size)), o + field.size)
           ELSE DecodingFailed
<1>1. \A body : valueOf(field, 0, body) = body
  BY DEF valueOf
<1> QED
  BY <1>1, ReadsUnmarked

LEMMA ReadsInteger ==
  ASSUME NEW from \in Seq(Byte), NEW o \in 0..Len(from), NEW values, NEW field \in Fields,
         field.kind = "integer"
  PROVE  readField(from, Reading(values, o), field) =
           IF o + field.size <= Len(from)
           THEN Reading(Append(values, readInt(slice(from, o, field.size))), o + field.size)
           ELSE DecodingFailed
<1>1. \A body : valueOf(field, 0, body) = readInt(body)
  BY DEF valueOf
<1> QED
  BY <1>1, ReadsUnmarked

LEMMA ReadsOptional ==
  ASSUME NEW from \in Seq(Byte), NEW o \in 0..Len(from), NEW values, NEW field \in Fields,
         field.kind = "optional"
  PROVE  readField(from, Reading(values, o), field) =
           IF o < Len(from) /\ from[o + 1] = 0
           THEN Reading(Append(values, <<>>), o + 1)
           ELSE IF o < Len(from) /\ from[o + 1] = 1 /\ o + 1 + field.size <= Len(from)
           THEN Reading(Append(values, <<readInt(slice(from, o + 1, field.size))>>),
                        o + 1 + field.size)
           ELSE DecodingFailed
<1>1. \A prefix, body :
        valueOf(field, prefix, body) = IF prefix = 0 THEN <<>> ELSE <<readInt(body)>>
  BY DEF valueOf
<1>2. o \in Nat /\ Len(from) \in Nat /\ field.size \in Nat /\ (o < Len(from) => from[o + 1] \in Nat)
  BY BytesType DEF Fields
<1>3. CASE o = Len(from)
  BY <1>2, <1>3, ReadsMarked
<1>4. CASE o < Len(from) /\ from[o + 1] = 0
  <2>1. bodySize(field, from[o + 1]) = {0}
    BY <1>2, <1>4, Bodies
  <2>2. readField(from, Reading(values, o), field) =
          IF o + 1 + 0 <= Len(from)
          THEN Reading(Append(values, valueOf(field, from[o + 1], slice(from, o + 1, 0))),
               o + 1 + 0)
          ELSE DecodingFailed
    BY <1>2, <1>4, <2>1, ReadsMarked
  <2>3. o + 1 + 0 <= Len(from) /\ o + 1 + 0 = o + 1
    BY <1>2, <1>4
  <2> QED
    BY <1>1, <1>4, <2>2, <2>3
<1>5. CASE o < Len(from) /\ from[o + 1] = 1
  <2>1. bodySize(field, from[o + 1]) = {field.size}
    BY <1>2, <1>5, Bodies
  <2>2. readField(from, Reading(values, o), field) =
          IF o + 1 + field.size <= Len(from)
          THEN Reading(Append(values, valueOf(field, from[o + 1], slice(from, o + 1, field.size))),
                       o + 1 + field.size)
          ELSE DecodingFailed
    BY <1>2, <1>5, <2>1, ReadsMarked
  <2>3. valueOf(field, from[o + 1], slice(from, o + 1, field.size)) =
          <<readInt(slice(from, o + 1, field.size))>>
    BY <1>1, <1>5
  <2> QED
    BY <1>5, <2>2, <2>3
<1>6. CASE o < Len(from) /\ from[o + 1] \notin {0, 1}
  <2>1. bodySize(field, from[o + 1]) = {}
    BY <1>2, <1>6, Bodies
  <2> QED
    BY <1>2, <1>6, <2>1, ReadsMarked
<1> QED
  BY <1>2, <1>3, <1>4, <1>5, <1>6

LEMMA ReadsCounted ==
  ASSUME NEW from \in Seq(Byte), NEW o \in 0..Len(from), NEW values, NEW field \in Fields,
         field.kind = "counted"
  PROVE  readField(from, Reading(values, o), field) =
           IF o < Len(from) /\ from[o + 1] \in field.lengths /\ o + 1 + from[o + 1] <= Len(from)
           THEN Reading(Append(values, slice(from, o + 1, from[o + 1])), o + 1 + from[o + 1])
           ELSE DecodingFailed
<1>1. \A prefix, body : valueOf(field, prefix, body) = body
  BY DEF valueOf
<1>2. o \in Nat /\ Len(from) \in Nat /\ (o < Len(from) => from[o + 1] \in Nat)
  BY BytesType
<1>3. CASE o = Len(from)
  BY <1>2, <1>3, ReadsMarked
<1>4. CASE o < Len(from) /\ from[o + 1] \in field.lengths
  <2>1. bodySize(field, from[o + 1]) = {from[o + 1]}
    BY <1>2, <1>4, Bodies
  <2> QED
    BY <1>1, <1>2, <1>4, <2>1, ReadsMarked
<1>5. CASE o < Len(from) /\ from[o + 1] \notin field.lengths
  <2>1. bodySize(field, from[o + 1]) = {}
    BY <1>2, <1>5, Bodies
  <2> QED
    BY <1>2, <1>5, <2>1, ReadsMarked
<1> QED
  BY <1>2, <1>3, <1>4, <1>5

-----------------------------------------------------------------------------
(* One field: what is written and what is read.                             *)

LEMMA FieldKinds ==
  ASSUME NEW field \in Fields
  PROVE  /\ field.kind \in {"fixed", "integer", "optional", "counted"}
         /\ field.kind # "counted" => field.size \in Nat \ {0}
         /\ field.kind = "counted" => field.lengths \subseteq Byte
         /\ field.kind \in {"fixed", "counted"} => ValuesOf(field) = Text
         /\ field.kind = "integer" => ValuesOf(field) = Int
         /\ field.kind = "optional" => ValuesOf(field) = Optional
<1>1. /\ field.kind \in {"fixed", "integer", "optional", "counted"}
      /\ field.kind # "counted" => field.size \in Nat \ {0}
      /\ field.kind = "counted" => field.lengths \subseteq Byte
  BY DEF Fields
<1>2. field.kind \in {"fixed", "counted"} => ValuesOf(field) = Text
  BY DEF ValuesOf
<1>3. field.kind = "integer" => ValuesOf(field) = Int
  BY DEF ValuesOf
<1>4. field.kind = "optional" => ValuesOf(field) = Optional
  BY DEF ValuesOf
<1> QED
  BY <1>1, <1>2, <1>3, <1>4

LEMMA TextIsNatural ==
  ASSUME NEW s \in Seq(Byte)
  PROVE  s \in Seq(Nat)
BY BaseType DEF Byte

LEMMA OptionalForms ==
  ASSUME NEW v \in Optional
  PROVE  v = <<>> \/ \E x \in Int : v = <<x>>
<1>1. v \in Seq(Int) /\ (Len(v) = 0 \/ Len(v) = 1)
  <2>1. v \in Seq(Int) /\ Len(v) <= 1
    BY DEF Optional
  <2>2. Len(v) \in Nat
    BY <2>1
  <2>3. \A n \in Nat : n <= 1 => n = 0 \/ n = 1
    OBVIOUS
  <2> QED
    BY <2>1, <2>2, <2>3
<1>2. Len(v) = 0 => v = <<>>
  BY <1>1
<1>3. ASSUME Len(v) = 1 PROVE v[1] \in Int /\ v = <<v[1]>>
  <2>1. v \in Seq(Int) /\ 1 \in 1..Len(v)
    BY <1>1, <1>3
  <2>2. v[1] \in Int
    BY <2>1, ElementOfSeq
  <2> DEFINE s == <<v[1]>>
  <2>3. s \in Seq(Int) /\ Len(s) = 1 /\ s[1] = v[1]
    BY <2>2
  <2> HIDE DEF s
  <2>4. \A i \in 1..Len(v) : v[i] = s[i]
    BY <1>3, <2>3
  <2>5. v = s
    BY <1>3, <2>1, <2>3, <2>4, SeqEqual
  <2> QED
    BY <2>2, <2>5 DEF s
<1> QED
  BY <1>1, <1>2, <1>3

LEMMA OptionalType ==
  /\ <<>> \in Optional
  /\ \A x \in Int : <<x>> \in Optional /\ <<x>> # <<>> /\ <<x>>[1] = x /\ DOMAIN <<x>> = {1}
BY DEF Optional

\* A marker or a length before the rest.
LEMMA AtTail ==
  ASSUME NEW from \in Seq(Byte), NEW o \in Nat, NEW b \in Nat, NEW w \in Seq(Nat)
  PROVE  /\ <<b>> \o w \in Seq(Nat) /\ Len(<<b>> \o w) = 1 + Len(w)
         /\ At(from, o, <<b>> \o w) <=>
              o < Len(from) /\ from[o + 1] = b /\ At(from, o + 1, w)
<1> DEFINE m == <<b>> \o w
<1>1. /\ m \in Seq(Nat) /\ Len(m) = 1 + Len(w) /\ m[1] = b
      /\ \A k \in 1..Len(w) : m[k + 1] = w[k]
  BY ConcatProperties
<1>2. Len(from) \in Nat /\ Len(w) \in Nat
  OBVIOUS
<1> HIDE DEF m
<1>3. ASSUME At(from, o, m)
      PROVE  o < Len(from) /\ from[o + 1] = b /\ At(from, o + 1, w)
  <2>1. o + 1 + Len(w) <= Len(from)
    BY <1>1, <1>2, <1>3 DEF At
  <2>2. from[o + 1] = m[1]
    BY <1>1, <1>2, <1>3 DEF At
  <2>3. ASSUME NEW k \in 1..Len(w) PROVE from[o + 1 + k] = w[k]
    <3>1. k + 1 \in 1..Len(m) /\ o + (k + 1) = o + 1 + k
      BY <1>1, <1>2
    <3> QED
      BY <1>1, <1>3, <3>1 DEF At
  <2> QED
    BY <1>1, <1>2, <2>1, <2>2, <2>3 DEF At
<1>4. ASSUME o < Len(from), from[o + 1] = b, At(from, o + 1, w)
      PROVE  At(from, o, m)
  <2>1. o + Len(m) <= Len(from)
    BY <1>1, <1>2, <1>4 DEF At
  <2>2. ASSUME NEW k \in 1..Len(m) PROVE from[o + k] = m[k]
    <3>1. CASE k = 1
      BY <1>1, <1>4, <3>1
    <3>2. CASE k # 1
      <4>1. k - 1 \in 1..Len(w) /\ (k - 1) + 1 = k /\ o + 1 + (k - 1) = o + k
        BY <1>1, <1>2, <3>2
      <4> QED
        BY <1>1, <1>4, <4>1 DEF At
    <3> QED
      BY <3>1, <3>2
  <2> QED
    BY <2>1, <2>2 DEF At
<1> QED
  BY <1>1, <1>3, <1>4 DEF m

\* What is written of a field: naturals.
LEMMA WriteType ==
  ASSUME NEW field \in Fields, NEW v \in ValuesOf(field)
  PROVE  write(field, v) \in Seq(Nat)
<1>1. CASE field.kind = "fixed"
  BY <1>1, FieldKinds, TextIsNatural DEF write, Text
<1>2. CASE field.kind = "counted"
  <2>1. v \in Seq(Byte) /\ v \in Seq(Nat) /\ Len(v) \in Nat
    BY <1>2, FieldKinds, TextIsNatural DEF Text
  <2>2. <<Len(v)>> \o v \in Seq(Nat)
    BY <2>1, ConcatProperties
  <2> QED
    BY <1>2, <2>2 DEF write
<1>3. CASE field.kind = "integer"
  <2>1. v \in Int /\ field.size \in Nat
    BY <1>3, FieldKinds
  <2>2. writeInt(v, field.size) \in Seq(Nat)
    BY <2>1, WrittenType, TextIsNatural
  <2> QED
    BY <1>3, <2>2 DEF write
<1>4. CASE field.kind = "optional"
  <2>1. v = <<>> \/ \E x \in Int : v = <<x>>
    BY <1>4, FieldKinds, OptionalForms
  <2>2. CASE v = <<>>
    <3>1. <<0>> \in Seq(Nat)
      OBVIOUS
    <3> QED
      BY <1>4, <2>2, <3>1 DEF write
  <2>3. ASSUME NEW x \in Int, v = <<x>> PROVE write(field, v) \in Seq(Nat)
    <3>1. field.size \in Nat
      BY <1>4, FieldKinds
    <3>2. writeInt(x, field.size) \in Seq(Nat)
      BY <3>1, WrittenType, TextIsNatural
    <3>3. <<1>> \o writeInt(x, field.size) \in Seq(Nat)
      BY <3>2, ConcatProperties
    <3>4. v # <<>> /\ v[1] = x
      BY <2>3
    <3> QED
      BY <1>4, <3>3, <3>4 DEF write
  <2> QED
    BY <2>1, <2>2, <2>3
<1> QED
  BY <1>1, <1>2, <1>3, <1>4, FieldKinds

\* A field that suits is read as it was written.
LEMMA FieldReadBack ==
  ASSUME NEW from \in Seq(Byte), NEW o \in 0..Len(from), NEW values,
         NEW field \in Fields, NEW v \in ValuesOf(field), suits(field, v),
         At(from, o, write(field, v))
  PROVE  readField(from, Reading(values, o), field) =
           Reading(Append(values, v), o + Len(write(field, v)))
<1>0. o \in Nat /\ Len(from) \in Nat
  OBVIOUS
<1>1. CASE field.kind = "fixed"
  <2>1. v \in Seq(Byte) /\ Len(v) = field.size /\ write(field, v) = v
    BY <1>1, FieldKinds DEF suits, write, Text
  <2>2. o + field.size <= Len(from)
    BY <2>1 DEF At
  <2>3. slice(from, o, field.size) = v
    BY <1>0, <2>1, SliceAt, TextIsNatural
  <2> QED
    BY <1>1, <2>1, <2>2, <2>3, ReadsFixed
<1>2. CASE field.kind = "integer"
  <2> DEFINE w == writeInt(v, field.size)
  <2>1. v \in 0..(pow[field.size] - 1) /\ v \in Int /\ field.size \in Nat /\ write(field, v) = w
    BY <1>2, FieldKinds DEF suits, write, inRange
  <2>2. w \in Seq(Byte) /\ Len(w) = field.size
    BY <2>1, WrittenType
  <2>3. o + field.size <= Len(from)
    BY <2>1, <2>2 DEF At
  <2>4. slice(from, o, field.size) = w
    BY <1>0, <2>1, <2>2, SliceAt, TextIsNatural
  <2>5. readInt(w) = v
    BY <2>1, IntegerReadBack
  <2> QED
    BY <1>2, <2>1, <2>2, <2>3, <2>4, <2>5, ReadsInteger
<1>3. CASE field.kind = "optional"
  <2>1. v = <<>> \/ \E x \in Int : v = <<x>>
    BY <1>3, FieldKinds, OptionalForms
  <2>2. CASE v = <<>>
    <3>1. write(field, v) = <<0>> /\ Len(<<0>>) = 1 /\ <<0>>[1] = 0
      BY <1>3, <2>2 DEF write
    <3>2. o < Len(from) /\ from[o + 1] = 0
      BY <1>0, <3>1 DEF At
    <3> QED
      BY <1>3, <2>2, <3>1, <3>2, ReadsOptional
  <2>3. ASSUME NEW x \in Int, v = <<x>>
        PROVE  readField(from, Reading(values, o), field) =
                 Reading(Append(values, v), o + Len(write(field, v)))
    <3> DEFINE w == writeInt(x, field.size)
    <3>1. v # <<>> /\ v[1] = x /\ 1 \in DOMAIN v
      BY <2>3
    <3>2. field.size \in Nat /\ write(field, v) = <<1>> \o w /\ x \in 0..(pow[field.size] - 1)
      BY <1>3, <3>1, FieldKinds DEF suits, write, inRange
    <3>3. w \in Seq(Byte) /\ w \in Seq(Nat) /\ Len(w) = field.size
      BY <3>2, WrittenType, TextIsNatural
    <3> HIDE DEF w
    <3>4. /\ o < Len(from) /\ from[o + 1] = 1 /\ At(from, o + 1, w)
          /\ Len(<<1>> \o w) = 1 + field.size
      BY <1>0, <3>2, <3>3, AtTail
    <3>5. slice(from, o + 1, field.size) = w
      BY <1>0, <3>3, <3>4, SliceAt
    <3>6. readInt(w) = x
      BY <3>2, IntegerReadBack DEF w
    <3>7. o + 1 + field.size <= Len(from)
      BY <3>3, <3>4 DEF At
    <3>8. o + Len(write(field, v)) = o + 1 + field.size
      <4>1. Len(write(field, v)) = 1 + field.size
        BY <3>2, <3>4
      <4>2. field.size \in Nat
        BY <3>2
      <4>3. o + (1 + field.size) = o + 1 + field.size
        <5>1. \A a, b \in Nat : a + (1 + b) = a + 1 + b
          OBVIOUS
        <5> QED
          BY <1>0, <4>2, <5>1
      <4> QED
        BY <4>1, <4>3
    <3> QED
      BY <1>3, <2>3, <3>4, <3>5, <3>6, <3>7, <3>8, ReadsOptional
  <2> QED
    BY <2>1, <2>2, <2>3
<1>4. CASE field.kind = "counted"
  <2>1. v \in Seq(Byte) /\ v \in Seq(Nat) /\ Len(v) \in Nat
    BY <1>4, FieldKinds, TextIsNatural DEF Text
  <2>2. Len(v) \in field.lengths /\ write(field, v) = <<Len(v)>> \o v
    BY <1>4 DEF suits, write
  <2>3. /\ o < Len(from) /\ from[o + 1] = Len(v) /\ At(from, o + 1, v)
        /\ Len(<<Len(v)>> \o v) = 1 + Len(v)
    BY <1>0, <2>1, <2>2, AtTail
  <2>4. slice(from, o + 1, Len(v)) = v
    BY <1>0, <2>1, <2>3, SliceAt
  <2>5. o + 1 + Len(v) <= Len(from)
    BY <2>3 DEF At
  <2>6. o + Len(write(field, v)) = o + 1 + Len(v)
    BY <1>0, <2>1, <2>2, <2>3
  <2> QED
    BY <1>4, <2>2, <2>3, <2>4, <2>5, <2>6, ReadsCounted
<1> QED
  BY <1>1, <1>2, <1>3, <1>4, FieldKinds

\* What is found there is what would be written.
LEMMA SliceIsAt ==
  ASSUME NEW from \in Seq(Byte), NEW o \in Nat, NEW n \in Nat, o + n <= Len(from)
  PROVE  At(from, o, slice(from, o, n))
BY Slices DEF At

\* A field that is read suits, and is in the bytes as it would be written.
LEMMA FieldWrittenBack ==
  ASSUME NEW from \in Seq(Byte), NEW o \in 0..Len(from), NEW values, NEW field \in Fields,
         readField(from, Reading(values, o), field).error = "none"
  PROVE  \E v \in ValuesOf(field) :
           /\ suits(field, v) /\ At(from, o, write(field, v))
           /\ readField(from, Reading(values, o), field) =
                Reading(Append(values, v), o + Len(write(field, v)))
<1> DEFINE result == readField(from, Reading(values, o), field)
<1>0. /\ o \in Nat /\ Len(from) \in Nat
      /\ result # DecodingFailed
  BY DEF DecodingFailed, Refused
<1> HIDE DEF result
<1>1. CASE field.kind = "fixed"
  <2> DEFINE v == slice(from, o, field.size)
  <2>1. field.size \in Nat /\ o + field.size <= Len(from)
    BY <1>0, <1>1, FieldKinds, ReadsFixed DEF result
  <2>2. result = Reading(Append(values, v), o + field.size)
    BY <1>1, <2>1, ReadsFixed DEF result
  <2>3. v \in Seq(Byte) /\ Len(v) = field.size /\ At(from, o, v)
    BY <1>0, <2>1, Slices, SliceIsAt
  <2> HIDE DEF v
  <2>4. v \in ValuesOf(field) /\ suits(field, v) /\ write(field, v) = v
    BY <1>1, <2>3, FieldKinds DEF suits, write, Text
  <2> QED
    BY <2>2, <2>3, <2>4 DEF result
<1>2. CASE field.kind = "integer"
  <2> DEFINE w == slice(from, o, field.size)
             v == readInt(w)
  <2>1. field.size \in Nat /\ o + field.size <= Len(from)
    BY <1>0, <1>2, FieldKinds, ReadsInteger DEF result
  <2>2. result = Reading(Append(values, v), o + field.size)
    BY <1>2, <2>1, ReadsInteger DEF result
  <2>3. w \in Seq(Byte) /\ Len(w) = field.size /\ At(from, o, w)
    BY <1>0, <2>1, Slices, SliceIsAt
  <2>4. v \in 0..(pow[field.size] - 1) /\ writeInt(v, field.size) = w
    <3> HIDE DEF w
    <3> QED
      BY <2>3, IntegerWrittenBack
  <2>5. v \in Int
    BY <2>1, <2>4, Powers
  <2> HIDE DEF w, v
  <2>6. v \in ValuesOf(field) /\ suits(field, v) /\ write(field, v) = w
    BY <1>2, <2>4, <2>5, FieldKinds DEF suits, write, inRange
  <2> QED
    BY <2>2, <2>3, <2>6 DEF result
<1>3. CASE field.kind = "optional" /\ o < Len(from) /\ from[o + 1] = 0
  <2>1. result = Reading(Append(values, <<>>), o + 1)
    BY <1>3, ReadsOptional DEF result
  <2>2. write(field, <<>>) = <<0>>
    BY <1>3 DEF write
  <2>3. Len(<<0>>) = 1 /\ At(from, o, <<0>>)
    BY <1>0, <1>3 DEF At
  <2>4. <<>> \in ValuesOf(field)
    BY <1>3, FieldKinds, OptionalType
  <2>5. suits(field, <<>>)
    BY <1>3 DEF suits
  <2> QED
    BY <2>1, <2>2, <2>3, <2>4, <2>5 DEF result
<1>4. CASE field.kind = "optional" /\ ~(o < Len(from) /\ from[o + 1] = 0)
  <2> DEFINE w == slice(from, o + 1, field.size)
             x == readInt(w)
  <2>1. field.size \in Nat /\ o < Len(from) /\ from[o + 1] = 1 /\ o + 1 + field.size <= Len(from)
    BY <1>0, <1>4, FieldKinds, ReadsOptional DEF result
  <2>2. result = Reading(Append(values, <<x>>), o + 1 + field.size)
    BY <1>4, <2>1, ReadsOptional DEF result
  <2>3. w \in Seq(Byte) /\ w \in Seq(Nat) /\ Len(w) = field.size /\ At(from, o + 1, w)
    <3>1. o + 1 \in Nat
      BY <1>0
    <3> QED
      BY <2>1, <3>1, Slices, SliceIsAt, TextIsNatural
  <2>4. x \in 0..(pow[field.size] - 1) /\ writeInt(x, field.size) = w
    <3> HIDE DEF w
    <3> QED
      BY <2>3, IntegerWrittenBack
  <2>5. x \in Int
    BY <2>1, <2>4, Powers
  <2> HIDE DEF w, x
  <2>6. /\ <<x>> \in Optional /\ <<x>> # <<>> /\ <<x>>[1] = x /\ DOMAIN <<x>> = {1}
        /\ <<x>> \in ValuesOf(field)
    BY <1>4, <2>5, FieldKinds, OptionalType
  <2>7. suits(field, <<x>>)
    BY <1>4, <2>4, <2>6 DEF suits, inRange
  <2>8. write(field, <<x>>) = <<1>> \o w
    BY <1>4, <2>4, <2>6 DEF write
  <2>9. At(from, o, <<1>> \o w) /\ Len(<<1>> \o w) = 1 + field.size
    BY <1>0, <2>1, <2>3, AtTail
  <2>10. o + (1 + field.size) = o + 1 + field.size
    BY <1>0, <2>1
  <2> QED
    BY <2>2, <2>6, <2>7, <2>8, <2>9, <2>10 DEF result
<1>5. CASE field.kind = "counted"
  <2> DEFINE n == from[o + 1]
             v == slice(from, o + 1, n)
  <2>1. o < Len(from) /\ n \in field.lengths /\ n \in Nat /\ o + 1 + n <= Len(from)
    BY <1>0, <1>5, BytesType, ReadsCounted DEF result
  <2>2. result = Reading(Append(values, v), o + 1 + n)
    BY <1>5, <2>1, ReadsCounted DEF result
  <2>3. v \in Seq(Byte) /\ v \in Seq(Nat) /\ Len(v) = n /\ At(from, o + 1, v)
    <3>1. o + 1 \in Nat
      BY <1>0
    <3> HIDE DEF n
    <3> QED
      BY <2>1, <3>1, Slices, SliceIsAt, TextIsNatural
  <2>4. At(from, o, <<n>> \o v) /\ Len(<<n>> \o v) = 1 + n
    <3>1. from[o + 1] = n
      OBVIOUS
    <3> HIDE DEF n, v
    <3> QED
      BY <1>0, <2>1, <2>3, <3>1, AtTail
  <2> HIDE DEF n, v
  <2>5. v \in ValuesOf(field) /\ suits(field, v) /\ write(field, v) = <<n>> \o v
    BY <1>5, <2>1, <2>3, FieldKinds DEF suits, write, Text
  <2>6. o + (1 + n) = o + 1 + n
    BY <1>0, <2>1
  <2> QED
    BY <2>2, <2>4, <2>5, <2>6 DEF result
<1> QED
  BY <1>1, <1>2, <1>3, <1>4, <1>5, FieldKinds

-----------------------------------------------------------------------------
(* The layout, and what is written of a whole permit.                       *)

LEMMA LayoutFields ==
  /\ Len(Layout) = 16 /\ DOMAIN Layout = 1..16
  /\ \A i \in 1..16 : Layout[i] \in Fields
<1> DEFINE fixed(n) == [kind |-> "fixed", size |-> n]
           optional(n) == [kind |-> "optional", size |-> n]
           integer(n) == [kind |-> "integer", size |-> n]
           counted(l) == [kind |-> "counted", lengths |-> l]
<1>1. \A n \in Nat \ {0} : {fixed(n), optional(n), integer(n)} \subseteq Fields
  BY DEF Fields
<1>2. \A l \in SUBSET Byte : counted(l) \in Fields
  BY DEF Fields
<1>3. {Id, Hash, U32, U64} \subseteq Nat \ {0}
  BY ConstantsAssumption
<1>4. {0, Hash} \subseteq Byte /\ 0..MaxAssetNameBytes \subseteq Byte
  BY ConstantsAssumption DEF Byte
<1>5. Layout = <<
        fixed(Id), fixed(Id), optional(U32), fixed(Id), fixed(Id), fixed(Id), fixed(Hash),
        fixed(Id), counted({0, Hash}), counted(0..MaxAssetNameBytes), integer(U64), fixed(Id),
        optional(U64), integer(U64), fixed(Hash), fixed(Id) >>
  BY DEF Layout
<1> HIDE DEF fixed, optional, integer, counted
<1>6. /\ {fixed(Id), fixed(Hash), optional(U32), optional(U64), integer(U64)} \subseteq Fields
      /\ {counted({0, Hash}), counted(0..MaxAssetNameBytes)} \subseteq Fields
  BY <1>1, <1>2, <1>3, <1>4
<1>7. ASSUME NEW i \in 1..16 PROVE Layout[i] \in Fields
  <2>1. \/ i = 1 \/ i = 2 \/ i = 3 \/ i = 4 \/ i = 5 \/ i = 6 \/ i = 7 \/ i = 8
        \/ i = 9 \/ i = 10 \/ i = 11 \/ i = 12 \/ i = 13 \/ i = 14 \/ i = 15 \/ i = 16
    OBVIOUS
  <2> QED
    BY <1>5, <1>6, <2>1
<1>8. Len(Layout) = 16 /\ DOMAIN Layout = 1..16
  BY <1>5
<1> QED
  BY <1>7, <1>8

LEMMA LayoutKinds ==
  /\ \A i \in {1, 2, 4, 5, 6, 7, 8, 12, 15, 16} : Layout[i].kind = "fixed"
  /\ \A i \in {9, 10} : Layout[i].kind = "counted"
  /\ \A i \in {11, 14} : Layout[i].kind = "integer"
  /\ \A i \in {3, 13} : Layout[i].kind = "optional"
BY DEF Layout

LEMMA LayoutValues ==
  /\ \A i \in {1, 2, 4, 5, 6, 7, 8, 12, 15, 16} \union {9, 10} : ValuesOf(Layout[i]) = Text
  /\ \A i \in {11, 14} : ValuesOf(Layout[i]) = Int
  /\ \A i \in {3, 13} : ValuesOf(Layout[i]) = Optional
<1>1. \A i \in 1..16 : Layout[i] \in Fields
  BY LayoutFields
<1>2. \A i \in {1, 2, 4, 5, 6, 7, 8, 12, 15, 16} \union {9, 10} : ValuesOf(Layout[i]) = Text
  BY <1>1, LayoutKinds, FieldKinds
<1>3. \A i \in {11, 14} : ValuesOf(Layout[i]) = Int
  BY <1>1, LayoutKinds, FieldKinds
<1>4. \A i \in {3, 13} : ValuesOf(Layout[i]) = Optional
  BY <1>1, LayoutKinds, FieldKinds
<1> QED
  BY <1>2, <1>3, <1>4

LEMMA ValuesTyped ==
  ASSUME NEW p \in PermitV1
  PROVE  /\ Len(Values(p)) = 16
         /\ \A i \in 1..16 : Values(p)[i] \in ValuesOf(Layout[i])
<1>1. /\ Len(Values(p)) = 16
      /\ \A i \in {1, 2, 4, 5, 6, 7, 8, 12, 15, 16} \union {9, 10} : Values(p)[i] \in Text
      /\ \A i \in {11, 14} : Values(p)[i] \in Int
      /\ \A i \in {3, 13} : Values(p)[i] \in Optional
  BY DEF Values, PermitV1
<1> QED
  BY <1>1, LayoutValues

\* The readers make a permit of the values, and lose nothing.
LEMMA PermitOfValues ==
  ASSUME NEW v \in Seq(AnyValue), Len(v) = 16,
         \A i \in 1..16 : v[i] \in ValuesOf(Layout[i])
  PROVE  ofValues(v) \in PermitV1 /\ Values(ofValues(v)) = v
<1>2. /\ \A i \in {1, 2, 4, 5, 6, 7, 8, 12, 15, 16} \union {9, 10} : v[i] \in Text
      /\ \A i \in {11, 14} : v[i] \in Int
      /\ \A i \in {3, 13} : v[i] \in Optional
  BY LayoutValues
<1>3. ofValues(v) \in PermitV1
  BY <1>2 DEF ofValues, PermitV1
<1>4. Values(ofValues(v)) = <<v[1], v[2], v[3], v[4], v[5], v[6], v[7], v[8], v[9], v[10],
                              v[11], v[12], v[13], v[14], v[15], v[16]>>
  BY DEF Values, ofValues
<1>5. v = <<v[1], v[2], v[3], v[4], v[5], v[6], v[7], v[8], v[9], v[10],
            v[11], v[12], v[13], v[14], v[15], v[16]>>
  OBVIOUS
<1> QED
  BY <1>3, <1>4, <1>5

LEMMA HeaderType ==
  /\ header \in Seq(Byte) /\ header \in Seq(Nat)
  /\ Len(header) = Len(Magic) + 3 + U32
<1>1. Magic \in Seq(Byte) /\ CardanoMagic \in Int /\ U32 \in Nat
  <2>1. U32 \in Nat /\ pow[U32] \in Nat
    BY ConstantsAssumption, Powers
  <2> QED
    BY <2>1, ConstantsAssumption
<1>2. <<1, 1, 1>> \in Seq(Byte) /\ Len(<<1, 1, 1>>) = 3
  BY ConstantsAssumption DEF Byte
<1>3. writeInt(CardanoMagic, U32) \in Seq(Byte) /\ Len(writeInt(CardanoMagic, U32)) = U32
  BY <1>1, WrittenType
<1>4. Magic \o <<1, 1, 1>> \in Seq(Byte) /\ Len(Magic \o <<1, 1, 1>>) = Len(Magic) + 3
  BY <1>1, <1>2, ConcatProperties
<1>5. header \in Seq(Byte) /\ Len(header) = Len(Magic) + 3 + U32
  <2> DEFINE a == Magic \o <<1, 1, 1>>
             b == writeInt(CardanoMagic, U32)
  <2>1. header = a \o b
    BY DEF header
  <2>2. a \in Seq(Byte) /\ b \in Seq(Byte) /\ Len(a) = Len(Magic) + 3 /\ Len(b) = U32
    BY <1>3, <1>4
  <2> HIDE DEF a, b
  <2>3. a \o b \in Seq(Byte) /\ Len(a \o b) = Len(a) + Len(b)
    BY <2>2, ConcatProperties
  <2> QED
    BY <2>1, <2>2, <2>3
<1> QED
  BY <1>5, TextIsNatural

\* What encodePermit has written after i fields.
WrittenIs(f, p) ==
    f = [i \in 0..Len(Layout) |->
           IF i = 0 THEN header ELSE f[i - 1] \o write(Layout[i], Values(p)[i])]

Written(p) == CHOOSE f : WrittenIs(f, p)

LEMMA Writing ==
  ASSUME NEW p \in PermitV1
  PROVE  /\ bytesOf(p) = Written(p)[16]
         /\ Written(p)[0] = header
         /\ \A i \in 1..16 : /\ write(Layout[i], Values(p)[i]) \in Seq(Nat)
                             /\ Written(p)[i] = Written(p)[i - 1] \o write(Layout[i], Values(p)[i])
         /\ \A i \in 0..16 : Written(p)[i] \in Seq(Nat)
<1> DEFINE w(i) == write(Layout[i], Values(p)[i])
           step == [x \in (1..16) \X Seq(Nat) |-> x[2] \o w(x[1])]
<1>1. \A i \in 1..16 : w(i) \in Seq(Nat)
  BY LayoutFields, ValuesTyped, WriteType
<1> HIDE DEF w
<1>2. \A x \in (1..16) \X Seq(Nat) : x[2] \o w(x[1]) \in Seq(Nat)
  BY <1>1, ConcatProperties
<1>3. step \in Steps(Seq(Nat), 16)
  BY <1>2 DEF Steps
<1> HIDE DEF step
<1>4. PICK f : Follows(f, Seq(Nat), header, 16, step)
  BY <1>3, HeaderType, Recursion
<1>5. ASSUME NEW i \in 1..16 PROVE f[i] = f[i - 1] \o w(i)
  <2>1. \A k \in 0..16 : f[k] \in Seq(Nat)
    BY <1>4 DEF Follows
  <2>2. i - 1 \in 0..16
    OBVIOUS
  <2>3. f[i - 1] \in Seq(Nat)
    BY <2>1, <2>2
  <2>4. step[<<i, f[i - 1]>>] = f[i - 1] \o w(i)
    BY <2>3 DEF step
  <2> QED
    BY <1>4, <2>4 DEF Follows
<1>6. WrittenIs(f, p)
  <2>1. f = [i \in 0..16 |-> f[i]] /\ f[0] = header
    BY <1>4 DEF Follows
  <2>2. ASSUME NEW i \in 0..16 PROVE f[i] = IF i = 0 THEN header ELSE f[i - 1] \o w(i)
    <3>1. i = 0 \/ i \in 1..16
      OBVIOUS
    <3> QED
      BY <1>5, <2>1, <3>1
  <2> QED
    BY <2>1, <2>2, LayoutFields DEF WrittenIs, w
<1>7. WrittenIs(Written(p), p)
  BY <1>6 DEF Written
<1>8. bytesOf(p) = Written(p)[16]
  BY LayoutFields DEF bytesOf, Written, WrittenIs
<1>9. Written(p)[0] = header /\ \A i \in 1..16 : Written(p)[i] = Written(p)[i - 1] \o w(i)
  <2> DEFINE g == Written(p)
  <2>1. g = [i \in 0..16 |-> IF i = 0 THEN header ELSE g[i - 1] \o w(i)]
    BY <1>7, LayoutFields DEF WrittenIs, w
  <2> HIDE DEF g
  <2>2. g[0] = header
    BY <2>1
  <2>3. ASSUME NEW i \in 1..16 PROVE g[i] = g[i - 1] \o w(i)
    <3>1. i \in 0..16 /\ i # 0
      OBVIOUS
    <3> QED
      BY <2>1, <3>1
  <2> QED
    BY <2>2, <2>3 DEF g
<1>10. \A i \in 0..16 : Written(p)[i] \in Seq(Nat)
  <2> DEFINE S == {i \in 0..16 : Written(p)[i] \in Seq(Nat)}
  <2>1. 0 \in S
    BY <1>9, HeaderType
  <2>2. ASSUME NEW i \in 1..16, i - 1 \in S PROVE i \in S
    <3>1. w(i) \in Seq(Nat) /\ Written(p)[i - 1] \in Seq(Nat)
      BY <1>1, <2>2
    <3>2. Written(p)[i - 1] \o w(i) \in Seq(Nat)
      BY <3>1, ConcatProperties
    <3>3. Written(p)[i] \in Seq(Nat)
      BY <1>9, <3>2
    <3> QED
      BY <3>3
  <2>3. 0..16 \subseteq S
    <3> HIDE DEF S
    <3> QED
      BY <2>1, <2>2, BoundedInduction
  <2> QED
    BY <2>3
<1> QED
  BY <1>1, <1>8, <1>9, <1>10 DEF w

\* What is written one after the other.
LEMMA AtBoth ==
  ASSUME NEW from \in Seq(Byte), NEW s \in Seq(Nat), NEW w \in Seq(Nat)
  PROVE  /\ s \o w \in Seq(Nat) /\ Len(s \o w) = Len(s) + Len(w)
         /\ At(from, 0, s \o w) <=> At(from, 0, s) /\ At(from, Len(s), w)
<1> DEFINE m == s \o w
<1>1. /\ m \in Seq(Nat) /\ Len(m) = Len(s) + Len(w)
      /\ \A k \in 1..Len(s) : m[k] = s[k]
      /\ \A k \in 1..Len(w) : m[Len(s) + k] = w[k]
  BY ConcatProperties
<1>2. Len(from) \in Nat /\ Len(w) \in Nat /\ Len(s) \in Nat
  OBVIOUS
<1> HIDE DEF m
<1>3. ASSUME At(from, 0, m)
      PROVE  At(from, 0, s) /\ At(from, Len(s), w)
  <2>1. At(from, 0, s)
    BY <1>1, <1>2, <1>3 DEF At
  <2>2. ASSUME NEW k \in 1..Len(w) PROVE from[Len(s) + k] = w[k]
    <3>1. Len(s) + k \in 1..Len(m) /\ 0 + (Len(s) + k) = Len(s) + k
      BY <1>1, <1>2
    <3> QED
      BY <1>1, <1>3, <3>1 DEF At
  <2> QED
    BY <1>1, <1>2, <1>3, <2>1, <2>2 DEF At
<1>4. ASSUME At(from, 0, s), At(from, Len(s), w)
      PROVE  At(from, 0, m)
  <2>1. ASSUME NEW k \in 1..Len(m) PROVE from[0 + k] = m[k]
    <3>1. CASE k <= Len(s)
      BY <1>1, <1>2, <1>4, <3>1 DEF At
    <3>2. CASE k > Len(s)
      <4>1. k - Len(s) \in 1..Len(w) /\ Len(s) + (k - Len(s)) = k /\ 0 + k = k
        BY <1>1, <1>2, <3>2
      <4> QED
        BY <1>1, <1>4, <4>1 DEF At
    <3> QED
      BY <1>2, <3>1, <3>2
  <2> QED
    BY <1>1, <1>2, <1>4, <2>1 DEF At
<1> QED
  BY <1>1, <1>3, <1>4 DEF m

\* Bytes that are as long as what is found in them are just that.
LEMMA AtWhole ==
  ASSUME NEW from \in Seq(Byte), NEW s \in Seq(Nat), At(from, 0, s), Len(s) = Len(from)
  PROVE  from = s
<1>1. from \in Seq(Nat)
  BY TextIsNatural
<1>2. \A k \in 1..Len(s) : from[k] = s[k]
  BY DEF At
<1> QED
  BY <1>1, <1>2

-----------------------------------------------------------------------------
(* decodePermit on whole bytes.                                             *)

LEMMA HeaderParts ==
  ASSUME NEW from \in Seq(Byte)
  PROVE  At(from, 0, header) <=>
           /\ At(from, 0, Magic)
           /\ At(from, Len(Magic), <<1, 1, 1>>)
           /\ At(from, Len(Magic) + 3, writeInt(CardanoMagic, U32))
<1> DEFINE b == writeInt(CardanoMagic, U32)
<1>1. Magic \in Seq(Nat) /\ <<1, 1, 1>> \in Seq(Nat) /\ Len(<<1, 1, 1>>) = 3
  BY ConstantsAssumption, TextIsNatural
<1>2. b \in Seq(Nat)
  <2>1. U32 \in Nat /\ pow[U32] \in Nat
    BY ConstantsAssumption, Powers
  <2>2. CardanoMagic \in Int
    BY <2>1, ConstantsAssumption
  <2> QED
    BY <2>1, <2>2, WrittenType, TextIsNatural
<1> HIDE DEF b
<1>3. /\ Magic \o <<1, 1, 1>> \in Seq(Nat)
      /\ Len(Magic \o <<1, 1, 1>>) = Len(Magic) + 3
      /\ At(from, 0, Magic \o <<1, 1, 1>>) <=>
           At(from, 0, Magic) /\ At(from, Len(Magic), <<1, 1, 1>>)
  BY <1>1, AtBoth
<1> DEFINE a == Magic \o <<1, 1, 1>>
<1>4. header = a \o b
  BY DEF header, b
<1>5. At(from, 0, a \o b) <=> At(from, 0, a) /\ At(from, Len(Magic) + 3, b)
  <2>1. a \in Seq(Nat) /\ Len(a) = Len(Magic) + 3
    BY <1>3
  <2> HIDE DEF a
  <2>2. At(from, 0, a \o b) <=> At(from, 0, a) /\ At(from, Len(a), b)
    BY <1>2, <2>1, AtBoth
  <2> QED
    BY <2>1, <2>2
<1> QED
  BY <1>3, <1>4, <1>5 DEF b

\* The first n bytes are s.
LEMMA StartsWith ==
  ASSUME NEW from \in Seq(Byte), NEW s \in Seq(Nat)
  PROVE  At(from, 0, s) <=> Len(s) <= Len(from) /\ slice(from, 0, Len(s)) = s
<1>1. Len(s) \in Nat /\ Len(from) \in Nat
  OBVIOUS
<1>2. ASSUME At(from, 0, s) PROVE Len(s) <= Len(from) /\ slice(from, 0, Len(s)) = s
  BY <1>1, <1>2, SliceAt DEF At
<1>3. ASSUME Len(s) <= Len(from), slice(from, 0, Len(s)) = s PROVE At(from, 0, s)
  <2>1. At(from, 0, slice(from, 0, Len(s)))
    BY <1>1, <1>3, SliceIsAt
  <2> QED
    BY <1>3, <2>1
<1> QED
  BY <1>2, <1>3

LEMMA ReadsHeader ==
  ASSUME NEW from \in Seq(Byte)
  PROVE  /\ At(from, 0, header) => readHeader(from) = Reading(<<>>, Len(header))
         /\ ~At(from, 0, header) =>
              readHeader(from) \in {DecodingFailed, Refused("NP_PERMIT_UNKNOWN_VERSION")}
<1>1. /\ Len(Magic) \in Nat /\ Len(from) \in Nat
      /\ header \in Seq(Nat) /\ Len(header) = Len(Magic) + 3 + U32 /\ U32 \in Nat
      /\ Magic \in Seq(Nat)
  BY ConstantsAssumption, HeaderType, TextIsNatural
<1>2. ASSUME At(from, 0, header) PROVE readHeader(from) = Reading(<<>>, Len(header))
  <2>1. /\ Len(header) <= Len(from) /\ slice(from, 0, Len(header)) = header
    BY <1>1, <1>2, StartsWith
  <2>2. slice(from, 0, Len(Magic)) = Magic
    BY <1>1, <1>2, HeaderParts, StartsWith
  <2>3. from[Len(Magic) + 1] = 1
    <3>1. At(from, Len(Magic), <<1, 1, 1>>)
      BY <1>2, HeaderParts
    <3>2. 1 \in 1..Len(<<1, 1, 1>>) /\ <<1, 1, 1>>[1] = 1
      OBVIOUS
    <3> QED
      BY <3>1, <3>2 DEF At
  <2>4. ~(Len(Magic) >= Len(from))
    BY <1>1, <2>1
  <2>5. ~(Len(header) > Len(from))
    BY <1>1, <2>1
  <2> QED
    BY <2>1, <2>2, <2>3, <2>4, <2>5 DEF readHeader
<1>3. ASSUME ~At(from, 0, header)
      PROVE  readHeader(from) \in {DecodingFailed, Refused("NP_PERMIT_UNKNOWN_VERSION")}
  <2>1. Len(header) > Len(from) \/ slice(from, 0, Len(header)) # header
    <3>1. ~(Len(header) <= Len(from)) \/ slice(from, 0, Len(header)) # header
      BY <1>1, <1>3, StartsWith
    <3>2. Len(header) \in Nat
      BY <1>1
    <3> QED
      BY <1>1, <3>1, <3>2
  <2> QED
    BY <2>1 DEF readHeader
<1> QED
  BY <1>2, <1>3

\* What a reader may be.
Failures == {DecodingFailed, Refused("NP_PERMIT_UNKNOWN_VERSION")}

Readings(from) == {Reading(values, o) : values \in Seq(AnyValue), o \in 0..Len(from)}

LEMMA ReadingType ==
  ASSUME NEW from, NEW values \in Seq(AnyValue), NEW o \in 0..Len(from)
  PROVE  Reading(values, o) \in Readings(from)
BY DEF Readings

LEMMA ReaderErrors ==
  /\ \A r \in Failures : r.error # "none" /\ r.values = <<>>
  /\ \A values, o : /\ Reading(values, o).error = "none"
                    /\ Reading(values, o).values = values
                    /\ Reading(values, o).offset = o
BY DEF Failures, DecodingFailed, Refused, Reading

LEMMA FieldResult ==
  ASSUME NEW from \in Seq(Byte), NEW o \in 0..Len(from), NEW values, NEW field \in Fields
  PROVE  \/ readField(from, Reading(values, o), field) = DecodingFailed
         \/ readField(from, Reading(values, o), field).error = "none"
<1>1. CASE field.kind = "fixed"
  BY <1>1, ReadsFixed, ReaderErrors
<1>2. CASE field.kind = "integer"
  BY <1>2, ReadsInteger, ReaderErrors
<1>3. CASE field.kind = "optional"
  <2> DEFINE result == readField(from, Reading(values, o), field)
  <2>1. result = DecodingFailed \/ \E v, p : result = Reading(v, p)
    BY <1>3, ReadsOptional
  <2> HIDE DEF result
  <2>2. result = DecodingFailed \/ result.error = "none"
    BY <2>1, ReaderErrors
  <2> QED
    BY <2>2 DEF result
<1>4. CASE field.kind = "counted"
  BY <1>4, ReadsCounted, ReaderErrors
<1> QED
  BY <1>1, <1>2, <1>3, <1>4, FieldKinds

LEMMA ReadFieldType ==
  ASSUME NEW from \in Seq(Byte), NEW r \in Failures \union Readings(from), NEW field \in Fields
  PROVE  /\ readField(from, r, field) \in Failures \union Readings(from)
         /\ r.error # "none" => readField(from, r, field) = r
<1>1. r.error # "none" => readField(from, r, field) = r
  BY DEF readField
<1>2. ASSUME NEW values \in Seq(AnyValue), NEW o \in 0..Len(from), r = Reading(values, o),
             readField(from, r, field).error = "none"
      PROVE  readField(from, r, field) \in Readings(from)
  <2>1. PICK v \in ValuesOf(field) :
          /\ At(from, o, write(field, v))
          /\ readField(from, r, field) = Reading(Append(values, v), o + Len(write(field, v)))
    BY <1>2, FieldWrittenBack
  <2>2. v \in AnyValue
    BY FieldKinds DEF AnyValue
  <2>3. Append(values, v) \in Seq(AnyValue)
    BY <2>2
  <2>4. o + Len(write(field, v)) \in 0..Len(from)
    <3>1. Len(write(field, v)) \in Nat
      BY WriteType
    <3> QED
      BY <2>1, <3>1 DEF At
  <2> QED
    BY <2>1, <2>3, <2>4, ReadingType
<1>3. CASE r \in Readings(from)
  <2>1. PICK values \in Seq(AnyValue), o \in 0..Len(from) : r = Reading(values, o)
    BY <1>3 DEF Readings
  <2>2. CASE readField(from, r, field) = DecodingFailed
    BY <1>1, <2>1, <2>2, ReaderErrors DEF Failures
  <2>3. CASE readField(from, r, field).error = "none"
    BY <1>1, <1>2, <2>1, <2>3, ReaderErrors
  <2> QED
    BY <2>1, <2>2, <2>3, FieldResult
<1>4. CASE r \in Failures
  BY <1>1, <1>4, ReaderErrors
<1> QED
  BY <1>1, <1>3, <1>4

\* The reader after i fields.
ReaderIs(f, from) ==
    f = [i \in 0..Len(Layout) |->
           IF i = 0 THEN readHeader(from) ELSE readField(from, f[i - 1], Layout[i])]

Readers(from) == CHOOSE f : ReaderIs(f, from)

LEMMA HeaderReading ==
  ASSUME NEW from \in Seq(Byte)
  PROVE  readHeader(from) \in Failures \union Readings(from)
<1>1. CASE At(from, 0, header)
  <2>1. Len(header) \in 0..Len(from)
    BY <1>1, HeaderType DEF At
  <2>2. <<>> \in Seq(AnyValue)
    OBVIOUS
  <2> QED
    BY <1>1, <2>1, <2>2, ReadsHeader, ReadingType
<1> QED
  BY <1>1, ReadsHeader DEF Failures

LEMMA ReadingOn ==
  ASSUME NEW from \in Seq(Byte)
  PROVE  /\ decodePermit(from) = IF Len(from) > MaxPermitBytes THEN DecodingFailed
                                 ELSE end(from, Readers(from)[16])
         /\ Readers(from)[0] = readHeader(from)
         /\ \A i \in 1..16 : Readers(from)[i] = readField(from, Readers(from)[i - 1], Layout[i])
         /\ \A i \in 0..16 : Readers(from)[i] \in Failures \union Readings(from)
<1> DEFINE V == Failures \union Readings(from)
           next(r, i) == readField(from, r, Layout[i])
           step == [x \in (1..16) \X V |-> next(x[2], x[1])]
<1>1. \A r \in V, i \in 1..16 : next(r, i) \in V
  BY LayoutFields, ReadFieldType
<1>2. readHeader(from) \in V
  BY HeaderReading
<1> HIDE DEF V, next
<1>3. step \in Steps(V, 16)
  <2>1. \A x \in (1..16) \X V : next(x[2], x[1]) \in V
    BY <1>1
  <2> QED
    BY <2>1 DEF Steps
<1> HIDE DEF step
<1>4. PICK f : Follows(f, V, readHeader(from), 16, step)
  BY <1>2, <1>3, Recursion
<1>5. ASSUME NEW i \in 1..16 PROVE f[i] = next(f[i - 1], i)
  <2>1. \A k \in 0..16 : f[k] \in V
    BY <1>4 DEF Follows
  <2>2. i - 1 \in 0..16
    OBVIOUS
  <2>3. f[i - 1] \in V
    BY <2>1, <2>2
  <2>4. step[<<i, f[i - 1]>>] = next(f[i - 1], i)
    BY <2>3 DEF step
  <2> QED
    BY <1>4, <2>4 DEF Follows
<1>6. ReaderIs(f, from)
  <2>1. f = [i \in 0..16 |-> f[i]] /\ f[0] = readHeader(from)
    BY <1>4 DEF Follows
  <2>2. ASSUME NEW i \in 0..16
        PROVE  f[i] = IF i = 0 THEN readHeader(from) ELSE next(f[i - 1], i)
    <3>1. i = 0 \/ i \in 1..16
      OBVIOUS
    <3> QED
      BY <1>5, <2>1, <3>1
  <2> QED
    BY <2>1, <2>2, LayoutFields DEF ReaderIs, next
<1>7. ReaderIs(Readers(from), from)
  BY <1>6 DEF Readers
<1>8. decodePermit(from) = IF Len(from) > MaxPermitBytes THEN DecodingFailed
                           ELSE end(from, Readers(from)[16])
  BY LayoutFields DEF decodePermit, Readers, ReaderIs
<1> DEFINE g == Readers(from)
<1>9. g[0] = readHeader(from) /\ \A i \in 1..16 : g[i] = next(g[i - 1], i)
  <2>1. g = [i \in 0..16 |-> IF i = 0 THEN readHeader(from) ELSE next(g[i - 1], i)]
    BY <1>7, LayoutFields DEF ReaderIs, next
  <2> HIDE DEF g
  <2>2. g[0] = readHeader(from)
    BY <2>1
  <2>3. ASSUME NEW i \in 1..16 PROVE g[i] = next(g[i - 1], i)
    <3>1. i \in 0..16 /\ i # 0
      OBVIOUS
    <3> QED
      BY <2>1, <3>1
  <2> QED
    BY <2>2, <2>3
<1>10. \A i \in 0..16 : g[i] \in V
  <2> HIDE DEF g
  <2> DEFINE S == {i \in 0..16 : g[i] \in V}
  <2>1. 0 \in S
    BY <1>2, <1>9
  <2>2. ASSUME NEW i \in 1..16, i - 1 \in S PROVE i \in S
    <3>1. g[i] \in V
      BY <1>1, <1>9, <2>2
    <3> QED
      BY <3>1
  <2>3. 0..16 \subseteq S
    <3> HIDE DEF S
    <3> QED
      BY <2>1, <2>2, BoundedInduction
  <2> QED
    BY <2>3
<1> QED
  BY <1>8, <1>9, <1>10 DEF V, next

\* Bytes that begin with what is written of a permit begin with each part of it.
LEMMA AtWritten ==
  ASSUME NEW from \in Seq(Byte), NEW p \in PermitV1, At(from, 0, Written(p)[16])
  PROVE  \A i \in 0..16 : At(from, 0, Written(p)[i])
<1> DEFINE S == {j \in 0..16 : At(from, 0, Written(p)[16 - j])}
<1>1. 0 \in S
  OBVIOUS
<1>2. ASSUME NEW j \in 1..16, j - 1 \in S PROVE j \in S
  <2> DEFINE i == 16 - (j - 1)
             w == write(Layout[i], Values(p)[i])
  <2>1. i \in 1..16 /\ i - 1 = 16 - j
    OBVIOUS
  <2>2. At(from, 0, Written(p)[i])
    BY <1>2
  <2> HIDE DEF i
  <2>3. i - 1 \in 0..16
    BY <2>1
  <2>4. w \in Seq(Nat) /\ Written(p)[i] = Written(p)[i - 1] \o w
    BY <2>1, Writing
  <2>5. Written(p)[i - 1] \in Seq(Nat)
    BY <2>3, Writing
  <2> DEFINE a == Written(p)[i - 1]
  <2>6. At(from, 0, a \o w) /\ a \in Seq(Nat)
    BY <2>2, <2>4, <2>5
  <2>7. At(from, 0, a)
    <3> HIDE DEF a, w
    <3> QED
      BY <2>4, <2>6, AtBoth
  <2> QED
    BY <2>1, <2>7
<1>3. 0..16 \subseteq S
  <2> HIDE DEF S
  <2> QED
    BY <1>1, <1>2, BoundedInduction
<1>4. ASSUME NEW i \in 0..16 PROVE At(from, 0, Written(p)[i])
  <2>1. 16 - i \in 0..16 /\ 16 - (16 - i) = i
    OBVIOUS
  <2>2. 16 - i \in S
    BY <1>3, <2>1
  <2> QED
    BY <2>1, <2>2
<1> QED
  BY <1>4

LEMMA ValuesSequence ==
  ASSUME NEW p \in PermitV1
  PROVE  Values(p) \in Seq(AnyValue)
<1>1. \A i \in 1..16 : Values(p)[i] \in AnyValue
  BY ValuesTyped, LayoutFields, FieldKinds DEF AnyValue
<1>2. DOMAIN Values(p) = 1..16 /\ Len(Values(p)) = 16
  BY DEF Values
<1>3. Values(p) = [i \in 1..16 |-> Values(p)[i]]
  BY DEF Values
<1> DEFINE v == Values(p)
<1>4. v \in [1..16 -> AnyValue]
  BY <1>1, <1>3
<1> HIDE DEF v
<1>5. v \in Seq(AnyValue)
  BY <1>4, SeqDef
<1> QED
  BY <1>5 DEF v

\* What is written of a permit whose fields suit is read field by field.
LEMMA ReadsBack ==
  ASSUME NEW from \in Seq(Byte), NEW p \in PermitV1, At(from, 0, Written(p)[16]),
         \A i \in 1..16 : suits(Layout[i], Values(p)[i])
  PROVE  Readers(from)[16] = Reading(Values(p), Len(Written(p)[16]))
<1> DEFINE v == Values(p)
           w(i) == Written(p)[i]
           Is(i, vs) == /\ vs \in Seq(AnyValue) /\ Len(vs) = i
                        /\ \A k \in 1..i : vs[k] = v[k]
                        /\ Readers(from)[i] = Reading(vs, Len(w(i)))
           S == {i \in 0..16 : \E vs : Is(i, vs)}
<1>1. \A i \in 0..16 : At(from, 0, w(i)) /\ w(i) \in Seq(Nat)
  BY AtWritten, Writing
<1>2. 0 \in S
  <2>0. 0 \in 0..16
    OBVIOUS
  <2>1. At(from, 0, header) /\ w(0) = header
    BY <1>1, <2>0, Writing
  <2>2. Readers(from)[0] = Reading(<<>>, Len(w(0)))
    BY <2>1, ReadsHeader, ReadingOn
  <2>3. Is(0, <<>>)
    BY <2>2
  <2> HIDE DEF Is
  <2> QED
    BY <2>3
<1>3. ASSUME NEW i \in 1..16, i - 1 \in S PROVE i \in S
  <2> DEFINE field == Layout[i]
             o == Len(w(i - 1))
             x == write(field, v[i])
  <2>1. PICK vs : Is(i - 1, vs)
    BY <1>3
  <2>2. /\ i - 1 \in 0..16 /\ i \in 0..16
        /\ field \in Fields /\ v[i] \in ValuesOf(field) /\ suits(field, v[i])
    BY LayoutFields, ValuesTyped
  <2>3. /\ w(i - 1) \in Seq(Nat) /\ x \in Seq(Nat) /\ w(i) = w(i - 1) \o x
        /\ At(from, 0, w(i - 1)) /\ At(from, 0, w(i))
    BY <1>1, <2>2, Writing
  <2>4. At(from, o, x) /\ Len(w(i)) = o + Len(x)
    <3> HIDE DEF w, x
    <3> QED
      BY <2>3, AtBoth
  <2>5. o \in 0..Len(from)
    BY <2>3 DEF At
  <2>6. readField(from, Reading(vs, o), field) = Reading(Append(vs, v[i]), o + Len(x))
    <3> HIDE DEF o, field, v
    <3> QED
      BY <2>2, <2>4, <2>5, FieldReadBack
  <2>7. Readers(from)[i] = Reading(Append(vs, v[i]), Len(w(i)))
    BY <2>1, <2>4, <2>6, ReadingOn
  <2>8. v[i] \in AnyValue
    BY <2>2, FieldKinds DEF AnyValue
  <2>9. Is(i, Append(vs, v[i]))
    <3>1. vs \in Seq(AnyValue) /\ Len(vs) = i - 1 /\ \A k \in 1..(i - 1) : vs[k] = v[k]
      BY <2>1
    <3> HIDE DEF v, w
    <3>2. /\ Append(vs, v[i]) \in Seq(AnyValue) /\ Len(Append(vs, v[i])) = i
          /\ \A k \in 1..i : Append(vs, v[i])[k] = v[k]
      BY <2>8, <3>1
    <3> QED
      BY <2>7, <3>2
  <2> HIDE DEF Is
  <2> QED
    BY <2>9
<1>4. 0..16 \subseteq S
  <2> HIDE DEF S
  <2> QED
    BY <1>2, <1>3, BoundedInduction
<1>5. PICK vs : Is(16, vs)
  BY <1>4
<1>6. vs = v
  <2>1. v \in Seq(AnyValue) /\ Len(v) = 16
    BY ValuesSequence, ValuesTyped
  <2>2. vs \in Seq(AnyValue) /\ Len(vs) = 16 /\ \A k \in 1..16 : vs[k] = v[k]
    BY <1>5
  <2> HIDE DEF v
  <2> QED
    BY <2>1, <2>2, SeqEqual
<1> QED
  BY <1>5, <1>6

\* The first i fields of the bytes are vs: they suit, and the bytes begin with
\* what is written of any permit with these values.
FieldsAre(from, i, vs) ==
    /\ vs \in Seq(AnyValue) /\ Len(vs) = i
    /\ \A k \in 1..i : vs[k] \in ValuesOf(Layout[k]) /\ suits(Layout[k], vs[k])
    /\ \E o \in 0..Len(from) :
         /\ Readers(from)[i] = Reading(vs, o)
         /\ \A p \in PermitV1 : (\A k \in 1..i : Values(p)[k] = vs[k]) =>
              At(from, 0, Written(p)[i]) /\ o = Len(Written(p)[i])

LEMMA WritesBack ==
  ASSUME NEW from \in Seq(Byte), Readers(from)[16].error = "none"
  PROVE  \E vs : FieldsAre(from, 16, vs)
<1> DEFINE r(i) == Readers(from)[i]
           S == {i \in 0..16 : r(i).error = "none" => \E vs : FieldsAre(from, i, vs)}
<1>1. 0 \in S
  <2> SUFFICES ASSUME r(0).error = "none" PROVE \E vs : FieldsAre(from, 0, vs)
    OBVIOUS
  <2>1. At(from, 0, header) /\ r(0) = Reading(<<>>, Len(header))
    BY ReadingOn, ReadsHeader, ReaderErrors DEF Failures
  <2>2. Len(header) \in 0..Len(from)
    BY <2>1, HeaderType DEF At
  <2>3. \A p \in PermitV1 : At(from, 0, Written(p)[0]) /\ Len(header) = Len(Written(p)[0])
    BY <2>1, Writing
  <2>4. <<>> \in Seq(AnyValue) /\ Len(<<>>) = 0
    OBVIOUS
  <2>5. FieldsAre(from, 0, <<>>)
    BY <2>1, <2>2, <2>3, <2>4 DEF FieldsAre
  <2> QED
    BY <2>5
<1>2. ASSUME NEW i \in 1..16, i - 1 \in S PROVE i \in S
  <2> SUFFICES ASSUME r(i).error = "none" PROVE \E vs : FieldsAre(from, i, vs)
    OBVIOUS
  <2> DEFINE field == Layout[i]
  <2>1. i - 1 \in 0..16 /\ field \in Fields /\ r(i) = readField(from, r(i - 1), field)
    <3>1. i - 1 \in 0..16
      OBVIOUS
    <3>2. field \in Fields
      BY LayoutFields
    <3>3. r(i) = readField(from, r(i - 1), field)
      BY ReadingOn
    <3> QED
      BY <3>1, <3>2, <3>3
  <2>2. r(i - 1) \in Failures \union Readings(from)
    BY <2>1, ReadingOn
  <2>3. r(i - 1).error = "none"
    <3> HIDE DEF r, field
    <3> QED
      BY <2>1, <2>2, ReadFieldType
  <2>4. PICK vs : FieldsAre(from, i - 1, vs)
    BY <1>2, <2>3
  <2>5. PICK o \in 0..Len(from) :
          /\ r(i - 1) = Reading(vs, o)
          /\ \A p \in PermitV1 : (\A k \in 1..(i - 1) : Values(p)[k] = vs[k]) =>
               At(from, 0, Written(p)[i - 1]) /\ o = Len(Written(p)[i - 1])
    BY <2>4 DEF FieldsAre
  <2>6. PICK v \in ValuesOf(field) :
          /\ suits(field, v) /\ At(from, o, write(field, v))
          /\ r(i) = Reading(Append(vs, v), o + Len(write(field, v)))
    <3> HIDE DEF r, field
    <3>1. readField(from, Reading(vs, o), field).error = "none"
      BY <2>1, <2>5 DEF r
    <3> QED
      BY <2>1, <2>5, <3>1, FieldWrittenBack
  <2> DEFINE us == Append(vs, v)
             x == write(field, v)
  <2>7. v \in AnyValue /\ x \in Seq(Nat) /\ Len(x) \in Nat
    BY <2>1, FieldKinds, WriteType DEF AnyValue
  <2>8. /\ us \in Seq(AnyValue) /\ Len(us) = i /\ us[i] = v
        /\ \A k \in 1..(i - 1) : us[k] = vs[k]
    <3>1. vs \in Seq(AnyValue) /\ Len(vs) = i - 1
      BY <2>4 DEF FieldsAre
    <3> QED
      BY <2>7, <3>1
  <2> HIDE DEF r, us, x
  <2>9. \A k \in 1..i : us[k] \in ValuesOf(Layout[k]) /\ suits(Layout[k], us[k])
    <3>1. \A k \in 1..(i - 1) : vs[k] \in ValuesOf(Layout[k]) /\ suits(Layout[k], vs[k])
      BY <2>4 DEF FieldsAre
    <3>2. \A k \in 1..i : k = i \/ k \in 1..(i - 1)
      OBVIOUS
    <3> QED
      BY <2>6, <2>8, <3>1, <3>2
  <2>10. o + Len(x) \in 0..Len(from)
    BY <2>6, <2>7 DEF At, x
  <2>11. ASSUME NEW p \in PermitV1, \A k \in 1..i : Values(p)[k] = us[k]
         PROVE  At(from, 0, Written(p)[i]) /\ o + Len(x) = Len(Written(p)[i])
    <3> DEFINE a == Written(p)[i - 1]
    <3>1. \A k \in 1..(i - 1) : Values(p)[k] = vs[k]
      BY <2>8, <2>11
    <3>2. At(from, 0, a) /\ o = Len(a)
      BY <2>5, <3>1
    <3>3. Values(p)[i] = v
      BY <2>8, <2>11
    <3>4. a \in Seq(Nat) /\ Written(p)[i] = a \o x
      BY <2>1, <3>3, Writing DEF x
    <3>5. At(from, Len(a), x)
      BY <2>6, <3>2 DEF x
    <3> HIDE DEF a
    <3> QED
      BY <2>7, <3>2, <3>4, <3>5, AtBoth
  <2>12. r(i) = Reading(us, o + Len(x))
    BY <2>6 DEF us, x
  <2>13. FieldsAre(from, i, us)
    BY <2>8, <2>9, <2>10, <2>11, <2>12 DEF FieldsAre, r
  <2> QED
    BY <2>13
<1>3. 0..16 \subseteq S
  <2> HIDE DEF S
  <2> QED
    BY <1>1, <1>2, BoundedInduction
<1>4. 16 \in S
  BY <1>3
<1> QED
  BY <1>4

-----------------------------------------------------------------------------
(* encodePermit and decodePermit.                                           *)

Suitable(p) == \A i \in 1..16 : suits(Layout[i], Values(p)[i])

LEMMA WrittenBytes ==
  ASSUME NEW field \in Fields, NEW v \in ValuesOf(field), suits(field, v)
  PROVE  write(field, v) \in Seq(Byte)
<1>1. {0, 1} \subseteq Byte
  BY ConstantsAssumption DEF Byte
<1>2. CASE field.kind = "fixed"
  BY <1>2, FieldKinds DEF write, Text
<1>3. CASE field.kind = "counted"
  <2>1. v \in Seq(Byte) /\ Len(v) \in Byte /\ write(field, v) = <<Len(v)>> \o v
    BY <1>3, FieldKinds DEF write, Text, suits
  <2>2. <<Len(v)>> \in Seq(Byte)
    BY <2>1
  <2> QED
    BY <2>1, <2>2, ConcatProperties
<1>4. CASE field.kind = "integer"
  <2>1. v \in Int /\ field.size \in Nat /\ write(field, v) = writeInt(v, field.size)
    BY <1>4, FieldKinds DEF write
  <2> QED
    BY <2>1, WrittenType
<1>5. CASE field.kind = "optional"
  <2>1. v \in Optional /\ field.size \in Nat
    BY <1>5, FieldKinds
  <2>2. CASE v = <<>>
    <3>1. write(field, v) = <<0>>
      BY <1>5, <2>2 DEF write
    <3> QED
      BY <1>1, <3>1
  <2>3. ASSUME NEW x \in Int, v = <<x>> PROVE write(field, v) \in Seq(Byte)
    <3>1. write(field, v) = <<1>> \o writeInt(x, field.size)
      BY <1>5, <2>3, OptionalType DEF write
    <3>2. <<1>> \in Seq(Byte) /\ writeInt(x, field.size) \in Seq(Byte)
      BY <1>1, <2>1, WrittenType
    <3> QED
      BY <3>1, <3>2, ConcatProperties
  <2> QED
    BY <2>1, <2>2, <2>3, OptionalForms
<1> QED
  BY <1>2, <1>3, <1>4, <1>5, FieldKinds

LEMMA EncodingType ==
  ASSUME NEW p \in PermitV1, Suitable(p)
  PROVE  bytesOf(p) \in Seq(Byte)
<1> DEFINE w(i) == write(Layout[i], Values(p)[i])
           S == {i \in 0..16 : Written(p)[i] \in Seq(Byte)}
<1>1. 0 \in S
  <2>1. Written(p)[0] \in Seq(Byte)
    BY HeaderType, Writing
  <2> QED
    BY <2>1
<1>2. ASSUME NEW i \in 1..16, i - 1 \in S PROVE i \in S
  <2>1. w(i) \in Seq(Byte)
    BY LayoutFields, ValuesTyped, WrittenBytes DEF Suitable
  <2>2. Written(p)[i - 1] \in Seq(Byte) /\ Written(p)[i] = Written(p)[i - 1] \o w(i)
    BY <1>2, Writing
  <2> HIDE DEF w
  <2> DEFINE a == Written(p)[i - 1]
  <2>3. a \o w(i) \in Seq(Byte)
    BY <2>1, <2>2, ConcatProperties
  <2>4. Written(p)[i] \in Seq(Byte)
    BY <2>2, <2>3
  <2> QED
    BY <2>4
<1>3. 0..16 \subseteq S
  <2> HIDE DEF S
  <2> QED
    BY <1>1, <1>2, BoundedInduction
<1>4. 16 \in S
  BY <1>3
<1> QED
  BY <1>4, Writing

\* A permit that is not refused.
LEMMA Accepted ==
  ASSUME NEW p \in PermitV1
  PROVE  refusal(p) = "none" <=>
           /\ p.version = 1 /\ p.domain = 1 /\ p.midnightNetwork = 1
           /\ contextMatches(p)
           /\ inOrder(Values(p)[13], Values(p)[14])
           /\ Suitable(p)
           /\ Len(bytesOf(p)) <= MaxPermitBytes
<1>1. Len(bytesOf(p)) \in Nat /\ MaxPermitBytes \in Nat
  <2>1. 16 \in 0..16
    OBVIOUS
  <2>2. bytesOf(p) \in Seq(Nat)
    BY <2>1, Writing
  <2> QED
    BY <2>2, ConstantsAssumption
<1>2. Values(p)[13] = p.notBeforeSlot /\ Values(p)[14] = p.expiresAtSlot
  BY DEF Values
<1>3. Suitable(p) <=> ~\E i \in DOMAIN Layout : ~suits(Layout[i], Values(p)[i])
  BY LayoutFields DEF Suitable
<1>4. Len(bytesOf(p)) <= MaxPermitBytes <=> ~(Len(bytesOf(p)) > MaxPermitBytes)
  BY <1>1
<1> DEFINE long == Len(bytesOf(p)) > MaxPermitBytes
           bad == \E i \in DOMAIN Layout : ~suits(Layout[i], Values(p)[i])
           unordered == ~inOrder(p.notBeforeSlot, p.expiresAtSlot)
           context == contextMatches(p)
<1>5. refusal(p) =
        IF p.version # 1 THEN "NP_PERMIT_UNKNOWN_VERSION"
        ELSE IF p.domain # 1 \/ p.midnightNetwork # 1 \/ ~context \/ unordered \/ bad
        THEN "NP_PERMIT_INVALID_FIELD"
        ELSE IF long THEN "NP_PERMIT_ENCODING_FAILED" ELSE "none"
  BY DEF refusal
<1>6. refusal(p) = "none" <=> /\ p.version = 1 /\ p.domain = 1 /\ p.midnightNetwork = 1
                              /\ context /\ ~unordered /\ ~bad /\ ~long
  <2> HIDE DEF long, bad, unordered, context
  <2> QED
    BY <1>5
<1> QED
  BY <1>2, <1>3, <1>4, <1>6

\* The fields of a permit that is not refused say all of it.
LEMMA ValuesOfPermit ==
  ASSUME NEW p \in PermitV1, p.version = 1, p.domain = 1, p.midnightNetwork = 1,
         contextMatches(p)
  PROVE  ofValues(Values(p)) = p
<1>1. /\ p.policyId = p.entitlement.policyId
      /\ p.escrowId = p.entitlement.escrowId
      /\ p.milestoneId = p.entitlement.milestoneId
  BY DEF contextMatches, PermitV1
<1> DEFINE e == p.entitlement
<1>2. e = [policyId |-> p.policyId, escrowId |-> p.escrowId, milestoneId |-> p.milestoneId,
           assetPolicyId |-> e.assetPolicyId, assetName |-> e.assetName, amount |-> e.amount]
  BY <1>1 DEF PermitV1
<1>3. p = [version |-> p.version, domain |-> p.domain, midnightNetwork |-> p.midnightNetwork,
           midnightContractId |-> p.midnightContractId, midnightTxId |-> p.midnightTxId,
           authorizationIndex |-> p.authorizationIndex, policyId |-> p.policyId,
           escrowId |-> p.escrowId, milestoneId |-> p.milestoneId,
           beneficiaryPkh |-> p.beneficiaryPkh, actionId |-> p.actionId,
           entitlement |-> e, nullifier |-> p.nullifier, notBeforeSlot |-> p.notBeforeSlot,
           expiresAtSlot |-> p.expiresAtSlot,
           cardanoValidatorHash |-> p.cardanoValidatorHash, relayKeyId |-> p.relayKeyId]
  BY DEF PermitV1
<1>4. ofValues(Values(p)) =
        [version |-> 1, domain |-> 1, midnightNetwork |-> 1,
         midnightContractId |-> p.midnightContractId, midnightTxId |-> p.midnightTxId,
         authorizationIndex |-> p.authorizationIndex, policyId |-> p.policyId,
         escrowId |-> p.escrowId, milestoneId |-> p.milestoneId,
         beneficiaryPkh |-> p.beneficiaryPkh, actionId |-> p.actionId,
         entitlement |->
           [policyId |-> p.policyId, escrowId |-> p.escrowId, milestoneId |-> p.milestoneId,
            assetPolicyId |-> e.assetPolicyId, assetName |-> e.assetName, amount |-> e.amount],
         nullifier |-> p.nullifier, notBeforeSlot |-> p.notBeforeSlot,
         expiresAtSlot |-> p.expiresAtSlot,
         cardanoValidatorHash |-> p.cardanoValidatorHash, relayKeyId |-> p.relayKeyId]
  BY DEF ofValues, Values
<1> QED
  BY <1>2, <1>3, <1>4

\* What encodePermit has written, decodePermit reads as what was written.
LEMMA EncodedRead ==
  ASSUME NEW p \in PermitV1, refusal(p) = "none"
  PROVE  /\ bytesOf(p) \in Seq(Byte)
         /\ decodePermit(bytesOf(p)) = Reading(Values(p), Len(bytesOf(p)))
         /\ ofValues(Values(p)) = p
<1> DEFINE from == bytesOf(p)
<1>1. /\ p.version = 1 /\ p.domain = 1 /\ p.midnightNetwork = 1
      /\ contextMatches(p) /\ inOrder(Values(p)[13], Values(p)[14])
      /\ Suitable(p) /\ Len(from) <= MaxPermitBytes
  BY Accepted
<1>2. from \in Seq(Byte) /\ from = Written(p)[16]
  BY <1>1, EncodingType, Writing
<1> HIDE DEF from
<1>3. Len(from) \in Nat /\ MaxPermitBytes \in Nat /\ ~(Len(from) > MaxPermitBytes)
  BY <1>1, <1>2, ConstantsAssumption
<1>4. At(from, 0, from)
  BY <1>3 DEF At
<1>5. Readers(from)[16] = Reading(Values(p), Len(from))
  BY <1>1, <1>2, <1>4, ReadsBack DEF Suitable
<1>6. end(from, Reading(Values(p), Len(from))) = Reading(Values(p), Len(from))
  BY <1>1 DEF end, Reading
<1>7. decodePermit(from) = Reading(Values(p), Len(from))
  BY <1>2, <1>3, <1>5, <1>6, ReadingOn
<1> QED
  BY <1>1, <1>2, <1>7, ValuesOfPermit DEF from

\* What decodePermit reads, encodePermit would write: these bytes, and no others.
LEMMA ReadEncodes ==
  ASSUME NEW from \in Seq(Byte), decodePermit(from).error = "none"
  PROVE  \E vs : /\ decodePermit(from) = Reading(vs, Len(from))
                 /\ refusal(ofValues(vs)) = "none"
                 /\ bytesOf(ofValues(vs)) = from
<1> DEFINE r == Readers(from)[16]
<1>1. decodePermit(from) = end(from, r) /\ ~(Len(from) > MaxPermitBytes)
  BY ReadingOn, ReaderErrors DEF Failures
<1>2. /\ r.error = "none" /\ r.offset = Len(from)
      /\ inOrder(r.values[13], r.values[14]) /\ decodePermit(from) = r
  BY <1>1 DEF end, Refused, DecodingFailed
<1>3. PICK vs : FieldsAre(from, 16, vs)
  BY <1>2, WritesBack
<1>4. /\ vs \in Seq(AnyValue) /\ Len(vs) = 16
      /\ \A k \in 1..16 : vs[k] \in ValuesOf(Layout[k]) /\ suits(Layout[k], vs[k])
  BY <1>3 DEF FieldsAre
<1>5. PICK o \in 0..Len(from) :
        /\ r = Reading(vs, o)
        /\ \A p \in PermitV1 : (\A k \in 1..16 : Values(p)[k] = vs[k]) =>
             At(from, 0, Written(p)[16]) /\ o = Len(Written(p)[16])
  BY <1>3 DEF FieldsAre
<1> DEFINE p == ofValues(vs)
<1>6. p \in PermitV1 /\ Values(p) = vs
  BY <1>4, PermitOfValues
<1>7. o = Len(from) /\ inOrder(vs[13], vs[14])
  BY <1>2, <1>5, ReaderErrors
<1>8. /\ p.version = 1 /\ p.domain = 1 /\ p.midnightNetwork = 1 /\ contextMatches(p)
  BY DEF ofValues, contextMatches
<1> HIDE DEF p, r
<1>9. At(from, 0, Written(p)[16]) /\ Len(from) = Len(Written(p)[16])
  BY <1>5, <1>6, <1>7
<1>10. Written(p)[16] \in Seq(Nat) /\ bytesOf(p) = Written(p)[16]
  <2>1. 16 \in 0..16
    OBVIOUS
  <2> QED
    BY <1>6, <2>1, Writing
<1>11. from = bytesOf(p)
  <2> DEFINE s == Written(p)[16]
  <2>1. s \in Seq(Nat) /\ At(from, 0, s) /\ Len(s) = Len(from)
    BY <1>9, <1>10
  <2> HIDE DEF s
  <2>2. from = s
    BY <2>1, AtWhole
  <2> QED
    BY <1>10, <2>2 DEF s
<1>12. Len(bytesOf(p)) <= MaxPermitBytes
  <2>1. Len(from) \in Nat /\ MaxPermitBytes \in Nat
    BY ConstantsAssumption
  <2> QED
    BY <1>1, <1>11, <2>1
<1>13. refusal(p) = "none"
  <2>1. Suitable(p)
    BY <1>4, <1>6 DEF Suitable
  <2> QED
    BY <1>6, <1>7, <1>8, <1>12, <2>1, Accepted
<1> QED
  BY <1>2, <1>5, <1>7, <1>11, <1>13 DEF p

\* decodePermit fails with the code of an error and nothing else.
LEMMA ReadFails ==
  ASSUME NEW from \in Seq(Byte), decodePermit(from).error # "none"
  PROVE  /\ decodePermit(from).values = <<>>
         /\ decodePermit(from).error # "unread"
<1> DEFINE r == Readers(from)[16]
<1>1. r \in Failures \union Readings(from)
  BY ReadingOn
<1>2. /\ \A x \in Failures : x.error # "none" /\ x.error # "unread" /\ x.values = <<>>
      /\ \A x \in Readings(from) : x.error = "none"
      /\ DecodingFailed \in Failures
  BY DEF Failures, Readings, Reading, DecodingFailed, Refused
<1>3. \/ decodePermit(from) \in Failures
      \/ decodePermit(from) = Refused("NP_PERMIT_TRAILING_DATA")
      \/ decodePermit(from) = r
  BY <1>2, ReadingOn DEF end
<1> HIDE DEF r
<1> QED
  BY <1>1, <1>2, <1>3 DEF Refused

-----------------------------------------------------------------------------
(* decode of the validator, step by step beside decodePermit.               *)

\* The cursor of the validator where decodePermit has a reader.
cursorOf(from, reader) ==
    IF reader.error = "none" THEN Cursor(from, reader.offset, reader.values) ELSE Fail

LEMMA Cursors ==
  ASSUME NEW from
  PROVE  /\ \A r \in Failures : cursorOf(from, r) = Fail
         /\ \A o, vs : cursorOf(from, Reading(vs, o)) = Cursor(from, o, vs)
         /\ DecodingFailed \in Failures
BY DEF cursorOf, Failures, DecodingFailed, Refused, Reading

LEMMA CursorParts ==
  /\ ~Fail.ok
  /\ \A from, o, vs : /\ Cursor(from, o, vs).ok
                      /\ Cursor(from, o, vs).bytes = from
                      /\ Cursor(from, o, vs).offset = o
                      /\ Cursor(from, o, vs).taken = vs
BY DEF Fail, Cursor

\* The cursor has taken x, after vs.
Pushed(c, from, o, vs, x) ==
    vs \in Seq(AnyValue) /\ x \in AnyValue /\ c = Cursor(from, o, Append(vs, x))

LEMMA Stack ==
  ASSUME NEW c, NEW from, NEW o, NEW vs, NEW x, Pushed(c, from, o, vs, x)
  PROVE  /\ c.ok /\ top(c) = x
         /\ dropped(c) = Cursor(from, o, vs)
         /\ \A v : turned(c, v) = Cursor(from, o, Append(vs, v))
<1> DEFINE s == Append(vs, x)
<1>0. vs \in Seq(AnyValue) /\ x \in AnyValue /\ c = Cursor(from, o, s)
  BY DEF Pushed
<1>1. s \in Seq(AnyValue) /\ Len(s) = Len(vs) + 1 /\ s[Len(s)] = x
  BY <1>0, AppendProperties
<1>2. \A k \in 1..Len(vs) : s[k] = vs[k]
  BY <1>0, AppendProperties
<1>3. Len(vs) \in Nat
  BY <1>0
<1> HIDE DEF s
<1>4. SubSeq(s, 1, Len(s) - 1) = vs
  <2>1. Len(s) - 1 = Len(vs)
    BY <1>1, <1>3
  <2>2. \A k \in 1..Len(vs) : s[k] \in AnyValue
    BY <1>0, <1>2, ElementOfSeq
  <2>3. /\ SubSeq(s, 1, Len(vs)) \in Seq(AnyValue)
        /\ Len(SubSeq(s, 1, Len(vs))) = Len(vs)
        /\ \A k \in 1..Len(vs) : SubSeq(s, 1, Len(vs))[k] = s[k]
    BY <1>3, <2>2
  <2> DEFINE t == SubSeq(s, 1, Len(vs))
  <2>4. t = vs
    <3>1. t \in Seq(AnyValue) /\ Len(t) = Len(vs) /\ \A k \in 1..Len(t) : t[k] = vs[k]
      BY <1>2, <2>3
    <3> HIDE DEF t
    <3> QED
      BY <1>0, <3>1, SeqEqual
  <2> QED
    BY <2>1, <2>4
<1>5. Front(s) = vs /\ Last(s) = x
  BY <1>1, <1>4 DEF Front, Last
<1>6. c.ok /\ c.bytes = from /\ c.offset = o /\ c.taken = s
  BY <1>0, CursorParts
<1> QED
  BY <1>5, <1>6 DEF top, dropped, turned

LEMMA TakesBytes ==
  ASSUME NEW from, NEW o, NEW vs, NEW n
  PROVE  /\ take_bytes(Fail, n) = Fail
         /\ take_bytes(Cursor(from, o, vs), n) =
              IF o + n <= Len(from) THEN Cursor(from, o + n, Append(vs, slice(from, o, n)))
              ELSE Fail
<1> DEFINE c == Cursor(from, o, vs)
           d == Cursor(from, o + n, Append(vs, slice(from, o, n)))
<1>1. c.ok /\ c.bytes = from /\ c.offset = o /\ c.taken = vs /\ ~Fail.ok
  BY CursorParts
<1>2. d = Cursor(c.bytes, c.offset + n, Append(c.taken, slice(c.bytes, c.offset, n)))
  BY <1>1
<1> HIDE DEF c, d
<1>3. take_bytes(Fail, n) = Fail
  BY <1>1 DEF take_bytes
<1>4. ASSUME o + n <= Len(from) PROVE take_bytes(c, n) = d
  <2>1. c.ok /\ c.offset + n <= Len(c.bytes)
    BY <1>1, <1>4
  <2> QED
    BY <1>2, <2>1 DEF take_bytes
<1>5. ASSUME ~(o + n <= Len(from)) PROVE take_bytes(c, n) = Fail
  <2>1. ~(c.offset + n <= Len(c.bytes))
    BY <1>1, <1>5
  <2> QED
    BY <2>1 DEF take_bytes
<1>6. take_bytes(c, n) = IF o + n <= Len(from) THEN d ELSE Fail
  BY <1>4, <1>5
<1> QED
  BY <1>3, <1>6 DEF c, d

LEMMA SliceValues ==
  ASSUME NEW from \in Seq(Byte), NEW o \in Nat, NEW n \in Nat, o + n <= Len(from)
  PROVE  slice(from, o, n) \in AnyValue /\ readInt(slice(from, o, n)) \in AnyValue
<1>1. slice(from, o, n) \in Seq(Byte)
  BY Slices
<1>2. readInt(slice(from, o, n)) \in Int
  <2> DEFINE d == slice(from, o, n)
  <2>1. Len(d) \in Nat /\ d \in Seq(Byte)
    BY <1>1
  <2> HIDE DEF d
  <2>2. pow[Len(d)] \in Nat
    BY <2>1, Powers
  <2>3. readInt(d) \in 0..(pow[Len(d)] - 1)
    BY <2>1, IntegerWrittenBack
  <2> QED
    BY <2>2, <2>3 DEF d
<1> QED
  BY <1>1, <1>2 DEF AnyValue, Text

LEMMA TakesInt ==
  ASSUME NEW from \in Seq(Byte), NEW o \in Nat, NEW vs \in Seq(AnyValue), NEW n \in Nat
  PROVE  /\ take_int(Fail, n) = Fail
         /\ take_int(Cursor(from, o, vs), n) =
              IF o + n <= Len(from)
              THEN Cursor(from, o + n, Append(vs, readInt(slice(from, o, n))))
              ELSE Fail
<1>1. take_int(Fail, n) = Fail
  BY TakesBytes, CursorParts DEF take_int
<1>2. CASE o + n <= Len(from)
  <2> DEFINE x == slice(from, o, n)
  <2>1. take_bytes(Cursor(from, o, vs), n) = Cursor(from, o + n, Append(vs, x))
    BY <1>2, TakesBytes
  <2>2. x \in AnyValue
    BY <1>2, SliceValues
  <2> DEFINE next == take_bytes(Cursor(from, o, vs), n)
             q == o + n
  <2>3. next = Cursor(from, q, Append(vs, x))
    BY <2>1
  <2>4. take_int(Cursor(from, o, vs), n) =
          IF next.ok THEN turned(next, readInt(top(next))) ELSE Fail
    BY DEF take_int
  <2> HIDE DEF x, q, next
  <2>5. Pushed(next, from, q, vs, x)
    BY <2>2, <2>3 DEF Pushed
  <2>6. /\ next.ok /\ top(next) = x
        /\ turned(next, readInt(x)) = Cursor(from, q, Append(vs, readInt(x)))
    BY <2>5, Stack
  <2>9. take_int(Cursor(from, o, vs), n) = Cursor(from, q, Append(vs, readInt(x)))
    BY <2>4, <2>6
  <2> QED
    BY <1>1, <1>2, <2>9 DEF x, q
<1>3. CASE ~(o + n <= Len(from))
  <2> DEFINE next == take_bytes(Cursor(from, o, vs), n)
  <2>1. next = Fail
    BY <1>3, TakesBytes
  <2>2. take_int(Cursor(from, o, vs), n) =
          IF next.ok THEN turned(next, readInt(top(next))) ELSE Fail
    BY DEF take_int
  <2> HIDE DEF next
  <2>3. take_int(Cursor(from, o, vs), n) = Fail
    BY <2>1, <2>2, CursorParts
  <2> QED
    BY <1>1, <1>3, <2>3
<1> QED
  BY <1>2, <1>3

\* A marker or a length.
LEMMA TakesByte ==
  ASSUME NEW from \in Seq(Byte), NEW o \in 0..Len(from), NEW vs \in Seq(AnyValue)
  PROVE  /\ o < Len(from) =>
              /\ from[o + 1] \in Byte /\ from[o + 1] \in Nat /\ from[o + 1] \in AnyValue
              /\ take_int(Cursor(from, o, vs), 1) = Cursor(from, o + 1, Append(vs, from[o + 1]))
         /\ ~(o < Len(from)) => take_int(Cursor(from, o, vs), 1) = Fail
<1>1. /\ o \in Nat /\ Len(from) \in Nat /\ 1 \in Nat
      /\ o < Len(from) <=> o + 1 <= Len(from)
  OBVIOUS
<1>2. ASSUME o < Len(from)
      PROVE  /\ from[o + 1] \in Byte /\ from[o + 1] \in Nat /\ from[o + 1] \in AnyValue
             /\ readInt(slice(from, o, 1)) = from[o + 1]
  <2>1. o + 1 \in 1..Len(from)
    BY <1>1, <1>2
  <2>2. from[o + 1] \in Byte /\ from[o + 1] \in Nat
    BY <2>1, BytesType
  <2>3. /\ slice(from, o, 1) \in Seq(Byte) /\ Len(slice(from, o, 1)) = 1
        /\ slice(from, o, 1)[1] = from[o + 1]
    <3>1. /\ slice(from, o, 1) \in Seq(Byte) /\ Len(slice(from, o, 1)) = 1
          /\ \A k \in 1..1 : slice(from, o, 1)[k] = from[o + k]
      BY <1>1, <1>2, Slices
    <3> QED
      BY <3>1
  <2> DEFINE s == slice(from, o, 1)
             b == from[o + 1]
  <2>4. s = <<b>>
    <3>1. s \in Seq(Byte) /\ Len(s) = 1 /\ s[1] = b
      BY <2>3
    <3> HIDE DEF s, b
    <3> QED
      BY <3>1
  <2>5. readInt(<<b>>) = b
    BY <2>2, ReadByte
  <2> QED
    BY <2>2, <2>4, <2>5 DEF AnyValue
<1> QED
  BY <1>1, <1>2, TakesInt

LEMMA TakesFixed ==
  ASSUME NEW from \in Seq(Byte), NEW r \in Failures \union Readings(from), NEW field \in Fields,
         field.kind = "fixed"
  PROVE  take_bytes(cursorOf(from, r), field.size) = cursorOf(from, readField(from, r, field))
<1>1. CASE r \in Failures
  BY <1>1, Cursors, ReaderErrors, ReadFieldType, TakesBytes
<1>2. CASE r \in Readings(from)
  <2>1. PICK vs \in Seq(AnyValue), o \in 0..Len(from) : r = Reading(vs, o)
    BY <1>2 DEF Readings
  <2> DEFINE n == field.size
             longer == Reading(Append(vs, slice(from, o, n)), o + n)
  <2>2. readField(from, r, field) = IF o + n <= Len(from) THEN longer ELSE DecodingFailed
    BY <2>1, ReadsFixed
  <2>3. cursorOf(from, longer) = Cursor(from, o + n, Append(vs, slice(from, o, n)))
    BY Cursors
  <2>4. take_bytes(cursorOf(from, r), n) =
          IF o + n <= Len(from) THEN cursorOf(from, longer) ELSE Fail
    BY <2>1, <2>3, Cursors, TakesBytes
  <2> HIDE DEF n, longer
  <2>5. take_bytes(cursorOf(from, r), n) = cursorOf(from, readField(from, r, field))
    BY <2>2, <2>4, Cursors
  <2> QED
    BY <2>5 DEF n
<1> QED
  BY <1>1, <1>2

LEMMA TakesInteger ==
  ASSUME NEW from \in Seq(Byte), NEW r \in Failures \union Readings(from), NEW field \in Fields,
         field.kind = "integer"
  PROVE  take_int(cursorOf(from, r), field.size) = cursorOf(from, readField(from, r, field))
<1>1. field.size \in Nat
  BY FieldKinds
<1>2. CASE r \in Failures
  <2>1. take_int(Fail, field.size) = Fail
    BY TakesBytes, CursorParts DEF take_int
  <2> QED
    BY <1>2, <2>1, Cursors, ReaderErrors, ReadFieldType
<1>3. CASE r \in Readings(from)
  <2>1. PICK vs \in Seq(AnyValue), o \in 0..Len(from) : r = Reading(vs, o)
    BY <1>3 DEF Readings
  <2>2. o \in Nat
    OBVIOUS
  <2> DEFINE n == field.size
             x == readInt(slice(from, o, n))
             longer == Reading(Append(vs, x), o + n)
  <2>3. readField(from, r, field) = IF o + n <= Len(from) THEN longer ELSE DecodingFailed
    BY <2>1, ReadsInteger
  <2>4. cursorOf(from, longer) = Cursor(from, o + n, Append(vs, x))
    BY Cursors
  <2>5. take_int(Cursor(from, o, vs), n) =
          IF o + n <= Len(from) THEN Cursor(from, o + n, Append(vs, x)) ELSE Fail
    BY <1>1, <2>2, TakesInt
  <2>6. cursorOf(from, r) = Cursor(from, o, vs)
    BY <2>1, Cursors
  <2> HIDE DEF n, longer, x
  <2>7. take_int(cursorOf(from, r), n) = cursorOf(from, readField(from, r, field))
    BY <2>3, <2>4, <2>5, <2>6, Cursors
  <2> QED
    BY <2>7 DEF n
<1> QED
  BY <1>2, <1>3

LEMMA TakesOptional ==
  ASSUME NEW from \in Seq(Byte), NEW r \in Failures \union Readings(from), NEW field \in Fields,
         field.kind = "optional"
  PROVE  take_optional_int(cursorOf(from, r), field.size) =
           cursorOf(from, readField(from, r, field))
<1>1. field.size \in Nat
  BY FieldKinds
<1> DEFINE n == field.size
<1>2. CASE r \in Failures
  <2>1. take_int(Fail, 1) = Fail
    BY TakesBytes, CursorParts DEF take_int
  <2>2. take_optional_int(Fail, n) = Fail
    BY <2>1, CursorParts DEF take_optional_int
  <2> QED
    BY <1>2, <2>2, Cursors, ReaderErrors, ReadFieldType
<1>3. CASE r \in Readings(from)
  <2>1. PICK vs \in Seq(AnyValue), o \in 0..Len(from) : r = Reading(vs, o)
    BY <1>3 DEF Readings
  <2> DEFINE c == Cursor(from, o, vs)
             marker == take_int(c, 1)
             after == take_int(dropped(marker), n)
             b == from[o + 1]
             x == readInt(slice(from, o + 1, n))
  <2>2. take_optional_int(c, n) =
          CASE marker.ok /\ top(marker) = 0 -> turned(marker, <<>>)
            [] marker.ok /\ top(marker) = 1 /\ after.ok -> turned(after, <<top(after)>>)
            [] OTHER -> Fail
    BY DEF take_optional_int
  <2>3. CASE ~(o < Len(from))
    <3>1. marker = Fail
      BY <2>3, TakesByte
    <3> HIDE DEF marker, c
    <3>2. take_optional_int(c, n) = Fail
      BY <2>2, <3>1, CursorParts
    <3>3. readField(from, Reading(vs, o), field) = DecodingFailed
      BY <2>3, ReadsOptional
    <3> QED
      BY <2>1, <3>2, <3>3, Cursors DEF c
  <2>4. CASE o < Len(from)
    <3>1. b \in AnyValue /\ marker = Cursor(from, o + 1, Append(vs, b))
      BY <2>4, TakesByte
    <3>2. /\ marker.ok /\ top(marker) = b /\ dropped(marker) = Cursor(from, o + 1, vs)
          /\ turned(marker, <<>>) = Cursor(from, o + 1, Append(vs, <<>>))
      <4> HIDE DEF b, marker
      <4>1. Pushed(marker, from, o + 1, vs, b)
        BY <3>1 DEF Pushed
      <4> QED
        BY <4>1, Stack
    <3>3. o + 1 \in Nat
      OBVIOUS
    <3> DEFINE q == o + 1
               y == readInt(slice(from, q, n))
    <3>4a. take_int(Cursor(from, q, vs), n) =
            IF q + n <= Len(from) THEN Cursor(from, q + n, Append(vs, y)) ELSE Fail
      <4> HIDE DEF q
      <4> QED
        BY <1>1, <3>3, TakesInt DEF q
    <3>4. after = IF o + 1 + n <= Len(from) THEN Cursor(from, o + 1 + n, Append(vs, x)) ELSE Fail
      BY <3>2, <3>4a
    <3> HIDE DEF marker, after
    <3>5. CASE b = 0
      <4>1. take_optional_int(c, n) = Cursor(from, o + 1, Append(vs, <<>>))
        <5> HIDE DEF c, b
        <5> QED
          BY <2>2, <3>2, <3>5
      <4>2. readField(from, Reading(vs, o), field) = Reading(Append(vs, <<>>), o + 1)
        BY <2>4, <3>5, ReadsOptional
      <4> QED
        BY <2>1, <4>1, <4>2, Cursors
    <3>6. CASE b = 1 /\ o + 1 + n <= Len(from)
      <4>1. x \in AnyValue
        BY <1>1, <3>3, <3>6, SliceValues
      <4>2. /\ after.ok /\ top(after) = x
            /\ turned(after, <<x>>) = Cursor(from, o + 1 + n, Append(vs, <<x>>))
        <5> DEFINE p == o + 1 + n
        <5>1. after = Cursor(from, p, Append(vs, x))
          BY <3>4, <3>6
        <5> HIDE DEF x, p
        <5>2. Pushed(after, from, p, vs, x)
          BY <4>1, <5>1 DEF Pushed
        <5>3. after.ok /\ top(after) = x /\ turned(after, <<x>>) = Cursor(from, p, Append(vs, <<x>>))
          BY <5>2, Stack
        <5> QED
          BY <5>3 DEF p
      <4>3. take_optional_int(c, n) = Cursor(from, o + 1 + n, Append(vs, <<x>>))
        <5> HIDE DEF c, b, x
        <5> QED
          BY <2>2, <3>2, <3>6, <4>2
      <4>4. readField(from, Reading(vs, o), field) = Reading(Append(vs, <<x>>), o + 1 + n)
        BY <2>4, <3>6, ReadsOptional
      <4> QED
        BY <2>1, <4>3, <4>4, Cursors
    <3>7. CASE b # 0 /\ ~(b = 1 /\ o + 1 + n <= Len(from))
      <4>1. take_optional_int(c, n) = Fail
        <5>1. ~(b = 1 /\ after.ok)
          BY <3>4, <3>7, CursorParts
        <5> HIDE DEF c, b, x
        <5> QED
          BY <2>2, <3>2, <3>7, <5>1
      <4>2. readField(from, Reading(vs, o), field) = DecodingFailed
        BY <2>4, <3>7, ReadsOptional
      <4> QED
        BY <2>1, <4>1, <4>2, Cursors
    <3> QED
      BY <3>5, <3>6, <3>7
  <2> QED
    BY <2>3, <2>4
<1> QED
  BY <1>2, <1>3

LEMMA TakesCounted ==
  ASSUME NEW from \in Seq(Byte), NEW r \in Failures \union Readings(from), NEW field \in Fields,
         field.kind = "counted"
  PROVE  take_counted(cursorOf(from, r), field.lengths) =
           cursorOf(from, readField(from, r, field))
<1> DEFINE lengths == field.lengths
<1>1. CASE r \in Failures
  <2>1. take_int(Fail, 1) = Fail
    BY TakesBytes, CursorParts DEF take_int
  <2>2. take_counted(Fail, lengths) = Fail
    BY <2>1, CursorParts DEF take_counted
  <2> QED
    BY <1>1, <2>2, Cursors, ReaderErrors, ReadFieldType
<1>2. CASE r \in Readings(from)
  <2>1. PICK vs \in Seq(AnyValue), o \in 0..Len(from) : r = Reading(vs, o)
    BY <1>2 DEF Readings
  <2> DEFINE c == Cursor(from, o, vs)
             length == take_int(c, 1)
             b == from[o + 1]
  <2>2. take_counted(c, lengths) = IF length.ok /\ top(length) \in lengths
                                   THEN take_bytes(dropped(length), top(length)) ELSE Fail
    BY DEF take_counted
  <2>3. CASE ~(o < Len(from))
    <3>1. length = Fail
      BY <2>3, TakesByte
    <3> HIDE DEF length, c
    <3>2. take_counted(c, lengths) = Fail
      BY <2>2, <3>1, CursorParts
    <3>3. readField(from, Reading(vs, o), field) = DecodingFailed
      BY <2>3, ReadsCounted
    <3> QED
      BY <2>1, <3>2, <3>3, Cursors DEF c
  <2>4. CASE o < Len(from)
    <3>1. b \in AnyValue /\ length = Cursor(from, o + 1, Append(vs, b))
      BY <2>4, TakesByte
    <3>2. length.ok /\ top(length) = b /\ dropped(length) = Cursor(from, o + 1, vs)
      <4> HIDE DEF b, length
      <4>1. Pushed(length, from, o + 1, vs, b)
        BY <3>1 DEF Pushed
      <4> QED
        BY <4>1, Stack
    <3>3. take_bytes(Cursor(from, o + 1, vs), b) =
            IF o + 1 + b <= Len(from)
            THEN Cursor(from, o + 1 + b, Append(vs, slice(from, o + 1, b))) ELSE Fail
      BY TakesBytes
    <3> HIDE DEF length
    <3>4. take_counted(c, lengths) =
            IF b \in lengths /\ o + 1 + b <= Len(from)
            THEN Cursor(from, o + 1 + b, Append(vs, slice(from, o + 1, b))) ELSE Fail
      <4> HIDE DEF c, b
      <4> QED
        BY <2>2, <3>2, <3>3
    <3>5. readField(from, Reading(vs, o), field) =
            IF b \in lengths /\ o + 1 + b <= Len(from)
            THEN Reading(Append(vs, slice(from, o + 1, b)), o + 1 + b) ELSE DecodingFailed
      BY <2>4, ReadsCounted
    <3> HIDE DEF b
    <3> QED
      BY <2>1, <3>4, <3>5, Cursors
  <2> QED
    BY <2>3, <2>4
<1> QED
  BY <1>1, <1>2

-----------------------------------------------------------------------------
(* The two readers.                                                         *)

LEMMA Expects ==
  ASSUME NEW from \in Seq(Byte), NEW o \in Nat, NEW vs \in Seq(AnyValue), NEW n \in Nat, NEW v
  PROVE  /\ expect_int(Fail, n, v) = Fail
         /\ expect_int(Cursor(from, o, vs), n, v) =
              IF o + n <= Len(from) /\ readInt(slice(from, o, n)) = v
              THEN Cursor(from, o + n, vs) ELSE Fail
<1>1. expect_int(Fail, n, v) = Fail
  <2>1. take_int(Fail, n) = Fail
    BY TakesInt
  <2> QED
    BY <2>1, CursorParts DEF expect_int
<1> DEFINE next == take_int(Cursor(from, o, vs), n)
           x == readInt(slice(from, o, n))
           q == o + n
<1>2. expect_int(Cursor(from, o, vs), n, v) =
        IF next.ok /\ top(next) = v THEN dropped(next) ELSE Fail
  BY DEF expect_int
<1>3. next = IF q <= Len(from) THEN Cursor(from, q, Append(vs, x)) ELSE Fail
  BY TakesInt
<1>4. q <= Len(from) => x \in AnyValue
  BY SliceValues
<1> HIDE DEF next, x, q
<1>5. q <= Len(from) => next.ok /\ top(next) = x /\ dropped(next) = Cursor(from, q, vs)
  <2> SUFFICES ASSUME q <= Len(from)
               PROVE  next.ok /\ top(next) = x /\ dropped(next) = Cursor(from, q, vs)
    OBVIOUS
  <2>1. Pushed(next, from, q, vs, x)
    BY <1>3, <1>4 DEF Pushed
  <2> QED
    BY <2>1, Stack
<1>6. ~(q <= Len(from)) => ~next.ok
  BY <1>3, CursorParts
<1>7. expect_int(Cursor(from, o, vs), n, v) =
        IF q <= Len(from) /\ x = v THEN Cursor(from, q, vs) ELSE Fail
  BY <1>2, <1>5, <1>6
<1> QED
  BY <1>1, <1>7 DEF x, q

\* An integer is read where it would be written, and nowhere else.
LEMMA ExpectsWritten ==
  ASSUME NEW from \in Seq(Byte), NEW o \in Nat, NEW vs \in Seq(AnyValue), NEW n \in Nat,
         NEW v \in 0..(pow[n] - 1)
  PROVE  expect_int(Cursor(from, o, vs), n, v) =
           IF At(from, o, writeInt(v, n)) THEN Cursor(from, o + n, vs) ELSE Fail
<1> DEFINE w == writeInt(v, n)
           s == slice(from, o, n)
<1>1. v \in Int
  <2>1. pow[n] \in Nat
    BY Powers
  <2> QED
    BY <2>1
<1>2. w \in Seq(Nat) /\ Len(w) = n /\ readInt(w) = v
  BY <1>1, WrittenType, TextIsNatural, IntegerReadBack
<1>3. ASSUME o + n <= Len(from)
      PROVE  s \in Seq(Byte) /\ Len(s) = n /\ writeInt(readInt(s), n) = s /\ At(from, o, s)
  <2>1. s \in Seq(Byte) /\ Len(s) = n /\ At(from, o, s)
    BY <1>3, Slices, SliceIsAt
  <2> HIDE DEF s
  <2> QED
    BY <2>1, IntegerWrittenBack
<1>4. ASSUME At(from, o, w) PROVE o + n <= Len(from) /\ s = w
  <2>1. o + n <= Len(from)
    BY <1>2, <1>4 DEF At
  <2>2. slice(from, o, Len(w)) = w
    <3> HIDE DEF w
    <3> QED
      BY <1>2, <1>4, SliceAt
  <2> QED
    BY <1>2, <2>1, <2>2
<1>5. At(from, o, w) <=> o + n <= Len(from) /\ readInt(s) = v
  <2>1. ASSUME o + n <= Len(from), readInt(s) = v PROVE At(from, o, w)
    BY <1>3, <2>1
  <2> QED
    BY <1>2, <1>4, <2>1
<1> HIDE DEF w
<1>6. expect_int(Cursor(from, o, vs), n, v) =
        IF o + n <= Len(from) /\ readInt(s) = v THEN Cursor(from, o + n, vs) ELSE Fail
  BY Expects
<1> HIDE DEF s
<1> QED
  BY <1>5, <1>6 DEF w

\* The version, the domain and the network.
LEMMA ExpectsOne ==
  ASSUME NEW from \in Seq(Byte), NEW o \in Nat, NEW vs \in Seq(AnyValue)
  PROVE  expect_int(Cursor(from, o, vs), 1, 1) =
           IF At(from, o, <<1>>) THEN Cursor(from, o + 1, vs) ELSE Fail
<1>1. <<1>> \in Seq(Byte) /\ Len(<<1>>) = 1 /\ readInt(<<1>>) = 1
  BY ConstantsAssumption, ReadByte DEF Byte
<1>2. 1 \in 0..(pow[1] - 1) /\ writeInt(1, 1) = <<1>>
  <2> DEFINE d == <<1>>
  <2>1. d \in Seq(Byte) /\ Len(d) = 1 /\ readInt(d) = 1
    BY <1>1
  <2> HIDE DEF d
  <2>2. readInt(d) \in 0..(pow[Len(d)] - 1) /\ writeInt(readInt(d), Len(d)) = d
    BY <2>1, IntegerWrittenBack
  <2> QED
    BY <2>1, <2>2 DEF d
<1>3. 1 \in Nat
  OBVIOUS
<1> QED
  BY <1>2, <1>3, ExpectsWritten

LEMMA Ones ==
  ASSUME NEW from \in Seq(Byte), NEW o \in Nat
  PROVE  At(from, o, <<1, 1, 1>>) <=>
           At(from, o, <<1>>) /\ At(from, o + 1, <<1>>) /\ At(from, o + 1 + 1, <<1>>)
<1>1. Len(from) \in Nat
  OBVIOUS
<1>2. \A a \in Nat : At(from, a, <<1>>) <=> a + 1 <= Len(from) /\ from[a + 1] = 1
  <2>1. Len(<<1>>) = 1 /\ 1..1 = {1} /\ <<1>>[1] = 1
    OBVIOUS
  <2> QED
    BY <2>1 DEF At
<1>3. At(from, o, <<1, 1, 1>>) <=>
        o + 3 <= Len(from) /\ from[o + 1] = 1 /\ from[o + 2] = 1 /\ from[o + 3] = 1
  <2> DEFINE w == <<1, 1, 1>>
  <2>1. Len(w) = 3 /\ 1..3 = {1, 2, 3} /\ w[1] = 1 /\ w[2] = 1 /\ w[3] = 1
    OBVIOUS
  <2> HIDE DEF w
  <2>2. At(from, o, w) <=> o + 3 <= Len(from) /\ \A k \in {1, 2, 3} : from[o + k] = w[k]
    BY <2>1 DEF At
  <2> QED
    BY <2>1, <2>2 DEF w
<1>4. o + 1 + 1 = o + 2 /\ o + 2 + 1 = o + 3 /\ o + 1 \in Nat /\ o + 2 \in Nat
  OBVIOUS
<1>5. /\ At(from, o, <<1>>) <=> o + 1 <= Len(from) /\ from[o + 1] = 1
      /\ At(from, o + 1, <<1>>) <=> o + 2 <= Len(from) /\ from[o + 2] = 1
      /\ At(from, o + 1 + 1, <<1>>) <=> o + 3 <= Len(from) /\ from[o + 3] = 1
  BY <1>2, <1>4
<1> QED
  BY <1>1, <1>3, <1>4, <1>5

LEMMA TakesHeader ==
  ASSUME NEW from \in Seq(Byte)
  PROVE  /\ take_header(Fail) = Fail
         /\ take_header(Cursor(from, 0, <<>>)) = cursorOf(from, readHeader(from))
<1> DEFINE known(c) == IF c.ok /\ top(c) = Magic THEN dropped(c) ELSE Fail
           rest(c) == expect_int(expect_int(expect_int(expect_int(c, 1, 1), 1, 1), 1, 1),
                                 U32, CardanoMagic)
           n == Len(Magic)
           start == Cursor(from, 0, <<>>)
<1>0. /\ U32 \in Nat /\ n \in Nat /\ Magic \in Seq(Nat) /\ 1 \in Nat /\ Len(from) \in Nat
      /\ CardanoMagic \in 0..(pow[U32] - 1) /\ Magic \in Seq(Byte) /\ <<>> \in Seq(AnyValue)
  BY ConstantsAssumption, TextIsNatural
<1>1. \A c : take_header(c) = rest(known(take_bytes(c, n)))
  BY DEF take_header
<1>2. rest(Fail) = Fail
  <2>1. \A v : \A m \in Nat : expect_int(Fail, m, v) = Fail
    <3>1. ASSUME NEW m \in Nat, NEW v PROVE expect_int(Fail, m, v) = Fail
      <4>1. take_int(Fail, m) = Fail
        BY TakesBytes, CursorParts DEF take_int
      <4> QED
        BY <4>1, CursorParts DEF expect_int
    <3> QED
      BY <3>1
  <2> QED
    BY <1>0, <2>1
<1>3. take_header(Fail) = Fail
  <2>1. take_bytes(Fail, n) = Fail
    BY TakesBytes
  <2>2. known(Fail) = Fail
    BY CursorParts
  <2> HIDE DEF known, rest
  <2> QED
    BY <1>1, <1>2, <2>1, <2>2
<1>4. known(take_bytes(start, n)) = IF At(from, 0, Magic) THEN Cursor(from, n, <<>>) ELSE Fail
  <2> DEFINE magic == take_bytes(start, n)
             x == slice(from, 0, n)
  <2>1. magic = IF n <= Len(from) THEN Cursor(from, n, Append(<<>>, x)) ELSE Fail
    <3>1. 0 + n = n
      BY <1>0
    <3> QED
      BY <3>1, TakesBytes
  <2>2. n <= Len(from) => x \in AnyValue
    <3>1. 0 \in Nat /\ 0 + n = n
      BY <1>0
    <3> QED
      BY <1>0, <3>1, SliceValues
  <2>3. At(from, 0, Magic) <=> n <= Len(from) /\ x = Magic
    BY <1>0, StartsWith
  <2> HIDE DEF magic, x, n
  <2>4. CASE n <= Len(from)
    <3>1. Pushed(magic, from, n, <<>>, x)
      BY <1>0, <2>1, <2>2, <2>4 DEF Pushed
    <3>2. magic.ok /\ top(magic) = x /\ dropped(magic) = Cursor(from, n, <<>>)
      BY <3>1, Stack
    <3>3. known(magic) = IF At(from, 0, Magic) THEN Cursor(from, n, <<>>) ELSE Fail
      BY <2>3, <2>4, <3>2
    <3> QED
      BY <3>3 DEF magic
  <2>5. CASE ~(n <= Len(from))
    <3>1. known(magic) = Fail
      BY <2>1, <2>5, CursorParts
    <3> QED
      BY <2>3, <2>5, <3>1 DEF magic
  <2> QED
    BY <2>4, <2>5
<1>5. rest(Cursor(from, n, <<>>)) =
        IF At(from, n, <<1, 1, 1>>) /\ At(from, n + 3, writeInt(CardanoMagic, U32))
        THEN Cursor(from, n + 3 + U32, <<>>) ELSE Fail
  <2> HIDE DEF n
  <2> DEFINE vs == <<>>
             e1 == expect_int(Cursor(from, n, vs), 1, 1)
             e2 == expect_int(e1, 1, 1)
             e3 == expect_int(e2, 1, 1)
             e4 == expect_int(e3, U32, CardanoMagic)
  <2>1. /\ n \in Nat /\ n + 1 \in Nat /\ n + 1 + 1 \in Nat /\ n + 3 \in Nat
        /\ n + 1 + 1 + 1 = n + 3
    BY <1>0
  <2>2. \A m \in Nat : expect_int(Cursor(from, m, vs), 1, 1) =
                         IF At(from, m, <<1>>) THEN Cursor(from, m + 1, vs) ELSE Fail
    BY <1>0, ExpectsOne
  <2>3. expect_int(Cursor(from, n + 3, vs), U32, CardanoMagic) =
          IF At(from, n + 3, writeInt(CardanoMagic, U32)) THEN Cursor(from, n + 3 + U32, vs)
          ELSE Fail
    BY <1>0, <2>1, ExpectsWritten
  <2>4. \A v : \A m \in Nat : expect_int(Fail, m, v) = Fail
    BY <1>0, Expects
  <2>5. /\ expect_int(Fail, 1, 1) = Fail
        /\ expect_int(Fail, U32, CardanoMagic) = Fail
    BY <1>0, <2>4
  <2>6. rest(Cursor(from, n, vs)) = e4
    OBVIOUS
  <2> HIDE DEF vs, rest
  <2>7. e1 = IF At(from, n, <<1>>) THEN Cursor(from, n + 1, vs) ELSE Fail
    BY <2>1, <2>2
  <2> HIDE DEF e1
  <2>8. e2 = IF At(from, n, <<1>>) /\ At(from, n + 1, <<1>>)
             THEN Cursor(from, n + 1 + 1, vs) ELSE Fail
    BY <2>1, <2>2, <2>5, <2>7
  <2> HIDE DEF e2
  <2>9. e3 = IF At(from, n, <<1>>) /\ At(from, n + 1, <<1>>) /\ At(from, n + 1 + 1, <<1>>)
             THEN Cursor(from, n + 1 + 1 + 1, vs) ELSE Fail
    BY <2>1, <2>2, <2>5, <2>8
  <2> HIDE DEF e3
  <2>10. e3 = IF At(from, n, <<1, 1, 1>>) THEN Cursor(from, n + 3, vs) ELSE Fail
    BY <2>1, <2>9, Ones
  <2>11. e4 = IF At(from, n, <<1, 1, 1>>) /\ At(from, n + 3, writeInt(CardanoMagic, U32))
              THEN Cursor(from, n + 3 + U32, vs) ELSE Fail
    BY <2>3, <2>5, <2>10
  <2> QED
    BY <2>6, <2>11 DEF vs
<1>6. take_header(start) = IF At(from, 0, header) THEN Cursor(from, Len(header), <<>>) ELSE Fail
  <2>1. Len(header) = n + 3 + U32
    BY HeaderType
  <2>2. At(from, 0, header) <=>
          At(from, 0, Magic) /\ At(from, n, <<1, 1, 1>>)
            /\ At(from, n + 3, writeInt(CardanoMagic, U32))
    BY HeaderParts
  <2>3. take_header(start) = rest(known(take_bytes(start, n)))
    BY <1>1
  <2> HIDE DEF rest, known, n, start
  <2> QED
    BY <1>2, <1>4, <1>5, <2>1, <2>2, <2>3
<1>7. cursorOf(from, readHeader(from)) =
        IF At(from, 0, header) THEN Cursor(from, Len(header), <<>>) ELSE Fail
  <2>1. CASE At(from, 0, header)
    BY <2>1, ReadsHeader, Cursors
  <2>2. CASE ~At(from, 0, header)
    <3>1. readHeader(from) \in Failures
      BY <2>2, ReadsHeader DEF Failures
    <3> QED
      BY <2>2, <3>1, Cursors
  <2> QED
    BY <2>1, <2>2
<1> QED
  BY <1>3, <1>6, <1>7

\* One reader after the other, a field apart.
Chain(from, f) ==
    /\ \A i \in 0..16 : f[i] \in Failures \union Readings(from)
    /\ \A i \in 1..16 : f[i] = readField(from, f[i - 1], Layout[i])

\* The fields, as decode takes them.
take_fields(cursor) ==
    take_target(take_times(take_asset(take_action(take_context(take_ids(cursor))))))

LEMMA TakesFields ==
  ASSUME NEW from \in Seq(Byte), NEW f, Chain(from, f)
  PROVE  take_fields(cursorOf(from, f[0])) = cursorOf(from, f[16])
<1> DEFINE C(i) == cursorOf(from, f[i])
           field(i) == Layout[i]
<1>1. ASSUME NEW i \in 1..16
      PROVE  /\ f[i - 1] \in Failures \union Readings(from) /\ field(i) \in Fields
             /\ C(i) = cursorOf(from, readField(from, f[i - 1], field(i)))
  <2>1. i - 1 \in 0..16
    OBVIOUS
  <2> QED
    BY <2>1, LayoutFields DEF Chain
<1>2. ASSUME NEW i \in 1..16
      PROVE  /\ field(i).kind = "fixed" => take_bytes(C(i - 1), field(i).size) = C(i)
             /\ field(i).kind = "integer" => take_int(C(i - 1), field(i).size) = C(i)
             /\ field(i).kind = "optional" => take_optional_int(C(i - 1), field(i).size) = C(i)
             /\ field(i).kind = "counted" => take_counted(C(i - 1), field(i).lengths) = C(i)
  <2> HIDE DEF field
  <2>1. field(i).kind = "fixed" => take_bytes(C(i - 1), field(i).size) = C(i)
    BY <1>1, TakesFixed
  <2>2. field(i).kind = "integer" => take_int(C(i - 1), field(i).size) = C(i)
    BY <1>1, TakesInteger
  <2>3. field(i).kind = "optional" => take_optional_int(C(i - 1), field(i).size) = C(i)
    BY <1>1, TakesOptional
  <2>4. field(i).kind = "counted" => take_counted(C(i - 1), field(i).lengths) = C(i)
    BY <1>1, TakesCounted
  <2> QED
    BY <2>1, <2>2, <2>3, <2>4
<1>3. /\ \A i \in {1, 2, 4, 5, 6, 8, 12, 16} : field(i).size = Id
      /\ \A i \in {7, 15} : field(i).size = Hash
      /\ field(3).size = U32 /\ \A i \in {11, 13, 14} : field(i).size = U64
      /\ field(9).lengths = {0, Hash} /\ field(10).lengths = 0..MaxAssetNameBytes
  BY DEF Layout
<1>4. /\ \A i \in {1, 2, 4, 5, 6, 8, 12, 16} : take_bytes(C(i - 1), Id) = C(i)
      /\ \A i \in {7, 15} : take_bytes(C(i - 1), Hash) = C(i)
  <2> HIDE DEF C, field
  <2>1. ASSUME NEW i \in {1, 2, 4, 5, 6, 8, 12, 16} PROVE take_bytes(C(i - 1), Id) = C(i)
    BY <1>2, <1>3, LayoutKinds DEF field
  <2>2. ASSUME NEW i \in {7, 15} PROVE take_bytes(C(i - 1), Hash) = C(i)
    BY <1>2, <1>3, LayoutKinds DEF field
  <2> QED
    BY <2>1, <2>2
<1>5. /\ take_optional_int(C(2), U32) = C(3)
      /\ take_counted(C(8), {0, Hash}) = C(9)
      /\ take_counted(C(9), 0..MaxAssetNameBytes) = C(10)
      /\ take_int(C(10), U64) = C(11)
      /\ take_optional_int(C(12), U64) = C(13)
      /\ take_int(C(13), U64) = C(14)
  <2>1. /\ field(3).kind = "optional" /\ field(13).kind = "optional"
        /\ field(9).kind = "counted" /\ field(10).kind = "counted"
        /\ field(11).kind = "integer" /\ field(14).kind = "integer"
    BY LayoutKinds
  <2>2. /\ {3, 13, 9, 10, 11, 14} \subseteq 1..16
        /\ 3 - 1 = 2 /\ 13 - 1 = 12 /\ 9 - 1 = 8 /\ 10 - 1 = 9 /\ 11 - 1 = 10 /\ 14 - 1 = 13
    OBVIOUS
  <2> HIDE DEF C, field
  <2> QED
    BY <1>2, <1>3, <2>1, <2>2
<1>6. /\ take_bytes(C(0), Id) = C(1) /\ take_bytes(C(1), Id) = C(2)
      /\ take_bytes(C(3), Id) = C(4) /\ take_bytes(C(4), Id) = C(5)
      /\ take_bytes(C(5), Id) = C(6) /\ take_bytes(C(6), Hash) = C(7)
      /\ take_bytes(C(7), Id) = C(8) /\ take_bytes(C(11), Id) = C(12)
      /\ take_bytes(C(14), Hash) = C(15) /\ take_bytes(C(15), Id) = C(16)
  <2>1. /\ 1 - 1 = 0 /\ 2 - 1 = 1 /\ 4 - 1 = 3 /\ 5 - 1 = 4 /\ 6 - 1 = 5 /\ 7 - 1 = 6
        /\ 8 - 1 = 7 /\ 12 - 1 = 11 /\ 15 - 1 = 14 /\ 16 - 1 = 15
    OBVIOUS
  <2> HIDE DEF C
  <2> QED
    BY <1>4, <2>1
<1> HIDE DEF C
<1>7. take_ids(C(0)) = C(3)
  BY <1>5, <1>6 DEF take_ids
<1>8. take_context(C(3)) = C(6)
  BY <1>6 DEF take_context
<1>9. take_action(C(6)) = C(8)
  BY <1>6 DEF take_action
<1>10. take_asset(C(8)) = C(11)
  BY <1>5 DEF take_asset
<1>11. take_times(C(11)) = C(14)
  BY <1>5, <1>6 DEF take_times
<1>12. take_target(C(14)) = C(16)
  BY <1>6 DEF take_target
<1>13. take_fields(C(0)) = C(16)
  BY <1>7, <1>8, <1>9, <1>10, <1>11, <1>12 DEF take_fields
<1> QED
  BY <1>13 DEF C

\* The two readers read the same bytes, and in them the same.
LEMMA SameReading ==
  ASSUME NEW from \in Seq(Byte)
  PROVE  decode(from) = cursorOf(from, decodePermit(from))
<1> DEFINE start == expect(Cursor(from, 0, <<>>), Len(from) <= MaxPermitBytes)
           last == take_fields(take_header(start))
           holds(c) == c.ok /\ c.offset = Len(from) /\ inOrder(c.taken[13], c.taken[14])
<1>1. decode(from) = expect(last, holds(last))
  BY DEF decode, take_fields
<1>2. Len(from) \in Nat /\ MaxPermitBytes \in Nat
  BY ConstantsAssumption
<1>3. CASE Len(from) > MaxPermitBytes
  <2>1. start = Fail
    BY <1>2, <1>3 DEF expect
  <2>2. take_header(start) = Fail
    BY <2>1, TakesHeader
  <2> DEFINE f == [i \in 0..16 |-> DecodingFailed]
  <2>3. Chain(from, f)
    <3>1. \A i \in 1..16 : readField(from, DecodingFailed, Layout[i]) = DecodingFailed
      BY Cursors, ReaderErrors, LayoutFields, ReadFieldType
    <3>2. \A i \in 1..16 : i - 1 \in 0..16 /\ i \in 0..16
      OBVIOUS
    <3>3. \A i \in 0..16 : f[i] = DecodingFailed
      OBVIOUS
    <3> HIDE DEF f
    <3> QED
      BY <3>1, <3>2, <3>3, Cursors DEF Chain
  <2>4. f[0] = DecodingFailed /\ f[16] = DecodingFailed
    OBVIOUS
  <2> HIDE DEF f
  <2>5. take_fields(Fail) = Fail
    BY <2>3, <2>4, TakesFields, Cursors
  <2>6. last = Fail
    BY <2>2, <2>5
  <2> HIDE DEF last
  <2>7. decode(from) = Fail
    BY <1>1, <2>6, CursorParts DEF expect
  <2>8. decodePermit(from) = DecodingFailed
    BY <1>3, ReadingOn
  <2> QED
    BY <2>7, <2>8, Cursors
<1>4. CASE ~(Len(from) > MaxPermitBytes)
  <2>1. start = Cursor(from, 0, <<>>)
    BY <1>2, <1>4 DEF expect
  <2> DEFINE r == Readers(from)[16]
  <2>2. Chain(from, Readers(from))
    BY ReadingOn DEF Chain
  <2>3. take_header(start) = cursorOf(from, Readers(from)[0])
    BY <2>1, TakesHeader, ReadingOn
  <2>4. last = cursorOf(from, r)
    BY <2>2, <2>3, TakesFields
  <2>5. decodePermit(from) = end(from, r)
    BY <1>4, ReadingOn
  <2> HIDE DEF r, last
  <2>6. CASE r.error # "none"
    <3>1. last = Fail
      BY <2>4, <2>6 DEF cursorOf
    <3>2. decode(from) = Fail
      BY <1>1, <3>1, CursorParts DEF expect
    <3>3. decodePermit(from) = r
      BY <2>5, <2>6 DEF end
    <3> QED
      BY <2>4, <3>1, <3>2, <3>3
  <2>7. CASE r.error = "none"
    <3>1. last = Cursor(from, r.offset, r.values)
      BY <2>4, <2>7 DEF cursorOf
    <3>2. last.ok /\ last.offset = r.offset /\ last.taken = r.values
      BY <3>1, CursorParts
    <3>3. holds(last) <=> r.offset = Len(from) /\ inOrder(r.values[13], r.values[14])
      BY <3>2
    <3>4. CASE holds(last)
      <4>1. decodePermit(from) = r
        BY <2>5, <2>7, <3>3, <3>4 DEF end
      <4>2. decode(from) = last
        <5> HIDE DEF holds
        <5> QED
          BY <1>1, <3>4 DEF expect
      <4> QED
        BY <2>4, <4>1, <4>2
    <3>5. CASE ~holds(last)
      <4>1. decodePermit(from) \in {DecodingFailed, Refused("NP_PERMIT_TRAILING_DATA")}
        BY <2>5, <2>7, <3>3, <3>5 DEF end
      <4>2. decode(from) = Fail
        <5> HIDE DEF holds
        <5> QED
          BY <1>1, <3>5 DEF expect
      <4> QED
        BY <4>1, <4>2 DEF cursorOf, DecodingFailed, Refused
    <3> QED
      BY <3>4, <3>5
  <2> QED
    BY <2>6, <2>7
<1> QED
  BY <1>3, <1>4

-----------------------------------------------------------------------------
(* The permit and its bytes.                                                *)

LEMMA DamagedType ==
  ASSUME NEW s \in Seq(Byte)
  PROVE  /\ \A i \in DOMAIN s, b \in Byte : ReplaceAt(s, i, b) \in Seq(Byte)
         /\ \A i \in DOMAIN s : RemoveAt(s, i) \in Seq(Byte)
         /\ \A i \in 1..(Len(s) + 1), b \in Byte : InsertAt(s, i, b) \in Seq(Byte)
<1>1. Len(s) \in Nat /\ DOMAIN s = 1..Len(s) /\ \A i \in 1..Len(s) : s[i] \in Byte
  BY LenProperties, ElementOfSeq
<1>2. ASSUME NEW m \in Int, NEW n \in Int, 1 <= m, n <= Len(s) PROVE SubSeq(s, m, n) \in Seq(Byte)
  <2>1. \A i \in m..n : s[i] \in Byte
    BY <1>1, <1>2
  <2> QED
    BY <2>1, SubSeqProperties
<1>3. ASSUME NEW i \in DOMAIN s, NEW b \in Byte PROVE ReplaceAt(s, i, b) \in Seq(Byte)
  BY <1>1, ExceptSeq DEF ReplaceAt
<1>4. ASSUME NEW i \in DOMAIN s PROVE RemoveAt(s, i) \in Seq(Byte)
  <2>1. SubSeq(s, 1, i - 1) \in Seq(Byte) /\ SubSeq(s, i + 1, Len(s)) \in Seq(Byte)
    BY <1>1, <1>2
  <2> QED
    BY <2>1, ConcatProperties DEF RemoveAt
<1>5. ASSUME NEW i \in 1..(Len(s) + 1), NEW b \in Byte PROVE InsertAt(s, i, b) \in Seq(Byte)
  <2>1. SubSeq(s, 1, i - 1) \in Seq(Byte) /\ SubSeq(s, i, Len(s)) \in Seq(Byte)
    BY <1>1, <1>2
  <2>2. <<b>> \in Seq(Byte)
    OBVIOUS
  <2> QED
    BY <2>1, <2>2, ConcatProperties DEF InsertAt
<1> QED
  BY <1>3, <1>4, <1>5

LEMMA RefusalCodes ==
  ASSUME NEW p
  PROVE  refusal(p) \in {"none", "NP_PERMIT_UNKNOWN_VERSION", "NP_PERMIT_INVALID_FIELD",
                         "NP_PERMIT_ENCODING_FAILED"}
<1> DEFINE long == Len(bytesOf(p)) > MaxPermitBytes
           bad == \/ p.domain # 1 \/ p.midnightNetwork # 1
                  \/ ~contextMatches(p)
                  \/ ~inOrder(p.notBeforeSlot, p.expiresAtSlot)
                  \/ \E i \in DOMAIN Layout : ~suits(Layout[i], Values(p)[i])
<1>1. refusal(p) = IF p.version # 1 THEN "NP_PERMIT_UNKNOWN_VERSION"
                   ELSE IF bad THEN "NP_PERMIT_INVALID_FIELD"
                   ELSE IF long THEN "NP_PERMIT_ENCODING_FAILED" ELSE "none"
  BY DEF refusal
<1> HIDE DEF long, bad
<1> QED
  BY <1>1

LEMMA ReadingCodes ==
  ASSUME NEW from \in Seq(Byte)
  PROVE  /\ relayReading(from).error \in {"none", "NP_PERMIT_UNKNOWN_VERSION",
                                          "NP_PERMIT_DECODING_FAILED", "NP_PERMIT_TRAILING_DATA"}
         /\ chainReading(from).error \in {"none", "fail"}
<1> DEFINE r == Readers(from)[16]
           codes == {"none", "NP_PERMIT_UNKNOWN_VERSION",
                     "NP_PERMIT_DECODING_FAILED", "NP_PERMIT_TRAILING_DATA"}
<1>1. r \in Failures \union Readings(from)
  BY ReadingOn
<1>2. /\ \A x \in Failures : x.error \in codes
      /\ \A x \in Readings(from) : x.error \in codes
      /\ DecodingFailed \in Failures /\ Refused("NP_PERMIT_TRAILING_DATA").error \in codes
  BY DEF Failures, Readings, Reading, DecodingFailed, Refused
<1>3. \/ decodePermit(from) \in Failures
      \/ decodePermit(from) = Refused("NP_PERMIT_TRAILING_DATA")
      \/ decodePermit(from) = r
  BY <1>2, ReadingOn DEF end
<1> HIDE DEF r, codes
<1>4. decodePermit(from).error \in codes
  BY <1>1, <1>2, <1>3
<1>5. relayReading(from).error \in codes
  BY <1>4 DEF relayReading
<1>6. chainReading(from).error \in {"none", "fail"}
  <2> DEFINE c == decode(from)
  <2>1. chainReading(from) = IF c.ok THEN [error |-> "none", values |-> c.taken]
                             ELSE [error |-> "fail", values |-> <<>>]
    BY DEF chainReading
  <2> HIDE DEF c
  <2> QED
    BY <2>1
<1> QED
  BY <1>5, <1>6 DEF codes

\* What both say of the same bytes.
LEMMA ReadAlike ==
  ASSUME NEW from \in Seq(Byte)
  PROVE  /\ relayReading(from) # Unread /\ chainReading(from) # Unread
         /\ relayReading(from).error = "none" <=> chainReading(from).error = "none"
         /\ relayReading(from).values = chainReading(from).values
         /\ relayReading(from).error = decodePermit(from).error
         /\ relayReading(from).values = decodePermit(from).values
<1> DEFINE r == decodePermit(from)
           c == decode(from)
<1>1. c = cursorOf(from, r) /\ (r.error # "none" => r.values = <<>>)
  BY SameReading, ReadFails
<1>2. relayReading(from) = [error |-> r.error, values |-> r.values]
  BY DEF relayReading
<1>3. chainReading(from) = IF c.ok THEN [error |-> "none", values |-> c.taken]
                           ELSE [error |-> "fail", values |-> <<>>]
  BY DEF chainReading
<1> HIDE DEF r, c
<1>4. CASE r.error = "none"
  <2>1. c.ok /\ c.taken = r.values
    BY <1>1, <1>4, CursorParts DEF cursorOf
  <2>2. chainReading(from) = [error |-> "none", values |-> r.values]
    BY <1>3, <2>1
  <2>3. relayReading(from).error # "unread" /\ chainReading(from).error # "unread"
    BY <1>2, <1>4, <2>2
  <2> QED
    BY <1>2, <1>4, <2>2, <2>3 DEF Unread, r
<1>5. CASE r.error # "none"
  <2>1. ~c.ok
    BY <1>1, <1>5, CursorParts DEF cursorOf
  <2>2. chainReading(from) = [error |-> "fail", values |-> <<>>]
    BY <1>3, <2>1
  <2>3. relayReading(from).error # "unread" /\ chainReading(from).error # "unread"
    BY <1>2, <2>2, ReadingCodes
  <2> QED
    BY <1>1, <1>2, <1>5, <2>2, <2>3 DEF Unread, r
<1> QED
  BY <1>4, <1>5

LEMMA InitInd == Init => CodecInv
<1> SUFFICES ASSUME Init PROVE CodecInv
  OBVIOUS
<1>1. MaxDamage \in Nat
  BY ConstantsAssumption
<1>2. TypeOK
  BY <1>1 DEF Init, TypeOK, Unread
<1> QED
  BY <1>2 DEF Init, CodecInv

LEMMA NextInd ==
  ASSUME CodecInv, [Next]_vars
  PROVE  CodecInv'
<1>1. /\ TypeOK /\ permit \in PermitV1 /\ bytes \in Seq(Byte) /\ damage \in 0..MaxDamage
      /\ MaxDamage \in Nat
  BY PermitsAssumption, ConstantsAssumption DEF CodecInv, TypeOK
<1>2. CASE EncodePermit
  <2>1. relayRead = Unread /\ chainRead = Unread
    BY <1>2 DEF EncodePermit, CodecInv
  <2>2. CASE refusal(permit) = "none"
    <3>1. encoded' = "yes" /\ bytes' = bytesOf(permit) /\ bytes' \in Seq(Byte)
      BY <1>1, <1>2, <2>2, EncodedRead DEF EncodePermit
    <3>2. UNCHANGED <<permit, damage, relayRead, chainRead>>
      BY <1>2 DEF EncodePermit
    <3>3. TypeOK'
      BY <1>1, <3>1, <3>2 DEF TypeOK
    <3> QED
      BY <2>1, <2>2, <3>1, <3>2, <3>3 DEF CodecInv
  <2>3. CASE refusal(permit) # "none"
    <3>1. encoded' = refusal(permit) /\ UNCHANGED <<bytes, permit, damage, relayRead, chainRead>>
      BY <1>2, <2>3 DEF EncodePermit
    <3>2. encoded' \in {"NP_PERMIT_UNKNOWN_VERSION", "NP_PERMIT_INVALID_FIELD",
                        "NP_PERMIT_ENCODING_FAILED"}
      BY <2>3, <3>1, RefusalCodes
    <3>3. TypeOK'
      BY <1>1, <3>1, <3>2 DEF TypeOK
    <3> QED
      BY <2>1, <3>1, <3>2, <3>3 DEF CodecInv
  <2> QED
    BY <2>2, <2>3
<1>3. CASE Damage
  <2>1. /\ encoded = "yes" /\ damage < MaxDamage /\ damage' = damage + 1
        /\ relayRead = Unread /\ chainRead = Unread
        /\ UNCHANGED <<permit, encoded, relayRead, chainRead>>
    BY <1>3 DEF Damage
  <2>2. bytes' \in Seq(Byte)
    BY <1>1, <1>3, DamagedType DEF Damage
  <2>3. damage' \in 0..MaxDamage /\ damage' # 0
    BY <1>1, <2>1
  <2>4. TypeOK'
    BY <1>1, <2>1, <2>2, <2>3 DEF TypeOK
  <2> QED
    BY <2>1, <2>3, <2>4 DEF CodecInv
<1>4. CASE DecodePermit
  <2>1. /\ encoded = "yes" /\ relayRead' = relayReading(bytes)
        /\ UNCHANGED <<permit, bytes, damage, encoded, chainRead>>
    BY <1>4 DEF DecodePermit
  <2>2. TypeOK'
    BY <1>1, <2>1, ReadingCodes DEF TypeOK
  <2> QED
    BY <2>1, <2>2 DEF CodecInv
<1>5. CASE Decode
  <2>1. /\ encoded = "yes" /\ chainRead' = chainReading(bytes)
        /\ UNCHANGED <<permit, bytes, damage, encoded, relayRead>>
    BY <1>5 DEF Decode
  <2>2. TypeOK'
    BY <1>1, <2>1, ReadingCodes DEF TypeOK
  <2> QED
    BY <2>1, <2>2 DEF CodecInv
<1>6. CASE UNCHANGED vars
  BY <1>6 DEF vars, CodecInv, TypeOK
<1> QED
  BY <1>2, <1>3, <1>4, <1>5, <1>6 DEF Next

\* The bytes are those of an accepted permit until they are damaged, and what
\* encodePermit refuses is never written.
THEOREM Inductive == Spec => []CodecInv
<1> QED
  BY InitInd, NextInd, PTL DEF Spec

\* What encodePermit has written and nothing has damaged, decodePermit of the
\* relay and decode of the validator read as what was written.
THEOREM ReadBack == Spec => []RoundTrip
<1>1. ASSUME CodecInv PROVE RoundTrip
  <2> SUFFICES ASSUME damage = 0
               PROVE  /\ relayRead # Unread =>
                           relayRead.error = "none" /\ ofValues(relayRead.values) = permit
                      /\ chainRead # Unread =>
                           chainRead.error = "none" /\ chainRead.values = Values(permit)
    BY DEF RoundTrip
  <2>1. permit \in PermitV1
    BY <1>1, PermitsAssumption DEF CodecInv, TypeOK
  <2>2. CASE encoded = "yes"
    <3>1. refusal(permit) = "none" /\ bytes = bytesOf(permit)
      BY <1>1, <2>2 DEF CodecInv
    <3>2. /\ bytes \in Seq(Byte) /\ decodePermit(bytes) = Reading(Values(permit), Len(bytes))
          /\ ofValues(Values(permit)) = permit
      BY <2>1, <3>1, EncodedRead
    <3>3. decodePermit(bytes).error = "none" /\ decodePermit(bytes).values = Values(permit)
      BY <3>2, ReaderErrors
    <3>4. /\ relayReading(bytes).error = "none" /\ relayReading(bytes).values = Values(permit)
          /\ chainReading(bytes).error = "none" /\ chainReading(bytes).values = Values(permit)
      BY <3>2, <3>3, ReadAlike
    <3> QED
      BY <1>1, <3>2, <3>4 DEF CodecInv
  <2>3. CASE encoded # "yes"
    BY <1>1, <2>3 DEF CodecInv
  <2> QED
    BY <2>2, <2>3
<1> QED
  BY <1>1, Inductive, PTL

\* The relay and the validator read or refuse the same bytes, whatever has
\* become of them, and read the same in them.
THEOREM Agreement == Spec => []ReadersAgree
<1>1. ASSUME CodecInv PROVE ReadersAgree
  <2>1. bytes \in Seq(Byte)
    BY <1>1 DEF CodecInv, TypeOK
  <2> QED
    BY <1>1, <2>1, ReadAlike DEF CodecInv, ReadersAgree
<1> QED
  BY <1>1, Inductive, PTL

\* What decodePermit reads has these bytes for its only encoding.
THEOREM Canonical == Spec => []OneEncoding
<1>1. ASSUME CodecInv PROVE OneEncoding
  <2> SUFFICES ASSUME relayRead.error = "none"
               PROVE  /\ refusal(ofValues(relayRead.values)) = "none"
                      /\ bytesOf(ofValues(relayRead.values)) = bytes
    BY DEF OneEncoding
  <2>1. relayRead # Unread
    BY DEF Unread
  <2>2. relayRead = relayReading(bytes) /\ bytes \in Seq(Byte)
    BY <1>1, <2>1 DEF CodecInv, TypeOK
  <2>3. decodePermit(bytes).error = "none" /\ relayRead.values = decodePermit(bytes).values
    BY <2>2, ReadAlike
  <2>4. PICK vs : /\ decodePermit(bytes) = Reading(vs, Len(bytes))
                  /\ refusal(ofValues(vs)) = "none" /\ bytesOf(ofValues(vs)) = bytes
    BY <2>2, <2>3, ReadEncodes
  <2>5. relayRead.values = vs
    BY <2>3, <2>4, ReaderErrors
  <2> QED
    BY <2>4, <2>5
<1> QED
  BY <1>1, Inductive, PTL

\* Two permits that encodePermit accepts have different bytes: the bytes that the
\* relay signs say which permit it is.
THEOREM Injective ==
  ASSUME NEW p \in PermitV1, NEW q \in PermitV1,
         refusal(p) = "none", refusal(q) = "none", bytesOf(p) = bytesOf(q)
  PROVE  p = q
<1>1. Reading(Values(p), Len(bytesOf(p))) = Reading(Values(q), Len(bytesOf(q)))
  <2>1. decodePermit(bytesOf(p)) = decodePermit(bytesOf(q))
    OBVIOUS
  <2> QED
    BY <2>1, EncodedRead
<1>2. Values(p) = Values(q)
  BY <1>1, ReaderErrors
<1> QED
  BY <1>2, EncodedRead
=============================================================================

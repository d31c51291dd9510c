--------------------------- MODULE KVServerProofs ---------------------------
(***************************************************************************)
(* Proofs about the split-ordered hash table and the key-value server, for *)
(* any number of threads, any width of keys, any keys and load factor.     *)
(***************************************************************************)
EXTENDS KVServer, FiniteSetTheorems, SequenceTheorems, WellFoundedInduction, TLAPS

-----------------------------------------------------------------------------
(* Induction over the natural numbers, in terms of sets *)

(* A set of natural numbers that is not empty has a least one. *)
LEMMA Least ==
  ASSUME NEW I \in SUBSET Nat, I # {}
  PROVE  \E m \in I : \A j \in I : m <= j
<1>1. PICK m \in I : \A j \in I : ~(<<j, m>> \in OpToRel(<, Nat))
  BY Zenon, NatLessThanWellFounded, WFMin
<1>2. ASSUME NEW j \in I PROVE m <= j
  <2>1. j \in Nat /\ m \in Nat
    OBVIOUS
  <2>2. j < m => <<j, m>> \in OpToRel(<, Nat)
    BY Zenon, <2>1 DEF OpToRel
  <2>3. ~(j < m)
    BY Zenon, <1>1, <2>2
  <2> QED  BY <2>1, <2>3
<1> QED  BY <1>2

(* What is true of 0, and of a successor, is true of all. *)
LEMMA Induction ==
  ASSUME NEW S \in SUBSET Nat, 0 \in S, \A n \in S : n + 1 \in S
  PROVE  S = Nat
<1> SUFFICES ASSUME Nat \ S # {} PROVE FALSE
  OBVIOUS
<1>1. PICK m \in Nat \ S : \A j \in Nat \ S : m <= j
  BY Least
<1>2. m # 0 /\ m - 1 \in Nat
  BY <1>1
<1>3. m - 1 \in S
  BY <1>1, <1>2
<1>4. (m - 1) + 1 \in S
  BY <1>3
<1> QED  BY <1>1, <1>4

(* A function defined by doubling and adding exists. *)
LEMMA Recursion ==
  ASSUME NEW a \in Nat, NEW d \in [Nat -> Nat]
  PROVE  \A m \in Nat : \E f \in [0..m -> Nat] :
           f[0] = a /\ \A n \in 1..m : f[n] = 2 * f[n - 1] + d[n]
<1> DEFINE Good(f, m) == f[0] = a /\ \A n \in 1..m : f[n] = 2 * f[n - 1] + d[n]
           S == {m \in Nat : \E f \in [0..m -> Nat] : Good(f, m)}
<1>1. 0 \in S
  <2> DEFINE f == [n \in 0..0 |-> a]
  <2>1. f \in [0..0 -> Nat] /\ Good(f, 0)
    OBVIOUS
  <2> QED  BY <2>1
<1>2. ASSUME NEW m \in S PROVE m + 1 \in S
  <2>1. PICK f \in [0..m -> Nat] : Good(f, m)
    OBVIOUS
  <2>a. m \in Nat /\ m \in 0..m /\ 0 \in 0..m /\ m + 1 \in Nat
    OBVIOUS
  <2> HIDE DEF S
  <2> DEFINE v == 2 * f[m] + d[m + 1]
             g == [n \in 0..m + 1 |-> IF n = m + 1 THEN v ELSE f[n]]
  <2>2. v \in Nat
    <3>1. f[m] \in Nat /\ d[m + 1] \in Nat
      BY <2>a
    <3>2. \A p, q \in Nat : 2 * p + q \in Nat
      OBVIOUS
    <3> QED  BY Zenon, <3>1, <3>2
  <2> HIDE DEF v
  <2>3. g \in [0..m + 1 -> Nat] /\ g[0] = a
    <3>1. \A n \in 0..m + 1 : n # m + 1 => n \in 0..m
      BY <2>a
    <3>2. \A n \in 0..m + 1 : g[n] \in Nat
      <4>1. \A n \in 0..m : f[n] \in Nat
        OBVIOUS
      <4> QED  BY <2>2, <3>1, <4>1
    <3>3. 0 \in 0..m + 1 /\ 0 # m + 1
      BY <2>a
    <3>4. g[0] = a
      BY <2>1, <3>3
    <3> QED  BY <3>2, <3>4
  <2>4. ASSUME NEW n \in 1..m + 1 PROVE g[n] = 2 * g[n - 1] + d[n]
    <3>1. CASE n = m + 1
      <4>1. g[n] = v /\ g[n - 1] = f[m]
        BY <2>a, <3>1
      <4> QED  BY <3>1, <4>1 DEF v
    <3>2. CASE n # m + 1
      <4>1. n \in 1..m /\ g[n] = f[n] /\ g[n - 1] = f[n - 1]
        BY <2>a, <3>2
      <4> QED  BY <2>1, <4>1
    <3> QED  BY <3>1, <3>2
  <2> HIDE DEF g
  <2>5. \E h \in [0..m + 1 -> Nat] : Good(h, m + 1)
    BY <2>3, <2>4
  <2> QED  BY <2>a, <2>5 DEF S
<1>3. S = Nat
  <2> HIDE DEF S
  <2>1. S \subseteq Nat
    BY DEF S
  <2> QED  BY <1>1, <1>2, <2>1, Induction
<1> QED  BY <1>3

-----------------------------------------------------------------------------
(* Powers of two, quotients and remainders *)

(* pow2 is what its definition says. *)
LEMMA Powers ==
  /\ pow2[0] = 1
  /\ \A n \in 1..Width : pow2[n] = 2 * pow2[n - 1]
  /\ \A n \in 0..Width : pow2[n] \in Nat \ {0}
<1> DEFINE Next2(f) == [n \in 0..Width |-> IF n = 0 THEN 1 ELSE 2 * f[n - 1]]
<1>1. Width \in Nat
  BY TableAssumption
<1>2. \E f : f = Next2(f)
  <2> DEFINE d == [n \in Nat |-> 0]
  <2>1. PICK f \in [0..Width -> Nat] :
          f[0] = 1 /\ \A n \in 1..Width : f[n] = 2 * f[n - 1] + d[n]
    <3>1. 1 \in Nat /\ d \in [Nat -> Nat]
      OBVIOUS
    <3> HIDE DEF d
    <3> QED  BY <1>1, <3>1, Recursion
  <2>2. ASSUME NEW n \in 0..Width PROVE f[n] = Next2(f)[n]
    <3>1. CASE n = 0
      BY <2>1, <3>1
    <3>2. CASE n # 0
      <4>1. n \in 1..Width /\ n - 1 \in 0..Width /\ d[n] = 0
        BY <1>1, <3>2
      <4>2. f[n] = 2 * f[n - 1] + d[n] /\ f[n - 1] \in Nat
        BY <2>1, <4>1
      <4> QED  BY <3>2, <4>1, <4>2
    <3> QED  BY <3>1, <3>2
  <2>3. f = Next2(f)
    BY <2>2
  <2> QED  BY <2>3
<1>3. pow2 = CHOOSE f : f = Next2(f)
  BY DEF pow2
<1> HIDE DEF Next2
<1>4. pow2 = Next2(pow2)
  BY Zenon, <1>2, <1>3
<1>5. \A n \in 0..Width : pow2[n] = IF n = 0 THEN 1 ELSE 2 * pow2[n - 1]
  BY <1>4 DEF Next2
<1> DEFINE S == {n \in Nat : n <= Width => pow2[n] \in Nat \ {0}}
<1>6. 0 \in S
  BY <1>1, <1>5
<1>7. ASSUME NEW n \in S PROVE n + 1 \in S
  <2>1. CASE n + 1 <= Width
    <3>1. n + 1 \in 0..Width /\ n + 1 # 0 /\ (n + 1) - 1 = n /\ n <= Width
      BY <1>1, <2>1
    <3>2. pow2[n + 1] = 2 * pow2[n] /\ pow2[n] \in Nat \ {0}
      BY <1>5, <3>1
    <3> QED  BY <3>2
  <2>2. CASE ~(n + 1 <= Width)
    BY <2>2
  <2> QED  BY <2>1, <2>2
<1>8. S = Nat
  <2>1. S \subseteq Nat
    OBVIOUS
  <2> HIDE DEF S
  <2> QED  BY <1>6, <1>7, <2>1, Induction
<1>9. \A n \in 0..Width : pow2[n] \in Nat \ {0}
  BY <1>1, <1>8
<1>10. pow2[0] = 1 /\ \A n \in 1..Width : pow2[n] = 2 * pow2[n - 1]
  BY <1>1, <1>5
<1> QED  BY <1>9, <1>10

(* A power of two divides every greater one, evenly. *)
LEMMA PowersDivide ==
  ASSUME NEW j \in 0..Width, NEW n \in 0..Width, j < n
  PROVE  \E m \in Nat \ {0} : pow2[n] = pow2[j] * (2 * m)
<1>1. Width \in Nat
  BY TableAssumption
<1> DEFINE Even(k) == \E m \in Nat \ {0} : pow2[k] = pow2[j] * (2 * m)
           S == {k \in Nat : j + 1 + k <= Width => Even(j + 1 + k)}
<1>2. 0 \in S
  <2> SUFFICES ASSUME j + 1 <= Width PROVE Even(j + 1)
    BY <1>1
  <2>1. j + 1 \in 1..Width /\ (j + 1) - 1 = j
    BY <1>1
  <2>2. pow2[j + 1] = 2 * pow2[j] /\ pow2[j] \in Nat
    BY <2>1, Powers
  <2>3. pow2[j + 1] = pow2[j] * (2 * 1)
    BY <2>2
  <2> QED  BY <2>3
<1>3. ASSUME NEW k \in S PROVE k + 1 \in S
  <2> SUFFICES ASSUME j + 1 + (k + 1) <= Width PROVE Even(j + 1 + (k + 1))
    OBVIOUS
  <2>1. k \in Nat /\ j + 1 + k <= Width
    BY <1>1
  <2>2. PICK m \in Nat \ {0} : pow2[j + 1 + k] = pow2[j] * (2 * m)
    BY <2>1
  <2>3. j + 1 + (k + 1) \in 1..Width /\ (j + 1 + (k + 1)) - 1 = j + 1 + k
    BY <1>1, <2>1
  <2>4. pow2[j + 1 + (k + 1)] = 2 * pow2[j + 1 + k]
    BY <2>3, Powers
  <2>5. pow2[j] \in Nat
    BY Powers
  <2>6. 2 * (pow2[j] * (2 * m)) = pow2[j] * (2 * (2 * m)) /\ 2 * m \in Nat \ {0}
    BY <2>5
  <2> QED  BY <2>2, <2>4, <2>6
<1>4. S = Nat
  <2>1. S \subseteq Nat
    OBVIOUS
  <2> HIDE DEF S
  <2> QED  BY <1>2, <1>3, <2>1, Induction
<1>5. n - j - 1 \in Nat /\ j + 1 + (n - j - 1) = n /\ n <= Width
  BY <1>1
<1>6. n - j - 1 \in S
  BY <1>4, <1>5
<1> QED  BY <1>5, <1>6

(* and is less. *)
LEMMA PowersGrow ==
  ASSUME NEW j \in 0..Width, NEW n \in 0..Width
  PROVE  /\ j < n => 2 * pow2[j] <= pow2[n]
         /\ j <= n => pow2[j] <= pow2[n]
<1>1. Width \in Nat /\ pow2[j] \in Nat \ {0} /\ pow2[n] \in Nat \ {0}
  BY TableAssumption, Powers
<1>2. ASSUME j < n PROVE 2 * pow2[j] <= pow2[n]
  <2>1. PICK m \in Nat \ {0} : pow2[n] = pow2[j] * (2 * m)
    BY <1>2, PowersDivide
  <2>2. pow2[j] * (2 * m) >= pow2[j] * 2
    BY <1>1
  <2> QED  BY <1>1, <2>1, <2>2
<1> QED  BY <1>1, <1>2

(* Quotient and remainder *)
LEMMA DivMod ==
  ASSUME NEW x \in Nat, NEW p \in Nat \ {0}
  PROVE  /\ x = p * (x \div p) + (x % p)
         /\ x \div p \in Nat /\ x % p \in 0..p - 1
  OBVIOUS

LEMMA DivModUnique ==
  ASSUME NEW p \in Nat \ {0}, NEW x \in Nat, NEW a \in Int, NEW r \in 0..p - 1,
         x = p * a + r
  PROVE  x \div p = a /\ x % p = r
<1> DEFINE b == x \div p  s == x % p
<1>1. x = p * b + s /\ b \in Nat /\ s \in 0..p - 1
  BY DivMod
<1> HIDE DEF b, s
<1>2. ~(a < b)
  <2> SUFFICES ASSUME a < b PROVE FALSE
    OBVIOUS
  <2>1. p * (b - a) >= p
    BY <1>1
  <2> QED  BY <1>1, <2>1
<1>3. ~(b < a)
  <2> SUFFICES ASSUME b < a PROVE FALSE
    OBVIOUS
  <2>1. p * (a - b) >= p
    BY <1>1
  <2> QED  BY <1>1, <2>1
<1>4. a = b /\ r = s
  BY <1>1, <1>2, <1>3
<1> QED  BY <1>4 DEF b, s
-----------------------------------------------------------------------------
(* Bits *)

LEMMA BitType == ASSUME NEW x \in Nat, NEW n \in 0..Width PROVE bit(x, n) \in {0, 1}
<1>1. x \div pow2[n] \in Nat
  BY Powers, DivMod
<1> QED  BY <1>1 DEF bit

(* The low n + 1 bits are the low n bits and bit n. *)
LEMMA LowBits ==
  ASSUME NEW x \in Nat, NEW n \in 0..Width - 1
  PROVE  x % pow2[n + 1] = bit(x, n) * pow2[n] + (x % pow2[n])
<1> DEFINE p == pow2[n]  a == x \div p  r == x % p  c == a \div 2  d == a % 2
<1>1. Width \in Nat /\ n \in 0..Width /\ n + 1 \in 1..Width /\ (n + 1) - 1 = n
  BY TableAssumption
<1>2. p \in Nat \ {0} /\ pow2[n + 1] = 2 * p
  BY <1>1, Powers
<1> HIDE DEF p
<1>3. x = p * a + r /\ a \in Nat /\ r \in 0..p - 1
  BY <1>2, DivMod
<1> HIDE DEF a, r
<1>4. a = 2 * c + d /\ c \in Nat /\ d \in {0, 1}
  BY <1>3
<1>5. d = bit(x, n)
  BY DEF a, p, bit
<1> HIDE DEF c, d
<1>6. x = (2 * p) * c + (d * p + r)
  <2>1. p * (2 * c + d) = (2 * p) * c + d * p
    BY <1>2, <1>4
  <2> QED  BY <1>2, <1>3, <1>4, <2>1
<1>7. d * p + r \in 0..2 * p - 1 /\ 2 * p \in Nat \ {0}
  BY <1>2, <1>3, <1>4
<1>8. x % (2 * p) = d * p + r
  BY <1>4, <1>6, <1>7, DivModUnique
<1>9. x % pow2[n + 1] = d * p + r
  BY <1>2, <1>8
<1> QED  BY Zenon, <1>5, <1>9 DEF r, p

(* The bits of a remainder are the low bits. *)
LEMMA RemainderBits ==
  ASSUME NEW x \in Nat, NEW n \in 0..Width, NEW j \in 0..Width
  PROVE  /\ x % pow2[n] \in 0..pow2[n] - 1
         /\ bit(x % pow2[n], j) = IF j < n THEN bit(x, j) ELSE 0
<1> DEFINE P == pow2[n]  p == pow2[j]  y == x % P  q == x \div P
<1>1. Width \in Nat /\ P \in Nat \ {0} /\ p \in Nat \ {0}
  BY TableAssumption, Powers
<1>2. x = P * q + y /\ q \in Nat /\ y \in 0..P - 1 /\ y \in Nat
  <2> HIDE DEF P
  <2>1. x = P * q + y /\ q \in Nat /\ y \in 0..P - 1
    BY <1>1, DivMod
  <2> HIDE DEF y
  <2> QED  BY <1>1, <2>1
<1>3. CASE j < n
  <2>1. PICK m \in Nat \ {0} : P = p * (2 * m)
    BY <1>3, PowersDivide
  <2> HIDE DEF P, p, y, q
  <2> DEFINE a == y \div p  r == y % p
  <2>2. y = p * a + r /\ a \in Nat /\ r \in 0..p - 1
    BY <1>1, <1>2, DivMod
  <2> HIDE DEF a, r
  <2> DEFINE e == m * q
  <2>3. e \in Nat
    BY <1>2
  <2>4. (p * (2 * m)) * q = p * (2 * e)
    BY <1>1, <1>2
  <2> HIDE DEF e
  <2>5. x = p * (2 * e + a) + r
    <3>1. p * (2 * e) + p * a = p * (2 * e + a)
      BY <1>1, <2>2, <2>3
    <3> QED  BY <1>1, <1>2, <2>1, <2>2, <2>3, <2>4, <3>1
  <2>6. 2 * e + a \in Int
    BY <2>2, <2>3
  <2>7. x \div p = 2 * e + a
    BY <1>1, <2>2, <2>5, <2>6, DivModUnique
  <2>8. (2 * e + a) % 2 = a % 2
    BY <2>2, <2>3
  <2> QED  BY <1>2, <1>3, <2>7, <2>8 DEF bit, a, P, p, y
<1>4. CASE ~(j < n)
  <2>1. P <= p
    BY <1>1, <1>4, PowersGrow
  <2> HIDE DEF P, p, y, q
  <2>2. y \in 0..p - 1 /\ y = p * 0 + y
    BY <1>1, <1>2, <2>1
  <2>3. y \div p = 0
    BY <1>1, <1>2, <2>2, DivModUnique
  <2> QED  BY <1>2, <1>4, <2>3 DEF bit, P, p, y
<1> QED  BY <1>3, <1>4

(* Numbers with the same bits are the same. *)
LEMMA SameBits ==
  ASSUME NEW x \in 0..Word - 1, NEW y \in 0..Word - 1,
         \A n \in 0..Width - 1 : bit(x, n) = bit(y, n)
  PROVE  x = y
<1> DEFINE S == {n \in Nat : n <= Width => x % pow2[n] = y % pow2[n]}
<1>1. Width \in Nat /\ x \in Nat /\ y \in Nat /\ pow2[Width] \in Nat \ {0}
  BY TableAssumption, Powers DEF Word
<1>2. 0 \in S
  BY <1>1, Powers
<1>3. ASSUME NEW n \in S PROVE n + 1 \in S
  <2> SUFFICES ASSUME n + 1 <= Width PROVE x % pow2[n + 1] = y % pow2[n + 1]
    OBVIOUS
  <2>1. n \in 0..Width - 1 /\ n <= Width
    BY <1>1
  <2>2. x % pow2[n] = y % pow2[n]
    BY <2>1
  <2>3. /\ x % pow2[n + 1] = bit(x, n) * pow2[n] + (x % pow2[n])
        /\ y % pow2[n + 1] = bit(y, n) * pow2[n] + (y % pow2[n])
    BY <1>1, <2>1, LowBits
  <2>4. bit(x, n) = bit(y, n)
    BY <2>1
  <2> QED  BY Zenon, <2>2, <2>3, <2>4
<1>4. S = Nat
  <2>1. S \subseteq Nat
    OBVIOUS
  <2> HIDE DEF S
  <2> QED  BY <1>2, <1>3, <2>1, Induction
<1>5. x % pow2[Width] = y % pow2[Width]
  BY <1>1, <1>4
<1>6. ASSUME NEW z \in 0..pow2[Width] - 1 PROVE z % pow2[Width] = z
  <2>1. z \in Nat /\ z = pow2[Width] * 0 + z
    BY <1>1
  <2> QED  BY <1>1, <2>1, DivModUnique
<1> QED  BY <1>5, <1>6 DEF Word

(* How reverse() comes by its result *)
Reverses(x, r) ==
  /\ r \in [0..Width -> Nat] /\ r[0] = 0
  /\ \A n \in 1..Width : r[n] = 2 * r[n - 1] + bit(x, n - 1)

LEMMA ReverseShifts ==
  ASSUME NEW x \in Nat
  PROVE  \E r : Reverses(x, r) /\ reverse(x) = r[Width]
<1> DEFINE More(f) ==
      [n \in 0..Width |-> IF n = 0 THEN 0 ELSE 2 * f[n - 1] + bit(x, n - 1)]
<1>1. Width \in Nat
  BY TableAssumption
<1>2. \E f : f = More(f)
  <2> DEFINE d == [n \in Nat |-> IF n \in 1..Width THEN bit(x, n - 1) ELSE 0]
  <2>1. d \in [Nat -> Nat]
    <3>1. \A n \in 1..Width : bit(x, n - 1) \in Nat
      BY <1>1, BitType
    <3> QED  BY <3>1
  <2>2. PICK f \in [0..Width -> Nat] :
          f[0] = 0 /\ \A n \in 1..Width : f[n] = 2 * f[n - 1] + d[n]
    <3>1. 0 \in Nat
      OBVIOUS
    <3> HIDE DEF d
    <3> QED  BY <1>1, <2>1, <3>1, Recursion
  <2>3. \A n \in 1..Width : d[n] = bit(x, n - 1)
    BY <1>1
  <2> HIDE DEF d
  <2>4. ASSUME NEW n \in 0..Width PROVE f[n] = More(f)[n]
    <3>1. CASE n = 0
      BY <2>2, <3>1
    <3>2. CASE n # 0
      <4>1. n \in 1..Width
        BY <1>1, <3>2
      <4> QED  BY <2>2, <2>3, <3>2, <4>1
    <3> QED  BY <3>1, <3>2
  <2>5. f = More(f)
    BY <2>4
  <2> QED  BY <2>5
<1> DEFINE r == CHOOSE f : f = More(f)
<1>3. reverse(x) = r[Width]
  BY DEF reverse
<1>4. r = More(r)
  <2> HIDE DEF More
  <2> QED  BY Zenon, <1>2
<1> HIDE DEF r
<1>5. DOMAIN r = 0..Width /\ r[0] = 0 /\ r = [n \in 0..Width |-> r[n]]
  BY <1>1, <1>4
<1>6. ASSUME NEW n \in 1..Width PROVE r[n] = 2 * r[n - 1] + bit(x, n - 1)
  <2>1. n \in 0..Width /\ n # 0
    BY <1>1
  <2> QED  BY <1>4, <2>1
<1> DEFINE S == {n \in Nat : n <= Width => r[n] \in Nat}
<1>7. 0 \in S
  BY <1>5
<1>8. ASSUME NEW n \in S PROVE n + 1 \in S
  <2> SUFFICES ASSUME n + 1 <= Width PROVE r[n + 1] \in Nat
    OBVIOUS
  <2>1. n + 1 \in 1..Width /\ (n + 1) - 1 = n /\ n \in 0..Width /\ n <= Width
    BY <1>1
  <2>2. r[n + 1] = 2 * r[n] + bit(x, n) /\ r[n] \in Nat
    BY <1>6, <2>1
  <2>3. bit(x, n) \in {0, 1}
    BY <2>1, BitType
  <2> QED  BY <2>2, <2>3
<1>9. S = Nat
  <2>1. S \subseteq Nat
    OBVIOUS
  <2> HIDE DEF S
  <2> QED  BY <1>7, <1>8, <2>1, Induction
<1>10. \A n \in 0..Width : r[n] \in Nat
  BY <1>1, <1>9
<1>11. r \in [0..Width -> Nat]
  BY <1>5, <1>10
<1> QED  BY <1>3, <1>5, <1>6, <1>11 DEF Reverses

(* The reversed bits fit the word, and keep the order of numbers whose bits *)
(* are ordered one by one.                                                  *)
LEMMA ReverseRange == ASSUME NEW x \in Nat PROVE reverse(x) \in 0..Word - 1
<1>1. Width \in Nat
  BY TableAssumption
<1>2. PICK r : Reverses(x, r) /\ reverse(x) = r[Width]
  BY ReverseShifts
<1> DEFINE S == {n \in Nat : n <= Width => r[n] < pow2[n]}
<1>3. 0 \in S
  BY <1>2, Powers DEF Reverses
<1>4. ASSUME NEW n \in S PROVE n + 1 \in S
  <2> SUFFICES ASSUME n + 1 <= Width PROVE r[n + 1] < pow2[n + 1]
    OBVIOUS
  <2>1. n + 1 \in 1..Width /\ (n + 1) - 1 = n /\ n \in 0..Width /\ n <= Width
    BY <1>1
  <2>2. r[n + 1] = 2 * r[n] + bit(x, n) /\ r[n] \in Nat /\ r[n] < pow2[n]
    BY <1>2, <2>1 DEF Reverses
  <2>3. bit(x, n) \in {0, 1}
    BY <2>1, BitType
  <2>4. pow2[n + 1] = 2 * pow2[n] /\ pow2[n] \in Nat
    BY <2>1, Powers
  <2> QED  BY <2>2, <2>3, <2>4
<1>5. S = Nat
  <2>1. S \subseteq Nat
    OBVIOUS
  <2> HIDE DEF S
  <2> QED  BY <1>3, <1>4, <2>1, Induction
<1>6. r[Width] < pow2[Width] /\ r[Width] \in Nat /\ pow2[Width] \in Nat
  BY <1>1, <1>2, <1>5, Powers DEF Reverses
<1> QED  BY <1>2, <1>6 DEF Word

LEMMA ReverseMonotone ==
  ASSUME NEW x \in Nat, NEW y \in Nat,
         \A n \in 0..Width - 1 : bit(x, n) <= bit(y, n)
  PROVE  reverse(x) <= reverse(y)
<1>1. Width \in Nat
  BY TableAssumption
<1>2. PICK r : Reverses(x, r) /\ reverse(x) = r[Width]
  BY ReverseShifts
<1>3. PICK s : Reverses(y, s) /\ reverse(y) = s[Width]
  BY ReverseShifts
<1> DEFINE S == {n \in Nat : n <= Width => r[n] <= s[n]}
<1>4. 0 \in S
  BY <1>2, <1>3 DEF Reverses
<1>5. ASSUME NEW n \in S PROVE n + 1 \in S
  <2> SUFFICES ASSUME n + 1 <= Width PROVE r[n + 1] <= s[n + 1]
    OBVIOUS
  <2>1. /\ n + 1 \in 1..Width /\ (n + 1) - 1 = n /\ n \in 0..Width /\ n <= Width
        /\ n \in 0..Width - 1
    BY <1>1
  <2>2. r[n + 1] = 2 * r[n] + bit(x, n) /\ r[n] \in Nat
    BY <1>2, <2>1 DEF Reverses
  <2>3. s[n + 1] = 2 * s[n] + bit(y, n) /\ s[n] \in Nat
    BY <1>3, <2>1 DEF Reverses
  <2>4. bit(x, n) \in {0, 1} /\ bit(y, n) \in {0, 1} /\ bit(x, n) <= bit(y, n)
    BY <2>1, BitType
  <2>5. r[n] <= s[n]
    BY <2>1
  <2> QED  BY <2>2, <2>3, <2>4, <2>5
<1>6. S = Nat
  <2>1. S \subseteq Nat
    OBVIOUS
  <2> HIDE DEF S
  <2> QED  BY <1>4, <1>5, <2>1, Induction
<1>7. r[Width] <= s[Width]
  BY <1>1, <1>6
<1> QED  BY <1>2, <1>3, <1>7

(* No two numbers of the word have the same reversed bits. *)
LEMMA ReverseOnce ==
  ASSUME NEW x \in 0..Word - 1, NEW y \in 0..Word - 1, reverse(x) = reverse(y)
  PROVE  x = y
<1>1. Width \in Nat /\ x \in Nat /\ y \in Nat
  BY TableAssumption, Powers DEF Word
<1>2. PICK r : Reverses(x, r) /\ reverse(x) = r[Width]
  BY <1>1, ReverseShifts
<1>3. PICK s : Reverses(y, s) /\ reverse(y) = s[Width]
  BY <1>1, ReverseShifts
<1> DEFINE Same(n) == r[n] = s[n]
           S == {m \in Nat : m <= Width => Same(Width - m)}
<1>4. ASSUME NEW n \in 0..Width - 1, Same(n + 1) PROVE Same(n) /\ bit(x, n) = bit(y, n)
  <2>1. n + 1 \in 1..Width /\ (n + 1) - 1 = n /\ n \in 0..Width
    BY <1>1
  <2>2. r[n + 1] = 2 * r[n] + bit(x, n) /\ r[n] \in Nat
    BY <1>2, <2>1 DEF Reverses
  <2>3. s[n + 1] = 2 * s[n] + bit(y, n) /\ s[n] \in Nat
    BY <1>3, <2>1 DEF Reverses
  <2>4. bit(x, n) \in {0, 1} /\ bit(y, n) \in {0, 1}
    BY <1>1, <2>1, BitType
  <2>5. \A a, c \in Nat, b, d \in {0, 1} : 2 * a + b = 2 * c + d => a = c /\ b = d
    OBVIOUS
  <2>6. 2 * r[n] + bit(x, n) = 2 * s[n] + bit(y, n)
    BY Zenon, <1>4, <2>2, <2>3
  <2>7. r[n] = s[n] /\ bit(x, n) = bit(y, n)
    <3> DEFINE a == r[n]  b == bit(x, n)  c == s[n]  d == bit(y, n)
    <3>1. /\ a \in Nat /\ c \in Nat /\ b \in {0, 1} /\ d \in {0, 1}
          /\ 2 * a + b = 2 * c + d
      BY <2>2, <2>3, <2>4, <2>6
    <3> HIDE DEF a, b, c, d
    <3>2. a = c /\ b = d
      BY <2>5, <3>1
    <3> QED  BY <3>2 DEF a, b, c, d
  <2> QED  BY <2>7
<1> HIDE DEF Same
<1>5. 0 \in S
  <2>1. Same(Width)
    BY <1>2, <1>3 DEF Same
  <2> QED  BY <1>1, <2>1
<1>6. ASSUME NEW m \in S PROVE m + 1 \in S
  <2> SUFFICES ASSUME m + 1 <= Width PROVE Same(Width - (m + 1))
    OBVIOUS
  <2> DEFINE n == Width - (m + 1)
  <2>1. n \in 0..Width - 1 /\ n + 1 = Width - m /\ m <= Width
    BY <1>1
  <2>2. Same(n + 1)
    BY <2>1
  <2> HIDE DEF n
  <2>3. Same(n)
    BY <1>4, <2>1, <2>2
  <2> QED  BY <2>3 DEF n
<1>7. S = Nat
  <2>1. S \subseteq Nat
    OBVIOUS
  <2> HIDE DEF S
  <2> QED  BY <1>5, <1>6, <2>1, Induction
<1>8. ASSUME NEW n \in 0..Width - 1 PROVE bit(x, n) = bit(y, n)
  <2>1. Width - (n + 1) \in Nat /\ Width - (n + 1) <= Width
        /\ Width - (Width - (n + 1)) = n + 1
    BY <1>1
  <2>2. Same(Width - (Width - (n + 1)))
    BY <1>7, <2>1
  <2>3. Same(n + 1)
    BY <2>1, <2>2
  <2> QED  BY <1>4, <2>3
<1> QED  BY <1>8, SameBits

-----------------------------------------------------------------------------
(* Keys of the list *)

TopBit == pow2[Width - 1]

LEMMA TopBitProperties ==
  /\ TopBit \in Nat \ {0} /\ Word = 2 * TopBit /\ Word \in Nat \ {0}
  /\ \A n \in 0..Width - 1 : pow2[n] \in 1..TopBit
<1>1. Width \in Nat /\ Width - 1 \in 0..Width /\ Width \in 1..Width
  BY TableAssumption
<1>2. TopBit \in Nat \ {0} /\ Word = 2 * TopBit
  BY <1>1, Powers DEF TopBit, Word
<1>3. ASSUME NEW n \in 0..Width - 1 PROVE pow2[n] \in 1..TopBit
  <2>1. n \in 0..Width /\ n <= Width - 1
    BY <1>1
  <2>2. pow2[n] <= TopBit /\ pow2[n] \in Nat \ {0}
    BY <1>1, <2>1, Powers, PowersGrow DEF TopBit
  <2> QED  BY <1>2, <2>2
<1> QED  BY <1>2, <1>3

(* The top bit of a number, and what is left without it. *)
LEMMA TopBitOf ==
  ASSUME NEW n \in 0..Word - 1
  PROVE  \/ n < TopBit /\ bit(n, Width - 1) = 0 /\ Seen(n) = n
         \/ n >= TopBit /\ bit(n, Width - 1) = 1 /\ Seen(n) = n - TopBit
<1>1. TopBit \in Nat \ {0} /\ Word = 2 * TopBit /\ n \in Nat
  BY TopBitProperties
<1>2. CASE n < TopBit
  <2>1. n = TopBit * 0 + n /\ n \in 0..TopBit - 1
    BY <1>1, <1>2
  <2>2. n \div TopBit = 0 /\ n % TopBit = n
    BY <1>1, <2>1, DivModUnique
  <2> QED  BY <1>2, <2>2 DEF bit, Seen, TopBit
<1>3. CASE n >= TopBit
  <2>1. n = TopBit * 1 + (n - TopBit) /\ n - TopBit \in 0..TopBit - 1
    BY <1>1, <1>3
  <2>2. n \div TopBit = 1 /\ n % TopBit = n - TopBit
    BY <1>1, <2>1, DivModUnique
  <2> QED  BY <1>3, <2>2 DEF bit, Seen, TopBit
<1> QED  BY <1>1, <1>2, <1>3

(* The key of the list, of a number with the top bit and without. *)
LEMMA RegularKeys ==
  ASSUME NEW n \in 0..Word - 1
  PROVE  /\ Seen(n) \in 0..TopBit - 1
         /\ n < TopBit => reverseRegularKey(n) = reverse(n + TopBit)
         /\ n >= TopBit => reverseRegularKey(n) = reverse(n)
<1>1. TopBit \in Nat \ {0} /\ Word = 2 * TopBit
  BY TopBitProperties
<1>2. CASE n < TopBit /\ bit(n, Width - 1) = 0 /\ Seen(n) = n
  BY <1>1, <1>2 DEF reverseRegularKey, TopBit
<1>3. CASE n >= TopBit /\ bit(n, Width - 1) = 1 /\ Seen(n) = n - TopBit
  BY <1>1, <1>3 DEF reverseRegularKey
<1> QED  BY <1>2, <1>3, TopBitOf

(* The number of buckets divides the top bit. *)
LEMMA TopBitDivides ==
  ASSUME NEW n \in 0..Width - 1
  PROVE  \E m \in Nat : TopBit = pow2[n] * m
<1>1. Width \in Nat /\ n \in 0..Width /\ Width - 1 \in 0..Width /\ n <= Width - 1
  BY TableAssumption
<1>2. CASE n = Width - 1
  <2>1. TopBit = pow2[n] * 1
    BY <1>1, <1>2, TopBitProperties DEF TopBit
  <2> QED  BY <2>1
<1>3. CASE n # Width - 1
  <2>1. n < Width - 1
    BY <1>1, <1>3
  <2>2. PICK m \in Nat \ {0} : TopBit = pow2[n] * (2 * m)
    BY <1>1, <2>1, PowersDivide DEF TopBit
  <2> QED  BY <2>2
<1> QED  BY <1>2, <1>3

(* The table cannot tell numbers that differ in their top bit alone: they  *)
(* have the same key in the list and the same bucket, whatever the size.   *)
(* So a call with any number is the call with what is Seen of it.          *)
THEOREM TopBitUnseen ==
  ASSUME NEW n \in 0..Word - 1
  PROVE  /\ reverseRegularKey(n) = reverseRegularKey(Seen(n))
         /\ \A j \in 0..Width - 1 : n % pow2[j] = Seen(n) % pow2[j]
<1>1. TopBit \in Nat \ {0} /\ Word = 2 * TopBit /\ n \in Nat
  BY TopBitProperties
<1>2. CASE n < TopBit /\ Seen(n) = n
  BY <1>2
<1>3. CASE n >= TopBit /\ Seen(n) = n - TopBit
  <2>1. Seen(n) \in 0..Word - 1 /\ Seen(n) < TopBit /\ Seen(n) + TopBit = n
    BY <1>1, <1>3
  <2>2. reverseRegularKey(Seen(n)) = reverse(Seen(n) + TopBit)
    BY <2>1, RegularKeys
  <2>3. reverseRegularKey(n) = reverse(n)
    BY <1>3, RegularKeys
  <2>4. ASSUME NEW j \in 0..Width - 1 PROVE n % pow2[j] = Seen(n) % pow2[j]
    <3> DEFINE p == pow2[j]  x == Seen(n)  a == x \div p  r == x % p
    <3>1. p \in Nat \ {0} /\ x \in Nat
      BY <1>1, <2>1, TopBitProperties
    <3>2. PICK m \in Nat : TopBit = p * m
      BY TopBitDivides
    <3> HIDE DEF p, x
    <3>3. x = p * a + r /\ a \in Nat /\ r \in 0..p - 1
      BY <3>1, DivMod
    <3> HIDE DEF a, r
    <3>4. p * (a + m) = p * a + p * m
      BY <3>1, <3>2, <3>3
    <3>5. n = p * (a + m) + r /\ a + m \in Int
      BY <1>1, <2>1, <3>1, <3>2, <3>3, <3>4 DEF x
    <3>6. n % p = r
      BY <1>1, <3>1, <3>3, <3>5, DivModUnique
    <3> QED  BY <3>6 DEF p, x, r
  <2> QED  BY <2>1, <2>2, <2>3, <2>4
<1> QED  BY <1>2, <1>3, TopBitOf

(* A key and a bucket have list keys of their own. *)
LEMMA ListKeys ==
  /\ \A k \in Keys : k \in 0..TopBit - 1 /\ reverseRegularKey(k) \in 0..Word - 1
  /\ \A b \in 0..TopBit - 1 : reverseDummyKey(b) \in 0..Word - 1
  /\ \A k, l \in Keys : reverseRegularKey(k) = reverseRegularKey(l) => k = l
  /\ \A k \in Keys, b \in 0..TopBit - 1 : reverseRegularKey(k) # reverseDummyKey(b)
<1>1. TopBit \in Nat /\ Word = 2 * TopBit
  BY TopBitProperties
<1>2. \A k \in Keys : k \in 0..TopBit - 1 /\ k + TopBit \in 0..Word - 1
  BY <1>1, TableAssumption DEF TopBit
<1>3. \A b \in 0..TopBit - 1 : b \in Nat /\ b \in 0..Word - 1
  BY <1>1
<1>4. ASSUME NEW k \in Keys PROVE reverseRegularKey(k) = reverse(k + TopBit)
  <2>1. k \in 0..Word - 1 /\ k < TopBit
    BY <1>1, <1>2
  <2> QED  BY <2>1, RegularKeys
<1>5. ASSUME NEW k \in Keys PROVE reverseRegularKey(k) \in 0..Word - 1
  <2>1. k + TopBit \in Nat
    BY <1>1, <1>2
  <2> QED  BY <1>4, <2>1, ReverseRange
<1>6. ASSUME NEW b \in 0..TopBit - 1 PROVE reverseDummyKey(b) \in 0..Word - 1
  BY <1>3, ReverseRange DEF reverseDummyKey
<1>7. ASSUME NEW k \in Keys, NEW l \in Keys,
             reverseRegularKey(k) = reverseRegularKey(l)
      PROVE  k = l
  <2>1. k + TopBit = l + TopBit
    BY <1>2, <1>4, <1>7, ReverseOnce
  <2>2. k \in 0..TopBit - 1 /\ l \in 0..TopBit - 1
    BY <1>2
  <2> QED  BY <1>1, <2>1, <2>2
<1>8. ASSUME NEW k \in Keys, NEW b \in 0..TopBit - 1,
             reverseRegularKey(k) = reverseDummyKey(b)
      PROVE  FALSE
  <2>1. k + TopBit = b
    BY <1>2, <1>3, <1>4, <1>8, ReverseOnce DEF reverseDummyKey
  <2>2. k \in 0..TopBit - 1
    BY <1>2
  <2> QED  BY <1>1, <2>1, <2>2
<1> QED  BY <1>2, <1>5, <1>6, <1>7, <1>8

(* The dummy of a remainder does not come after the number. *)
LEMMA RemainderBefore ==
  ASSUME NEW x \in Nat, NEW n \in 0..Width
  PROVE  reverse(x % pow2[n]) <= reverse(x)
<1>1. x % pow2[n] \in Nat
  <2>1. pow2[n] \in Nat \ {0}
    BY Powers
  <2>2. x % pow2[n] \in 0..pow2[n] - 1
    BY <2>1, DivMod
  <2> QED  BY <2>1, <2>2
<1>2. ASSUME NEW j \in 0..Width - 1 PROVE bit(x % pow2[n], j) <= bit(x, j)
  <2>1. j \in 0..Width
    BY TableAssumption
  <2>2. bit(x % pow2[n], j) = IF j < n THEN bit(x, j) ELSE 0
    BY <2>1, RemainderBits
  <2>3. bit(x, j) \in {0, 1}
    BY <2>1, BitType
  <2> QED  BY <2>2, <2>3
<1> QED  BY <1>1, <1>2, ReverseMonotone

(* A key comes behind the dummies of all buckets it can have. *)
LEMMA KeyBehind ==
  ASSUME NEW k \in Keys, NEW n \in 0..Width - 1
  PROVE  /\ k % pow2[n] \in 0..pow2[n] - 1
         /\ reverseDummyKey(k % pow2[n]) <= reverseRegularKey(k)
<1> DEFINE p == pow2[n]  a == k \div p  r == k % p
<1>1. Width \in Nat /\ n \in 0..Width /\ Width - 1 \in 0..Width /\ n <= Width - 1
  BY TableAssumption
<1>2. TopBit \in Nat \ {0} /\ k \in Nat /\ p \in Nat \ {0}
  BY <1>1, ListKeys, TopBitProperties, Powers
<1>3. reverseRegularKey(k) = reverse(k + TopBit)
  <2>1. k \in 0..TopBit - 1 /\ Word = 2 * TopBit
    BY ListKeys, TopBitProperties
  <2>2. k \in 0..Word - 1 /\ k < TopBit
    BY <1>2, <2>1
  <2> QED  BY <2>2, RegularKeys
<1>4. PICK m \in Nat : TopBit = p * m
  BY TopBitDivides
<1> HIDE DEF p
<1>5. k = p * a + r /\ a \in Nat /\ r \in 0..p - 1
  BY <1>2, DivMod
<1> HIDE DEF a, r
<1>6. k + TopBit = p * (a + m) + r /\ a + m \in Int /\ k + TopBit \in Nat
  <2>1. p * (a + m) = p * a + p * m
    BY <1>2, <1>5
  <2> QED  BY <1>2, <1>4, <1>5, <2>1
<1>7. (k + TopBit) % p = r
  BY <1>2, <1>5, <1>6, DivModUnique
<1>8. reverse((k + TopBit) % pow2[n]) <= reverse(k + TopBit)
  BY <1>1, <1>6, RemainderBefore
<1>9. reverse(r) <= reverse(k + TopBit)
  BY <1>7, <1>8 DEF p
<1> QED  BY <1>3, <1>5, <1>9 DEF p, r, reverseDummyKey

(* The parent of a bucket comes before it, in the table and in the list. *)
LEMMA Parents ==
  ASSUME NEW b \in 0..TopBit - 1
  PROVE  /\ getParent(b) \in 0..b
         /\ reverseDummyKey(getParent(b)) <= reverseDummyKey(b)
<1> DEFINE powers == {pow2[n] : n \in 0..Width - 1}
           below == {p \in powers : p <= b}
<1>1. Width \in Nat \ {0, 1} /\ b \in Nat /\ TopBit \in Nat
  BY TableAssumption, TopBitProperties
<1>2. CASE b = 0
  <2>1. getParent(b) = 0
    BY <1>2 DEF getParent
  <2>2. reverseDummyKey(b) \in Int
    <3>1. reverse(b) \in 0..Word - 1
      BY <1>1, ReverseRange
    <3> QED  BY <3>1, TopBitProperties DEF reverseDummyKey
  <2> QED  BY <1>2, <2>1, <2>2
<1>3. CASE b # 0
  <2>1. \A n \in 0..Width - 1 : pow2[n] \in Nat \ {0} /\ n \in 0..Width
    BY <1>1, Powers
  <2> DEFINE I == {j \in Nat : j < Width /\ pow2[Width - 1 - j] <= b}
  <2>2. Width - 1 \in I
    BY <1>1, <1>3, Powers
  <2>3. PICK j \in I : \A l \in I : j <= l
    <3>1. I \in SUBSET Nat /\ I # {}
      BY <2>2
    <3> HIDE DEF I
    <3> QED  BY <3>1, Least
  <2> DEFINE n == Width - 1 - j
  <2>4. n \in 0..Width - 1 /\ pow2[n] <= b
    BY <1>1
  <2>5. ASSUME NEW l \in 0..Width - 1, pow2[l] <= b PROVE l <= n
    <3>1. Width - 1 - l \in Nat /\ Width - 1 - l < Width /\ Width - 1 - (Width - 1 - l) = l
      BY <1>1
    <3>2. Width - 1 - l \in I
      BY <2>5, <3>1
    <3>3. j <= Width - 1 - l
      BY <2>3, <3>2
    <3> QED  BY <1>1, <3>3
  <2> HIDE DEF n, I
  <2>6. ASSUME NEW p \in below PROVE p <= pow2[n]
    <3>1. PICK l \in 0..Width - 1 : p = pow2[l] /\ pow2[l] <= b
      OBVIOUS
    <3>2. l <= n /\ l \in 0..Width /\ n \in 0..Width
      BY <1>1, <2>4, <2>5, <3>1
    <3> QED  BY <3>1, <3>2, PowersGrow
  <2>7. pow2[n] \in below /\ below \subseteq Nat
    BY <2>1, <2>4
  <2>8. Max(below) = pow2[n]
    <3> HIDE DEF below
    <3> DEFINE q == pow2[n]
    <3>1. q \in below /\ \A x \in below : x <= q
      BY <2>6, <2>7
    <3> HIDE DEF q
    <3>2. \A x \in below : x \in Nat /\ q \in Nat
      BY <2>7, <3>1
    <3>3. \A x \in below : q <= x => x = q
      BY <3>1, <3>2
    <3>4. Max(below) \in below /\ \A y \in below : Max(below) >= y
      <4>1. \A y \in below : q >= y
        BY <3>1, <3>2
      <4> QED  BY <3>1, <4>1 DEF Max
    <3> QED  BY <3>1, <3>2, <3>3, <3>4 DEF q
  <2>9. getParent(b) = b - pow2[n]
    BY <1>3, <2>8 DEF getParent
  <2>10. b < 2 * pow2[n]
    <3>1. CASE n = Width - 1
      BY <1>1, <3>1 DEF TopBit
    <3>2. CASE n # Width - 1
      <4>1. n + 1 \in 0..Width - 1 /\ n + 1 \in 1..Width /\ (n + 1) - 1 = n
            /\ ~(n + 1 <= n)
        BY <1>1, <2>4, <3>2
      <4>2. ~(pow2[n + 1] <= b)
        BY <2>5, <4>1
      <4>3. pow2[n + 1] = 2 * pow2[n] /\ pow2[n] \in Nat
        BY <2>1, <2>4, <4>1, Powers
      <4> QED  BY <1>1, <4>2, <4>3
    <3> QED  BY <3>1, <3>2
  <2>11. b - pow2[n] \in 0..pow2[n] - 1 /\ b = pow2[n] * 1 + (b - pow2[n])
         /\ pow2[n] \in Nat \ {0} /\ 1 \in Int /\ n \in 0..Width
    BY <1>1, <2>1, <2>4, <2>10
  <2>12. b % pow2[n] = b - pow2[n]
    BY <1>1, <2>11, DivModUnique
  <2>13. reverse(b % pow2[n]) <= reverse(b)
    BY <1>1, <2>11, RemainderBefore
  <2> QED  BY <1>1, <2>9, <2>11, <2>12, <2>13 DEF reverseDummyKey
<1> QED  BY <1>2, <1>3

-----------------------------------------------------------------------------
(* The invariant *)

Sizes == {pow2[n] : n \in 1..Width - 1}

(* What a call relies on.  Its bucket is that of the key at some size the   *)
(* table had; the buckets on the stack are the bucket, its parent and so    *)
(* on; and a table that is about to grow is less than half of what the keys *)
(* allow.                                                                   *)
LocalInv(t) ==
  /\ pc[t] = "idle" <=> op[t] = "none"
  /\ result[t] = {} <=> pc[t] \in {"idle", "check", "init", "dummy", "store", "op"}
  /\ pc[t] \in {"check", "init", "dummy", "store", "op"} =>
       \E n \in 1..Width - 1 : pow2[n] <= size_ /\ bucket[t] = key[t] % pow2[n]
  /\ pc[t] \in {"init", "dummy", "store"} =>
       /\ stack[t] # <<>> /\ stack[t][Len(stack[t])] = bucket[t]
       /\ \A j \in 1..Len(stack[t]) : stack[t][j] < size_
       /\ \A j \in 1..Len(stack[t]) - 1 : stack[t][j] = getParent(stack[t][j + 1])
  /\ pc[t] \notin {"push", "cas", "done"} => i[t] = 0
  /\ pc[t] \in {"count", "test", "push", "cas"} => csize[t] \in Sizes /\ csize[t] <= size_
  /\ pc[t] \in {"push", "cas"} => 2 * csize[t] < Word

(* What a thread finds in the table: there are buckets for the size it is   *)
(* about to announce, the parent of a bucket it initialises is there, and   *)
(* so is the bucket it starts from.                                         *)
BucketInv(t) ==
  /\ pc[t] = "push" /\ csize[t] = size_ => Len(buckets_) >= size_ + i[t]
  /\ pc[t] = "cas" /\ csize[t] = size_ => Len(buckets_) >= 2 * size_
  /\ pc[t] \in {"dummy", "store"} => at(getParent(Head(stack[t]))) # NULL
  /\ pc[t] = "store" => reverseDummyKey(Head(stack[t])) \in list
  /\ pc[t] = "op" => at(bucket[t]) # NULL

(* There is a bucket for every hash, the first is in use, and each that is   *)
(* in use leads to its own dummy and has a parent in use.                    *)
TableInv ==
  /\ Len(buckets_) >= size_ /\ at(0) # NULL
  /\ \A b \in 0..Len(buckets_) - 1 : at(b) # NULL =>
       /\ b < size_ /\ at(b) = reverseDummyKey(b) /\ at(b) \in list
       /\ at(getParent(b)) # NULL

(* The calls that are about to count their key, and the difference *)
Adding   == {t \in Threads : pc[t] \in {"csize", "count"}}
Removing == {t \in Threads : pc[t] = "uncount"}
CountInv ==
  \E q \in Int : count_ + Cardinality(Adding)
                   = Cardinality(Members) + Cardinality(Removing) + q * Word

(* An open call has seen what is in the set now. *)
SeenInv(t) ==
  /\ op[t] = "none" => was[t] = {}
  /\ op[t] # "none" /\ result[t] = {} =>
       /\ key[t] \in Members => TRUE \in was[t]
       /\ key[t] \notin Members => FALSE \in was[t]

TInv ==
  /\ TypeOK /\ CountInv
  /\ \A t \in Threads : LocalInv(t) /\ SeenInv(t)
  /\ ~torn => TableInv /\ \A t \in Threads : BucketInv(t)

-----------------------------------------------------------------------------
(* Facts the steps have in common *)

LEMMA SizeFacts ==
  ASSUME TypeOK
  PROVE  /\ size_ \in 1..TopBit /\ size_ \in Nat
         /\ Word = 2 * TopBit /\ TopBit \in Nat \ {0} /\ Word \in Nat \ {0}
         /\ Len(buckets_) \in Nat
<1>1. PICK n \in 1..Width - 1 : size_ = pow2[n]
  BY DEF TypeOK
<1>2. n \in 0..Width - 1
  BY TableAssumption
<1> QED  BY <1>1, <1>2, TopBitProperties DEF TypeOK

LEMMA WasType ==
  ASSUME TypeOK, Observe
  PROVE  was' \in [Threads -> SUBSET BOOLEAN]
<1>1. \A t \in Threads : (key'[t] \in Members') \in BOOLEAN
  OBVIOUS
<1> QED  BY <1>1 DEF TypeOK, Observe

LEMMA Observed ==
  ASSUME NEW t \in Threads, Observe
  PROVE  /\ op'[t] = "none" => was'[t] = {}
         /\ op'[t] # "none" /\ result[t] = {} =>
              /\ key'[t] \in Members' => TRUE \in was'[t]
              /\ key'[t] \notin Members' => FALSE \in was'[t]
<1>1. was'[t] = IF op'[t] = "none" THEN {}
                ELSE IF result[t] # {} THEN was[t]
                ELSE was[t] \union {key'[t] \in Members'}
  BY DEF Observe
<1>2. /\ key'[t] \in Members' => (key'[t] \in Members') = TRUE
      /\ key'[t] \notin Members' => (key'[t] \in Members') = FALSE
  OBVIOUS
<1> QED  BY <1>1, <1>2

(* One thread's step leaves the others where they are, *)
OthersWait(t) ==
  \A u \in Threads \ {t} :
    /\ pc'[u] = pc[u] /\ op'[u] = op[u] /\ key'[u] = key[u] /\ bucket'[u] = bucket[u]
    /\ stack'[u] = stack[u] /\ csize'[u] = csize[u] /\ i'[u] = i[u]
    /\ result'[u] = result[u]

(* and takes nothing from them. *)
Grows ==
  /\ size_ <= size_' /\ Len(buckets_) <= Len(buckets_')
  /\ \A b \in 0..Len(buckets_) - 1 : at(b) # NULL => buckets_'[b + 1] # NULL
  /\ \A b \in 0..TopBit - 1 : reverseDummyKey(b) \in list => reverseDummyKey(b) \in list'

(* The stack of a thread that initialises buckets *)
LEMMA StackFacts ==
  ASSUME TypeOK, NEW t \in Threads, LocalInv(t), pc[t] \in {"init", "dummy", "store"}
  PROVE  /\ Head(stack[t]) \in 0..size_ - 1 /\ Head(stack[t]) \in 0..TopBit - 1
         /\ getParent(Head(stack[t])) \in 0..size_ - 1
         /\ Head(stack[t]) = stack[t][1] /\ Len(stack[t]) \in Nat \ {0}
         /\ stack[t] \in Seq(Nat) /\ stack[t] # <<>>
<1> DEFINE s == stack[t]
<1>1. s \in Seq(Nat) /\ s # <<>> /\ \A j \in 1..Len(s) : s[j] < size_
  BY DEF TypeOK, LocalInv
<1> HIDE DEF s
<1>2. Len(s) \in Nat \ {0} /\ Head(s) = s[1] /\ s[1] \in Nat
  BY <1>1
<1>3. s[1] < size_
  BY <1>1, <1>2
<1>4. Head(s) \in 0..size_ - 1 /\ Head(s) \in 0..TopBit - 1
  BY <1>2, <1>3, SizeFacts
<1>5. getParent(Head(s)) \in 0..Head(s)
  BY <1>4, Parents
<1>6. getParent(Head(s)) \in 0..size_ - 1
  BY <1>4, <1>5, SizeFacts
<1> QED  BY <1>1, <1>2, <1>4, <1>6 DEF s

(* The bucket of a call *)
LEMMA BucketFacts ==
  ASSUME TypeOK, NEW t \in Threads, LocalInv(t),
         pc[t] \in {"check", "init", "dummy", "store", "op"}
  PROVE  /\ bucket[t] \in 0..size_ - 1
         /\ reverseDummyKey(bucket[t]) <= reverseRegularKey(key[t])
<1>1. PICK n \in 1..Width - 1 : pow2[n] <= size_ /\ bucket[t] = key[t] % pow2[n]
  BY DEF LocalInv
<1>2. n \in 0..Width - 1 /\ n \in 0..Width /\ key[t] \in Keys
  BY TableAssumption DEF TypeOK
<1>3. /\ key[t] % pow2[n] \in 0..pow2[n] - 1
      /\ reverseDummyKey(key[t] % pow2[n]) <= reverseRegularKey(key[t])
  BY <1>2, KeyBehind
<1>4. pow2[n] \in Nat
  BY <1>2, Powers
<1> QED  BY <1>1, <1>3, <1>4, SizeFacts

(* What a thread that waits relies on stays. *)
LEMMA OtherThread ==
  ASSUME TypeOK, NEW t \in Threads, NEW u \in Threads \ {t}, OthersWait(t), Observe,
         size_ <= size_', size_' \in Nat, LocalInv(u), SeenInv(u)
  PROVE  LocalInv(u)' /\ SeenInv(u)'
<1>1. /\ pc'[u] = pc[u] /\ op'[u] = op[u] /\ key'[u] = key[u] /\ bucket'[u] = bucket[u]
      /\ stack'[u] = stack[u] /\ csize'[u] = csize[u] /\ i'[u] = i[u]
      /\ result'[u] = result[u]
  BY DEF OthersWait
<1>2. size_ \in Nat
  BY SizeFacts
<1>3. SeenInv(u)'
  BY <1>1, Observed DEF SeenInv
<1>4. ASSUME pc[u] \in {"check", "init", "dummy", "store", "op"}
      PROVE  \E n \in 1..Width - 1 : pow2[n] <= size_' /\ bucket[u] = key[u] % pow2[n]
  <2>1. PICK n \in 1..Width - 1 : pow2[n] <= size_ /\ bucket[u] = key[u] % pow2[n]
    BY <1>4 DEF LocalInv
  <2>2. pow2[n] \in Nat
    <3>1. n \in 0..Width
      BY TableAssumption
    <3> QED  BY <3>1, Powers
  <2> QED  BY <1>2, <2>1, <2>2
<1>5. ASSUME pc[u] \in {"init", "dummy", "store"}
      PROVE  \A j \in 1..Len(stack[u]) : stack[u][j] < size_'
  <2>1. stack[u] \in Seq(Nat) /\ \A j \in 1..Len(stack[u]) : stack[u][j] < size_
    BY <1>5 DEF LocalInv, TypeOK
  <2> QED  BY <1>2, <2>1
<1>6. pc[u] \in {"count", "test", "push", "cas"} => csize[u] \in Sizes /\ csize[u] <= size_'
  BY <1>2 DEF LocalInv, TypeOK
<1>7. LocalInv(u)'
  BY <1>1, <1>4, <1>5, <1>6 DEF LocalInv
<1> QED  BY <1>3, <1>7

LEMMA OtherBuckets ==
  ASSUME TypeOK, NEW t \in Threads, NEW u \in Threads \ {t}, OthersWait(t),
         size_' \in Nat, Len(buckets_') \in Nat, Grows, TableInv, LocalInv(u), BucketInv(u)
  PROVE  BucketInv(u)'
<1>1. /\ pc'[u] = pc[u] /\ bucket'[u] = bucket[u]
      /\ stack'[u] = stack[u] /\ csize'[u] = csize[u] /\ i'[u] = i[u]
  BY DEF OthersWait
<1>2. size_ \in Nat /\ Len(buckets_) \in Nat /\ size_ <= Len(buckets_)
  BY SizeFacts DEF TableInv
<1>3. i[u] \in Nat /\ csize[u] \in Nat
  BY DEF TypeOK
<1>4. pc[u] \in {"push", "cas"} /\ csize[u] = size_' => size_' = size_
  BY <1>2, <1>3 DEF Grows, LocalInv
<1>5. /\ pc[u] = "push" /\ csize[u] = size_' => Len(buckets_') >= size_' + i[u]
      /\ pc[u] = "cas" /\ csize[u] = size_' => Len(buckets_') >= 2 * size_'
  BY <1>2, <1>3, <1>4 DEF Grows, BucketInv
<1>6. ASSUME pc[u] \in {"dummy", "store"}
      PROVE  buckets_'[getParent(Head(stack[u])) + 1] # NULL
  <2>1. getParent(Head(stack[u])) \in 0..Len(buckets_) - 1
    BY <1>2, <1>6, StackFacts
  <2> QED  BY <1>6, <2>1 DEF BucketInv, Grows
<1>7. ASSUME pc[u] = "store" PROVE reverseDummyKey(Head(stack[u])) \in list'
  <2>1. Head(stack[u]) \in 0..TopBit - 1
    BY <1>7, StackFacts
  <2> QED  BY <1>7, <2>1 DEF BucketInv, Grows
<1>8. ASSUME pc[u] = "op" PROVE buckets_'[bucket[u] + 1] # NULL
  <2>1. bucket[u] \in 0..Len(buckets_) - 1
    BY <1>2, <1>8, BucketFacts
  <2> QED  BY <1>8, <2>1 DEF BucketInv, Grows
<1> QED  BY <1>1, <1>5, <1>6, <1>7, <1>8 DEF BucketInv, at

(* Keys and dummies in the list *)
LEMMA MembersAfter ==
  /\ \A k \in Keys : list' = list \union {reverseRegularKey(k)} =>
       Members' = Members \union {k}
  /\ \A k \in Keys : list' = list \ {reverseRegularKey(k)} =>
       Members' = Members \ {k}
  /\ \A b \in 0..TopBit - 1 : list' = list \union {reverseDummyKey(b)} =>
       Members' = Members
  /\ list' = list => Members' = Members
<1>1. /\ \A k, l \in Keys : reverseRegularKey(k) = reverseRegularKey(l) => k = l
      /\ \A k \in Keys, b \in 0..TopBit - 1 : reverseRegularKey(k) # reverseDummyKey(b)
  BY ListKeys
<1>2. Members' = {k \in Keys : reverseRegularKey(k) \in list'}
  BY DEF Members
<1> QED  BY <1>1, <1>2 DEF Members

LEMMA MembersFinite == IsFiniteSet(Members) /\ Cardinality(Members) \in Nat
<1>1. Members \subseteq 0..TopBit - 1
  BY ListKeys DEF Members
<1>2. IsFiniteSet(0..TopBit - 1)
  <2>1. 0 \in Int /\ TopBit - 1 \in Int
    BY TopBitProperties
  <2> QED  BY <2>1, FS_Interval
<1> QED  BY <1>1, <1>2, FS_Subset, FS_CardinalityType

(* A thread that moves enters or leaves the calls that are about to count. *)
LEMMA Moves ==
  ASSUME TypeOK, NEW t \in Threads, NEW x, pc' = [pc EXCEPT ![t] = x]
  PROVE  /\ Cardinality(Adding) \in Nat /\ Cardinality(Removing) \in Nat
         /\ (pc[t] \in {"csize", "count"}) = (x \in {"csize", "count"}) => Adding' = Adding
         /\ pc[t] \notin {"csize", "count"} /\ x \in {"csize", "count"} =>
              Cardinality(Adding') = Cardinality(Adding) + 1
         /\ pc[t] \in {"csize", "count"} /\ x \notin {"csize", "count"} =>
              Cardinality(Adding') = Cardinality(Adding) - 1
         /\ (pc[t] = "uncount") = (x = "uncount") => Removing' = Removing
         /\ pc[t] # "uncount" /\ x = "uncount" =>
              Cardinality(Removing') = Cardinality(Removing) + 1
         /\ pc[t] = "uncount" /\ x # "uncount" =>
              Cardinality(Removing') = Cardinality(Removing) - 1
<1>1. IsFiniteSet(Adding) /\ IsFiniteSet(Removing)
  <2>1. Adding \subseteq Threads /\ Removing \subseteq Threads
    BY DEF Adding, Removing
  <2> QED  BY <2>1, TableAssumption, FS_Subset
<1>2. \A u \in Threads : pc'[u] = IF u = t THEN x ELSE pc[u]
  BY DEF TypeOK
<1>3. /\ Adding' = {u \in Threads : pc'[u] \in {"csize", "count"}}
      /\ Removing' = {u \in Threads : pc'[u] = "uncount"}
  BY DEF Adding, Removing
<1>4. (pc[t] \in {"csize", "count"}) = (x \in {"csize", "count"}) => Adding' = Adding
  BY <1>2, <1>3 DEF Adding
<1>5. (pc[t] = "uncount") = (x = "uncount") => Removing' = Removing
  BY <1>2, <1>3 DEF Removing
<1>6. ASSUME pc[t] \notin {"csize", "count"}, x \in {"csize", "count"}
      PROVE  Cardinality(Adding') = Cardinality(Adding) + 1
  <2>1. t \notin Adding /\ Adding' = Adding \union {t}
    BY <1>2, <1>3, <1>6 DEF Adding
  <2> QED  BY <1>1, <2>1, FS_AddElement
<1>7. ASSUME pc[t] \in {"csize", "count"}, x \notin {"csize", "count"}
      PROVE  Cardinality(Adding') = Cardinality(Adding) - 1
  <2>1. t \in Adding /\ Adding' = Adding \ {t}
    BY <1>2, <1>3, <1>7 DEF Adding
  <2> QED  BY <1>1, <2>1, FS_RemoveElement
<1>8. ASSUME pc[t] # "uncount", x = "uncount"
      PROVE  Cardinality(Removing') = Cardinality(Removing) + 1
  <2>1. t \notin Removing /\ Removing' = Removing \union {t}
    BY <1>2, <1>3, <1>8 DEF Removing
  <2> QED  BY <1>1, <2>1, FS_AddElement
<1>9. ASSUME pc[t] = "uncount", x # "uncount"
      PROVE  Cardinality(Removing') = Cardinality(Removing) - 1
  <2>1. t \in Removing /\ Removing' = Removing \ {t}
    BY <1>2, <1>3, <1>9 DEF Removing
  <2> QED  BY <1>1, <2>1, FS_RemoveElement
<1> QED
  BY <1>1, <1>4, <1>5, <1>6, <1>7, <1>8, <1>9, FS_CardinalityType

(* Most steps have nothing to do with the count. *)
Counting == {"csize", "count", "uncount"}

LEMMA CountKept ==
  ASSUME TypeOK, CountInv, NEW t \in Threads, NEW x, pc' = [pc EXCEPT ![t] = x],
         pc[t] \notin Counting, x \notin Counting, Members' = Members, count_' = count_
  PROVE  CountInv'
<1>1. Adding' = Adding /\ Removing' = Removing
  <2>1. /\ (pc[t] \in {"csize", "count"}) = (x \in {"csize", "count"})
        /\ (pc[t] = "uncount") = (x = "uncount")
    BY DEF Counting
  <2> QED  BY <2>1, Moves
<1> QED  BY <1>1 DEF CountInv

(* The table is as it was if nothing but dummies was added to the list. *)
LEMMA TableKept ==
  ASSUME TypeOK, TableInv, Grows, UNCHANGED <<buckets_, size_>>
  PROVE  TableInv'
<1>1. ASSUME NEW b \in 0..Len(buckets_) - 1, at(b) # NULL
      PROVE  at(b) \in list'
  <2>1. b < size_ /\ at(b) = reverseDummyKey(b) /\ at(b) \in list
    BY <1>1 DEF TableInv
  <2>2. b \in 0..TopBit - 1
    BY <2>1, SizeFacts
  <2> QED  BY <2>1, <2>2 DEF Grows
<1> QED  BY <1>1 DEF TableInv, at

(* Where a call of the list starts *)
LEMMA StartOfKey ==
  ASSUME TypeOK, TableInv, NEW t \in Threads, LocalInv(t), BucketInv(t), pc[t] = "op"
  PROVE  /\ key[t] \in Keys /\ at(bucket[t]) <= reverseRegularKey(key[t])
         /\ Found(reverseRegularKey(key[t]), at(bucket[t])) <=> key[t] \in Members
         /\ Linked(reverseRegularKey(key[t]), at(bucket[t]))
              = list \union {reverseRegularKey(key[t])}
<1>1. bucket[t] \in 0..size_ - 1 /\ reverseDummyKey(bucket[t]) <= reverseRegularKey(key[t])
  BY BucketFacts
<1>2. bucket[t] \in 0..Len(buckets_) - 1 /\ at(bucket[t]) # NULL
  BY <1>1, SizeFacts DEF TableInv, BucketInv
<1>3. at(bucket[t]) = reverseDummyKey(bucket[t])
  BY <1>2 DEF TableInv
<1>4. key[t] \in Keys
  BY DEF TypeOK
<1> QED  BY <1>1, <1>3, <1>4 DEF Found, Linked, Members

LEMMA StartOfDummy ==
  ASSUME TypeOK, TableInv, NEW t \in Threads, LocalInv(t), BucketInv(t), pc[t] = "dummy"
  PROVE  Linked(reverseDummyKey(Head(stack[t])), at(getParent(Head(stack[t]))))
           = list \union {reverseDummyKey(Head(stack[t]))}
<1> DEFINE b == Head(stack[t])
<1>1. b \in 0..TopBit - 1 /\ getParent(b) \in 0..size_ - 1
  BY StackFacts
<1>2. at(getParent(b)) # NULL
  BY DEF BucketInv
<1> HIDE DEF b
<1>3. getParent(b) \in 0..Len(buckets_) - 1
  BY <1>1, SizeFacts DEF TableInv
<1>4. at(getParent(b)) = reverseDummyKey(getParent(b))
  BY <1>2, <1>3 DEF TableInv
<1>5. at(getParent(b)) <= reverseDummyKey(b)
  BY <1>1, <1>4, Parents
<1>6. Linked(reverseDummyKey(b), at(getParent(b))) = list \union {reverseDummyKey(b)}
  BY <1>5 DEF Linked
<1> QED  BY <1>6 DEF b

-----------------------------------------------------------------------------
(* The steps, one by one *)

StepKept(t) ==
  /\ TypeOK' /\ CountInv' /\ OthersWait(t) /\ Grows /\ LocalInv(t)'
  /\ op'[t] # "none" /\ result'[t] = {} => result[t] = {}
  /\ ~torn' => TableInv' /\ BucketInv(t)'

LEMMA TornType == ASSUME NEW t, Race(t) PROVE torn' \in BOOLEAN
  BY Zenon DEF Race

LEMMA GrowsKept == ASSUME TypeOK, UNCHANGED <<size_, buckets_, list>> PROVE Grows
<1>1. size_ \in Nat /\ Len(buckets_) \in Nat
  BY SizeFacts
<1> QED  BY <1>1 DEF Grows, at

LEMMA CallStep ==
  ASSUME TInv, ~torn, NEW t \in Threads, NEW o \in {"insert", "remove", "lookup"},
         NEW k \in Keys, Call(t, o, k), Observe, UNCHANGED torn
  PROVE  StepKept(t)
<1> USE DEF TInv, Call, Goto, tableVars
<1>1. was' \in [Threads -> SUBSET BOOLEAN]
  BY WasType
<1>2. PICK n \in 1..Width - 1 : size_ = pow2[n]
  BY DEF TypeOK
<1>3. n \in 0..Width - 1 /\ size_ \in Nat /\ size_ \in 1..TopBit
  BY TableAssumption, SizeFacts
<1>4. k % size_ \in Nat
  <2>1. k % pow2[n] \in 0..pow2[n] - 1
    BY <1>3, KeyBehind
  <2> QED  BY <1>2, <1>3, <2>1
<1>5. TypeOK'
  BY <1>1, <1>4 DEF TypeOK
<1>6. OthersWait(t)
  BY DEF OthersWait, TypeOK
<1>7. pc'[t] = "check" /\ op'[t] = o /\ key'[t] = k /\ bucket'[t] = k % size_ /\ i'[t] = i[t]
      /\ result'[t] = result[t] /\ pc[t] = "idle"
  BY DEF TypeOK
<1>8. LocalInv(t)'
  <2>1. pow2[n] <= size_' /\ bucket'[t] = key'[t] % pow2[n]
    BY <1>2, <1>3, <1>7
  <2>2. i[t] = 0 /\ result[t] = {}
    BY <1>7 DEF LocalInv
  <2> QED  BY <1>7, <2>1, <2>2 DEF LocalInv
<1>9. CountInv'
  <2>1. Members' = Members
    BY MembersAfter
  <2> QED  BY <1>7, <2>1, CountKept DEF Counting
<1>10. Grows
  BY GrowsKept
<1>11. TableInv'
  BY <1>10, TableKept
<1>12. BucketInv(t)'
  BY <1>7 DEF BucketInv
<1> QED
  BY <1>5, <1>6, <1>7, <1>8, <1>9, <1>10, <1>11, <1>12 DEF StepKept

LEMMA CheckStep ==
  ASSUME TInv, ~torn, NEW t \in Threads, Check(t), Observe, Race(t)
  PROVE  StepKept(t)
<1> USE DEF TInv, Check, Goto, tableVars, callVars
<1>1. was' \in [Threads -> SUBSET BOOLEAN] /\ torn' \in BOOLEAN
  BY WasType, TornType
<1>2. bucket[t] \in 0..size_ - 1 /\ bucket[t] \in Nat /\ size_ \in Nat
  BY BucketFacts, SizeFacts
<1>3. <<bucket[t]>> \in Seq(Nat)
  BY <1>2
<1>4. TypeOK'
  <2>1. stack' \in [Threads -> Seq(Nat)]
    BY <1>3 DEF TypeOK
  <2>2. pc' \in [Threads -> {"idle", "check", "init", "dummy", "store", "op", "csize",
                             "count", "test", "push", "cas", "uncount", "done"}]
    <3>1. pc' = [pc EXCEPT ![t] = "init"] \/ pc' = [pc EXCEPT ![t] = "op"]
      OBVIOUS
    <3>2. pc \in [Threads -> {"idle", "check", "init", "dummy", "store", "op", "csize",
                              "count", "test", "push", "cas", "uncount", "done"}]
      BY DEF TypeOK
    <3> HIDE DEF TInv, Check, CheckParent
    <3> QED  BY <3>1, <3>2
  <2> QED  BY <1>1, <2>1, <2>2 DEF TypeOK
<1>5. OthersWait(t)
  BY DEF OthersWait, TypeOK
<1>6. /\ op'[t] = op[t] /\ key'[t] = key[t] /\ bucket'[t] = bucket[t] /\ i'[t] = i[t]
      /\ result'[t] = result[t] /\ pc[t] = "check"
      /\ at(bucket[t]) = NULL => pc'[t] = "init" /\ stack'[t] = <<bucket[t]>>
      /\ at(bucket[t]) # NULL => pc'[t] = "op"
      /\ at(bucket[t])' = at(bucket[t])
  BY DEF TypeOK, at
<1>7. LocalInv(t)'
  <2>1. /\ op[t] # "none" /\ result[t] = {} /\ i[t] = 0
        /\ \E n \in 1..Width - 1 : pow2[n] <= size_ /\ bucket[t] = key[t] % pow2[n]
    BY <1>6 DEF LocalInv
  <2>2. CASE at(bucket[t]) # NULL
    BY <1>6, <2>1, <2>2 DEF LocalInv
  <2>3. CASE at(bucket[t]) = NULL
    <3> DEFINE s == stack'[t]
    <3>1. s = <<bucket[t]>>
      BY <1>6, <2>3
    <3>2. Len(s) = 1 /\ s[1] = bucket[t] /\ s # <<>>
      BY <3>1
    <3>3. /\ \A j \in 1..Len(s) : s[j] < size_
          /\ \A j \in 1..Len(s) - 1 : s[j] = getParent(s[j + 1])
      <4>1. \A j \in 1..Len(s) : j = 1
        BY <3>2
      <4>2. 1..Len(s) - 1 = {}
        BY <3>2
      <4>3. bucket[t] < size_
        BY <1>2
      <4> QED  BY <3>2, <4>1, <4>2, <4>3
    <3> QED  BY <1>6, <2>1, <2>3, <3>2, <3>3 DEF LocalInv
  <2> QED  BY <2>2, <2>3
<1>8. CountInv'
  <2>1. Members' = Members
    BY MembersAfter
  <2>2. CASE at(bucket[t]) = NULL
    BY <1>6, <2>1, <2>2, CountKept DEF Counting
  <2>3. CASE at(bucket[t]) # NULL
    BY <1>6, <2>1, <2>3, CountKept DEF Counting
  <2> QED  BY <2>2, <2>3
<1>9. Grows
  BY GrowsKept
<1>10. TableInv'
  BY <1>9, TableKept
<1>11. BucketInv(t)'
  BY <1>6 DEF BucketInv, at
<1> QED
  BY <1>4, <1>5, <1>6, <1>7, <1>8, <1>9, <1>10, <1>11 DEF StepKept

LEMMA CheckParentStep ==
  ASSUME TInv, ~torn, NEW t \in Threads, CheckParent(t), Observe, Race(t)
  PROVE  StepKept(t)
<1> DEFINE b == Head(stack[t])  s == stack[t]  r == stack'[t]
<1> USE DEF TInv, CheckParent, Goto, tableVars, callVars
<1>1. was' \in [Threads -> SUBSET BOOLEAN] /\ torn' \in BOOLEAN
  BY WasType, TornType
<1>2. /\ b \in 0..size_ - 1 /\ b \in 0..TopBit - 1 /\ getParent(b) \in 0..size_ - 1
      /\ b = s[1] /\ Len(s) \in Nat \ {0} /\ s \in Seq(Nat) /\ s # <<>>
  BY StackFacts
<1>3. size_ \in Nat /\ getParent(b) \in Nat
  BY <1>2, SizeFacts
<1>4. <<getParent(b)>> \o s \in Seq(Nat)
  BY <1>2, <1>3
<1>5. TypeOK'
  <2>1. stack' \in [Threads -> Seq(Nat)]
    BY <1>4 DEF TypeOK
  <2>2. pc' \in [Threads -> {"idle", "check", "init", "dummy", "store", "op", "csize",
                             "count", "test", "push", "cas", "uncount", "done"}]
    <3>1. pc' = pc \/ pc' = [pc EXCEPT ![t] = "dummy"]
      OBVIOUS
    <3>2. pc \in [Threads -> {"idle", "check", "init", "dummy", "store", "op", "csize",
                              "count", "test", "push", "cas", "uncount", "done"}]
      BY DEF TypeOK
    <3> HIDE DEF TInv, Check, CheckParent
    <3> QED  BY <3>1, <3>2
  <2> QED  BY <1>1, <2>1, <2>2 DEF TypeOK
<1>6. OthersWait(t)
  BY DEF OthersWait, TypeOK
<1>7. /\ op'[t] = op[t] /\ key'[t] = key[t] /\ bucket'[t] = bucket[t] /\ i'[t] = i[t]
      /\ result'[t] = result[t] /\ pc[t] = "init"
      /\ ParentMissing(b) => pc'[t] = "init" /\ r = <<getParent(b)>> \o s
      /\ ~ParentMissing(b) => pc'[t] = "dummy" /\ r = s
  BY DEF TypeOK
<1>8. LocalInv(t)'
  <2>1. /\ op[t] # "none" /\ result[t] = {} /\ i[t] = 0
        /\ \E n \in 1..Width - 1 : pow2[n] <= size_ /\ bucket[t] = key[t] % pow2[n]
        /\ s[Len(s)] = bucket[t]
        /\ \A j \in 1..Len(s) : s[j] < size_
        /\ \A j \in 1..Len(s) - 1 : s[j] = getParent(s[j + 1])
    BY <1>7 DEF LocalInv
  <2>2. CASE ~ParentMissing(b)
    BY <1>2, <1>7, <2>1, <2>2 DEF LocalInv
  <2>3. CASE ParentMissing(b)
    <3>1. r = <<getParent(b)>> \o s
      BY <1>7, <2>3
    <3> HIDE DEF r, s, b
    <3>2. /\ Len(r) = Len(s) + 1 /\ r # <<>> /\ r[1] = getParent(b)
          /\ \A j \in 2..Len(r) : r[j] = s[j - 1]
      BY <1>2, <1>3, <3>1
    <3>3. r[Len(r)] = s[Len(s)]
      BY <1>2, <3>2
    <3>4. ASSUME NEW j \in 1..Len(r) PROVE r[j] < size_
      <4>1. CASE j = 1
        BY <1>2, <1>3, <3>2, <4>1
      <4>2. CASE j # 1
        <5>1. j \in 2..Len(r) /\ j - 1 \in 1..Len(s)
          BY <1>2, <3>2, <4>2
        <5> QED  BY <2>1, <3>2, <5>1
      <4> QED  BY <4>1, <4>2
    <3>5. ASSUME NEW j \in 1..Len(r) - 1 PROVE r[j] = getParent(r[j + 1])
      <4>1. j + 1 \in 2..Len(r) /\ (j + 1) - 1 = j
        BY <1>2, <3>2
      <4>2. r[j + 1] = s[j]
        BY <3>2, <4>1
      <4>3. CASE j = 1
        BY <1>2, <3>2, <4>2, <4>3
      <4>4. CASE j # 1
        <5>1. j \in 2..Len(r) /\ j - 1 \in 1..Len(s) - 1 /\ (j - 1) + 1 = j
          BY <1>2, <3>2, <4>4
        <5>2. r[j] = s[j - 1] /\ s[j - 1] = getParent(s[j])
          BY <2>1, <3>2, <5>1
        <5> QED  BY <4>2, <5>2
      <4> QED  BY <4>3, <4>4
    <3> USE DEF r, s
    <3> QED  BY <1>7, <2>1, <2>3, <3>2, <3>3, <3>4, <3>5 DEF LocalInv
  <2> QED  BY <2>2, <2>3
<1>9. CountInv'
  <2>1. Members' = Members
    BY MembersAfter
  <2>2. CASE ParentMissing(b)
    <3>1. pc' = [pc EXCEPT ![t] = "init"]
      BY <2>2 DEF TypeOK
    <3> QED  BY <1>7, <2>1, <3>1, CountKept DEF Counting
  <2>3. CASE ~ParentMissing(b)
    BY <1>7, <2>1, <2>3, CountKept DEF Counting
  <2> QED  BY <2>2, <2>3
<1>10. Grows
  BY GrowsKept
<1>11. TableInv'
  BY <1>10, TableKept
<1>12. BucketInv(t)'
  <2>1. CASE ParentMissing(b)
    BY <1>7, <2>1 DEF BucketInv
  <2>2. CASE ~ParentMissing(b)
    <3>1. at(getParent(b)) # NULL
      <4>1. getParent(0) = 0
        BY DEF getParent
      <4> QED  BY <2>2, <4>1 DEF ParentMissing, TableInv
    <3> QED  BY <1>7, <2>2, <3>1 DEF BucketInv, at
  <2> QED  BY <2>1, <2>2
<1> QED
  BY <1>5, <1>6, <1>7, <1>8, <1>9, <1>10, <1>11, <1>12 DEF StepKept

LEMMA InsertDummyStep ==
  ASSUME TInv, ~torn, NEW t \in Threads, InsertDummy(t), Observe, Race(t)
  PROVE  StepKept(t)
<1> DEFINE b == Head(stack[t])
<1> USE DEF TInv, InsertDummy, Goto, localVars, callVars
<1>1. was' \in [Threads -> SUBSET BOOLEAN] /\ torn' \in BOOLEAN
  BY WasType, TornType
<1>2. b \in 0..TopBit - 1
  BY StackFacts
<1>3. list' = list \union {reverseDummyKey(b)}
  BY StartOfDummy
<1>4. reverseDummyKey(b) \in 0..Word - 1
  BY <1>2, ListKeys
<1>5. TypeOK'
  BY <1>1, <1>3, <1>4 DEF TypeOK
<1>6. OthersWait(t)
  BY DEF OthersWait, TypeOK
<1>7. /\ op'[t] = op[t] /\ key'[t] = key[t] /\ bucket'[t] = bucket[t] /\ i'[t] = i[t]
      /\ result'[t] = result[t] /\ pc[t] = "dummy" /\ pc'[t] = "store"
      /\ stack'[t] = stack[t]
  BY DEF TypeOK
<1>8. LocalInv(t)'
  BY <1>7 DEF LocalInv
<1>9. CountInv'
  <2>1. Members' = Members
    BY <1>2, <1>3, MembersAfter
  <2> QED  BY <1>7, <2>1, CountKept DEF Counting
<1>10. Grows
  BY <1>3, SizeFacts DEF Grows, at
<1>11. TableInv'
  BY <1>10, TableKept
<1>12. BucketInv(t)'
  BY <1>3, <1>7 DEF BucketInv, at
<1> QED
  BY <1>5, <1>6, <1>7, <1>8, <1>9, <1>10, <1>11, <1>12 DEF StepKept

LEMMA Stored ==
  ASSUME NEW S, NEW p \in Seq(S), NEW j \in 1..Len(p), NEW e \in S, NEW r,
         r = [p EXCEPT ![j] = e]
  PROVE  /\ r \in Seq(S) /\ Len(r) = Len(p) /\ r[j] = e
         /\ \A l \in 1..Len(p) : l # j => r[l] = p[l]
<1>1. /\ r \in Seq(S) /\ Len(r) = Len(p)
      /\ \A l \in 1..Len(p) : r[l] = IF l = j THEN e ELSE p[l]
  BY ExceptSeq
<1> QED  BY <1>1

LEMMA StoreDummyStep ==
  ASSUME TInv, ~torn, NEW t \in Threads, StoreDummy(t), Observe, Race(t)
  PROVE  StepKept(t)
<1> DEFINE b == Head(stack[t])  s == stack[t]  r == stack'[t]
           S == {NULL} \union 0..Word - 1
<1> USE DEF TInv, StoreDummy, Goto, callVars
<1>1. was' \in [Threads -> SUBSET BOOLEAN] /\ torn' \in BOOLEAN
  BY WasType, TornType
<1>2. /\ b \in 0..size_ - 1 /\ b \in 0..TopBit - 1 /\ getParent(b) \in 0..size_ - 1
      /\ b = s[1] /\ Len(s) \in Nat \ {0} /\ s \in Seq(Nat) /\ s # <<>>
  BY StackFacts
<1>3. size_ \in Nat /\ Len(buckets_) \in Nat /\ Len(buckets_) >= size_
  BY SizeFacts DEF TableInv
<1>4. b + 1 \in 1..Len(buckets_) /\ reverseDummyKey(b) \in 0..Word - 1
  BY <1>2, <1>3, ListKeys
<1>5. /\ buckets_' \in Seq(S) /\ Len(buckets_') = Len(buckets_)
      /\ \A j \in 1..Len(buckets_) : j # b + 1 => buckets_'[j] = buckets_[j]
      /\ buckets_'[b + 1] = reverseDummyKey(b)
  <2>1. buckets_ \in Seq(S) /\ reverseDummyKey(b) \in S
    BY <1>4 DEF TypeOK
  <2>2. buckets_' = [buckets_ EXCEPT ![b + 1] = reverseDummyKey(b)]
    OBVIOUS
  <2> DEFINE j == b + 1  e == reverseDummyKey(b)  p == buckets_  z == buckets_'
  <2>3. j \in 1..Len(p) /\ p \in Seq(S) /\ e \in S /\ z = [p EXCEPT ![j] = e]
    BY <1>4, <2>1, <2>2
  <2> HIDE DEF b, S, j, e, p, z
  <2>4. /\ z \in Seq(S) /\ Len(z) = Len(p) /\ z[j] = e
        /\ \A l \in 1..Len(p) : l # j => z[l] = p[l]
    BY <2>3, Stored
  <2> QED  BY <2>4 DEF j, e, p, z
<1>6. reverseDummyKey(b) # NULL
  BY <1>4, TopBitProperties DEF NULL
<1>7. r = Tail(s) /\ r \in Seq(Nat) /\ Len(r) = Len(s) - 1 /\ \A j \in 1..Len(r) : r[j] = s[j + 1]
  <2>1. r = Tail(s)
    BY DEF TypeOK
  <2> HIDE DEF s, r
  <2> QED  BY <1>2, <2>1, HeadTailProperties
<1>8. /\ op'[t] = op[t] /\ key'[t] = key[t] /\ bucket'[t] = bucket[t] /\ i'[t] = i[t]
      /\ result'[t] = result[t] /\ pc[t] = "store"
      /\ r = <<>> => pc' = [pc EXCEPT ![t] = "op"] /\ pc'[t] = "op"
      /\ r # <<>> => pc' = [pc EXCEPT ![t] = "dummy"] /\ pc'[t] = "dummy"
  BY DEF TypeOK
<1>9. TypeOK'
  <2>1. pc' \in [Threads -> {"idle", "check", "init", "dummy", "store", "op", "csize",
                             "count", "test", "push", "cas", "uncount", "done"}]
    BY <1>8 DEF TypeOK
  <2>2. stack' \in [Threads -> Seq(Nat)]
    BY <1>7 DEF TypeOK
  <2>3. buckets_' \in Seq({NULL} \union 0..Word - 1)
    BY <1>5
  <2> QED  BY <1>1, <2>1, <2>2, <2>3 DEF TypeOK
<1>10. OthersWait(t)
  BY DEF OthersWait, TypeOK
<1>11. r = <<>> \/ Len(r) \in Nat \ {0}
  <2> HIDE DEF r
  <2> QED  BY <1>7, EmptySeq
<1>12. LocalInv(t)'
  <2>1. /\ op[t] # "none" /\ result[t] = {} /\ i[t] = 0
        /\ \E n \in 1..Width - 1 : pow2[n] <= size_ /\ bucket[t] = key[t] % pow2[n]
        /\ s[Len(s)] = bucket[t]
        /\ \A j \in 1..Len(s) : s[j] < size_
        /\ \A j \in 1..Len(s) - 1 : s[j] = getParent(s[j + 1])
    BY <1>8 DEF LocalInv
  <2>2. CASE r = <<>>
    BY <1>8, <2>1, <2>2 DEF LocalInv
  <2>3. CASE r # <<>>
    <3> HIDE DEF r, s
    <3>1. Len(r) \in 1..Len(r) /\ Len(r) + 1 = Len(s)
      BY <1>2, <1>7, <1>11, <2>3
    <3>2. r[Len(r)] = s[Len(s)]
      BY <1>7, <3>1
    <3>3. ASSUME NEW j \in 1..Len(r) PROVE r[j] < size_
      <4>1. j + 1 \in 1..Len(s)
        BY <1>2, <3>1
      <4> QED  BY <1>7, <2>1, <4>1
    <3>4. ASSUME NEW j \in 1..Len(r) - 1 PROVE r[j] = getParent(r[j + 1])
      <4>1. j \in 1..Len(r) /\ j + 1 \in 1..Len(r) /\ j + 1 \in 1..Len(s) - 1
        BY <1>2, <3>1
      <4>2. r[j] = s[j + 1] /\ r[j + 1] = s[(j + 1) + 1]
        BY <1>7, <4>1
      <4> QED  BY <2>1, <4>1, <4>2
    <3> USE DEF r, s
    <3> QED  BY <1>8, <2>1, <2>3, <3>2, <3>3, <3>4 DEF LocalInv
  <2> QED  BY <2>2, <2>3
<1>13. CountInv'
  <2>1. Members' = Members
    BY MembersAfter
  <2>2. CASE r = <<>>
    <3>1. pc' = [pc EXCEPT ![t] = "op"] /\ pc[t] = "store"
      BY <1>8, <2>2
    <3> QED  BY <2>1, <3>1, CountKept DEF Counting
  <2>3. CASE r # <<>>
    <3>1. pc' = [pc EXCEPT ![t] = "dummy"] /\ pc[t] = "store"
      BY <1>8, <2>3
    <3> QED  BY <2>1, <3>1, CountKept DEF Counting
  <2> QED  BY <2>2, <2>3
<1>14. \A c \in 0..Len(buckets_) - 1 :
         buckets_'[c + 1] = (IF c = b THEN reverseDummyKey(b) ELSE at(c))
  <2>1. ASSUME NEW c \in 0..Len(buckets_) - 1, c # b PROVE buckets_'[c + 1] = at(c)
    <3>1. c + 1 \in 1..Len(buckets_) /\ c + 1 # b + 1
      BY <1>2, <1>3, <2>1
    <3> QED  BY <1>5, <3>1 DEF at
  <2> QED  BY <1>5, <2>1
<1>15. Grows
  BY <1>3, <1>5, <1>6, <1>14 DEF Grows
<1>16. TableInv'
  <2>1. at(getParent(b)) # NULL /\ reverseDummyKey(b) \in list
    BY <1>8 DEF BucketInv
  <2> HIDE DEF b
  <2>2. buckets_'[0 + 1] # NULL
    <3>1. 0 \in 0..Len(buckets_) - 1
      BY <1>2, <1>3
    <3> QED  BY <1>15, <3>1 DEF Grows, TableInv
  <2>3. ASSUME NEW c \in 0..Len(buckets_) - 1, buckets_'[c + 1] # NULL
        PROVE  /\ c < size_ /\ buckets_'[c + 1] = reverseDummyKey(c)
               /\ buckets_'[c + 1] \in list
               /\ buckets_'[getParent(c) + 1] # NULL
    <3>1. getParent(b) \in 0..Len(buckets_) - 1
      BY <1>2, <1>3
    <3>2. CASE c = b
      <4>1. c < size_ /\ buckets_'[c + 1] = reverseDummyKey(c)
        BY <1>2, <1>3, <1>5, <3>2
      <4>2. buckets_'[getParent(b) + 1] # NULL
        BY <1>15, <2>1, <3>1 DEF Grows
      <4> QED  BY <2>1, <3>2, <4>1, <4>2
    <3>3. CASE c # b
      <4>1. buckets_'[c + 1] = at(c) /\ at(c) # NULL
        BY <1>14, <2>3, <3>3
      <4>2. c < size_ /\ at(c) = reverseDummyKey(c) /\ at(c) \in list /\ at(getParent(c)) # NULL
        BY <4>1 DEF TableInv
      <4>3. getParent(c) \in 0..Len(buckets_) - 1
        <5>1. c \in 0..TopBit - 1
          BY <1>3, <4>2, SizeFacts
        <5>2. getParent(c) \in 0..c
          BY <5>1, Parents
        <5> QED  BY <1>3, <5>2
      <4>4. buckets_'[getParent(c) + 1] # NULL
        BY <1>15, <4>2, <4>3 DEF Grows
      <4> QED  BY <4>1, <4>2, <4>4
    <3> QED  BY <3>2, <3>3
  <2>4. Len(buckets_') = Len(buckets_) /\ size_' = size_ /\ list' = list
    BY <1>5
  <2> QED  BY <1>3, <2>2, <2>3, <2>4 DEF TableInv, at
<1>17. BucketInv(t)'
  <2>1. CASE r = <<>>
    <3>1. Len(s) = 1 /\ bucket[t] = b
      <4>1. s[Len(s)] = bucket[t]
        BY <1>8 DEF LocalInv
      <4>2. Len(r) = 0
        BY <2>1
      <4> HIDE DEF r, s, b
      <4> QED  BY <1>2, <1>7, <4>1, <4>2
    <3>2. buckets_'[bucket[t] + 1] # NULL
      BY <1>5, <1>6, <3>1
    <3> QED  BY <1>8, <2>1, <3>2 DEF BucketInv, at
  <2>2. CASE r # <<>>
    <3>1. \A j \in 1..Len(s) - 1 : s[j] = getParent(s[j + 1])
      BY <1>8 DEF LocalInv
    <3>2. getParent(Head(r)) = b
      <4> HIDE DEF r, s, b
      <4>1. 1 \in 1..Len(r) /\ 1 \in 1..Len(s) - 1 /\ Head(r) = r[1]
        BY <1>2, <1>7, <1>11, <2>2
      <4>2. r[1] = s[1 + 1] /\ s[1] = getParent(s[1 + 1])
        BY <1>7, <3>1, <4>1
      <4> QED  BY <1>2, <4>1, <4>2
    <3>3. buckets_'[getParent(Head(r)) + 1] # NULL
      BY <1>5, <1>6, <3>2
    <3> QED  BY <1>8, <2>2, <3>3 DEF BucketInv, at
  <2> QED  BY <2>1, <2>2
<1> QED
  BY <1>8, <1>9, <1>10, <1>12, <1>13, <1>15, <1>16, <1>17 DEF StepKept

LEMMA ListCallStep ==
  ASSUME TInv, ~torn, NEW t \in Threads, ListCall(t), Observe, Race(t)
  PROVE  StepKept(t)
<1> DEFINE k == reverseRegularKey(key[t])  found == Found(k, at(bucket[t]))
           m == Cardinality(Members)
<1>0. pc[t] = "op"
  BY DEF ListCall
<1>1. was' \in [Threads -> SUBSET BOOLEAN] /\ torn' \in BOOLEAN
  BY WasType, TornType DEF TInv
<1>2. /\ key[t] \in Keys
      /\ found <=> key[t] \in Members
      /\ Linked(k, at(bucket[t])) = list \union {k}
  BY <1>0, StartOfKey DEF TInv
<1>3. k \in 0..Word - 1 /\ \A b \in 0..TopBit - 1 : reverseDummyKey(b) # k
  BY <1>2, ListKeys
<1>4. IsFiniteSet(Members) /\ m \in Nat
  BY MembersFinite
<1> HIDE DEF k, found
<1>5. /\ UNCHANGED <<buckets_, count_, size_, localVars, op, key>>
      /\ list' \in {list, list \union {k}, list \ {k}}
      /\ \E v \in SUBSET BOOLEAN : v # {} /\ result' = [result EXCEPT ![t] = v]
      /\ \/ /\ pc' = [pc EXCEPT ![t] = "done"] /\ list' = list
         \/ /\ pc' = [pc EXCEPT ![t] = "csize"] /\ list' = list \union {k} /\ ~found
         \/ /\ pc' = [pc EXCEPT ![t] = "uncount"] /\ list' = list \ {k} /\ found
  <2>1. /\ UNCHANGED <<buckets_, count_, size_, localVars, op, key>>
        /\ \/ /\ result' = [result EXCEPT ![t] = {~found}]
              /\ list' = IF found THEN list ELSE list \union {k}
              /\ pc' = [pc EXCEPT ![t] = IF found THEN "done" ELSE "csize"]
           \/ /\ result' = [result EXCEPT ![t] = {found}]
              /\ list' = IF found THEN list \ {k} ELSE list
              /\ pc' = [pc EXCEPT ![t] = IF found THEN "uncount" ELSE "done"]
           \/ /\ result' = [result EXCEPT ![t] = {found}]
              /\ pc' = [pc EXCEPT ![t] = "done"] /\ list' = list
    BY <1>2 DEF ListCall, Answer, Goto, k, found
  <2>2. {found} \in SUBSET BOOLEAN /\ {~found} \in SUBSET BOOLEAN
    <3>1. found \in BOOLEAN /\ (~found) \in BOOLEAN
      BY Zenon DEF found, Found
    <3> QED  BY Zenon, <3>1
  <2>3. \E v \in SUBSET BOOLEAN : v # {} /\ result' = [result EXCEPT ![t] = v]
    BY Zenon, <2>1, <2>2
  <2>4. /\ list' \in {list, list \union {k}, list \ {k}}
        /\ \/ /\ pc' = [pc EXCEPT ![t] = "done"] /\ list' = list
           \/ /\ pc' = [pc EXCEPT ![t] = "csize"] /\ list' = list \union {k} /\ ~found
           \/ /\ pc' = [pc EXCEPT ![t] = "uncount"] /\ list' = list \ {k} /\ found
    <3>1. CASE found
      BY <2>1, <3>1
    <3>2. CASE ~found
      BY <2>1, <3>2
    <3> QED  BY <3>1, <3>2
  <2> QED  BY <2>1, <2>3, <2>4
<1> USE DEF localVars
<1>6. TypeOK'
  <2>1. list' \subseteq 0..Word - 1
    BY <1>3, <1>5 DEF TInv, TypeOK
  <2>2. result' \in [Threads -> SUBSET BOOLEAN]
    BY <1>5 DEF TInv, TypeOK
  <2>3. pc' \in [Threads -> {"idle", "check", "init", "dummy", "store", "op", "csize",
                             "count", "test", "push", "cas", "uncount", "done"}]
    BY <1>5 DEF TInv, TypeOK
  <2> QED  BY <1>1, <1>5, <2>1, <2>2, <2>3 DEF TInv, TypeOK
<1>7. OthersWait(t)
  BY <1>5 DEF OthersWait, TypeOK, TInv
<1>8. /\ op'[t] = op[t] /\ key'[t] = key[t] /\ i'[t] = i[t] /\ result'[t] # {}
      /\ pc'[t] \in {"done", "csize", "uncount"}
  BY <1>5 DEF TypeOK, TInv
<1>9. LocalInv(t)'
  <2>1. op[t] # "none" /\ i[t] = 0
    BY <1>0 DEF TInv, LocalInv
  <2> QED  BY <1>8, <2>1 DEF LocalInv
<1>10. CountInv'
  <2>1. PICK q \in Int :
          count_ + Cardinality(Adding) = m + Cardinality(Removing) + q * Word
    BY DEF TInv, CountInv
  <2>2. Cardinality(Adding) \in Nat /\ Cardinality(Removing) \in Nat /\ count_ \in Int
    <3>1. count_ \in 0..Word - 1 /\ Word \in Nat /\ TypeOK
      BY SizeFacts DEF TInv, TypeOK
    <3>2. IsFiniteSet(Adding) /\ IsFiniteSet(Removing)
      <4>1. Adding \subseteq Threads /\ Removing \subseteq Threads
        BY DEF Adding, Removing
      <4> QED  BY <4>1, TableAssumption, FS_Subset
    <3> QED  BY <3>1, <3>2, FS_CardinalityType
  <2>3. q * Word \in Int
    BY TopBitProperties
  <2>4. CASE pc' = [pc EXCEPT ![t] = "done"] /\ list' = list
    <3>1. Members' = Members
      BY <2>4, MembersAfter
    <3> QED  BY <1>0, <1>5, <2>4, <3>1, CountKept DEF TInv, Counting
  <2>5. CASE pc' = [pc EXCEPT ![t] = "csize"] /\ list' = list \union {k} /\ ~found
    <3>1. Members' = Members \union {key[t]} /\ key[t] \notin Members
      BY <1>2, <2>5, MembersAfter DEF k
    <3>2. Cardinality(Members') = m + 1
      BY <1>4, <3>1, FS_AddElement
    <3>3. /\ pc[t] \notin {"csize", "count"} /\ "csize" \in {"csize", "count"}
          /\ (pc[t] = "uncount") = ("csize" = "uncount")
      BY <1>0
    <3>4. Cardinality(Adding') = Cardinality(Adding) + 1 /\ Removing' = Removing
      BY <2>5, <3>3, Moves DEF TInv
    <3>5. count_' + Cardinality(Adding') = Cardinality(Members') + Cardinality(Removing') + q * Word
      BY <1>4, <1>5, <2>1, <2>2, <2>3, <3>2, <3>4
    <3> QED  BY <3>5 DEF CountInv, Word
  <2>6. CASE pc' = [pc EXCEPT ![t] = "uncount"] /\ list' = list \ {k} /\ found
    <3>1. Members' = Members \ {key[t]} /\ key[t] \in Members
      BY <1>2, <2>6, MembersAfter DEF k
    <3>2. Cardinality(Members') = m - 1
      BY <1>4, <3>1, FS_RemoveElement
    <3>3. /\ (pc[t] \in {"csize", "count"}) = ("uncount" \in {"csize", "count"})
          /\ pc[t] # "uncount"
      BY <1>0
    <3>4. Cardinality(Removing') = Cardinality(Removing) + 1 /\ Adding' = Adding
      BY <2>6, <3>3, Moves DEF TInv
    <3>5. count_' + Cardinality(Adding') = Cardinality(Members') + Cardinality(Removing') + q * Word
      BY <1>4, <1>5, <2>1, <2>2, <2>3, <3>2, <3>4
    <3> QED  BY <3>5 DEF CountInv, Word
  <2> QED  BY <1>5, <2>4, <2>5, <2>6
<1>11. Grows
  <2>1. \A b \in 0..TopBit - 1 : reverseDummyKey(b) \in list => reverseDummyKey(b) \in list'
    BY <1>3, <1>5
  <2> QED  BY <1>5, <2>1, SizeFacts DEF Grows, at, TInv
<1>12. TableInv'
  BY <1>5, <1>11, TableKept DEF TInv
<1>13. BucketInv(t)'
  BY <1>8 DEF BucketInv
<1> QED
  BY <1>6, <1>7, <1>8, <1>9, <1>10, <1>11, <1>12, <1>13 DEF StepKept

LEMMA ReadSizeStep ==
  ASSUME TInv, ~torn, NEW t \in Threads, ReadSize(t), Observe, Race(t)
  PROVE  StepKept(t)
<1> USE DEF TInv, ReadSize, Goto, tableVars, callVars
<1>1. was' \in [Threads -> SUBSET BOOLEAN] /\ torn' \in BOOLEAN
  BY WasType, TornType
<1>2. size_ \in Nat /\ size_ \in Sizes
  BY SizeFacts DEF TypeOK, Sizes
<1>3. TypeOK'
  BY <1>1, <1>2 DEF TypeOK
<1>4. OthersWait(t)
  BY DEF OthersWait, TypeOK
<1>5. /\ op'[t] = op[t] /\ i'[t] = i[t] /\ result'[t] = result[t]
      /\ pc[t] = "csize" /\ pc'[t] = "count" /\ csize'[t] = size_
  BY DEF TypeOK
<1>6. LocalInv(t)'
  BY <1>2, <1>5 DEF LocalInv
<1>7. CountInv'
  <2>1. Members' = Members
    BY MembersAfter
  <2>2. /\ (pc[t] \in {"csize", "count"}) = ("count" \in {"csize", "count"})
        /\ (pc[t] = "uncount") = ("count" = "uncount")
    BY <1>5
  <2>3. Adding' = Adding /\ Removing' = Removing
    BY <2>2, Moves
  <2> QED  BY <2>1, <2>3 DEF CountInv
<1>8. Grows
  BY GrowsKept
<1>9. TableInv'
  BY <1>8, TableKept
<1>10. BucketInv(t)'
  BY <1>5 DEF BucketInv
<1> QED
  BY <1>3, <1>4, <1>5, <1>6, <1>7, <1>8, <1>9, <1>10 DEF StepKept

LEMMA CountStep ==
  ASSUME TInv, ~torn, NEW t \in Threads, Count(t), Observe, Race(t)
  PROVE  StepKept(t)
<1> USE DEF TInv, Count, Goto, localVars, callVars
<1>1. was' \in [Threads -> SUBSET BOOLEAN] /\ torn' \in BOOLEAN
  BY WasType, TornType
<1>2. Word \in Nat \ {0} /\ count_ \in 0..Word - 1
  BY SizeFacts DEF TypeOK
<1>3. /\ count_' \in 0..Word - 1
      /\ count_' = count_ + 1 \/ count_' = count_ + 1 - Word
  <2>1. CASE count_ + 1 = Word
    <3>1. (count_ + 1) % Word = 0
      <4> HIDE DEF Count
      <4>1. Word % Word = 0
        BY <1>2
      <4> QED  BY <2>1, <4>1
    <3> QED  BY <1>2, <2>1, <3>1
  <2>2. CASE count_ + 1 # Word
    <3>1. count_ + 1 \in 0..Word - 1 /\ count_ + 1 \in Nat
      BY <1>2, <2>2
    <3>2. (count_ + 1) % Word = count_ + 1
      BY <1>2, <3>1
    <3> QED  BY <3>1, <3>2
  <2> QED  BY <2>1, <2>2
<1>4. TypeOK'
  BY <1>1, <1>3 DEF TypeOK
<1>5. OthersWait(t)
  BY DEF OthersWait, TypeOK
<1>6. /\ op'[t] = op[t] /\ i'[t] = i[t] /\ result'[t] = result[t]
      /\ pc[t] = "count" /\ pc'[t] = "test" /\ csize'[t] = csize[t]
  BY DEF TypeOK
<1>7. LocalInv(t)'
  BY <1>6 DEF LocalInv
<1>8. CountInv'
  <2>1. Members' = Members
    BY MembersAfter
  <2>2. /\ pc[t] \in {"csize", "count"} /\ "test" \notin {"csize", "count"}
        /\ (pc[t] = "uncount") = ("test" = "uncount")
    BY <1>6
  <2>3. /\ Cardinality(Adding') = Cardinality(Adding) - 1 /\ Removing' = Removing
        /\ Cardinality(Adding) \in Nat /\ Cardinality(Removing) \in Nat
    BY <2>2, Moves
  <2>4. PICK q \in Int : count_ + Cardinality(Adding)
                           = Cardinality(Members) + Cardinality(Removing) + q * Word
    BY DEF CountInv
  <2>5. Cardinality(Members) \in Nat
    BY MembersFinite
  <2> HIDE DEF Count, TInv, Goto, localVars, callVars
  <2>6. q * Word \in Int /\ (q - 1) * Word = q * Word - Word
    BY <1>2
  <2>7. \E p \in Int : count_' + Cardinality(Adding')
                         = Cardinality(Members') + Cardinality(Removing') + p * Word
    <3>0. \A c, a, m, r, x, w \in Int : c + a = m + r + x =>
            (c + 1) + (a - 1) = m + r + x /\ (c + 1 - w) + (a - 1) = m + r + (x - w)
      OBVIOUS
    <3>1. CASE count_' = count_ + 1
      <4>1. count_' + Cardinality(Adding')
              = Cardinality(Members') + Cardinality(Removing') + q * Word
        BY <1>2, <2>1, <2>3, <2>4, <2>5, <2>6, <3>0, <3>1
      <4> QED  BY <4>1
    <3>2. CASE count_' = count_ + 1 - Word
      <4>1. count_' + Cardinality(Adding')
              = Cardinality(Members') + Cardinality(Removing') + (q - 1) * Word
        BY <1>2, <2>1, <2>3, <2>4, <2>5, <2>6, <3>0, <3>2
      <4>2. q - 1 \in Int
        OBVIOUS
      <4> QED  BY <4>1, <4>2
    <3> QED  BY <1>3, <3>1, <3>2
  <2> QED  BY <2>7 DEF CountInv, Word
<1>9. Grows
  BY GrowsKept
<1>10. TableInv'
  BY <1>9, TableKept
<1>11. BucketInv(t)'
  BY <1>6 DEF BucketInv
<1> QED
  BY <1>4, <1>5, <1>6, <1>7, <1>8, <1>9, <1>10, <1>11 DEF StepKept

LEMMA TestLoadStep ==
  ASSUME TInv, ~torn, NEW t \in Threads, TestLoad(t), Observe, Race(t)
  PROVE  StepKept(t)
<1> DEFINE x == IF count_ \div csize[t] > LoadFactor THEN "push" ELSE "done"
<1> USE DEF TInv, TestLoad, Goto, tableVars, localVars, callVars
<1>1. was' \in [Threads -> SUBSET BOOLEAN] /\ torn' \in BOOLEAN
  BY WasType, TornType
<1>2. pc' = [pc EXCEPT ![t] = x] /\ x \in {"push", "done"} /\ pc[t] = "test"
  OBVIOUS
<1>3. csize[t] \in Sizes /\ csize[t] <= size_ /\ op[t] # "none" /\ i[t] = 0 /\ result[t] # {}
  BY <1>2 DEF LocalInv
<1>4. x = "push" => 2 * csize[t] < Word
  <2> SUFFICES ASSUME count_ \div csize[t] > LoadFactor PROVE 2 * csize[t] < Word
    OBVIOUS
  <2> DEFINE c == csize[t]  q == count_ \div c  r == count_ % c
  <2>1. c \in Nat \ {0}
    <3>1. PICK n \in 1..Width - 1 : c = pow2[n]
      BY <1>3 DEF Sizes
    <3>2. n \in 0..Width
      BY TableAssumption
    <3> QED  BY <3>1, <3>2, Powers
  <2>2. count_ \in Nat /\ count_ < Word /\ Word \in Nat
    BY SizeFacts DEF TypeOK
  <2>3. q > LoadFactor /\ LoadFactor \in Nat \ {0}
    BY TableAssumption
  <2> HIDE DEF c, TestLoad, TInv
  <2>4. count_ = c * q + r /\ q \in Nat /\ r \in 0..c - 1
    BY <2>1, <2>2, DivMod
  <2> HIDE DEF q, r
  <2>5. c * q >= c * 2
    <3>1. q >= 2
      BY <2>3, <2>4
    <3> QED  BY <2>1, <2>4, <3>1
  <2>6. 2 * c < Word
    BY <2>1, <2>2, <2>4, <2>5
  <2> QED  BY <2>6 DEF c
<1> HIDE DEF x, TestLoad
<1>5. UNCHANGED <<tableVars, localVars, callVars>>
  BY DEF TestLoad
<1>6. TypeOK'
  BY <1>1, <1>2, <1>5 DEF TypeOK
<1>7. OthersWait(t)
  BY <1>2, <1>5 DEF OthersWait, TypeOK
<1>8. pc'[t] = x
  BY <1>2 DEF TypeOK
<1>9. LocalInv(t)'
  BY <1>2, <1>3, <1>4, <1>5, <1>8 DEF LocalInv
<1>10. CountInv'
  <2>1. Members' = Members
    BY <1>5, MembersAfter
  <2> QED  BY <1>2, <1>5, <2>1, CountKept DEF Counting
<1>11. Grows
  BY <1>5, GrowsKept
<1>12. TableInv'
  BY <1>5, <1>11, TableKept
<1>13. BucketInv(t)'
  <2>1. Len(buckets_) >= size_ + i[t]
    BY <1>3, SizeFacts DEF TableInv
  <2> QED  BY <1>2, <1>5, <1>8, <2>1 DEF BucketInv
<1> QED
  BY <1>3, <1>5, <1>6, <1>7, <1>9, <1>10, <1>11, <1>12, <1>13 DEF StepKept

LEMMA PushBackStep ==
  ASSUME TInv, ~torn, NEW t \in Threads, PushBack(t), Observe, Race(t)
  PROVE  StepKept(t)
<1> USE DEF TInv, PushBack, Goto, callVars
<1>1. was' \in [Threads -> SUBSET BOOLEAN] /\ torn' \in BOOLEAN
  BY WasType, TornType
<1>2. /\ size_ \in Nat \ {0} /\ Len(buckets_) \in Nat /\ i[t] \in Nat /\ csize[t] \in Nat
      /\ buckets_ \in Seq({NULL} \union 0..Word - 1) /\ Len(buckets_) >= size_
  BY SizeFacts DEF TypeOK, TableInv
<1>3. /\ op[t] # "none" /\ result[t] # {} /\ csize[t] \in Sizes /\ csize[t] <= size_
      /\ 2 * csize[t] < Word /\ pc[t] = "push"
      /\ csize[t] = size_ => Len(buckets_) >= size_ + i[t]
  BY DEF LocalInv, BucketInv
<1>4. Members' = Members
  BY MembersAfter
<1>5. CASE i[t] < size_
  <2>1. /\ Len(buckets_') = Len(buckets_) + 1 /\ buckets_'[Len(buckets_) + 1] = NULL
        /\ buckets_' \in Seq({NULL} \union 0..Word - 1)
        /\ \A j \in 1..Len(buckets_) : buckets_'[j] = buckets_[j]
    <3> DEFINE S == {NULL} \union 0..Word - 1  p == buckets_  z == buckets_'
    <3>1. p \in Seq(S) /\ NULL \in S /\ z = Append(p, NULL)
      BY <1>2, <1>5
    <3> HIDE DEF S, p, z
    <3>2. /\ z \in Seq(S) /\ Len(z) = Len(p) + 1 /\ z[Len(p) + 1] = NULL
          /\ \A j \in 1..Len(p) : z[j] = p[j]
      BY <3>1, AppendProperties
    <3> QED  BY <3>2 DEF S, p, z
  <2>2. /\ pc' = pc /\ i' = [i EXCEPT ![t] = i[t] + 1] /\ i'[t] = i[t] + 1
        /\ UNCHANGED <<list, count_, size_, bucket, stack, csize, callVars>>
    BY <1>5 DEF TypeOK
  <2> HIDE DEF PushBack
  <2>3. TypeOK'
    <3>1. i' \in [Threads -> Nat]
      BY <1>2, <2>2 DEF TypeOK
    <3> QED  BY <1>1, <2>1, <2>2, <3>1 DEF TypeOK
  <2>4. OthersWait(t)
    BY <2>2 DEF OthersWait, TypeOK
  <2>5. LocalInv(t)'
    BY <1>3, <2>2 DEF LocalInv
  <2>6. CountInv'
    <3>1. pc' = [pc EXCEPT ![t] = "push"]
      BY <1>3, <2>2 DEF TypeOK
    <3> QED  BY <1>3, <1>4, <2>2, <3>1, CountKept DEF Counting
  <2>7. \A b \in 0..Len(buckets_) - 1 : buckets_'[b + 1] = at(b)
    BY <1>2, <2>1 DEF at
  <2>8. Grows
    BY <1>2, <2>1, <2>2, <2>7 DEF Grows
  <2>9. TableInv'
    <3>1. ASSUME NEW c \in 0..Len(buckets_') - 1, buckets_'[c + 1] # NULL
          PROVE  /\ c < size_ /\ buckets_'[c + 1] = reverseDummyKey(c)
                 /\ buckets_'[c + 1] \in list
                 /\ buckets_'[getParent(c) + 1] # NULL
      <4>1. c \in 0..Len(buckets_) - 1
        <5>1. c # Len(buckets_)
          BY <2>1, <3>1
        <5> QED  BY <1>2, <2>1, <5>1
      <4>2. buckets_'[c + 1] = at(c) /\ at(c) # NULL
        BY <2>7, <3>1, <4>1
      <4>3. c < size_ /\ at(c) = reverseDummyKey(c) /\ at(c) \in list /\ at(getParent(c)) # NULL
        BY <4>1, <4>2 DEF TableInv
      <4>4. getParent(c) \in 0..Len(buckets_) - 1
        <5>1. c \in 0..TopBit - 1
          BY <4>1, <4>3, SizeFacts
        <5>2. getParent(c) \in 0..c
          BY <5>1, Parents
        <5> QED  BY <1>2, <4>1, <5>2
      <4>5. buckets_'[getParent(c) + 1] # NULL
        BY <2>7, <4>3, <4>4
      <4> QED  BY <4>2, <4>3, <4>5
    <3>2. buckets_'[0 + 1] # NULL
      <4>1. 0 \in 0..Len(buckets_) - 1 /\ at(0) # NULL
        BY <1>2 DEF TableInv
      <4> QED  BY <2>7, <4>1
    <3>3. Len(buckets_') >= size_
      BY <1>2, <2>1
    <3> QED  BY <2>2, <3>1, <3>2, <3>3 DEF TableInv, at
  <2>10. BucketInv(t)'
    BY <1>2, <1>3, <2>1, <2>2 DEF BucketInv
  <2> QED
    BY <1>3, <2>2, <2>3, <2>4, <2>5, <2>6, <2>8, <2>9, <2>10 DEF StepKept
<1>6. CASE ~(i[t] < size_)
  <2>1. /\ pc' = [pc EXCEPT ![t] = "cas"] /\ pc'[t] = "cas"
        /\ UNCHANGED <<buckets_, i, list, count_, size_, bucket, stack, csize, callVars>>
    BY <1>6 DEF TypeOK
  <2>2. TypeOK'
    BY <1>1, <2>1 DEF TypeOK
  <2>3. OthersWait(t)
    BY <2>1 DEF OthersWait, TypeOK
  <2>4. LocalInv(t)'
    BY <1>3, <2>1 DEF LocalInv
  <2>5. CountInv'
    BY <1>3, <1>4, <2>1, CountKept DEF Counting
  <2>6. Grows
    BY <2>1, GrowsKept
  <2>7. TableInv'
    BY <2>1, <2>6, TableKept
  <2>8. BucketInv(t)'
    <3>1. csize[t] = size_ => Len(buckets_) >= 2 * size_
      BY <1>2, <1>3, <1>6
    <3> QED  BY <2>1, <3>1 DEF BucketInv
  <2> QED
    BY <1>3, <2>1, <2>2, <2>3, <2>4, <2>5, <2>6, <2>7, <2>8 DEF StepKept
<1> QED  BY <1>5, <1>6

(* A table that doubles has the keys for it. *)
LEMMA SizeDoubles ==
  ASSUME NEW m \in Sizes, 2 * m < Word
  PROVE  2 * m \in Sizes
<1>1. PICK n \in 1..Width - 1 : m = pow2[n]
  BY DEF Sizes
<1>2. n # Width - 1 /\ n \in 0..Width /\ Width \in Nat
  <2>1. Word = 2 * TopBit /\ TopBit \in Nat
    BY TopBitProperties
  <2> QED  BY <1>1, <2>1, TableAssumption DEF TopBit
<1>3. n + 1 \in 1..Width - 1 /\ n + 1 \in 1..Width /\ (n + 1) - 1 = n
  BY <1>2
<1>4. pow2[n + 1] = 2 * m
  BY <1>1, <1>3, Powers
<1> QED  BY <1>3, <1>4 DEF Sizes

LEMMA SwapSizeStep ==
  ASSUME TInv, ~torn, NEW t \in Threads, SwapSize(t), Observe, Race(t)
  PROVE  StepKept(t)
<1> USE DEF TInv, SwapSize, Goto, localVars, callVars
<1>1. was' \in [Threads -> SUBSET BOOLEAN] /\ torn' \in BOOLEAN
  BY WasType, TornType
<1>2. /\ size_ \in Nat \ {0} /\ Len(buckets_) \in Nat /\ size_ \in Sizes
      /\ Len(buckets_) >= size_
  BY SizeFacts DEF TypeOK, Sizes, TableInv
<1>3. /\ op[t] # "none" /\ result[t] # {} /\ csize[t] \in Sizes
      /\ 2 * csize[t] < Word /\ pc[t] = "cas"
      /\ csize[t] = size_ => Len(buckets_) >= 2 * size_
  BY DEF LocalInv, BucketInv
<1>4. /\ size_' \in Sizes /\ size_' \in Nat /\ size_ <= size_' /\ Len(buckets_) >= size_'
  <2>1. CASE size_ = csize[t]
    BY <1>2, <1>3, <2>1, SizeDoubles DEF NewSize
  <2>2. CASE size_ # csize[t]
    BY <1>2, <2>2 DEF NewSize
  <2> QED  BY <2>1, <2>2
<1>5. /\ pc' = [pc EXCEPT ![t] = "done"] /\ pc'[t] = "done"
      /\ UNCHANGED <<list, buckets_, count_, bucket, stack, csize, i, op, key, result>>
  BY DEF TypeOK
<1> HIDE DEF SwapSize
<1>6. TypeOK'
  BY <1>1, <1>4, <1>5 DEF TypeOK, Sizes
<1>7. OthersWait(t)
  BY <1>5 DEF OthersWait, TypeOK
<1>8. LocalInv(t)'
  BY <1>3, <1>5 DEF LocalInv
<1>9. CountInv'
  <2>1. Members' = Members
    BY <1>5, MembersAfter
  <2> QED  BY <1>3, <1>5, <2>1, CountKept DEF Counting
<1>10. Grows
  BY <1>2, <1>4, <1>5 DEF Grows, at
<1>11. TableInv'
  <2>1. ASSUME NEW b \in 0..Len(buckets_) - 1, at(b) # NULL PROVE b < size_'
    <3>1. b < size_
      BY <2>1 DEF TableInv
    <3> QED  BY <1>2, <1>4, <3>1
  <2> QED  BY <1>4, <1>5, <2>1 DEF TableInv, at
<1>12. BucketInv(t)'
  BY <1>5 DEF BucketInv
<1> QED
  BY <1>3, <1>5, <1>6, <1>7, <1>8, <1>9, <1>10, <1>11, <1>12 DEF StepKept

LEMMA UncountStep ==
  ASSUME TInv, ~torn, NEW t \in Threads, Uncount(t), Observe, Race(t)
  PROVE  StepKept(t)
<1> USE DEF TInv, Uncount, Goto, localVars, callVars
<1>1. was' \in [Threads -> SUBSET BOOLEAN] /\ torn' \in BOOLEAN
  BY WasType, TornType
<1>2. Word \in Nat \ {0} /\ count_ \in 0..Word - 1
  BY SizeFacts DEF TypeOK
<1>3. /\ count_' \in 0..Word - 1
      /\ count_' = count_ - 1 \/ count_' = count_ - 1 + Word
  <2>1. CASE count_ = 0
    <3>1. Word - 1 \in 0..Word - 1 /\ 0 + Word - 1 = Word - 1
      BY <1>2
    <3>2. (Word - 1) % Word = Word - 1
      BY <1>2, <3>1
    <3> QED  BY <1>2, <2>1, <3>1, <3>2 DEF CountAfterRemove
  <2>2. CASE count_ # 0
    <3> DEFINE c == count_ + Word - 1  d == count_ - 1
    <3>1. d \in 0..Word - 1 /\ c = Word * 1 + d /\ c \in Nat /\ 1 \in Int
      BY <1>2, <2>2
    <3>2. count_' = c % Word
      BY DEF CountAfterRemove
    <3> HIDE DEF c, d
    <3>3. c % Word = d
      BY <1>2, <3>1, DivModUnique
    <3> QED  BY <3>1, <3>2, <3>3 DEF d
  <2> QED  BY <2>1, <2>2
<1>4. TypeOK'
  BY <1>1, <1>3 DEF TypeOK
<1>5. OthersWait(t)
  BY DEF OthersWait, TypeOK
<1>6. /\ op'[t] = op[t] /\ i'[t] = i[t] /\ result'[t] = result[t]
      /\ pc[t] = "uncount" /\ pc'[t] = "done" /\ csize'[t] = csize[t]
  BY DEF TypeOK
<1>7. LocalInv(t)'
  BY <1>6 DEF LocalInv
<1>8. CountInv'
  <2>1. Members' = Members
    BY MembersAfter
  <2>2. /\ (pc[t] \in {"csize", "count"}) = ("done" \in {"csize", "count"})
        /\ pc[t] = "uncount" /\ "done" # "uncount"
    BY <1>6
  <2>3. /\ Cardinality(Removing') = Cardinality(Removing) - 1 /\ Adding' = Adding
        /\ Cardinality(Adding) \in Nat /\ Cardinality(Removing) \in Nat
    BY <2>2, Moves
  <2>4. PICK q \in Int : count_ + Cardinality(Adding)
                           = Cardinality(Members) + Cardinality(Removing) + q * Word
    BY DEF CountInv
  <2>5. Cardinality(Members) \in Nat
    BY MembersFinite
  <2> HIDE DEF Uncount, TInv, Goto, localVars, callVars
  <2>6. q * Word \in Int /\ (q + 1) * Word = q * Word + Word
    BY <1>2
  <2>7. \E p \in Int : count_' + Cardinality(Adding')
                         = Cardinality(Members') + Cardinality(Removing') + p * Word
    <3> DEFINE a == Cardinality(Adding)  m == Cardinality(Members)
               r == Cardinality(Removing)  x == q * Word
    <3>0. /\ count_ - 1 + a = m + (r - 1) + x
          /\ count_ - 1 + Word + a = m + (r - 1) + (x + Word)
      <4>1. /\ count_ + a = m + r + x /\ count_ \in Int /\ a \in Int /\ m \in Int
            /\ r \in Int /\ x \in Int /\ Word \in Int
        BY <1>2, <2>3, <2>4, <2>5, <2>6
      <4> HIDE DEF a, m, r, x
      <4> QED  BY <4>1
    <3>1. CASE count_' = count_ - 1
      <4>1. count_' + Cardinality(Adding')
              = Cardinality(Members') + Cardinality(Removing') + q * Word
        BY Zenon, <2>1, <2>3, <3>0, <3>1
      <4> QED  BY <4>1
    <3>2. CASE count_' = count_ - 1 + Word
      <4>1. count_' + Cardinality(Adding')
              = Cardinality(Members') + Cardinality(Removing') + (q + 1) * Word
        BY Zenon, <2>1, <2>3, <2>6, <3>0, <3>2
      <4>2. q + 1 \in Int
        OBVIOUS
      <4> QED  BY <4>1, <4>2
    <3> QED  BY <1>3, <3>1, <3>2
  <2> QED  BY <2>7 DEF CountInv, Word
<1>9. Grows
  BY GrowsKept
<1>10. TableInv'
  BY <1>9, TableKept
<1>11. BucketInv(t)'
  BY <1>6 DEF BucketInv
<1> QED
  BY <1>4, <1>5, <1>6, <1>7, <1>8, <1>9, <1>10, <1>11 DEF StepKept

LEMMA ReturnStep ==
  ASSUME TInv, ~torn, NEW t \in Threads, Return(t), Observe, Race(t)
  PROVE  StepKept(t)
<1> USE DEF TInv, Return, Goto, tableVars
<1>1. was' \in [Threads -> SUBSET BOOLEAN] /\ torn' \in BOOLEAN
  BY WasType, TornType
<1>2. 0 \in Keys
  BY TableAssumption
<1>3. TypeOK'
  BY <1>1, <1>2 DEF TypeOK
<1>4. OthersWait(t)
  BY DEF OthersWait, TypeOK
<1>5. /\ op'[t] = "none" /\ i'[t] = 0 /\ result'[t] = {}
      /\ pc[t] = "done" /\ pc'[t] = "idle"
  BY DEF TypeOK
<1>6. LocalInv(t)'
  BY <1>5 DEF LocalInv
<1>7. CountInv'
  <2>1. Members' = Members
    BY MembersAfter
  <2> QED  BY <1>5, <2>1, CountKept DEF Counting
<1>8. Grows
  BY GrowsKept
<1>9. TableInv'
  BY <1>8, TableKept
<1>10. BucketInv(t)'
  BY <1>5 DEF BucketInv
<1> QED
  BY <1>3, <1>4, <1>5, <1>6, <1>7, <1>8, <1>9, <1>10 DEF StepKept

-----------------------------------------------------------------------------
(* The invariant holds throughout *)

Calls == {"insert", "remove", "lookup"}

(* A step of the table, whoever uses it *)
TableStep(t) ==
  Step(t) \/ \E o \in Calls, k \in Keys : Begin(t, o, k)

LEMMA InitialMembers == ASSUME Init PROVE Members = {0}
<1>1. 0 \in Keys /\ 0 \in 0..TopBit - 1
  BY TableAssumption, TopBitProperties
<1>2. ASSUME NEW k \in Keys, reverseRegularKey(k) \in list PROVE k = 0
  <2>1. reverseRegularKey(k) # reverseDummyKey(0)
    BY <1>1, ListKeys
  <2>2. reverseRegularKey(k) = reverseRegularKey(0)
    BY <1>2, <2>1 DEF Init
  <2> QED  BY <1>1, <2>2, ListKeys
<1> QED  BY <1>1, <1>2 DEF Members, Init

LEMMA TInvInit == ASSUME Init PROVE TInv
<1> USE DEF Init
<1>1. /\ Width \in Nat /\ 1 \in 1..Width - 1 /\ 1 \in 1..Width /\ 1 - 1 = 0 /\ 0 \in Keys
      /\ TopBit \in Nat \ {0} /\ 0 \in 0..TopBit - 1 /\ Word \in Nat \ {0} /\ Word = 2 * TopBit
  BY TableAssumption, TopBitProperties
<1>2. pow2[1] = 2
  BY <1>1, Powers
<1>3. reverseDummyKey(0) \in 0..Word - 1 /\ reverseRegularKey(0) \in 0..Word - 1
  BY <1>1, ListKeys
<1>4. reverseDummyKey(0) # NULL /\ getParent(0) = 0
  BY <1>1, <1>3 DEF NULL, getParent
<1>5. TypeOK
  <2>1. size_ \in {pow2[n] : n \in 1..Width - 1}
    BY <1>1, <1>2
  <2>2. buckets_ \in Seq({NULL} \union 0..Word - 1)
    BY <1>3
  <2>3. count_ \in 0..Word - 1 /\ list \subseteq 0..Word - 1
    BY <1>1, <1>3
  <2>4. stack \in [Threads -> Seq(Nat)]
    OBVIOUS
  <2>5. result \in [Threads -> SUBSET BOOLEAN] /\ was \in [Threads -> SUBSET BOOLEAN]
    OBVIOUS
  <2>6. /\ op \in [Threads -> {"none", "insert", "remove", "lookup"}]
        /\ key \in [Threads -> Keys] /\ bucket \in [Threads -> Nat]
        /\ csize \in [Threads -> Nat] /\ i \in [Threads -> Nat] /\ torn \in BOOLEAN
    BY <1>1
  <2>7. pc \in [Threads -> {"idle", "check", "init", "dummy", "store", "op", "csize",
                            "count", "test", "push", "cas", "uncount", "done"}]
    OBVIOUS
  <2> HIDE DEF Init
  <2> QED  BY <2>1, <2>2, <2>3, <2>4, <2>5, <2>6, <2>7 DEF TypeOK
<1>6. Members = {0}
  BY InitialMembers
<1>7. CountInv
  <2>1. Adding = {} /\ Removing = {}
    BY DEF Adding, Removing
  <2>2. Cardinality(Adding) = 0 /\ Cardinality(Removing) = 0 /\ Cardinality(Members) = 1
    BY <1>6, <2>1, FS_EmptySet, FS_Singleton
  <2>3. count_ + Cardinality(Adding) = Cardinality(Members) + Cardinality(Removing) + 0 * Word
    BY <1>1, <2>2
  <2> QED  BY <2>3 DEF CountInv
<1>8. ASSUME NEW t \in Threads PROVE LocalInv(t) /\ SeenInv(t) /\ BucketInv(t)
  BY DEF LocalInv, SeenInv, BucketInv
<1>9. TableInv
  <2>1. Len(buckets_) = 2 /\ at(0) = reverseDummyKey(0) /\ at(1) = NULL
    BY DEF at
  <2>2. \A b \in 0..Len(buckets_) - 1 : b = 0 \/ b = 1
    BY <2>1
  <2> QED  BY <1>4, <2>1, <2>2 DEF TableInv
<1> QED  BY <1>5, <1>7, <1>8, <1>9 DEF TInv

LEMMA EveryStepKept ==
  ASSUME TInv, NEW t \in Threads, TableStep(t)
  PROVE  ~torn /\ Observe /\ StepKept(t)
<1>1. CASE Step(t)
  <2>1. ~torn /\ Observe /\ Race(t)
    BY <1>1 DEF Step
  <2> QED
    BY <1>1, <2>1, CheckStep, CheckParentStep, InsertDummyStep, StoreDummyStep,
       ListCallStep, ReadSizeStep, CountStep, TestLoadStep, PushBackStep, SwapSizeStep,
       UncountStep, ReturnStep DEF Step
<1>2. CASE \E o \in Calls, k \in Keys : Begin(t, o, k)
  BY <1>2, CallStep DEF Begin, Calls
<1> QED  BY <1>1, <1>2 DEF TableStep

LEMMA TInvStep ==
  ASSUME TInv, NEW t \in Threads, TableStep(t)
  PROVE  TInv'
<1>1. ~torn /\ Observe /\ StepKept(t)
  BY EveryStepKept
<1>2. TypeOK' /\ CountInv' /\ OthersWait(t) /\ Grows /\ LocalInv(t)'
  BY <1>1 DEF StepKept
<1>3. size_' \in Nat /\ Len(buckets_') \in Nat /\ size_ <= size_'
  <2>1. size_' \in Nat
    <3>1. PICK n \in 1..Width - 1 : size_' = pow2[n]
      BY <1>2 DEF TypeOK
    <3>2. n \in 0..Width
      BY TableAssumption
    <3> QED  BY <3>1, <3>2, Powers
  <2>2. Len(buckets_') \in Nat
    BY <1>2 DEF TypeOK
  <2> QED  BY <1>2, <2>1, <2>2 DEF Grows
<1>4. ASSUME NEW u \in Threads PROVE LocalInv(u)' /\ SeenInv(u)'
  <2>1. CASE u = t
    <3>1. op'[t] # "none" /\ result'[t] = {} => result[t] = {}
      BY <1>1 DEF StepKept
    <3>2. SeenInv(t)'
      BY <1>1, <3>1, Observed DEF SeenInv
    <3> QED  BY <1>2, <2>1, <3>2
  <2>2. CASE u # t
    BY <1>1, <1>2, <1>3, <2>2, OtherThread DEF TInv
  <2> QED  BY <2>1, <2>2
<1>5. ASSUME ~torn', NEW u \in Threads PROVE TableInv' /\ BucketInv(u)'
  <2>1. TableInv' /\ BucketInv(t)'
    BY <1>1, <1>5 DEF StepKept
  <2>2. CASE u # t
    BY <1>1, <1>2, <1>3, <2>1, <2>2, OtherBuckets DEF TInv
  <2> QED  BY <2>1, <2>2
<1>6. ~torn' => TableInv'
  BY <1>1 DEF StepKept
<1> QED  BY <1>2, <1>4, <1>5, <1>6 DEF TInv

LEMMA TInvStutter == ASSUME TInv, UNCHANGED vars PROVE TInv'
<1> USE DEF vars, tableVars, localVars, callVars
<1>1. TypeOK'
  BY DEF TInv, TypeOK
<1>2. Members' = Members /\ Adding' = Adding /\ Removing' = Removing
  BY DEF Members, Adding, Removing
<1>3. CountInv'
  BY <1>2 DEF TInv, CountInv
<1>4. ASSUME NEW t \in Threads PROVE LocalInv(t)' /\ SeenInv(t)'
  BY <1>2 DEF TInv, LocalInv, SeenInv
<1>5. ASSUME ~torn', NEW t \in Threads PROVE BucketInv(t)'
  BY <1>5 DEF TInv, BucketInv, at
<1>6. ~torn' => TableInv'
  BY DEF TInv, TableInv, at
<1> QED  BY <1>1, <1>3, <1>4, <1>5, <1>6 DEF TInv

(* What the users of the table add to it *)
UserOK == server \in BOOLEAN /\ built \in 0..Built /\ builder \in Threads

LEMMA UserStep ==
  ASSUME UserOK, [KVNext]_<<vars, kvVars>>
  PROVE  UserOK' /\ (UNCHANGED vars \/ \E t \in Threads : TableStep(t))
<1>1. Built \in Nat /\ 0..Built - 1 \subseteq Keys
  BY KVAssumption
<1>2. ASSUME built < Built PROVE built \in Keys /\ built + 1 \in 0..Built
  BY <1>1, <1>2 DEF UserOK
<1>3. CASE BuildHashTable
  <2>1. TableStep(builder)
    BY <1>2, <1>3 DEF BuildHashTable, TableStep, Calls
  <2> QED  BY <1>3, <2>1 DEF BuildHashTable, kvVars, UserOK
<1>4. CASE BuilderStep
  BY <1>2, <1>4 DEF BuilderStep, TableStep, UserOK
<1>5. ASSUME NEW t \in Threads, WorkerStep(t)
      PROVE  UserOK' /\ \E u \in Threads : TableStep(u)
  BY <1>5 DEF WorkerStep, TableStep, UserOK
<1>6. ASSUME NEW t \in Threads, NEW n \in Requests, HandleRequest(t, n)
      PROVE  UserOK' /\ \E u \in Threads : TableStep(u)
  <2>1. Seen(n) \in Keys
    BY DEF Requests
  <2> QED  BY <1>6, <2>1 DEF HandleRequest, TableStep, UserOK, Calls
<1>7. ASSUME NEW t \in Threads, NEW o \in AbstractSet!Ops, NEW k \in Keys, TestCall(t, o, k)
      PROVE  UserOK' /\ \E u \in Threads : TableStep(u)
  BY <1>7 DEF TestCall, TableStep, UserOK, Calls, AbstractSet!Ops
<1>8. CASE UNCHANGED <<vars, kvVars>>
  BY <1>8 DEF UserOK, kvVars
<1>9. CASE Finished
  BY <1>8, <1>9 DEF Finished
<1> QED
  BY <1>3, <1>4, <1>5, <1>6, <1>7, <1>8, <1>9 DEF KVNext

LEMMA TableInvariance == KVSpec => [](TInv /\ UserOK)
<1>1. KVInit => TInv /\ UserOK
  <2>1. 0 \in 0..Built
    BY KVAssumption
  <2> QED  BY <2>1, TInvInit DEF KVInit, UserOK
<1>2. TInv /\ UserOK /\ [KVNext]_<<vars, kvVars>> => TInv' /\ UserOK'
  BY UserStep, TInvStep, TInvStutter
<1> QED  BY <1>1, <1>2, PTL DEF KVSpec

(* Every key in the list is found from each bucket it may be looked for in, *)
(* and every bucket in use has its dummy and its parent: initialize_bucket() *)
(* and the growth in insertKey() lose no key, for any number of threads.     *)
THEOREM KeysAreReachable == KVSpec => []KeysReachable
<1>1. ASSUME TInv PROVE KeysReachable
  <2> SUFFICES ASSUME ~torn PROVE
        /\ Len(buckets_) >= size_
        /\ \A b \in 0..Len(buckets_) - 1 :
             at(b) # NULL => at(b) = reverseDummyKey(b) /\ at(b) \in list
                             /\ at(getParent(b)) # NULL
        /\ \A k \in Members, n \in 1..Width - 1 :
             pow2[n] <= size_ /\ at(k % pow2[n]) # NULL =>
               Found(reverseRegularKey(k), at(k % pow2[n]))
    BY DEF KeysReachable
  <2>1. TableInv /\ TypeOK
    BY <1>1 DEF TInv
  <2>2. ASSUME NEW k \in Members, NEW n \in 1..Width - 1,
               pow2[n] <= size_, at(k % pow2[n]) # NULL
        PROVE  Found(reverseRegularKey(k), at(k % pow2[n]))
    <3>1. k \in Keys /\ reverseRegularKey(k) \in list
      BY DEF Members
    <3>2. n \in 0..Width - 1 /\ n \in 0..Width
      BY TableAssumption
    <3>3. /\ k % pow2[n] \in 0..pow2[n] - 1
          /\ reverseDummyKey(k % pow2[n]) <= reverseRegularKey(k)
      BY <3>1, <3>2, KeyBehind
    <3>4. pow2[n] \in Nat
      BY <3>2, Powers
    <3>5. k % pow2[n] \in 0..Len(buckets_) - 1
      BY <2>1, <2>2, <3>3, <3>4, SizeFacts DEF TableInv
    <3>6. at(k % pow2[n]) = reverseDummyKey(k % pow2[n])
      BY <2>1, <2>2, <3>5 DEF TableInv
    <3> QED  BY <3>1, <3>3, <3>6 DEF Found
  <2> QED  BY <2>1, <2>2 DEF TableInv
<1> QED  BY <1>1, TableInvariance, PTL

(* count_ is the number of keys but for the calls that are about to count,  *)
(* modulo the word: no insert or remove is counted twice or forgotten.      *)
THEOREM CountIsExact == KVSpec => []CountExact
<1>1. ASSUME TInv PROVE CountExact
  <2> DEFINE x == count_ + Cardinality(Adding)
             y == Cardinality(Members) + Cardinality(Removing)
  <2>1. PICK q \in Int : x = y + q * Word
    BY <1>1 DEF TInv, CountInv
  <2>2. x \in Nat /\ y \in Nat /\ Word \in Nat \ {0}
    <3>1. Adding \subseteq Threads /\ Removing \subseteq Threads
      BY DEF Adding, Removing
    <3>2. Cardinality(Adding) \in Nat /\ Cardinality(Removing) \in Nat
      BY <3>1, TableAssumption, FS_Subset, FS_CardinalityType
    <3>3. count_ \in 0..Word - 1 /\ Word \in Nat \ {0}
      BY <1>1, SizeFacts DEF TInv, TypeOK
    <3> QED  BY <3>2, <3>3, MembersFinite
  <2> HIDE DEF x, y
  <2> DEFINE a == y \div Word  r == y % Word
  <2>3. y = Word * a + r /\ a \in Nat /\ r \in 0..Word - 1
    BY <2>2, DivMod
  <2> HIDE DEF a, r
  <2>4. x = Word * (a + q) + r /\ a + q \in Int
    <3>1. Word * (a + q) = Word * a + q * Word
      BY <2>2, <2>3
    <3> QED  BY <2>1, <2>2, <2>3, <3>1
  <2>5. x % Word = r
    BY <2>2, <2>3, <2>4, DivModUnique
  <2>6. x % Word = y % Word
    BY <2>5 DEF r
  <2> QED  BY <2>6 DEF CountExact, x, y, Adding, Removing
<1> QED  BY <1>1, TableInvariance, PTL

-----------------------------------------------------------------------------
(* The table is a linearizable set *)

AbstractStep(t) ==
  \/ UNCHANGED <<Members, op, key, result>>
  \/ AbstractSet!Call(t) \/ AbstractSet!Effect(t) \/ AbstractSet!Answer(t)
  \/ AbstractSet!Return(t)

LEMMA ListCallAnswers ==
  ASSUME TInv, ~torn, NEW t \in Threads, ListCall(t)
  PROVE  AbstractSet!Effect(t) \/ AbstractSet!Answer(t)
<1> DEFINE k == reverseRegularKey(key[t])  found == Found(k, at(bucket[t]))
<1>0. pc[t] = "op"
  BY DEF ListCall
<1>1. /\ key[t] \in Keys
      /\ found <=> key[t] \in Members
      /\ Linked(k, at(bucket[t])) = list \union {k}
  BY <1>0, StartOfKey DEF TInv
<1> HIDE DEF k, found
<1>2. /\ result[t] = {} /\ op[t] # "none"
      /\ key[t] \in Members => TRUE \in was[t]
      /\ key[t] \notin Members => FALSE \in was[t]
  BY <1>0 DEF TInv, LocalInv, SeenInv
<1>3. UNCHANGED <<op, key>>
  BY DEF ListCall
<1>4. \/ /\ op[t] = "insert" /\ result' = [result EXCEPT ![t] = {~found}]
         /\ list' = IF found THEN list ELSE list \union {k}
      \/ /\ op[t] = "remove" /\ result' = [result EXCEPT ![t] = {found}]
         /\ list' = IF found THEN list \ {k} ELSE list
      \/ /\ op[t] = "lookup" /\ result' = [result EXCEPT ![t] = {found}]
         /\ list' = list
  BY <1>1 DEF ListCall, Answer, k, found
<1>5. /\ list' = list => Members' = Members
      /\ list' = list \union {k} => Members' = Members \union {key[t]}
      /\ list' = list \ {k} => Members' = Members \ {key[t]}
  BY <1>1, MembersAfter DEF k
<1>6. CASE found
  <2>1. found = TRUE /\ (~found) = FALSE /\ key[t] \in Members
    BY <1>1, <1>6
  <2>2. \/ /\ op[t] = "insert" /\ result' = [result EXCEPT ![t] = {FALSE}]
           /\ Members' = Members
        \/ /\ op[t] = "remove" /\ result' = [result EXCEPT ![t] = {TRUE}]
           /\ Members' = Members \ {key[t]}
        \/ /\ op[t] = "lookup" /\ result' = [result EXCEPT ![t] = {TRUE}]
           /\ Members' = Members
    BY <1>4, <1>5, <2>1
  <2> QED  BY <1>2, <1>3, <2>1, <2>2 DEF AbstractSet!Effect, AbstractSet!Answer
<1>7. CASE ~found
  <2>1. found = FALSE /\ (~found) = TRUE /\ key[t] \notin Members
    BY <1>1, <1>7
  <2>2. \/ /\ op[t] = "insert" /\ result' = [result EXCEPT ![t] = {TRUE}]
           /\ Members' = Members \union {key[t]}
        \/ /\ op[t] = "remove" /\ result' = [result EXCEPT ![t] = {FALSE}]
           /\ Members' = Members
        \/ /\ op[t] = "lookup" /\ result' = [result EXCEPT ![t] = {FALSE}]
           /\ Members' = Members
    BY <1>4, <1>5, <2>1
  <2> QED  BY <1>2, <1>3, <2>1, <2>2 DEF AbstractSet!Effect, AbstractSet!Answer
<1> QED  BY <1>6, <1>7

LEMMA EveryStepAnswers ==
  ASSUME TInv, NEW t \in Threads, TableStep(t)
  PROVE  AbstractStep(t)
<1> USE DEF tableVars, localVars, callVars
<1>1. ASSUME list' = list PROVE Members' = Members
  BY <1>1, MembersAfter
<1>2. CASE \E o \in Calls, k \in Keys : Begin(t, o, k)
  <2>1. PICK o \in Calls, k \in Keys : Begin(t, o, k)
    BY <1>2
  <2>2. op[t] = "none" /\ Members' = Members
    BY <1>1, <2>1 DEF Begin, Call, TInv, LocalInv
  <2>3. AbstractSet!Call(t)
    BY <2>1, <2>2 DEF Begin, Call, AbstractSet!Call, AbstractSet!Ops, Calls
  <2> QED  BY <2>3 DEF AbstractStep
<1>3. CASE Step(t)
  <2>0. ~torn
    BY <1>3 DEF Step
  <2>1. CASE Check(t) \/ CheckParent(t) \/ StoreDummy(t) \/ ReadSize(t) \/ Count(t)
             \/ TestLoad(t) \/ PushBack(t) \/ SwapSize(t) \/ Uncount(t)
    <3>1. UNCHANGED <<list, op, key, result>>
      BY <2>1 DEF Check, CheckParent, StoreDummy, ReadSize, Count, TestLoad, PushBack,
         SwapSize, Uncount
    <3> QED  BY <1>1, <3>1 DEF AbstractStep
  <2>2. CASE InsertDummy(t)
    <3>1. Head(stack[t]) \in 0..TopBit - 1
      BY <2>2, StackFacts DEF InsertDummy, TInv
    <3>2. list' = list \union {reverseDummyKey(Head(stack[t]))}
      BY <2>0, <2>2, StartOfDummy DEF InsertDummy, TInv
    <3>3. Members' = Members
      BY <3>1, <3>2, MembersAfter
    <3> QED  BY <2>2, <3>3 DEF InsertDummy, AbstractStep
  <2>3. CASE ListCall(t)
    BY <2>0, <2>3, ListCallAnswers DEF AbstractStep
  <2>4. CASE Return(t)
    <3>1. result[t] # {} /\ Members' = Members /\ 0 \in Keys
      BY <1>1, <2>4, TableAssumption DEF Return, TInv, LocalInv
    <3>2. AbstractSet!Return(t)
      BY <2>4, <3>1 DEF Return, AbstractSet!Return
    <3> QED  BY <3>2 DEF AbstractStep
  <2> QED  BY <1>3, <2>1, <2>2, <2>3, <2>4 DEF Step
<1> QED  BY <1>2, <1>3 DEF TableStep

(* insertKey(), removeKey() and findKey() answer as calls on a set would in  *)
(* some order, each taking effect between its start and its return, while   *)
(* any number of threads initialise buckets and the table grows.            *)
THEOREM TableIsLinearizable == KVSpec => Linearizable
<1>1. KVInit => AbstractSet!Init
  <2> SUFFICES ASSUME Init PROVE AbstractSet!Init
    BY DEF KVInit
  <2>1. 0 \in Keys
    BY TableAssumption
  <2>2. Members = {0}
    BY InitialMembers
  <2> QED  BY <2>1, <2>2 DEF Init, AbstractSet!Init
<1>2. ASSUME TInv, UserOK, [KVNext]_<<vars, kvVars>>
      PROVE  [AbstractSet!Next]_(AbstractSet!vars)
  <2>1. CASE UNCHANGED vars
    <3>1. Members' = Members
      BY <2>1, MembersAfter DEF vars, tableVars
    <3> QED  BY <2>1, <3>1 DEF vars, callVars, AbstractSet!vars
  <2>2. ASSUME NEW t \in Threads, TableStep(t)
        PROVE  [AbstractSet!Next]_(AbstractSet!vars)
    <3>1. AbstractStep(t)
      BY <1>2, <2>2, EveryStepAnswers
    <3>2. Observe
      BY <1>2, <2>2, EveryStepKept
    <3>3. TypeOK /\ was' \in [Threads -> SUBSET BOOLEAN]
      BY <1>2, <3>2, WasType DEF TInv
    <3>4. AbstractSet!Observe
      BY <3>2 DEF Observe, AbstractSet!Observe
    <3>5. CASE UNCHANGED <<Members, op, key, result>>
      <4>1. ASSUME NEW u \in Threads PROVE was'[u] = was[u]
        <5>1. was'[u] = IF op[u] = "none" THEN {}
                        ELSE IF result[u] # {} THEN was[u]
                        ELSE was[u] \union {key[u] \in Members}
          BY <3>2, <3>5 DEF Observe
        <5>2. op[u] = "none" => was[u] = {}
          BY <1>2 DEF TInv, SeenInv
        <5>3. op[u] # "none" /\ result[u] = {} => (key[u] \in Members) \in was[u]
          <6>1. CASE key[u] \in Members
            <7>1. (key[u] \in Members) = TRUE
              BY <6>1
            <7> QED  BY <1>2, <6>1, <7>1 DEF TInv, SeenInv
          <6>2. CASE key[u] \notin Members
            <7>1. (key[u] \in Members) = FALSE
              BY <6>2
            <7> QED  BY <1>2, <6>2, <7>1 DEF TInv, SeenInv
          <6> QED  BY <6>1, <6>2
        <5> QED  BY <5>1, <5>2, <5>3
      <4>2. was' = was
        BY <3>3, <4>1 DEF TypeOK
      <4> QED  BY <3>5, <4>2 DEF AbstractSet!vars
    <3>6. CASE ~UNCHANGED <<Members, op, key, result>>
      BY <3>1, <3>4, <3>6 DEF AbstractStep, AbstractSet!Next
    <3> QED  BY <3>5, <3>6
  <2> QED  BY <1>2, <2>1, <2>2, UserStep
<1> QED  BY <1>1, <1>2, TableInvariance, PTL DEF KVSpec, Linearizable, AbstractSet!Spec

-----------------------------------------------------------------------------
(* The key-value server *)

(* While it is built there is one caller, which inserts the keys in turn;   *)
(* then there are only lookups, of what the table sees of a number.  The    *)
(* keys are those below Built, and all but key 0 have a value of two        *)
(* digits.                                                                  *)
Building ==
  built < Built =>
    /\ \A t \in Threads \ {builder} : pc[t] = "idle"
    /\ pc[builder] # "idle" => op[builder] = "insert" /\ key[builder] = built
    /\ pc[builder] # "uncount"
    /\ pc[builder] \in {"csize", "count", "test", "push", "cas", "done"} => built \in Members

Serving ==
  built = Built =>
    \A t \in Threads :
      /\ pc[t] \in {"idle", "check", "init", "dummy", "store", "op", "done"}
      /\ pc[t] # "idle" => op[t] = "lookup" /\ key[t] = Seen(response[t].key)
      /\ pc[t] = "done" => \/ result[t] = {TRUE} /\ key[t] < Built
                           \/ result[t] = {FALSE} /\ ~(key[t] < Built)

TableBuilt ==
  /\ 0 \in Members /\ \A k \in 0..built - 1 : k \in Members
  /\ \A k \in Members : k < Built /\ (k # 0 => value[k] >= 10)

ResponseRight(r) ==
  r.code # 0 => /\ (r.code = 200) = (Seen(r.key) < Built)
                /\ r.code = 200 /\ Seen(r.key) # 0 => r.body >= r.length

ServerInv ==
  server => /\ ~torn /\ Building /\ Serving /\ TableBuilt
            /\ \A t \in Threads : ResponseRight(response[t])

Responses ==
  [key : 0..Word - 1, code : {0, 200, 503}, length : {0, 2}, body : 0..3]

(* A response that has been asked for only *)
Asked(n) == [None EXCEPT !.key = n]

LEMMA AskedIs ==
  ASSUME NEW n
  PROVE  Asked(n) = [key |-> n, code |-> 0, length |-> 0, body |-> 0]
  BY DEF Asked, None

LEMMA ResponseTypes ==
  ASSUME KVTypeOK, NEW t \in Threads
  PROVE  /\ \A n \in 0..Word - 1 : Asked(n) \in Responses
         /\ \A r \in Respond(t) : r \in Responses
<1>1. response[t].key \in 0..Word - 1
  BY DEF KVTypeOK
<1>2. ASSUME NEW n \in 0..Word - 1 PROVE Asked(n) \in Responses
  <2>1. [key |-> n, code |-> 0, length |-> 0, body |-> 0] \in Responses
    BY DEF Responses
  <2> QED  BY <2>1, AskedIs
<1>3. Printed(value[key[t]]) \subseteq 0..3
  BY DEF Printed
<1>4. ASSUME NEW r \in Respond(t) PROVE r \in Responses
  <2>1. CASE result[t] = {TRUE}
    <3>1. PICK b \in Printed(value[key[t]]) :
               r = [key |-> response[t].key, code |-> 200, length |-> 2, body |-> b]
      BY Zenon, <1>4, <2>1 DEF Respond
    <3>2. b \in 0..3
      BY <1>3
    <3> QED  BY <1>1, <3>1, <3>2 DEF Responses
  <2>2. CASE result[t] # {TRUE}
    <3>1. r = [key |-> response[t].key, code |-> 503, length |-> 0, body |-> 0]
      BY Zenon, <1>4, <2>2 DEF Respond
    <3> QED  BY <1>1, <3>1 DEF Responses
  <2> QED  BY <2>1, <2>2
<1> QED  BY <1>2, <1>4

(* The values have two digits. *)
LEMMA Values == ASSUME NEW k \in Nat PROVE ValueOf(k) \in 10..99
<1> DEFINE v == (k * 10) % 100
<1>1. v \in 0..99
  <2>1. k * 10 \in Nat /\ 100 \in Nat \ {0}
    OBVIOUS
  <2>2. \A x \in Nat : x % 100 \in 0..99
    OBVIOUS
  <2> QED  BY <2>1, <2>2
<1>2. ValueOf(k) = IF v < 10 THEN v + 10 ELSE v
  BY DEF ValueOf
<1> HIDE DEF v
<1> QED  BY <1>1, <1>2

(* Types of the key-value server *)
LEMMA KVTypeStep ==
  ASSUME TInv, TInv', UserOK, UserOK', KVTypeOK, [KVNext]_<<vars, kvVars>>
  PROVE  KVTypeOK'
<1> USE DEF KVTypeOK
<1>0. TypeOK' /\ MaxCalls \in Nat /\ Built \in Nat
  BY KVAssumption DEF TInv
<1>1. CASE BuildHashTable
  BY <1>0, <1>1 DEF BuildHashTable, kvVars
<1>2. CASE BuilderStep
  <2>1. built \in Keys /\ built \in Nat
    BY <1>2, KVAssumption DEF BuilderStep, UserOK
  <2>2. ValueOf(built) \in 0..99
    BY <2>1, Values
  <2>3. value' \in [Keys -> 0..99]
    BY <1>2, <2>1, <2>2 DEF BuilderStep
  <2> QED  BY <1>0, <1>2, <2>3 DEF BuilderStep, UserOK
<1>3. ASSUME NEW t \in Threads, WorkerStep(t) PROVE KVTypeOK'
  <2>1. /\ response \in [Threads -> Responses]
        /\ response' = response \/ \E r \in Respond(t) : response' = [response EXCEPT ![t] = r]
    BY <1>3 DEF WorkerStep, Responses
  <2>2. \A r \in Respond(t) : r \in Responses
    BY <1>3, ResponseTypes
  <2>3. response' \in [Threads -> Responses]
    BY <2>1, <2>2
  <2> QED  BY <1>0, <1>3, <2>3 DEF WorkerStep, Responses
<1>4. ASSUME NEW t \in Threads, NEW n \in Requests, HandleRequest(t, n) PROVE KVTypeOK'
  <2>0. /\ n \in 0..Word - 1 /\ response \in [Threads -> Responses]
        /\ response' = [response EXCEPT ![t] = Asked(n)]
    BY <1>4 DEF Requests, Responses, HandleRequest, Asked
  <2>1. response' \in [Threads -> Responses]
    BY Zenon, <2>0, ResponseTypes
  <2>2. calls' \in [Threads -> 0..MaxCalls]
    BY <1>0, <1>4 DEF HandleRequest
  <2> QED  BY <1>0, <1>4, <2>1, <2>2 DEF HandleRequest, Responses
<1>5. ASSUME NEW t \in Threads, NEW o \in AbstractSet!Ops, NEW k \in Keys, TestCall(t, o, k)
      PROVE  KVTypeOK'
  <2>1. calls' \in [Threads -> 0..MaxCalls]
    BY <1>0, <1>5 DEF TestCall
  <2> QED  BY <1>0, <1>5, <2>1 DEF TestCall
<1>6. CASE UNCHANGED <<vars, kvVars>>
  BY <1>0, <1>6 DEF kvVars
<1>7. CASE Finished
  BY <1>6, <1>7 DEF Finished
<1> QED
  BY <1>1, <1>2, <1>3, <1>4, <1>5, <1>6, <1>7 DEF KVNext

(* What the call on the list does to the set and to the thread *)
LEMMA ListCallEffect ==
  ASSUME TInv, ~torn, NEW t \in Threads, ListCall(t)
  PROVE  /\ op[t] = "insert" /\ key[t] \in Members =>
              Members' = Members /\ result'[t] = {FALSE} /\ pc'[t] = "done"
         /\ op[t] = "insert" /\ key[t] \notin Members =>
              /\ Members' = Members \union {key[t]}
              /\ result'[t] = {TRUE} /\ pc'[t] = "csize"
         /\ op[t] = "lookup" /\ key[t] \in Members =>
              Members' = Members /\ result'[t] = {TRUE} /\ pc'[t] = "done"
         /\ op[t] = "lookup" /\ key[t] \notin Members =>
              Members' = Members /\ result'[t] = {FALSE} /\ pc'[t] = "done"
         /\ pc[t] = "op" /\ UNCHANGED <<op, key>>
<1> DEFINE k == reverseRegularKey(key[t])  found == Found(k, at(bucket[t]))
<1>0. pc[t] = "op" /\ UNCHANGED <<op, key>>
  BY DEF ListCall
<1>1. /\ key[t] \in Keys
      /\ found <=> key[t] \in Members
      /\ Linked(k, at(bucket[t])) = list \union {k}
  BY <1>0, StartOfKey DEF TInv
<1> HIDE DEF k, found
<1>2. \/ /\ op[t] = "insert" /\ result'[t] = {~found}
         /\ list' = IF found THEN list ELSE list \union {k}
         /\ pc'[t] = IF found THEN "done" ELSE "csize"
      \/ /\ op[t] = "remove"
      \/ /\ op[t] = "lookup" /\ result'[t] = {found}
         /\ list' = list /\ pc'[t] = "done"
  <2>1. result \in [Threads -> SUBSET BOOLEAN] /\ DOMAIN pc = Threads
    BY DEF TInv, TypeOK
  <2>2. \/ /\ op[t] = "insert" /\ result' = [result EXCEPT ![t] = {~found}]
           /\ list' = IF found THEN list ELSE list \union {k}
           /\ pc' = [pc EXCEPT ![t] = IF found THEN "done" ELSE "csize"]
        \/ /\ op[t] = "remove"
        \/ /\ op[t] = "lookup" /\ result' = [result EXCEPT ![t] = {found}]
           /\ list' = list /\ pc' = [pc EXCEPT ![t] = "done"]
    BY <1>1 DEF ListCall, Answer, Goto, k, found
  <2> QED  BY <2>1, <2>2
<1>3. /\ list' = list => Members' = Members
      /\ list' = list \union {k} => Members' = Members \union {key[t]}
  BY <1>1, MembersAfter DEF k
<1>4. CASE found
  <2>1. found = TRUE /\ (~found) = FALSE /\ key[t] \in Members
    BY <1>1, <1>4
  <2> QED  BY <1>0, <1>2, <1>3, <2>1
<1>5. CASE ~found
  <2>1. found = FALSE /\ (~found) = TRUE /\ key[t] \notin Members
    BY <1>1, <1>5
  <2> QED  BY <1>0, <1>2, <1>3, <2>1
<1> QED  BY <1>4, <1>5

(* The other steps leave the set alone. *)
LEMMA OtherStepEffect ==
  ASSUME TInv, NEW t \in Threads, Step(t), ~ListCall(t)
  PROVE  /\ Members' = Members /\ pc[t] # "op"
         /\ pc[t] \in {"check", "init", "dummy", "store"} =>
              pc'[t] \in {"init", "dummy", "store", "op"} /\ UNCHANGED <<op, key, result>>
         /\ pc[t] \in {"csize", "count", "test", "push", "cas"} =>
              /\ pc'[t] \in {"count", "test", "push", "cas", "done"}
              /\ UNCHANGED <<op, key, result>>
         /\ pc[t] = "done" => pc'[t] = "idle" /\ op'[t] = "none"
         /\ pc[t] # "idle"
<1> USE DEF Goto, tableVars, localVars, callVars
<1>0. ~torn /\ DOMAIN pc = Threads /\ DOMAIN op = Threads
  BY DEF Step, TInv, TypeOK
<1>1. ASSUME list' = list PROVE Members' = Members
  BY <1>1, MembersAfter
<1>2. CASE Check(t) \/ CheckParent(t)
  BY <1>0, <1>1, <1>2 DEF Check, CheckParent
<1>3. CASE InsertDummy(t)
  <2>1. Head(stack[t]) \in 0..TopBit - 1
    BY <1>3, StackFacts DEF InsertDummy, TInv
  <2>2. list' = list \union {reverseDummyKey(Head(stack[t]))}
    BY <1>0, <1>3, StartOfDummy DEF InsertDummy, TInv
  <2>3. Members' = Members
    BY <2>1, <2>2, MembersAfter
  <2> QED  BY <1>0, <1>3, <2>3 DEF InsertDummy
<1>4. CASE StoreDummy(t)
  <2>1. pc' = [pc EXCEPT ![t] = IF stack'[t] = <<>> THEN "op" ELSE "dummy"]
    BY <1>4 DEF StoreDummy
  <2>2. pc'[t] \in {"op", "dummy"}
    BY <1>0, <2>1
  <2> QED  BY <1>1, <1>4, <2>2 DEF StoreDummy
<1>5. CASE ReadSize(t) \/ Count(t) \/ PushBack(t) \/ SwapSize(t)
  BY <1>0, <1>1, <1>5 DEF ReadSize, Count, PushBack, SwapSize
<1>6. CASE TestLoad(t)
  <2>1. pc' = [pc EXCEPT ![t] = IF count_ \div csize[t] > LoadFactor THEN "push" ELSE "done"]
    BY <1>6 DEF TestLoad
  <2>2. pc'[t] \in {"push", "done"}
    BY <1>0, <2>1
  <2> QED  BY <1>1, <1>6, <2>2 DEF TestLoad
<1>7. CASE Uncount(t)
  BY <1>0, <1>1, <1>7 DEF Uncount
<1>8. CASE Return(t)
  BY <1>0, <1>1, <1>8 DEF Return
<1> QED
  BY <1>2, <1>3, <1>4, <1>5, <1>6, <1>7, <1>8 DEF Step

(* What handleRequest() puts into the response *)
LEMMA ResponseOfCall ==
  ASSUME KVTypeOK, TableBuilt, built = Built, NEW t \in Threads,
         \/ result[t] = {TRUE} /\ key[t] < Built
         \/ result[t] = {FALSE} /\ ~(key[t] < Built),
         key[t] = Seen(response[t].key), NEW r \in Respond(t)
  PROVE  ResponseRight(r) /\ r.key = response[t].key
<1> DEFINE k == key[t]  n == response[t].key
<1>1. k \in Keys /\ k \in Nat /\ Built \in Nat /\ k = Seen(n)
  BY ListKeys, TopBitProperties, KVAssumption DEF KVTypeOK, TypeOK
<1>2. CASE result[t] = {TRUE} /\ key[t] < Built
  <2>1. PICK b \in Printed(value[k]) :
               r = [key |-> n, code |-> 200, length |-> 2, body |-> b]
    BY Zenon, <1>2 DEF Respond
  <2>2. k # 0 => b >= 2
    <3> SUFFICES ASSUME k # 0 PROVE b >= 2
      OBVIOUS
    <3>1. k \in 0..built - 1
      BY <1>1, <1>2
    <3>2. value[k] >= 10 /\ value[k] \in 0..99
      BY <1>1, <3>1 DEF TableBuilt, KVTypeOK
    <3> QED  BY <2>1, <3>2 DEF Printed
  <2>3. k < Built
    BY <1>2
  <2> HIDE DEF k, n
  <2>4. r.code = 200 /\ r.key = n /\ r.length = 2 /\ r.body = b
    BY <2>1
  <2> QED  BY <1>1, <2>2, <2>3, <2>4 DEF ResponseRight, n
<1>3. CASE result[t] = {FALSE} /\ ~(key[t] < Built)
  <2>1. result[t] # {TRUE}
    BY <1>3
  <2>2. r = [key |-> n, code |-> 503, length |-> 0, body |-> 0]
    BY Zenon, <2>1 DEF Respond
  <2>3. ~(k < Built)
    BY <1>3
  <2> HIDE DEF k, n
  <2>4. r.code = 503 /\ r.key = n
    BY <2>2
  <2> QED  BY <1>1, <2>3, <2>4 DEF ResponseRight, n
<1> QED  BY <1>2, <1>3

LEMMA BuildHashTableStep ==
  ASSUME TInv, UserOK, KVTypeOK, ServerInv, server, BuildHashTable
  PROVE  ServerInv'
<1>1. /\ built < Built /\ Call(builder, "insert", built) /\ ~torn /\ torn' = torn
      /\ UNCHANGED kvVars
  BY DEF BuildHashTable, Begin
<1>2. built \in Nat /\ Built \in Nat /\ builder \in Threads
  BY KVAssumption DEF UserOK
<1>3. Members' = Members
  BY <1>1, MembersAfter DEF Call, tableVars
<1>4. /\ pc'[builder] = "check" /\ op'[builder] = "insert" /\ key'[builder] = built
      /\ \A t \in Threads \ {builder} : pc'[t] = pc[t]
  BY <1>1, <1>2 DEF Call, Goto, KVTypeOK, TypeOK
<1>5. Building'
  BY <1>1, <1>3, <1>4 DEF Building, ServerInv, kvVars
<1>6. Serving'
  BY <1>1, <1>2 DEF Serving, kvVars
<1>7. TableBuilt'
  BY <1>1, <1>3 DEF TableBuilt, ServerInv, kvVars
<1> QED  BY <1>1, <1>5, <1>6, <1>7 DEF ServerInv, ResponseRight, kvVars

LEMMA BuilderStepStep ==
  ASSUME TInv, UserOK, KVTypeOK, ServerInv, server, BuilderStep
  PROVE  ServerInv'
<1>1. /\ built < Built /\ Step(builder) /\ server'
      /\ value' = IF pc[builder] = "op" /\ result'[builder] = {TRUE}
                  THEN [value EXCEPT ![built] = ValueOf(built)] ELSE value
      /\ built' = IF pc[builder] = "done" THEN built + 1 ELSE built
      /\ UNCHANGED <<server, builder, response, calls>>
  BY DEF BuilderStep
<1>2. built \in Nat /\ Built \in Nat /\ builder \in Threads /\ built \in Keys
  BY <1>1, KVAssumption DEF UserOK
<1>3. Building /\ TableBuilt /\ ~torn /\ \A t \in Threads : ResponseRight(response[t])
  BY DEF ServerInv
<1>4. ~torn'
  <2>1. Race(builder)
    BY <1>1 DEF Step
  <2>2. \A u \in Threads \ {builder} : pc[u] \notin UsesBuckets
    BY <1>1, <1>3 DEF Building, UsesBuckets
  <2> QED  BY <2>1, <2>2 DEF Race
<1>5. OthersWait(builder)
  BY <1>1, <1>2, EveryStepKept DEF TableStep, StepKept
<1>6. \A t \in Threads \ {builder} : pc'[t] = "idle"
  BY <1>1, <1>3, <1>5 DEF OthersWait, Building
<1>7. ASSUME NEW t \in Threads PROVE ResponseRight(response[t])'
  BY <1>1, <1>3 DEF ResponseRight
<1>8. CASE ListCall(builder)
  <2>1. pc[builder] = "op" /\ op[builder] = "insert" /\ key[builder] = built
    BY <1>1, <1>3, <1>8 DEF ListCall, Building
  <2>2. built' = built /\ op'[builder] = "insert" /\ key'[builder] = built
    BY <1>1, <1>8, <2>1 DEF ListCall
  <2>3. Serving'
    BY <1>1, <1>2, <2>2 DEF Serving
  <2>4. CASE built \in Members
    <3>1. Members' = Members /\ result'[builder] = {FALSE} /\ pc'[builder] = "done"
      BY <1>2, <1>3, <1>8, <2>1, <2>4, ListCallEffect
    <3>2. value' = value
      <4>1. result'[builder] # {TRUE}
        BY <3>1
      <4> QED  BY <1>1, <4>1
    <3>3. Building'
      BY <1>1, <1>6, <2>2, <2>4, <3>1 DEF Building
    <3>4. TableBuilt'
      BY <1>3, <2>2, <3>1, <3>2 DEF TableBuilt
    <3> QED  BY <1>4, <1>7, <2>3, <3>3, <3>4 DEF ServerInv
  <2>5. CASE built \notin Members
    <3>1. /\ Members' = Members \union {built} /\ result'[builder] = {TRUE}
          /\ pc'[builder] = "csize"
      BY <1>2, <1>3, <1>8, <2>1, <2>5, ListCallEffect
    <3>2. value' = [value EXCEPT ![built] = ValueOf(built)]
      BY <1>1, <2>1, <3>1
    <3>3. ValueOf(built) \in 10..99
      BY <1>2, Values
    <3>4. Building'
      BY <1>1, <1>6, <2>2, <3>1 DEF Building
    <3>5. TableBuilt'
      <4>1. ASSUME NEW k \in Members' PROVE k < Built /\ (k # 0 => value'[k] >= 10)
        <5>1. value \in [Keys -> 0..99] /\ Members \subseteq Keys
          BY DEF KVTypeOK, Members
        <5>2. CASE k = built
          <6>1. value'[k] = ValueOf(built) /\ k < Built
            BY <1>1, <1>2, <3>2, <5>1, <5>2
          <6> DEFINE v == ValueOf(built)
          <6>2. v >= 10
            BY <3>3
          <6> HIDE DEF v
          <6> QED  BY <6>1, <6>2 DEF v
        <5>3. CASE k # built
          <6>1. k \in Members /\ value'[k] = value[k]
            BY <3>1, <3>2, <5>1, <5>3
          <6> QED  BY <1>3, <6>1 DEF TableBuilt
        <5> QED  BY <5>2, <5>3
      <4> QED  BY <1>1, <1>3, <2>2, <3>1, <4>1 DEF TableBuilt
    <3> QED  BY <1>4, <1>7, <2>3, <3>4, <3>5 DEF ServerInv
  <2> QED  BY <2>4, <2>5
<1>9. CASE ~ListCall(builder)
  <2>1. Members' = Members /\ pc[builder] # "op" /\ pc[builder] # "idle"
    BY <1>1, <1>2, <1>9, OtherStepEffect
  <2>2. value' = value
    BY <1>1, <2>1
  <2>3. op[builder] = "insert" /\ key[builder] = built /\ pc[builder] # "uncount"
    BY <1>1, <1>3, <2>1 DEF Building
  <2>4. CASE pc[builder] = "done"
    <3>1. pc'[builder] = "idle" /\ built' = built + 1 /\ built \in Members
      BY <1>1, <1>2, <1>3, <1>9, <2>4, OtherStepEffect DEF Building
    <3>2. Building'
      BY <1>1, <1>6, <3>1 DEF Building
    <3>3. Serving'
      BY <1>1, <1>6, <3>1 DEF Serving
    <3>4. TableBuilt'
      <4>1. \A k \in 0..built' - 1 : k = built \/ k \in 0..built - 1
        BY <1>2, <3>1
      <4> QED  BY <1>3, <2>1, <2>2, <3>1, <4>1 DEF TableBuilt
    <3> QED  BY <1>4, <1>7, <3>2, <3>3, <3>4 DEF ServerInv
  <2>5. CASE pc[builder] # "done"
    <3>1. built' = built
      BY <1>1, <2>5
    <3>2. Serving'
      BY <1>1, <1>2, <3>1 DEF Serving
    <3>3. TableBuilt'
      BY <1>3, <2>1, <2>2, <3>1 DEF TableBuilt
    <3>4. pc \in [Threads -> {"idle", "check", "init", "dummy", "store", "op", "csize",
                              "count", "test", "push", "cas", "uncount", "done"}]
      BY DEF KVTypeOK, TypeOK
    <3>5. CASE pc[builder] \in {"check", "init", "dummy", "store"}
      <4>1. /\ pc'[builder] \in {"init", "dummy", "store", "op"}
            /\ op' = op /\ key' = key
        BY <1>1, <1>2, <1>9, <3>5, OtherStepEffect
      <4>2. Building'
        BY <1>1, <1>6, <2>3, <3>1, <4>1 DEF Building
      <4> QED  BY <1>4, <1>7, <3>2, <3>3, <4>2 DEF ServerInv
    <3>6. CASE pc[builder] \in {"csize", "count", "test", "push", "cas"}
      <4>1. /\ pc'[builder] \in {"count", "test", "push", "cas", "done"}
            /\ op' = op /\ key' = key
        BY <1>1, <1>2, <1>9, <3>6, OtherStepEffect
      <4>2. built \in Members
        BY <1>1, <1>3, <3>6 DEF Building
      <4>3. Building'
        BY <1>1, <1>6, <2>1, <2>3, <3>1, <4>1, <4>2 DEF Building
      <4> QED  BY <1>4, <1>7, <3>2, <3>3, <4>3 DEF ServerInv
    <3> QED  BY <1>2, <2>1, <2>3, <2>5, <3>4, <3>5, <3>6
  <2> QED  BY <2>4, <2>5
<1> QED  BY <1>8, <1>9

LEMMA WorkerStepStep ==
  ASSUME TInv, UserOK, KVTypeOK, ServerInv, server, NEW t \in Threads, WorkerStep(t)
  PROVE  ServerInv'
<1>1. /\ built = Built /\ Step(t) /\ server'
      /\ IF pc[t] = "done"
         THEN \E r \in Respond(t) : response' = [response EXCEPT ![t] = r]
         ELSE response' = response
      /\ UNCHANGED <<server, built, builder, value, calls>>
  BY DEF WorkerStep
<1>2. Built \in Nat /\ built' = Built
  BY <1>1, KVAssumption
<1>3. Serving /\ TableBuilt /\ ~torn /\ \A u \in Threads : ResponseRight(response[u])
  BY DEF ServerInv
<1>4. /\ pc[t] \in {"idle", "check", "init", "dummy", "store", "op", "done"}
      /\ pc[t] # "idle" => op[t] = "lookup" /\ key[t] = Seen(response[t].key)
      /\ pc[t] = "done" => \/ result[t] = {TRUE} /\ key[t] < Built
                           \/ result[t] = {FALSE} /\ ~(key[t] < Built)
  BY <1>1, <1>3 DEF Serving
<1>5. ~torn'
  <2>1. Race(t)
    BY <1>1 DEF Step
  <2> QED  BY <1>4, <2>1 DEF Race
<1>6. OthersWait(t)
  BY <1>1, EveryStepKept DEF TableStep, StepKept
<1>7. Building'
  BY <1>2 DEF Building
<1>81. ASSUME NEW u \in Threads
       PROVE  ResponseRight(response'[u]) /\ response'[u].key = response[u].key
  <2>1. CASE pc[t] = "done"
    <3>1. PICK r \in Respond(t) : response' = [response EXCEPT ![t] = r]
      BY <1>1, <2>1
    <3>2. ResponseRight(r) /\ r.key = response[t].key
      BY <1>1, <1>3, <1>4, <2>1, ResponseOfCall
    <3>3. DOMAIN response = Threads
      BY DEF KVTypeOK
    <3>4. CASE u = t
      <4>1. response'[u] = r
        BY Zenon, <3>1, <3>3, <3>4
      <4> QED  BY Zenon, <3>2, <3>4, <4>1
    <3>5. CASE u # t
      <4>1. response'[u] = response[u]
        BY Zenon, <3>1, <3>3, <3>5
      <4> QED  BY Zenon, <1>3, <4>1
    <3> QED  BY <3>4, <3>5
  <2>2. CASE pc[t] # "done"
    <3>1. response' = response
      BY <1>1, <2>2
    <3> QED  BY Zenon, <1>3, <3>1
  <2> QED  BY <2>1, <2>2
<1>8. /\ \A u \in Threads : ResponseRight(response[u])'
      /\ \A u \in Threads : response'[u].key = response[u].key
  BY <1>81 DEF ResponseRight
<1>9. CASE ListCall(t)
  <2>1. pc[t] = "op" /\ op[t] = "lookup"
    BY <1>4, <1>9 DEF ListCall
  <2>2. Members' = Members /\ pc'[t] = "done" /\ UNCHANGED <<op, key>>
    BY <1>3, <1>9, <2>1, ListCallEffect
  <2>3. /\ key[t] \in Members => result'[t] = {TRUE}
        /\ key[t] \notin Members => result'[t] = {FALSE}
    BY <1>3, <1>9, <2>1, ListCallEffect
  <2>4. key[t] \in Members <=> key[t] < Built
    <3>1. key[t] \in Keys /\ key[t] \in Nat
      BY ListKeys, TopBitProperties DEF KVTypeOK, TypeOK
    <3>2. key[t] < Built => key[t] \in 0..built - 1
      BY <1>1, <1>2, <3>1
    <3> QED  BY <1>3, <3>2 DEF TableBuilt
  <2>5. TableBuilt'
    BY <1>1, <1>3, <2>2 DEF TableBuilt
  <2>6. Serving'
    BY <1>1, <1>3, <1>6, <1>8, <2>1, <2>2, <2>3, <2>4 DEF Serving, OthersWait
  <2> QED  BY <1>5, <1>7, <1>8, <2>5, <2>6 DEF ServerInv
<1>10. CASE ~ListCall(t)
  <2>1. Members' = Members /\ pc[t] # "op" /\ pc[t] # "idle"
    BY <1>1, <1>10, OtherStepEffect
  <2>2. TableBuilt'
    BY <1>1, <1>3, <2>1 DEF TableBuilt
  <2>3. CASE pc[t] = "done"
    <3>1. pc'[t] = "idle"
      BY <1>1, <1>10, <2>3, OtherStepEffect
    <3>2. Serving'
      BY <1>1, <1>3, <1>6, <1>8, <3>1 DEF Serving, OthersWait
    <3> QED  BY <1>5, <1>7, <1>8, <2>2, <3>2 DEF ServerInv
  <2>4. CASE pc[t] # "done"
    <3>1. pc[t] \in {"check", "init", "dummy", "store"} /\ op[t] = "lookup"
      BY <1>4, <2>1, <2>4
    <3>2. pc'[t] \in {"init", "dummy", "store", "op"} /\ op' = op /\ key' = key
      BY <1>1, <1>10, <3>1, OtherStepEffect
    <3>3. Serving'
      BY <1>1, <1>3, <1>6, <1>8, <3>1, <3>2 DEF Serving, OthersWait
    <3> QED  BY <1>5, <1>7, <1>8, <2>2, <3>3 DEF ServerInv
  <2> QED  BY <2>3, <2>4
<1> QED  BY <1>9, <1>10

LEMMA HandleRequestStep ==
  ASSUME TInv, UserOK, KVTypeOK, ServerInv, server, NEW t \in Threads, NEW n \in Requests,
         HandleRequest(t, n)
  PROVE  ServerInv'
<1>1. /\ built = Built /\ Call(t, "lookup", Seen(n)) /\ ~torn /\ torn' = torn
      /\ response' = [response EXCEPT ![t] = Asked(n)]
      /\ UNCHANGED <<server, built, builder, value>>
  BY DEF HandleRequest, Begin, Asked
<1>2. Built \in Nat /\ built' = Built
  BY <1>1, KVAssumption
<1>3. Serving /\ TableBuilt /\ \A u \in Threads : ResponseRight(response[u])
  BY DEF ServerInv
<1>4. Members' = Members
  BY <1>1, MembersAfter DEF Call, tableVars
<1>5. /\ pc'[t] = "check" /\ op'[t] = "lookup" /\ key'[t] = Seen(n) /\ result' = result
      /\ \A u \in Threads \ {t} : pc'[u] = pc[u] /\ op'[u] = op[u] /\ key'[u] = key[u]
  BY <1>1 DEF Call, Goto, KVTypeOK, TypeOK
<1>6. Building'
  BY <1>2 DEF Building
<1>7. Serving'
  <2>1. DOMAIN response = Threads
    BY DEF KVTypeOK
  <2>2. \A u \in Threads \ {t} : response'[u] = response[u]
    BY Zenon, <1>1, <2>1
  <2>3. response'[t] = Asked(n)
    BY Zenon, <1>1, <2>1
  <2>4. response'[t].key = n
    BY <2>3, AskedIs
  <2> QED  BY <1>1, <1>3, <1>5, <2>2, <2>4 DEF Serving
<1>8. TableBuilt'
  BY <1>1, <1>3, <1>4 DEF TableBuilt
<1>9. ASSUME NEW u \in Threads PROVE ResponseRight(response'[u])
  <2>1. DOMAIN response = Threads
    BY DEF KVTypeOK
  <2>2. response'[u] = Asked(n) \/ response'[u] = response[u]
    BY Zenon, <1>1, <2>1
  <2>3. ResponseRight(Asked(n))
    BY AskedIs DEF ResponseRight
  <2> QED  BY Zenon, <1>3, <2>2, <2>3
<1>10. \A u \in Threads : ResponseRight(response[u])'
  BY <1>9 DEF ResponseRight
<1> QED  BY <1>1, <1>6, <1>7, <1>8, <1>10 DEF ServerInv

(* Whatever number of a word a client asks for, the key-value server         *)
(* answers 200 exactly when it is a key the table was built with, or such a  *)
(* key with the sign bit set; the body is at least of the announced length  *)
(* but for key 0; and no thread pushes onto buckets_ while another uses it:  *)
(* for any number of threads and keys.                                      *)
THEOREM ServerAnswersRight == KVSpec => []AnswersRight
<1>1. KVInit => KVTypeOK /\ ServerInv
  <2> SUFFICES ASSUME KVInit PROVE KVTypeOK /\ ServerInv
    OBVIOUS
  <2>1. TInv /\ 0 \in Keys /\ Built \in Nat \ {0} /\ MaxCalls \in Nat
    BY TInvInit, TableAssumption, KVAssumption DEF KVInit
  <2>2. KVTypeOK
    <3>1. None \in Responses
      BY <2>1, TopBitProperties DEF None, Responses
    <3>2. response \in [Threads -> Responses]
      BY <3>1 DEF KVInit
    <3>3. value \in [Keys -> 0..99] /\ calls \in [Threads -> 0..MaxCalls]
      BY <2>1 DEF KVInit
    <3> QED  BY <2>1, <3>2, <3>3 DEF KVInit, KVTypeOK, TInv, Responses
  <2>3. Members = {0}
    BY InitialMembers DEF KVInit
  <2>4. Building /\ Serving
    BY <2>1 DEF KVInit, Init, Building, Serving
  <2>5. TableBuilt
    BY <2>1, <2>3 DEF KVInit, TableBuilt
  <2>6. \A t \in Threads : ResponseRight(response[t])
    BY DEF KVInit, ResponseRight, None
  <2> QED  BY <2>2, <2>4, <2>5, <2>6 DEF KVInit, Init, ServerInv
<1>2. ASSUME TInv, TInv', UserOK, UserOK', KVTypeOK, ServerInv, [KVNext]_<<vars, kvVars>>
      PROVE  KVTypeOK' /\ ServerInv'
  <2>1. KVTypeOK'
    BY <1>2, KVTypeStep
  <2>2. server' = server
    BY <1>2 DEF KVNext, BuildHashTable, BuilderStep, WorkerStep, HandleRequest, TestCall,
       Finished, kvVars
  <2>3. CASE ~server
    BY <2>1, <2>2, <2>3 DEF ServerInv
  <2>4. CASE server
    <3>1. CASE UNCHANGED <<vars, kvVars>>
      <4>1. Members' = Members
        BY <3>1, MembersAfter DEF vars, tableVars
      <4>2. Building' = Building /\ Serving' = Serving /\ TableBuilt' = TableBuilt
        BY <3>1, <4>1 DEF Building, Serving, TableBuilt, vars, kvVars, callVars
      <4>3. \A t \in Threads : ResponseRight(response[t])' = ResponseRight(response[t])
        BY <3>1 DEF ResponseRight, kvVars
      <4> QED  BY <1>2, <2>1, <2>2, <3>1, <4>2, <4>3 DEF ServerInv, vars
    <3>2. CASE Finished
      BY <3>1, <3>2 DEF Finished
    <3>3. ASSUME NEW t \in Threads, NEW o \in AbstractSet!Ops, NEW k \in Keys,
                 TestCall(t, o, k)
          PROVE  FALSE
      BY <2>4, <3>3 DEF TestCall
    <3> QED
      BY <1>2, <2>1, <2>4, <3>1, <3>2, <3>3, BuildHashTableStep, BuilderStepStep, WorkerStepStep,
         HandleRequestStep DEF KVNext
  <2> QED  BY <2>1, <2>3, <2>4
<1>3. KVTypeOK /\ ServerInv => AnswersRight
  BY DEF ServerInv, AnswersRight, ResponseRight
<1> QED  BY <1>1, <1>2, <1>3, TableInvariance, PTL DEF KVSpec
=============================================================================

---------------------------- MODULE Lifter_proofs ----------------------------
(***************************************************************************)
(* Lifting keeps the meaning of a block: for every width of the words, all *)
(* registers and memories, running the IR of a block leaves the registers  *)
(* and the memory that the guest's instructions leave, and goes where they *)
(* go.  Both sides compute the same terms, once the words they compute     *)
(* with are known to be words.                                             *)
(***************************************************************************)
EXTENDS GuestISA, Lifter, SequenceFacts, FiniteSetTheorems

-----------------------------------------------------------------------------
\* Words.

\* A power of two counts the subsets of a set.
LEMMA Powers ==
  ASSUME NEW n \in Nat
  PROVE  2 ^ n \in Nat \ {0}
<1>1. IsFiniteSet(1 .. n) /\ Cardinality(1 .. n) = n
  BY FS_Interval
<1>2. IsFiniteSet(SUBSET (1 .. n)) /\ Cardinality(SUBSET (1 .. n)) = 2 ^ n
  BY <1>1, FS_SUBSET
<1>3. Cardinality(SUBSET (1 .. n)) \in Nat
  BY <1>2, FS_CardinalityType
<1>4. Cardinality(SUBSET (1 .. n)) # 0
  <2>1. SUBSET (1 .. n) # {}
    OBVIOUS
  <2>. QED
    BY <1>2, <2>1, FS_EmptySet
<1>. QED
  BY <1>2, <1>3, <1>4

\* One element more doubles the number of subsets.
LEMMA Doubling ==
  ASSUME NEW n \in Nat
  PROVE  2 ^ (n + 1) = 2 ^ n + 2 ^ n
<1>. DEFINE A == SUBSET (1 .. n)
            B == {s \cup {n + 1} : s \in A}
            f == [s \in A |-> s \cup {n + 1}]
<1>1. /\ IsFiniteSet(A) /\ Cardinality(A) = 2 ^ n
      /\ IsFiniteSet(SUBSET (1 .. n + 1)) /\ Cardinality(SUBSET (1 .. n + 1)) = 2 ^ (n + 1)
  <2>1. IsFiniteSet(1 .. n) /\ Cardinality(1 .. n) = n
    BY FS_Interval
  <2>2. IsFiniteSet(1 .. n + 1) /\ Cardinality(1 .. n + 1) = n + 1
    BY FS_Interval
  <2>. QED
    BY <2>1, <2>2, FS_SUBSET
<1>2. SUBSET (1 .. n + 1) = A \cup B /\ A \cap B = {}
  <2>1. \A s \in A : n + 1 \notin s
    OBVIOUS
  <2>2. ASSUME NEW s \in SUBSET (1 .. n + 1)
        PROVE  s \in A \cup B
    <3>1. CASE n + 1 \notin s
      BY <3>1
    <3>2. CASE n + 1 \in s
      <4>1. s \ {n + 1} \in A /\ s = (s \ {n + 1}) \cup {n + 1}
        BY <3>2
      <4>. QED
        BY <4>1
    <3>. QED
      BY <3>1, <3>2
  <2>3. ASSUME NEW s \in A
        PROVE  s \in SUBSET (1 .. n + 1) /\ s \cup {n + 1} \in SUBSET (1 .. n + 1)
    OBVIOUS
  <2>4. A \cap B = {}
    BY <2>1
  <2>5. \A s \in A \cup B : s \in SUBSET (1 .. n + 1)
    BY <2>3
  <2>6. \A s \in SUBSET (1 .. n + 1) : s \in A \cup B
    BY <2>2
  <2>. HIDE DEF A, B
  <2>. QED
    BY <2>4, <2>5, <2>6
<1>3. f \in Bijection(A, B)
  <2>1. f \in [A -> B] /\ \A t \in B : \E s \in A : f[s] = t
    OBVIOUS
  <2>2. ASSUME NEW s \in A, NEW t \in A, f[s] = f[t]
        PROVE  s = t
    <3>1. s \cup {n + 1} = t \cup {n + 1} /\ n + 1 \notin s /\ n + 1 \notin t
      BY <2>2
    <3>. QED
      BY <3>1
  <2>. QED
    BY <2>1, <2>2 DEF Bijection, Injection, Surjection, IsInjective
<1>. HIDE DEF A, B, f
<1>4. IsFiniteSet(B) /\ Cardinality(B) = Cardinality(A)
  BY <1>1, <1>3, FS_Bijection DEF ExistsBijection
<1>5. /\ Cardinality(A \cup B) = Cardinality(A) + Cardinality(B) - Cardinality(A \cap B)
      /\ Cardinality({}) = 0
  BY <1>1, <1>4, FS_Union, FS_EmptySet
<1>6. 2 ^ n \in Nat
  BY Powers
<1>7. Cardinality(A \cup B) = 2 ^ n + 2 ^ n - 0
  BY <1>1, <1>2, <1>4, <1>5
<1>8. Cardinality(A \cup B) = 2 ^ (n + 1)
  BY <1>1, <1>2
<1>. QED
  BY <1>6, <1>7, <1>8

\* Powers add up.
LEMMA PowerSum ==
  ASSUME NEW n \in Nat
  PROVE  \A m \in Nat : 2 ^ (n + m) = 2 ^ n * 2 ^ m
<1>. DEFINE T == {m \in Nat : 2 ^ (n + m) = 2 ^ n * 2 ^ m}
<1>1. 0 \in T
  <2>1. n + 0 = n /\ 2 ^ 0 = 1 /\ 2 ^ n \in Nat
    BY Powers
  <2>. QED
    BY <2>1
<1>2. ASSUME NEW m \in Nat, m \in T
      PROVE  m + 1 \in T
  <2>1. n + (m + 1) = (n + m) + 1 /\ n + m \in Nat
    OBVIOUS
  <2>2. 2 ^ (n + (m + 1)) = 2 ^ (n + m) + 2 ^ (n + m) /\ 2 ^ (m + 1) = 2 ^ m + 2 ^ m
    BY <2>1, Doubling
  <2>3. 2 ^ n \in Nat /\ 2 ^ m \in Nat
    BY Powers
  <2>4. 2 ^ (n + m) = 2 ^ n * 2 ^ m
    BY <1>2
  <2>5. \A p, q \in Nat : p * q + p * q = p * (q + q)
    OBVIOUS
  <2>. QED
    BY <2>2, <2>3, <2>4, <2>5
<1>3. Nat \subseteq T
  <2>. HIDE DEF T
  <2>. QED
    BY <1>1, <1>2, NatSetInduction
<1>. QED
  BY <1>3

\* A number for every set of bits below n, of which each bit is worth its power.
IsValue(V, n) ==
  /\ V \in [SUBSET (0 .. n - 1) -> 0 .. 2 ^ n - 1]
  /\ V[{}] = 0
  /\ \A s \in SUBSET (0 .. n - 1) : \A x \in s : V[s] = 2 ^ x + V[s \ {x}]

LEMMA ValueExists == \A n \in Nat : \E V : IsValue(V, n)
<1>. DEFINE T == {n \in Nat : \E V : IsValue(V, n)}
<1>1. 0 \in T
  <2>. DEFINE V == [s \in SUBSET (0 .. 0 - 1) |-> 0]
  <2>1. 0 .. 0 - 1 = {} /\ 2 ^ 0 = 1
    OBVIOUS
  <2>2. IsValue(V, 0)
    BY <2>1 DEF IsValue
  <2>. QED
    BY <2>2
<1>2. ASSUME NEW n \in Nat, n \in T
      PROVE  n + 1 \in T
  <2>1. PICK V : IsValue(V, n)
    BY <1>2
  <2>. DEFINE W == [s \in SUBSET (0 .. n) |->
                      IF n \in s THEN 2 ^ n + V[s \ {n}] ELSE V[s]]
  <2>2. /\ 2 ^ (n + 1) = 2 ^ n + 2 ^ n /\ 2 ^ n \in Nat \ {0}
        /\ (n + 1) - 1 = n
        /\ \A s \in SUBSET (0 .. n - 1) : V[s] \in 0 .. 2 ^ n - 1
    BY <2>1, Doubling, Powers DEF IsValue
  <2>3. \A s \in SUBSET (0 .. n) : s \ {n} \in SUBSET (0 .. n - 1)
    OBVIOUS
  <2>4. \A s \in SUBSET (0 .. n) : n \notin s => s \in SUBSET (0 .. n - 1)
    OBVIOUS
  <2>5. ASSUME NEW s \in SUBSET (0 .. n)
        PROVE  W[s] \in 0 .. 2 ^ (n + 1) - 1
    <3>1. CASE n \in s
      <4>1. V[s \ {n}] \in 0 .. 2 ^ n - 1 /\ W[s] = 2 ^ n + V[s \ {n}]
        BY <2>2, <2>3, <3>1
      <4>. QED
        BY <2>2, <4>1
    <3>2. CASE n \notin s
      <4>1. V[s] \in 0 .. 2 ^ n - 1 /\ W[s] = V[s]
        BY <2>2, <2>4, <3>2
      <4>. QED
        BY <2>2, <4>1
    <3>. QED
      BY <3>1, <3>2
  <2>6. W[{}] = 0
    BY <2>1 DEF IsValue
  <2>7. ASSUME NEW s \in SUBSET (0 .. n), NEW x \in s
        PROVE  W[s] = 2 ^ x + W[s \ {x}]
    <3>1. CASE x = n
      <4>1. W[s \ {n}] = V[s \ {n}]
        OBVIOUS
      <4>. QED
        BY <3>1, <4>1
    <3>2. CASE x # n /\ n \in s
      <4>1. /\ W[s] = 2 ^ n + V[s \ {n}]
            /\ W[s \ {x}] = 2 ^ n + V[(s \ {x}) \ {n}]
        BY <3>2
      <4>2. s \ {n} \in SUBSET (0 .. n - 1) /\ x \in s \ {n}
        BY <3>2
      <4>3. V[s \ {n}] = 2 ^ x + V[(s \ {n}) \ {x}]
        BY <2>1, <4>2 DEF IsValue
      <4>4. (s \ {n}) \ {x} = (s \ {x}) \ {n}
        OBVIOUS
      <4>5. (s \ {x}) \ {n} \in SUBSET (0 .. n - 1) /\ x \in Nat
        OBVIOUS
      <4>6. V[(s \ {x}) \ {n}] \in Nat /\ 2 ^ x \in Nat /\ 2 ^ n \in Nat
        BY <2>2, <4>5, Powers
      <4>7. V[s \ {n}] = 2 ^ x + V[(s \ {x}) \ {n}]
        BY <4>3, <4>4
      <4>. HIDE DEF W
      <4>. QED
        BY <4>1, <4>6, <4>7
    <3>3. CASE n \notin s
      <4>1. s \in SUBSET (0 .. n - 1) /\ n \notin s \ {x}
        BY <3>3
      <4>2. W[s] = V[s] /\ W[s \ {x}] = V[s \ {x}]
        BY <3>3, <4>1
      <4>. QED
        BY <2>1, <4>1, <4>2 DEF IsValue
    <3>. QED
      BY <3>1, <3>2, <3>3
  <2>8. W \in [SUBSET (0 .. n) -> 0 .. 2 ^ (n + 1) - 1]
    BY <2>5
  <2>. HIDE DEF W
  <2>9. IsValue(W, n + 1)
    BY <2>2, <2>6, <2>7, <2>8 DEF IsValue
  <2>. QED
    BY <2>9
<1>3. Nat \subseteq T
  <2>. HIDE DEF T
  <2>. QED
    BY <1>1, <1>2, NatSetInduction
<1>. QED
  BY <1>3

\* The word of a set of bits is its value.
LEMMA WordOfValue ==
  ASSUME NEW V, IsValue(V, Width), NEW bits \in SUBSET (0 .. Width - 1)
  PROVE  WordOf(bits) = V[bits]
<1>. DEFINE Value(g, s) ==
              IF s = {} THEN 0
              ELSE 2 ^ (CHOOSE x \in s : TRUE) + g[s \ {CHOOSE x \in s : TRUE}]
            iter == CHOOSE g : g = [s \in SUBSET bits |-> Value(g, s)]
<1>0. Width \in Nat
  BY WidthAssumption
<1>2. WordOf(bits) = iter[bits]
  BY DEF WordOf, MapThenSumSet, MapThenFoldSet
<1>3. iter = [s \in SUBSET bits |-> Value(iter, s)]
  <2>. DEFINE g == [s \in SUBSET bits |-> V[s]]
  <2>1. ASSUME NEW s \in SUBSET bits
        PROVE  g[s] = Value(g, s)
    <3>1. CASE s = {}
      BY <3>1 DEF IsValue
    <3>2. CASE s # {}
      <4>1. PICK x : x = CHOOSE y \in s : TRUE
        OBVIOUS
      <4>2. x \in s
        BY <3>2, <4>1
      <4>3. g[s] = V[s] /\ g[s \ {x}] = V[s \ {x}]
        OBVIOUS
      <4>4. V[s] = 2 ^ x + V[s \ {x}]
        BY <4>2 DEF IsValue
      <4>. QED
        BY <3>2, <4>1, <4>3, <4>4
    <3>. QED
      BY <3>1, <3>2
  <2>2. g = [s \in SUBSET bits |-> Value(g, s)]
    BY <2>1
  <2>. HIDE DEF g
  <2>. QED
    BY <2>2
<1>. HIDE DEF iter
<1>. DEFINE T == {k \in Nat : \A s \in SUBSET bits :
                                Cardinality(s) = k => iter[s] = V[s]}
<1>4. IsFiniteSet(bits)
  <2>1. IsFiniteSet(0 .. Width - 1)
    BY <1>0, FS_Interval
  <2>. QED
    BY <2>1, FS_Subset
<1>5. 0 \in T
  <2>1. ASSUME NEW s \in SUBSET bits, Cardinality(s) = 0
        PROVE  iter[s] = V[s]
    <3>1. s = {}
      BY <1>4, <2>1, FS_Subset, FS_EmptySet
    <3>. QED
      BY <1>3, <3>1 DEF IsValue
  <2>. QED
    BY <2>1
<1>6. ASSUME NEW k \in Nat, k \in T
      PROVE  k + 1 \in T
  <2>1. ASSUME NEW s \in SUBSET bits, Cardinality(s) = k + 1
        PROVE  iter[s] = V[s]
    <3>1. s # {}
      BY <2>1, FS_EmptySet
    <3>2. PICK x : x = CHOOSE y \in s : TRUE
      OBVIOUS
    <3>3. x \in s /\ s \ {x} \in SUBSET bits
      BY <3>1, <3>2
    <3>4. Cardinality(s \ {x}) = k
      <4>1. IsFiniteSet(s)
        BY <1>4, FS_Subset
      <4>2. Cardinality(s \ {x}) = Cardinality(s) - 1
        BY <3>3, <4>1, FS_RemoveElement
      <4>. QED
        BY <2>1, <4>2
    <3>5. iter[s \ {x}] = V[s \ {x}]
      BY <1>6, <3>3, <3>4
    <3>6. iter[s] = 2 ^ x + iter[s \ {x}]
      BY <1>3, <3>1, <3>2
    <3>7. V[s] = 2 ^ x + V[s \ {x}]
      BY <3>3 DEF IsValue
    <3>. QED
      BY <3>5, <3>6, <3>7
  <2>2. k + 1 \in Nat
    OBVIOUS
  <2>. QED
    BY <2>1, <2>2
<1>7. Nat \subseteq T
  <2>. HIDE DEF T
  <2>. QED
    BY <1>5, <1>6, NatSetInduction
<1>8. iter[bits] = V[bits]
  <2>1. Cardinality(bits) \in Nat
    BY <1>4, FS_CardinalityType
  <2>. QED
    BY <1>7, <2>1
<1>. QED
  BY <1>2, <1>8

\* The word of a set of bits is a word.
LEMMA WordOfBits ==
  ASSUME NEW bits \in SUBSET (0 .. Width - 1)
  PROVE  WordOf(bits) \in Word
<1>1. PICK V : IsValue(V, Width)
  BY WidthAssumption, ValueExists
<1>2. V[bits] \in 0 .. 2 ^ Width - 1
  BY <1>1 DEF IsValue
<1>. QED
  BY <1>1, <1>2, WordOfValue DEF Word

\* The widths, and what is within them.
LEMMA Widths ==
  /\ Width \in Nat \ {0} /\ HalfWidth \in Nat \ {0}
  /\ Width = HalfWidth + HalfWidth
  /\ 2 ^ Width \in Nat \ {0} /\ 2 ^ HalfWidth \in Nat \ {0}
  /\ \A n \in Int : Wrap(n) \in Word
  /\ \A n \in Int : Low(n) \in Half
  /\ \A n \in Int : Low(n) % 2 ^ HalfWidth = n % 2 ^ HalfWidth
  /\ Word \subseteq Int /\ Half \subseteq Int
<1>1. /\ Width \in Nat \ {0} /\ HalfWidth \in Nat \ {0}
      /\ Width = HalfWidth + HalfWidth
  BY WidthAssumption DEF HalfWidth
<1>2. 2 ^ Width \in Nat \ {0} /\ 2 ^ HalfWidth \in Nat \ {0}
  BY <1>1, Powers
<1>3. \A n \in Int, k \in Nat \ {0} : n % k \in 0 .. k - 1 /\ (n % k) % k = n % k
  OBVIOUS
<1>4. \A n \in Int : Wrap(n) \in Word /\ Low(n) \in Half
                     /\ Low(n) % 2 ^ HalfWidth = n % 2 ^ HalfWidth
  BY <1>2, <1>3 DEF Wrap, Low, Word, Half
<1>5. Word \subseteq Int /\ Half \subseteq Int
  BY <1>2 DEF Word, Half
<1>. QED
  BY <1>1, <1>2, <1>4, <1>5

\* Addresses that wrap once or twice.
LEMMA Multiple ==
  ASSUME NEW M \in Nat \ {0}, NEW d \in Int, M * d < M, - M < M * d
  PROVE  d = 0
<1>1. CASE d >= 1
  BY <1>1
<1>2. CASE d <= -1
  BY <1>2
<1>. QED
  BY <1>1, <1>2

LEMMA WrapAgain ==
  ASSUME NEW M \in Nat \ {0}, NEW x \in Int, NEW c \in Int
  PROVE  ((x % M) + c) % M = (x + c) % M
<1>. DEFINE y == (x % M) + c
            k == x \div M
            a == y \div M
            b == (x + c) \div M
            d == (a + k) - b
<1>1. x = M * k + (x % M) /\ k \in Int /\ x % M \in Int
  OBVIOUS
<1>2. y \in Int /\ y = M * a + (y % M) /\ a \in Int /\ y % M \in 0 .. M - 1
  <2>1. y \in Int
    BY <1>1
  <2>. HIDE DEF y
  <2>. QED
    BY <2>1
<1>3. x + c \in Int /\ x + c = M * b + ((x + c) % M) /\ b \in Int /\ (x + c) % M \in 0 .. M - 1
  <2>. DEFINE z == x + c
  <2>1. z \in Int
    OBVIOUS
  <2>. HIDE DEF z
  <2>2. z = M * (z \div M) + (z % M) /\ z \div M \in Int /\ z % M \in 0 .. M - 1
    BY <2>1
  <2>. QED
    BY <2>1, <2>2 DEF z
<1>4. x + c = M * k + y
  BY <1>1
<1>5. M * d = ((x + c) % M) - (y % M)
  <2>1. M * d = ((M * a) + (M * k)) - (M * b)
    BY <1>1, <1>2, <1>3
  <2>. DEFINE A == M * a
              B == M * b
              K == M * k
              u == y % M
              v == (x + c) % M
              w == x + c
              D == M * d
  <2>2. A \in Int /\ B \in Int /\ K \in Int /\ u \in Int /\ v \in Int
    BY <1>1, <1>2, <1>3
  <2>3. D = (A + K) - B
    BY <2>1
  <2>4. y = A + u /\ w = B + v /\ w = K + y
    BY <1>2, <1>3, <1>4
  <2>. HIDE DEF A, B, K, D, u, v, w, y
  <2>5. D = v - u
    BY <2>2, <2>3, <2>4
  <2>. QED
    BY <2>5 DEF D, u, v
<1>6. d = 0
  <2>1. d \in Int
    BY <1>1, <1>2, <1>3
  <2>2. M * d < M /\ - M < M * d
    <3>. HIDE DEF y, k, a, b, d
    <3>. QED
      BY <1>2, <1>3, <1>5
  <2>. HIDE DEF d
  <2>. QED
    BY <2>1, <2>2, Multiple
<1>. QED
  <2>1. M * d = 0
    BY <1>6
  <2>. HIDE DEF y, k, a, b, d
  <2>2. ((x + c) % M) = (y % M)
    BY <1>2, <1>3, <1>5, <2>1
  <2>. QED
    BY <2>2 DEF y

\* Quotient and remainder are the only ones.
LEMMA QuotientUnique ==
  ASSUME NEW M \in Nat \ {0}, NEW q \in Int, NEW r \in 0 .. M - 1
  PROVE  (M * q + r) \div M = q /\ (M * q + r) % M = r
<1>. DEFINE n == M * q + r
            p == n \div M
            s == n % M
            d == q - p
<1>1. n \in Int
  OBVIOUS
<1>2. p \in Int /\ s \in 0 .. M - 1 /\ n = M * p + s
  <2>. HIDE DEF n
  <2>. QED
    BY <1>1
<1>3. M * d = s - r
  <2>1. M * d = M * q - M * p
    BY <1>2
  <2>. DEFINE A == M * q
              B == M * p
              D == M * d
  <2>2. A \in Int /\ B \in Int
    BY <1>2
  <2>3. n = A + r /\ n = B + s /\ D = A - B
    BY <1>2, <2>1
  <2>. HIDE DEF A, B, D, n, p, s, d
  <2>4. D = s - r
    BY <1>1, <1>2, <2>2, <2>3
  <2>. QED
    BY <2>4 DEF D
<1>4. d = 0
  <2>1. d \in Int
    BY <1>2
  <2>. HIDE DEF d
  <2>2. M * d < M /\ - M < M * d
    BY <1>2, <1>3
  <2>. QED
    BY <2>1, <2>2, Multiple
<1>5. p = q
  BY <1>2, <1>4
<1>6. s = r
  <2>1. M * d = 0
    BY <1>4
  <2>. HIDE DEF d, s
  <2>. QED
    BY <1>2, <1>3, <2>1
<1>. QED
  BY <1>5, <1>6

\* Division by one number and then by another.
LEMMA DivideTwice ==
  ASSUME NEW a \in Nat, NEW M \in Nat \ {0}, NEW N \in Nat \ {0}
  PROVE  /\ (a \div M) \div N = a \div (M * N)
         /\ a % (M * N) = (a % M) + M * ((a \div M) % N)
<1>. DEFINE q == a \div M
            r == a % M
            p == q \div N
            s == q % N
            P == M * N
            t == r + M * s
<1>1. q \in Nat /\ r \in 0 .. M - 1 /\ a = M * q + r
  OBVIOUS
<1>2. p \in Nat /\ s \in 0 .. N - 1 /\ q = N * p + s
  <2>. HIDE DEF q
  <2>. QED
    BY <1>1
<1>3. P \in Nat \ {0}
  OBVIOUS
<1>4. t \in 0 .. P - 1
  <2>. HIDE DEF q, r, s, p
  <2>1. M * s <= M * (N - 1)
    BY <1>2
  <2>2. M * (N - 1) = M * N - M
    OBVIOUS
  <2>3. M * s \in Nat /\ M * N \in Nat
    BY <1>2
  <2>. DEFINE A == M * s
              B == M * N
  <2>4. A <= B - M /\ A \in Nat /\ B \in Nat
    BY <2>1, <2>2, <2>3
  <2>. HIDE DEF A, B
  <2>5. r + A \in 0 .. B - 1
    BY <1>1, <2>4
  <2>. QED
    BY <2>5 DEF A, B
<1>5. a = P * p + t
  <2>. HIDE DEF q, r, s, p
  <2>1. M * q = M * (N * p) + M * s
    BY <1>1, <1>2
  <2>2. M * (N * p) = (M * N) * p
    BY <1>2
  <2>. QED
    BY <1>1, <1>2, <2>1, <2>2
<1>6. (P * p + t) \div P = p /\ (P * p + t) % P = t
  <2>1. p \in Int
    BY <1>2 DEF p
  <2>. QED
    BY <1>3, <1>4, <2>1, QuotientUnique, Zenon
<1>7. a \div P = p /\ a % P = t
  BY <1>5, <1>6, Zenon
<1>. QED
  BY <1>7, Zenon DEF P, p, t

\* The quotient of a remainder.
LEMMA DivideRemainder ==
  ASSUME NEW a \in Nat, NEW M \in Nat \ {0}, NEW N \in Nat \ {0}
  PROVE  (a % (M * N)) \div M = (a \div M) % N
<1>. DEFINE r == a % M
            s == (a \div M) % N
<1>1. r \in 0 .. M - 1 /\ s \in Int
  <2>1. a \div M \in Nat
    OBVIOUS
  <2>. QED
    BY <2>1
<1>2. a % (M * N) = M * s + r
  <2>1. a % (M * N) = r + M * s
    BY DivideTwice
  <2>2. M * s \in Int
    BY <1>1
  <2>. HIDE DEF r, s
  <2>. QED
    BY <1>1, <2>1, <2>2
<1>. HIDE DEF r, s
<1>3. (M * s + r) \div M = s
  BY <1>1, QuotientUnique
<1>. QED
  BY <1>2, <1>3 DEF s

\* A bit of a number.
Bit(a, i) == (a \div 2 ^ i) % 2

\* The bits of the low n bits of a number, and of those from n on.
LEMMA LowBits ==
  ASSUME NEW a \in Nat, NEW n \in Nat, NEW i \in Nat
  PROVE  /\ i < n => Bit(a % 2 ^ n, i) = Bit(a, i)
         /\ i >= n => Bit(a % 2 ^ n, i) = 0
<1>1. CASE i < n
  <2>. DEFINE A == 2 ^ i
              B == 2 ^ (n - i - 1)
              y == a \div A
  <2>1. n - i - 1 \in Nat /\ n - i \in Nat
    BY <1>1
  <2>2. A \in Nat \ {0} /\ B \in Nat \ {0}
    BY <2>1, Powers
  <2>3. 2 ^ n = A * (2 * B)
    <3>1. n = i + (n - i) /\ n - i = (n - i - 1) + 1
      BY <1>1
    <3>2. 2 ^ n = A * 2 ^ (n - i)
      BY <2>1, <3>1, PowerSum
    <3>3. 2 ^ (n - i) = B + B
      BY <2>1, <3>1, Doubling
    <3>. QED
      BY <2>2, <3>2, <3>3
  <2>4. y \in Nat
    BY <2>2
  <2>. HIDE DEF A, B
  <2>5. (a % 2 ^ n) \div A = y % (2 * B)
    <3>. DEFINE C == 2 * B
    <3>1. C \in Nat \ {0}
      BY <2>2
    <3>. HIDE DEF C
    <3>2. (a % (A * C)) \div A = (a \div A) % C
      BY <2>2, <3>1, DivideRemainder
    <3>. QED
      BY <2>3, <3>2, Zenon DEF C, y
  <2>. HIDE DEF y
  <2>6. (y % (2 * B)) % 2 = y % 2
    <3>. DEFINE s == (y \div 2) % B
    <3>1. y % (2 * B) = (y % 2) + 2 * s
      <4>1. 2 \in Nat \ {0}
        OBVIOUS
      <4>. QED
        BY <2>2, <2>4, <4>1, DivideTwice, Zenon
    <3>2. y % 2 \in 0 .. 1 /\ s \in Int
      <4>1. y \div 2 \in Nat
        BY <2>4
      <4>. QED
        BY <2>2, <2>4, <4>1
    <3>. HIDE DEF s
    <3>. QED
      BY <3>1, <3>2
  <2>. QED
    <3>1. y % 2 = Bit(a, i) /\ ((a % 2 ^ n) \div A) % 2 = Bit(a % 2 ^ n, i)
      BY DEF Bit, A, y
    <3>. QED
      BY <1>1, <2>5, <2>6, <3>1
<1>2. CASE i >= n
  <2>1. PICK d \in Nat : i = n + d
    <3>1. i - n \in Nat /\ i = n + (i - n)
      BY <1>2
    <3>. QED
      BY <3>1
  <2>. DEFINE A == 2 ^ n
              D == 2 ^ d
              x == a % A
  <2>2. A \in Nat \ {0} /\ D \in Nat \ {0} /\ 2 ^ i = A * D
    BY <2>1, Powers, PowerSum
  <2>. HIDE DEF A, D
  <2>3. x \in 0 .. A - 1
    BY <2>2
  <2>. HIDE DEF x
  <2>4. A <= A * D
    BY <2>2
  <2>5. x \div (A * D) = 0
    <3>. DEFINE P == A * D
    <3>1. P \in Nat \ {0} /\ x \in 0 .. P - 1
      BY <2>2, <2>3, <2>4
    <3>. HIDE DEF P
    <3>2. (P * 0 + x) \div P = 0
      BY <3>1, QuotientUnique
    <3>3. P * 0 + x = x
      BY <3>1
    <3>. QED
      BY <3>2, <3>3 DEF P
  <2>. QED
    BY <1>2, <2>2, <2>5 DEF Bit, x, A
<1>. QED
  BY <1>1, <1>2

LEMMA HighBits ==
  ASSUME NEW a \in Nat, NEW n \in Nat, NEW i \in Nat
  PROVE  Bit(a \div 2 ^ n, i) = Bit(a, n + i)
<1>1. 2 ^ n \in Nat \ {0} /\ 2 ^ i \in Nat \ {0} /\ 2 ^ (n + i) = 2 ^ n * 2 ^ i
  BY Powers, PowerSum
<1>2. (a \div 2 ^ n) \div 2 ^ i = a \div (2 ^ n * 2 ^ i)
  BY <1>1, DivideTwice
<1>. QED
  BY <1>1, <1>2 DEF Bit

\* A word is the word of its bits.
LEMMA WordOfBitsOf ==
  ASSUME NEW w \in Word
  PROVE  WordOf(BitsOf(w)) = w
<1>0. Width \in Nat \ {0} /\ 2 ^ Width \in Nat \ {0} /\ w \in Nat
  BY Widths DEF Word
<1>1. PICK V : IsValue(V, Width)
  BY <1>0, ValueExists
<1>. DEFINE below(n) == {i \in 0 .. n - 1 : Bit(w, i) = 1}
            T == {n \in Nat : n <= Width => V[below(n)] = w % 2 ^ n}
<1>2. 0 \in T
  <2>1. below(0) = {} /\ 2 ^ 0 = 1 /\ w % 1 = 0
    BY <1>0
  <2>. QED
    BY <1>1, <2>1 DEF IsValue
<1>3. ASSUME NEW n \in Nat, n \in T
      PROVE  n + 1 \in T
  <2>. SUFFICES ASSUME n + 1 <= Width
                PROVE  V[below(n + 1)] = w % 2 ^ (n + 1)
    OBVIOUS
  <2>1. V[below(n)] = w % 2 ^ n
    BY <1>0, <1>3
  <2>. DEFINE A == 2 ^ n
              b == Bit(w, n)
  <2>2. A \in Nat \ {0} /\ 2 ^ (n + 1) = A * 2
    <3>1. A \in Nat \ {0} /\ 2 ^ (n + 1) = A + A
      BY Powers, Doubling
    <3>. QED
      BY <3>1
  <2>3. w % 2 ^ (n + 1) = (w % A) + A * b
    <3>1. 2 \in Nat \ {0}
      OBVIOUS
    <3>2. w % (A * 2) = (w % A) + A * ((w \div A) % 2)
      BY <1>0, <2>2, <3>1, DivideTwice, Zenon
    <3>. QED
      BY <2>2, <3>2, Zenon DEF Bit
  <2>4. b \in 0 .. 1
    <3>1. w \div A \in Nat
      BY <1>0, <2>2
    <3>. QED
      BY <3>1 DEF Bit
  <2>5. CASE b = 1
    <3>1. below(n + 1) = below(n) \cup {n} /\ n \notin below(n)
      BY <2>5
    <3>2. below(n + 1) \in SUBSET (0 .. Width - 1) /\ n \in below(n + 1)
          /\ below(n + 1) \ {n} = below(n)
      BY <1>0, <3>1
    <3>3. V[below(n + 1)] = 2 ^ n + V[below(n)]
      <4>. HIDE DEF below
      <4>. QED
        BY <1>1, <3>2 DEF IsValue
    <3>4. w % A \in Nat
      BY <1>0, <2>2
    <3>. HIDE DEF below, b
    <3>. QED
      BY <2>1, <2>2, <2>3, <2>5, <3>3, <3>4
  <2>6. CASE b = 0
    <3>1. below(n + 1) = below(n)
      BY <2>6
    <3>2. w % A \in Nat
      BY <1>0, <2>2
    <3>. HIDE DEF below, b
    <3>. QED
      BY <2>1, <2>2, <2>3, <2>6, <3>1, <3>2
  <2>. QED
    BY <2>4, <2>5, <2>6
<1>4. Nat \subseteq T
  <2>. HIDE DEF T
  <2>. QED
    BY <1>2, <1>3, NatSetInduction
<1>5. V[below(Width)] = w % 2 ^ Width
  BY <1>0, <1>4
<1>6. below(Width) = BitsOf(w)
  BY DEF BitsOf, Bit
<1>7. w % 2 ^ Width = w
  BY <1>0 DEF Word
<1>8. BitsOf(w) \in SUBSET (0 .. Width - 1)
  BY DEF BitsOf
<1>. QED
  BY <1>1, <1>5, <1>6, <1>7, <1>8, WordOfValue

\* Dividing and multiplying words.
LEMMA Division ==
  ASSUME NEW a \in Nat, NEW m \in Nat \ {0}
  PROVE  a \div m \in 0 .. a
  OBVIOUS

\* The operations on words give words.
LEMMA WordOpTyped ==
  ASSUME NEW a \in Word, NEW b \in Word,
         NEW kind \in {"Add", "Sub", "And", "Or", "Xor", "Shl", "LShr", "AShr"}
  PROVE  WordOp(kind, a, b) \in Word
<1>1. a \in Int /\ b \in Int /\ \A n \in Int : Wrap(n) \in Word
  BY Widths
<1>2. BitsOf(a) \in SUBSET (0 .. Width - 1) /\ BitsOf(b) \in SUBSET (0 .. Width - 1)
  BY DEF BitsOf
<1>3. b % Width \in Nat /\ 2 ^ (b % Width) \in Nat \ {0}
  <2>1. b % Width \in Nat
    BY <1>1, Widths
  <2>. QED
    BY <2>1, Powers
<1>4. CASE kind = "Add"
  BY <1>1, <1>4 DEF WordOp
<1>5. CASE kind = "Sub"
  BY <1>1, <1>5 DEF WordOp
<1>6. CASE kind = "And"
  BY <1>2, <1>6, WordOfBits DEF WordOp
<1>7. CASE kind = "Or"
  BY <1>2, <1>7, WordOfBits DEF WordOp
<1>8. CASE kind = "Xor"
  BY <1>2, <1>8, WordOfBits DEF WordOp
<1>9. CASE kind = "Shl"
  <2>1. a * 2 ^ (b % Width) \in Int
    BY <1>1, <1>3
  <2>. QED
    BY <1>1, <1>9, <2>1 DEF WordOp
<1>10. CASE kind = "LShr"
  <2>1. a \in Nat
    BY DEF Word
  <2>2. a \div 2 ^ (b % Width) \in 0 .. a
    BY <1>3, <2>1, Division
  <2>3. 0 .. a \subseteq Word
    BY Widths DEF Word
  <2>4. WordOp(kind, a, b) = a \div 2 ^ (b % Width)
    BY <1>10 DEF WordOp
  <2>. QED
    BY <2>2, <2>3, <2>4
<1>11. CASE kind = "AShr"
  <2>1. Signed(a, Width) \in Int
    BY <1>1, Widths DEF Signed
  <2>2. Signed(a, Width) \div 2 ^ (b % Width) \in Int
    BY <1>3, <2>1
  <2>. QED
    BY <1>1, <1>11, <2>2 DEF WordOp
<1>. QED
  BY <1>4, <1>5, <1>6, <1>7, <1>8, <1>9, <1>10, <1>11

\* The low half of a number, sign-extended, is a word.
LEMMA SextHalfTyped ==
  ASSUME NEW n \in Int
  PROVE  SextHalf(n) \in Word
<1>1. Signed(n, HalfWidth) \in Int
  BY Widths DEF Signed
<1>. QED
  BY <1>1, Widths DEF SextHalf

\* A word is two halves.
LEMMA TwoHalves ==
  /\ Half \subseteq Word
  /\ \A h, l \in Half : l + 2 ^ HalfWidth * h \in Word
  /\ \A w \in Word : w \div 2 ^ HalfWidth \in Half
<1>. DEFINE m == 2 ^ HalfWidth
<1>1. m \in Nat \ {0} /\ 2 ^ Width = m * m
  BY Widths, PowerSum
<1>2. Half = 0 .. m - 1 /\ Word = 0 .. m * m - 1
  BY <1>1 DEF Half, Word
<1>. HIDE DEF m
<1>3. m <= m * m
  BY <1>1
<1>4. ASSUME NEW h \in Half, NEW l \in Half
      PROVE  l + m * h \in Word
  <2>1. h \in 0 .. m - 1 /\ l \in 0 .. m - 1
    BY <1>2
  <2>2. m * h <= m * (m - 1) /\ m * h >= 0 /\ m * h \in Int
    BY <1>1, <2>1
  <2>3. m * (m - 1) = m * m - m /\ m * m \in Int
    BY <1>1
  <2>4. l + m * h \in 0 .. m * m - 1
    BY <1>1, <2>1, <2>2, <2>3
  <2>. QED
    BY <1>2, <2>4
<1>5. ASSUME NEW w \in Word
      PROVE  w \div m \in Half
  <2>1. w \in 0 .. m * m - 1
    BY <1>2
  <2>2. w \div m \in Int /\ m * (w \div m) <= w /\ w \div m >= 0
    BY <1>1, <2>1
  <2>3. ASSUME w \div m >= m
        PROVE  FALSE
    <3>1. m * (w \div m) >= m * m
      BY <1>1, <2>2, <2>3
    <3>. QED
      BY <1>1, <2>1, <2>2, <3>1
  <2>4. w \div m \in 0 .. m - 1
    BY <1>1, <2>2, <2>3
  <2>. QED
    BY <1>2, <2>4
<1>6. Half \subseteq Word
  BY <1>1, <1>2, <1>3
<1>. QED
  BY <1>4, <1>5, <1>6 DEF m

\* Memory holds halves: what is loaded from where there is memory, and what is
\* stored.
LEMMA LoadTyped ==
  ASSUME NEW mem \in [Word -> Half], NEW a \in Int
  PROVE  Load(mem, "I32", a) \in Half /\ Load(mem, "I64", a) \in Word
<1>1. Wrap(a) \in Word /\ Wrap(a + 1) \in Word
  BY Widths
<1>2. mem[Wrap(a)] \in Half /\ mem[Wrap(a + 1)] \in Half
  BY <1>1
<1>3. mem[Wrap(a)] + 2 ^ HalfWidth * mem[Wrap(a + 1)] \in Word
  BY <1>2, TwoHalves
<1>. QED
  BY <1>2, <1>3 DEF Load

LEMMA StoreTyped ==
  ASSUME NEW C, NEW mem \in [C -> Half], NEW a \in Int, NEW v \in Word, NEW ty
  PROVE  Store(mem, ty, a, v) \in [C -> Half]
<1>1. Low(v) \in Half /\ v \div 2 ^ HalfWidth \in Half
  BY Widths, TwoHalves
<1>. QED
  BY <1>1 DEF Store

-----------------------------------------------------------------------------
\* One instruction of the IR.

\* The state of a run of IR.
Running(e, x, m, a) == [env |-> e, x |-> x, mem |-> m, start |-> a]

\* What each instruction of the IR does to it.
LEMMA StepReadReg ==
  ASSUME NEW e, NEW x, NEW m, NEW a, NEW v, NEW r
  PROVE  IRStep(Running(e, x, m, a), IRReadReg(v, r))
           = Running(Bind(e, v, x[r]), x, m, a)
  BY DEF IRStep, IRDefine, IRValue, IRReadReg, IRInst, Running

LEMMA StepConst ==
  ASSUME NEW e, NEW x, NEW m, NEW a, NEW v, NEW c
  PROVE  IRStep(Running(e, x, m, a), IRConst(v, c))
           = Running(Bind(e, v, c), x, m, a)
  BY DEF IRStep, IRDefine, IRValue, IRConst, IRInst, Running

LEMMA StepGetPC ==
  ASSUME NEW e, NEW x, NEW m, NEW a, NEW v
  PROVE  IRStep(Running(e, x, m, a), IRGetPC(v)) = Running(Bind(e, v, a), x, m, a)
  BY DEF IRStep, IRDefine, IRValue, IRGetPC, IRInst, Running

LEMMA StepBinOp ==
  ASSUME NEW e, NEW x, NEW m, NEW a, NEW v, NEW k, NEW p, NEW q
  PROVE  IRStep(Running(e, x, m, a), IRBinOp(v, k, p, q))
           = Running(Bind(e, v, WordOp(k, e[p], e[q])), x, m, a)
  BY DEF IRStep, IRDefine, IRValue, IRBinOp, IRInst, Running

LEMMA StepICmp ==
  ASSUME NEW e, NEW x, NEW m, NEW a, NEW v, NEW k, NEW p, NEW q
  PROVE  IRStep(Running(e, x, m, a), IRICmp(v, k, p, q))
           = Running(Bind(e, v, IF Holds(k, e[p], e[q]) THEN 1 ELSE 0), x, m, a)
  BY DEF IRStep, IRDefine, IRValue, IRICmp, IRInst, Running

LEMMA StepCast ==
  ASSUME NEW e, NEW x, NEW m, NEW a, NEW v, NEW ty, NEW p
  PROVE  /\ IRStep(Running(e, x, m, a), IRCast("SExt", v, ty, p))
             = Running(Bind(e, v, SextHalf(e[p])), x, m, a)
         /\ IRStep(Running(e, x, m, a), IRCast("ZExt", v, ty, p))
             = Running(Bind(e, v, Low(e[p])), x, m, a)
         /\ IRStep(Running(e, x, m, a), IRCast("Trunc", v, ty, p))
             = Running(Bind(e, v, Low(e[p])), x, m, a)
  BY DEF IRStep, IRDefine, IRValue, IRCast, IRInst, Running

LEMMA StepLoad ==
  ASSUME NEW e, NEW x, NEW m, NEW a, NEW v, NEW ty, NEW p, NEW off
  PROVE  IRStep(Running(e, x, m, a), IRLoad(v, ty, p, off))
           = Running(Bind(e, v, Load(m, ty, e[p] + off)), x, m, a)
  BY DEF IRStep, IRDefine, IRValue, IRLoad, IRInst, Running

LEMMA StepStore ==
  ASSUME NEW e, NEW x, NEW m, NEW a, NEW ty, NEW p, NEW q, NEW off
  PROVE  IRStep(Running(e, x, m, a), IRStore(ty, p, q, off))
           = Running(e, x, Store(m, ty, e[q] + off, e[p]), a)
  BY DEF IRStep, IRToMemory, IRStore, IRInst, Running

LEMMA StepWriteReg ==
  ASSUME NEW e, NEW x, NEW m, NEW a, NEW r, NEW p
  PROVE  IRStep(Running(e, x, m, a), IRWriteReg(r, p))
           = Running(e, [x EXCEPT ![r] = e[p]], m, a)
  BY DEF IRStep, IRWrite, IRWriteReg, IRInst, Running

-----------------------------------------------------------------------------
\* One instruction of the guest.

\* What a guest instruction changes.
LEMMA EffectOf ==
  ASSUME NEW s, NEW inst
  PROVE  /\ GuestStep(s, inst).x
              = IF inst.op \in NoResult THEN s.x
                ELSE SetReg(s.x, inst.rd, Result(inst, s))
         /\ inst.op \notin {"SW", "SD"} => GuestStep(s, inst).mem = s.mem
         /\ inst.op = "SW" => GuestStep(s, inst).mem =
              Store(s.mem, "I32", s.x[inst.rs1] + inst.imm, s.x[inst.rs2])
         /\ inst.op = "SD" => GuestStep(s, inst).mem =
              Store(s.mem, "I64", s.x[inst.rs1] + inst.imm, s.x[inst.rs2])
         /\ GuestStep(s, inst).pc = Target(inst, s)
<1>1. /\ GuestStep(s, inst).x
           = IF inst.op \in NoResult THEN s.x
             ELSE SetReg(s.x, inst.rd, Result(inst, s))
      /\ GuestStep(s, inst).pc = Target(inst, s)
  BY DEF GuestStep
<1>2. inst.op \notin {"SW", "SD"} => GuestStep(s, inst).mem = s.mem
  BY DEF GuestStep
<1>3. /\ inst.op = "SW" => GuestStep(s, inst).mem =
           Store(s.mem, "I32", s.x[inst.rs1] + inst.imm, s.x[inst.rs2])
      /\ inst.op = "SD" => GuestStep(s, inst).mem =
           Store(s.mem, "I64", s.x[inst.rs1] + inst.imm, s.x[inst.rs2])
  BY DEF GuestStep
<1>. QED
  BY <1>1, <1>2, <1>3

\* The value it computes.
LEMMA ResultOf ==
  ASSUME NEW s, NEW inst
  PROVE  /\ inst.op \in ImmediateOps =>
              Result(inst, s) = WordOp(AluOp(inst.op), s.x[inst.rs1], Wrap(inst.imm))
         /\ inst.op \in RegisterOps =>
              Result(inst, s) = WordOp(AluOp(inst.op), s.x[inst.rs1], s.x[inst.rs2])
         /\ inst.op = "AUIPC" => Result(inst, s) = Wrap(inst.pc + Wrap(inst.imm))
         /\ inst.op = "ADDW" =>
              Result(inst, s) = SextHalf(WordOp("Add", s.x[inst.rs1], s.x[inst.rs2]))
         /\ inst.op = "ADDIW" =>
              Result(inst, s) = SextHalf(WordOp("Add", s.x[inst.rs1], Wrap(inst.imm)))
         /\ inst.op = "LW" =>
              Result(inst, s) = SextHalf(Load(s.mem, "I32", s.x[inst.rs1] + inst.imm))
         /\ inst.op = "LWU" => Result(inst, s) = Load(s.mem, "I32", s.x[inst.rs1] + inst.imm)
         /\ inst.op = "LD" => Result(inst, s) = Load(s.mem, "I64", s.x[inst.rs1] + inst.imm)
         /\ inst.op \in {"JAL", "JALR"} => Result(inst, s) = Wrap(inst.pc + 4)
<1>1. inst.op \in ImmediateOps =>
        Result(inst, s) = WordOp(AluOp(inst.op), s.x[inst.rs1], Wrap(inst.imm))
  BY DEF Result, ImmediateOps, RegisterForms, ImmediateForms
<1>2. inst.op \in RegisterOps =>
        Result(inst, s) = WordOp(AluOp(inst.op), s.x[inst.rs1], s.x[inst.rs2])
  BY DEF Result, RegisterOps, RegisterForms, ImmediateForms
<1>3. inst.op = "ADDW" =>
        Result(inst, s) = SextHalf(WordOp("Add", s.x[inst.rs1], s.x[inst.rs2]))
  BY DEF Result, RegisterForms, ImmediateForms, AluOp
<1>4. inst.op = "ADDIW" =>
        Result(inst, s) = SextHalf(WordOp("Add", s.x[inst.rs1], Wrap(inst.imm)))
  BY DEF Result, RegisterForms, ImmediateForms
<1>5. inst.op = "LW" =>
        Result(inst, s) = SextHalf(Load(s.mem, "I32", s.x[inst.rs1] + inst.imm))
  BY DEF Result, RegisterForms, ImmediateForms
<1>6. /\ inst.op = "LWU" => Result(inst, s) = Load(s.mem, "I32", s.x[inst.rs1] + inst.imm)
      /\ inst.op = "LD" => Result(inst, s) = Load(s.mem, "I64", s.x[inst.rs1] + inst.imm)
  BY DEF Result, RegisterForms, ImmediateForms
<1>7. inst.op \in {"JAL", "JALR"} => Result(inst, s) = Wrap(inst.pc + 4)
  BY DEF Result, RegisterForms, ImmediateForms
<1>8. inst.op = "AUIPC" => Result(inst, s) = Wrap(inst.pc + Wrap(inst.imm))
  BY DEF Result, RegisterForms, ImmediateForms
<1>. QED
  BY <1>1, <1>2, <1>3, <1>4, <1>5, <1>6, <1>7, <1>8

\* An instruction that computes a value and does not store.
LEMMA Computes ==
  ASSUME NEW s, NEW inst,
         inst.op \in ImmediateOps \cup RegisterOps
                     \cup {"ADDW", "ADDIW", "LW", "LWU", "LD", "AUIPC", "JAL", "JALR"}
  PROVE  /\ GuestStep(s, inst).x = SetReg(s.x, inst.rd, Result(inst, s))
         /\ GuestStep(s, inst).mem = s.mem
<1>1. inst.op \notin NoResult /\ inst.op \notin {"SW", "SD"}
  BY DEF ImmediateOps, RegisterOps, NoResult, Branches
<1>. QED
  BY <1>1, EffectOf

\* The instructions it translates.  It drops SUBW and the comparisons that
\* give a value, and has no case for LUI.
LiftedOps ==
  ImmediateOps \cup RegisterOps \cup Branches
    \cup {"ADDW", "ADDIW", "LW", "LWU", "LD", "SW", "SD", "JAL", "JALR",
          "ECALL", "EBREAK", "FENCE"}

\* AUIPC it lifts with the address of the block instead of the instruction's:
\* of a block at a it translates inst to what that does.
Lifts(inst, a) == inst.op \in LiftedOps \/ (inst.op = "AUIPC" /\ inst.pc = a)

-----------------------------------------------------------------------------
\* A guest state over the registers R, with memory in C.
GuestTyped(s, R, C) ==
  /\ s.x \in [R -> Word] /\ s.x[0] = 0
  /\ s.mem \in [C -> Half]

Loads == {"LW", "LWU", "LD"}

\* An instruction a guest with these registers and this memory can run.
Runnable(inst, R, C) ==
  /\ inst.rd \in R /\ inst.rs1 \in R /\ inst.rs2 \in R
  /\ inst.imm \in Int /\ inst.pc \in Int
  /\ inst.op \in Loads => C = Word

\* What a translated instruction computes is a word.
LEMMA ResultTyped ==
  ASSUME NEW R, NEW C, NEW s, GuestTyped(s, R, C), NEW inst, Runnable(inst, R, C),
         inst.op \in (LiftedOps \ NoResult) \cup {"AUIPC"}
  PROVE  Result(inst, s) \in Word
<1>. DEFINE a == s.x[inst.rs1]
            b == s.x[inst.rs2]
<1>1. a \in Word /\ b \in Word /\ Wrap(inst.imm) \in Word /\ a + inst.imm \in Int
  <2>1. a \in Word /\ b \in Word
    BY DEF GuestTyped, Runnable
  <2>2. inst.imm \in Int
    BY DEF Runnable
  <2>3. Word \subseteq Int /\ Wrap(inst.imm) \in Word
    BY <2>2, Widths
  <2>. HIDE DEF a, b
  <2>4. a \in Int
    BY <2>1, <2>3
  <2>. QED
    BY <2>1, <2>2, <2>3, <2>4
<1>2. \A op \in ImmediateOps \cup RegisterOps :
        AluOp(op) \in {"Add", "Sub", "And", "Or", "Xor", "Shl", "LShr", "AShr"}
  BY DEF ImmediateOps, RegisterOps, AluOp
<1>3. CASE inst.op \in ImmediateOps
  <2>1. WordOp(AluOp(inst.op), a, Wrap(inst.imm)) \in Word
    BY <1>1, <1>2, <1>3, WordOpTyped
  <2>. QED
    BY <1>3, <2>1, ResultOf
<1>4. CASE inst.op \in RegisterOps
  <2>1. WordOp(AluOp(inst.op), a, b) \in Word
    BY <1>1, <1>2, <1>4, WordOpTyped
  <2>. QED
    BY <1>4, <2>1, ResultOf
<1>5. CASE inst.op \in {"ADDW", "ADDIW"}
  <2>1. WordOp("Add", a, b) \in Word /\ WordOp("Add", a, Wrap(inst.imm)) \in Word
    BY <1>1, WordOpTyped
  <2>2. /\ SextHalf(WordOp("Add", a, b)) \in Word
        /\ SextHalf(WordOp("Add", a, Wrap(inst.imm))) \in Word
    BY <2>1, SextHalfTyped, Widths
  <2>. QED
    BY <1>5, <2>2, ResultOf
<1>6. CASE inst.op \in Loads
  <2>1. s.mem \in [Word -> Half]
    BY <1>6 DEF GuestTyped, Runnable
  <2>2. /\ Load(s.mem, "I32", a + inst.imm) \in Half
        /\ Load(s.mem, "I64", a + inst.imm) \in Word
    BY <1>1, <2>1, LoadTyped
  <2>3. /\ Load(s.mem, "I32", a + inst.imm) \in Word
        /\ SextHalf(Load(s.mem, "I32", a + inst.imm)) \in Word
    BY <2>2, TwoHalves, Widths, SextHalfTyped
  <2>. QED
    BY <1>6, <2>2, <2>3, ResultOf DEF Loads
<1>7. CASE inst.op \in {"JAL", "JALR"}
  <2>1. Wrap(inst.pc + 4) \in Word
    BY Widths DEF Runnable
  <2>. QED
    BY <1>7, <2>1, ResultOf
<1>8. CASE inst.op = "AUIPC"
  <2>1. Wrap(inst.imm) \in Int /\ inst.pc \in Int
    BY <1>1, Widths DEF Runnable
  <2>2. Wrap(inst.pc + Wrap(inst.imm)) \in Word
    BY <2>1, Widths
  <2>. QED
    BY <1>8, <2>2, ResultOf
<1>9. inst.op \in ImmediateOps \cup RegisterOps
                    \cup {"ADDW", "ADDIW", "AUIPC", "JAL", "JALR"} \cup Loads
  BY DEF LiftedOps, NoResult, Loads
<1>. QED
  BY <1>3, <1>4, <1>5, <1>6, <1>7, <1>8, <1>9

\* A guest that runs a translated instruction keeps its shape.
LEMMA GuestStepTyped ==
  ASSUME NEW R, NEW C, NEW s, GuestTyped(s, R, C), NEW inst, Runnable(inst, R, C),
         inst.op \in LiftedOps \cup {"AUIPC"}
  PROVE  GuestTyped(GuestStep(s, inst), R, C) /\ GuestStep(s, inst).pc \in Word
<1>1. GuestStep(s, inst).x \in [R -> Word] /\ GuestStep(s, inst).x[0] = 0
  <2>1. CASE inst.op \in NoResult
    BY <2>1, EffectOf DEF GuestTyped
  <2>2. CASE inst.op \notin NoResult
    <3>1. GuestStep(s, inst).x = SetReg(s.x, inst.rd, Result(inst, s))
      BY <2>2, EffectOf
    <3>2. Result(inst, s) \in Word
      BY <2>2, ResultTyped
    <3>3. s.x \in [R -> Word] /\ s.x[0] = 0 /\ inst.rd \in R
      BY DEF GuestTyped, Runnable
    <3>. QED
      BY <3>1, <3>2, <3>3 DEF SetReg
  <2>. QED
    BY <2>1, <2>2
<1>2. GuestStep(s, inst).mem \in [C -> Half]
  <2>1. /\ s.mem \in [C -> Half] /\ s.x[inst.rs2] \in Word
        /\ s.x[inst.rs1] + inst.imm \in Int
    BY Widths DEF GuestTyped, Runnable
  <2>2. \A ty : Store(s.mem, ty, s.x[inst.rs1] + inst.imm, s.x[inst.rs2]) \in [C -> Half]
    BY <2>1, StoreTyped
  <2>. QED
    BY <2>1, <2>2, EffectOf
<1>3. GuestStep(s, inst).pc \in Word
  <2>1. GuestStep(s, inst).pc = Target(inst, s)
    BY EffectOf
  <2>2. inst.pc \in Int /\ inst.imm \in Int /\ s.x[inst.rs1] \in Int
    BY Widths DEF GuestTyped, Runnable
  <2>3. /\ Wrap(inst.pc + inst.imm) \in Word /\ Wrap(inst.pc + 4) \in Word
        /\ Wrap(s.x[inst.rs1] + inst.imm) \in Word
    BY <2>2, Widths
  <2>4. \A t \in Word : t - (t % 2) \in Word
    BY Widths DEF Word
  <2>5. inst.op \in Branches => inst.op # "JALR"
    BY DEF Branches
  <2>6. inst.op = "JAL" => inst.op # "JALR"
    OBVIOUS
  <2>7. CASE inst.op = "JALR"
    <3>1. Target(inst, s) = LET t == Wrap(s.x[inst.rs1] + inst.imm) IN t - (t % 2)
      BY <2>5, <2>7 DEF Target
    <3>. QED
      BY <2>1, <2>3, <2>4, <3>1
  <2>8. CASE inst.op # "JALR"
    <3>1. \/ Target(inst, s) = Wrap(inst.pc + inst.imm)
          \/ Target(inst, s) = Wrap(inst.pc + 4)
      BY <2>8 DEF Target
    <3>. QED
      BY <2>1, <2>3, <3>1
  <2>. QED
    BY <2>7, <2>8
<1>. QED
  BY <1>1, <1>2, <1>3 DEF GuestTyped

-----------------------------------------------------------------------------
\* The three loops: over the instructions of a block to lift and to run them,
\* over its IR to run that.
LiftFold == INSTANCE SequenceFacts WITH Step <- LiftInst
GuestFold == INSTANCE SequenceFacts WITH Step <- GuestStep
IRFold == INSTANCE SequenceFacts WITH Step <- IRStep


\* The IR of one guest instruction.

\* writeReg writes what SetReg does.
LEMMA RunWrite ==
  ASSUME NEW e, NEW x, NEW m, NEW a, NEW rd, NEW v
  PROVE  IRFold!Fold(Running(e, x, m, a), WriteReg(rd, v))
           = Running(e, SetReg(x, rd, e[v]), m, a)
<1>1. CASE rd = 0
  BY <1>1, IRFold!FoldEmpty DEF WriteReg, SetReg
<1>2. CASE rd # 0
  BY <1>2, IRFold!FoldOne, StepWriteReg DEF WriteReg, SetReg
<1>. QED
  BY <1>1, <1>2

\* Straight IR and then a write.
LEMMA RunThenWrite ==
  ASSUME NEW s, NEW e, NEW x, NEW m, NEW a, NEW B, NEW t \in Seq(B),
         NEW rd, NEW v, IRFold!Fold(s, t) = Running(e, x, m, a)
  PROVE  IRFold!Fold(s, t \o WriteReg(rd, v)) = Running(e, SetReg(x, rd, e[v]), m, a)
<1>. DEFINE w == IRWriteReg(rd, v)
            A == B \cup {w}
            u == WriteReg(rd, v)
<1>1. u \in Seq(A)
  <2>1. u = <<>> \/ u = <<w>>
    BY DEF WriteReg
  <2>2. <<>> \in Seq(A) /\ <<w>> \in Seq(A)
    <3>1. w \in A
      OBVIOUS
    <3>. HIDE DEF w, A
    <3>. QED
      BY <3>1
  <2>. HIDE DEF w, u, A
  <2>. QED
    BY <2>1, <2>2
<1>2. t \in Seq(A)
  BY SeqOfLarger
<1>. HIDE DEF A, u
<1>3. IRFold!Fold(s, t \o u) = IRFold!Fold(IRFold!Fold(s, t), u)
  BY <1>1, <1>2, IRFold!FoldConcat
<1>. QED
  BY <1>3, RunWrite DEF u

\* What a new value changes of those defined.
LEMMA BindSame ==
  ASSUME NEW e, NEW v, NEW p
  PROVE  Bind(e, v, p)[v] = p /\ v \in DOMAIN Bind(e, v, p)
  BY DEF Bind

LEMMA BindOther ==
  ASSUME NEW e, NEW v, NEW p, NEW w \in DOMAIN e, w # v
  PROVE  Bind(e, v, p)[w] = e[w]
  BY DEF Bind

LEMMA BindTwo ==
  ASSUME NEW e, NEW n \in Nat, NEW p, NEW q
  PROVE  /\ Bind(Bind(e, n, p), n + 1, q)[n] = p
         /\ Bind(Bind(e, n, p), n + 1, q)[n + 1] = q
  BY DEF Bind

\* The operands of an instruction are words, and what it loads is a half.
Operable(s, inst) ==
  /\ s.x[inst.rs1] \in Word /\ s.x[inst.rs2] \in Word
  /\ inst.op = "LWU" => Load(s.mem, "I32", s.x[inst.rs1] + inst.imm) \in Half

\* ir does what inst does to the registers and the memory.
Renders(ir, inst) ==
  \A e, s, a : Operable(s, inst) =>
    \E f : IRFold!Fold(Running(e, s.x, s.mem, a), ir)
             = Running(f, GuestStep(s, inst).x, GuestStep(s, inst).mem, a)

\* It does in a block at a.
RendersAt(ir, inst, a) ==
  \A e, s : Operable(s, inst) =>
    \E f : IRFold!Fold(Running(e, s.x, s.mem, a), ir)
             = Running(f, GuestStep(s, inst).x, GuestStep(s, inst).mem, a)

\* Lifter and reference choose the same operations and conditions.
LEMMA SameOperation ==
  /\ \A op \in ImmediateOps \cup RegisterOps : BinOpOf[op] = AluOp(op)
  /\ DOMAIN CondOf = Branches
  /\ \A op \in Branches : CondOf[op] = BranchCond(op)
  BY DEF ImmediateOps, RegisterOps, BinOpOf, AluOp, CondOf, Branches, BranchCond

\* Two operands, an operation, a write.
LEMMA OperationRuns ==
  ASSUME NEW e, NEW x, NEW m, NEW a, NEW n \in Nat, NEW i, NEW j, NEW p, NEW q,
         NEW k, NEW rd,
         IRStep(Running(e, x, m, a), i) = Running(Bind(e, n, p), x, m, a),
         IRStep(Running(Bind(e, n, p), x, m, a), j)
           = Running(Bind(Bind(e, n, p), n + 1, q), x, m, a)
  PROVE  \E f : IRFold!Fold(Running(e, x, m, a),
                            <<i, j, IRBinOp(n + 2, k, n, n + 1)>> \o WriteReg(rd, n + 2))
                  = Running(f, SetReg(x, rd, WordOp(k, p, q)), m, a)
<1>. DEFINE b == IRBinOp(n + 2, k, n, n + 1)
            t == <<i, j, b>>
            e2 == Bind(Bind(e, n, p), n + 1, q)
            f == Bind(e2, n + 2, WordOp(k, p, q))
<1>1. e2[n] = p /\ e2[n + 1] = q
  BY BindTwo
<1>2. IRStep(IRStep(Running(e, x, m, a), i), j) = Running(e2, x, m, a)
  OBVIOUS
<1>3. t \in Seq({i, j, b})
  <2>. HIDE DEF b
  <2>. QED
    OBVIOUS
<1>4. IRFold!Fold(Running(e, x, m, a), t)
        = IRStep(IRStep(IRStep(Running(e, x, m, a), i), j), b)
  <2>. HIDE DEF b
  <2>. QED
    BY IRFold!FoldThree
<1>. HIDE DEF e2
<1>5. IRStep(Running(e2, x, m, a), b) = Running(f, x, m, a)
  BY <1>1, StepBinOp
<1>6. f[n + 2] = WordOp(k, p, q)
  BY BindSame
<1>. HIDE DEF b, f, t
<1>7. IRFold!Fold(Running(e, x, m, a), t) = Running(f, x, m, a)
  BY <1>2, <1>4, <1>5
<1>8. IRFold!Fold(Running(e, x, m, a), t \o WriteReg(rd, n + 2))
        = Running(f, SetReg(x, rd, f[n + 2]), m, a)
  BY <1>3, <1>7, RunThenWrite
<1>. QED
  BY <1>6, <1>8 DEF t, b

\* addi and the like.
LEMMA ImmediateRuns ==
  ASSUME NEW inst, inst.op \in ImmediateOps, NEW n \in Nat
  PROVE  Renders(LiftImmediate(inst, n), inst)
<1>2. BinOpOf[inst.op] = AluOp(inst.op)
  BY SameOperation
<1>3. ASSUME NEW e, NEW s, NEW a
      PROVE  \E f : IRFold!Fold(Running(e, s.x, s.mem, a), LiftImmediate(inst, n))
               = Running(f, GuestStep(s, inst).x, GuestStep(s, inst).mem, a)
  <2>1. /\ GuestStep(s, inst).x
             = SetReg(s.x, inst.rd, WordOp(AluOp(inst.op), s.x[inst.rs1], Wrap(inst.imm)))
        /\ GuestStep(s, inst).mem = s.mem
    BY Computes, ResultOf
  <2>2. /\ \A f : IRStep(Running(f, s.x, s.mem, a), IRReadReg(n, inst.rs1))
                    = Running(Bind(f, n, s.x[inst.rs1]), s.x, s.mem, a)
        /\ \A f : IRStep(Running(f, s.x, s.mem, a), IRConst(n + 1, Wrap(inst.imm)))
                    = Running(Bind(f, n + 1, Wrap(inst.imm)), s.x, s.mem, a)
    BY StepReadReg, StepConst
  <2>. QED
    BY <1>2, <2>1, <2>2, OperationRuns DEF LiftImmediate
<1>. QED
  BY <1>3 DEF Renders

\* add and the like.
LEMMA RegisterRuns ==
  ASSUME NEW inst, inst.op \in RegisterOps, NEW n \in Nat
  PROVE  Renders(LiftRegister(inst, n), inst)
<1>2. BinOpOf[inst.op] = AluOp(inst.op)
  BY SameOperation
<1>3. ASSUME NEW e, NEW s, NEW a
      PROVE  \E f : IRFold!Fold(Running(e, s.x, s.mem, a), LiftRegister(inst, n))
               = Running(f, GuestStep(s, inst).x, GuestStep(s, inst).mem, a)
  <2>1. /\ GuestStep(s, inst).x
             = SetReg(s.x, inst.rd, WordOp(AluOp(inst.op), s.x[inst.rs1], s.x[inst.rs2]))
        /\ GuestStep(s, inst).mem = s.mem
    BY Computes, ResultOf
  <2>2. /\ \A f : IRStep(Running(f, s.x, s.mem, a), IRReadReg(n, inst.rs1))
                    = Running(Bind(f, n, s.x[inst.rs1]), s.x, s.mem, a)
        /\ \A f : IRStep(Running(f, s.x, s.mem, a), IRReadReg(n + 1, inst.rs2))
                    = Running(Bind(f, n + 1, s.x[inst.rs2]), s.x, s.mem, a)
    BY StepReadReg
  <2>. QED
    BY <1>2, <2>1, <2>2, OperationRuns DEF LiftRegister
<1>. QED
  BY <1>3 DEF Renders

\* addw and addiw: the sum, its low half, that sign-extended.
LEMMA AddWordRuns ==
  ASSUME NEW inst, inst.op \in {"ADDW", "ADDIW"}, inst.imm \in Int, NEW n \in Nat
  PROVE  Renders(LiftAddWord(inst, n), inst)
<1>. DEFINE i == IRReadReg(n, inst.rs1)
            j == IF inst.op = "ADDIW" THEN IRConst(n + 1, Wrap(inst.imm))
                                      ELSE IRReadReg(n + 1, inst.rs2)
            b == IRBinOp(n + 2, "Add", n, n + 1)
            c == IRCast("Trunc", n + 3, "I32", n + 2)
            d == IRCast("SExt", n + 4, "I64", n + 3)
            t == <<i, j, b, c, d>>
<1>0. LiftAddWord(inst, n) = t \o WriteReg(inst.rd, n + 4)
  BY DEF LiftAddWord
<1>1. t \in Seq({i, j, b, c, d})
  OBVIOUS
<1>2. ASSUME NEW e, NEW s, NEW a, Operable(s, inst)
      PROVE  \E f : IRFold!Fold(Running(e, s.x, s.mem, a), LiftAddWord(inst, n))
               = Running(f, GuestStep(s, inst).x, GuestStep(s, inst).mem, a)
  <2>. DEFINE p == s.x[inst.rs1]
              q == IF inst.op = "ADDIW" THEN Wrap(inst.imm) ELSE s.x[inst.rs2]
              sum == WordOp("Add", p, q)
              e2 == Bind(Bind(e, n, p), n + 1, q)
              e3 == Bind(e2, n + 2, sum)
              e4 == Bind(e3, n + 3, Low(sum))
              f == Bind(e4, n + 4, SextHalf(Low(sum)))
  <2>1. /\ IRStep(Running(e, s.x, s.mem, a), i) = Running(Bind(e, n, p), s.x, s.mem, a)
        /\ IRStep(Running(Bind(e, n, p), s.x, s.mem, a), j) = Running(e2, s.x, s.mem, a)
    BY StepReadReg, StepConst
  <2>2. e2[n] = p /\ e2[n + 1] = q /\ e3[n + 2] = sum /\ e4[n + 3] = Low(sum)
        /\ f[n + 4] = SextHalf(Low(sum))
    BY BindTwo, BindSame
  <2>3. IRStep(Running(e2, s.x, s.mem, a), b) = Running(e3, s.x, s.mem, a)
    BY <2>2, StepBinOp
  <2>4. IRStep(Running(e3, s.x, s.mem, a), c) = Running(e4, s.x, s.mem, a)
    BY <2>2, StepCast
  <2>5. IRStep(Running(e4, s.x, s.mem, a), d) = Running(f, s.x, s.mem, a)
    BY <2>2, StepCast
  <2>6. IRFold!Fold(Running(e, s.x, s.mem, a), t)
          = IRStep(IRStep(IRStep(IRStep(IRStep(Running(e, s.x, s.mem, a), i), j), b), c), d)
    <3>. HIDE DEF i, j, b, c, d
    <3>. QED
      BY IRFold!FoldFive
  <2>9. /\ GuestStep(s, inst).x = SetReg(s.x, inst.rd, SextHalf(sum))
        /\ GuestStep(s, inst).mem = s.mem
    BY Computes, ResultOf
  <2>10. SextHalf(Low(sum)) = SextHalf(sum)
    <3>1. p \in Word /\ q \in Word
      BY <1>2, Widths DEF Operable
    <3>. HIDE DEF p, q
    <3>2. sum = Wrap(p + q) /\ p + q \in Int
      BY <3>1, Widths DEF WordOp
    <3>3. sum \in Int
      BY <3>2, Widths
    <3>. QED
      BY <3>3, Widths DEF SextHalf, Signed
  <2>. HIDE DEF i, j, b, c, d, t, e2, e3, e4, f, sum
  <2>7. IRFold!Fold(Running(e, s.x, s.mem, a), t) = Running(f, s.x, s.mem, a)
    BY <2>1, <2>3, <2>4, <2>5, <2>6
  <2>8. IRFold!Fold(Running(e, s.x, s.mem, a), t \o WriteReg(inst.rd, n + 4))
          = Running(f, SetReg(s.x, inst.rd, f[n + 4]), s.mem, a)
    BY <1>1, <2>7, RunThenWrite
  <2>. QED
    BY <1>0, <2>2, <2>8, <2>9, <2>10
<1>. QED
  BY <1>2 DEF Renders

\* lw, lwu and ld.
LEMMA LoadDoubleRuns ==
  ASSUME NEW inst, inst.op = "LD", NEW n \in Nat
  PROVE  Renders(LiftLoadDouble(inst, n), inst)
<1>. DEFINE i == IRReadReg(n, inst.rs1)
            j == IRLoad(n + 1, "I64", n, inst.imm)
            t == <<i, j>>
<1>0. LiftLoadDouble(inst, n) = t \o WriteReg(inst.rd, n + 1)
  BY DEF LiftLoadDouble
<1>1. t \in Seq({i, j})
  <2>. HIDE DEF i, j
  <2>. QED
    OBVIOUS
<1>2. ASSUME NEW e, NEW s, NEW a
      PROVE  \E f : IRFold!Fold(Running(e, s.x, s.mem, a), LiftLoadDouble(inst, n))
               = Running(f, GuestStep(s, inst).x, GuestStep(s, inst).mem, a)
  <2>. DEFINE p == s.x[inst.rs1]
              e1 == Bind(e, n, p)
              v == Load(s.mem, "I64", p + inst.imm)
              f == Bind(e1, n + 1, v)
  <2>1. e1[n] = p /\ IRStep(Running(e, s.x, s.mem, a), i) = Running(e1, s.x, s.mem, a)
    BY BindSame, StepReadReg
  <2>2. IRFold!Fold(Running(e, s.x, s.mem, a), t)
          = IRStep(IRStep(Running(e, s.x, s.mem, a), i), j)
    <3>. HIDE DEF i, j
    <3>. QED
      BY IRFold!FoldTwo
  <2>3. /\ GuestStep(s, inst).x = SetReg(s.x, inst.rd, v)
        /\ GuestStep(s, inst).mem = s.mem
    BY Computes, ResultOf
  <2>. HIDE DEF p, e1
  <2>4. IRStep(Running(e1, s.x, s.mem, a), j) = Running(f, s.x, s.mem, a)
    BY <2>1, StepLoad
  <2>5. f[n + 1] = v
    BY BindSame
  <2>. HIDE DEF i, j, t, v, f
  <2>6. IRFold!Fold(Running(e, s.x, s.mem, a), t \o WriteReg(inst.rd, n + 1))
          = Running(f, SetReg(s.x, inst.rd, f[n + 1]), s.mem, a)
    BY <1>1, <2>1, <2>2, <2>4, RunThenWrite
  <2>. QED
    BY <1>0, <2>3, <2>5, <2>6
<1>. QED
  BY <1>2 DEF Renders

LEMMA LoadWordRuns ==
  ASSUME NEW inst, inst.op \in {"LW", "LWU"}, NEW n \in Nat
  PROVE  Renders(LiftLoadWord(inst, n), inst)
<1>. DEFINE i == IRReadReg(n, inst.rs1)
            j == IRLoad(n + 1, "I32", n, inst.imm)
            k == IRCast(IF inst.op = "LW" THEN "SExt" ELSE "ZExt", n + 2, "I64", n + 1)
            t == <<i, j, k>>
<1>0. LiftLoadWord(inst, n) = t \o WriteReg(inst.rd, n + 2)
  BY DEF LiftLoadWord
<1>1. t \in Seq({i, j, k})
  <2>. HIDE DEF i, j, k
  <2>. QED
    OBVIOUS
<1>2. ASSUME NEW e, NEW s, NEW a, Operable(s, inst)
      PROVE  \E f : IRFold!Fold(Running(e, s.x, s.mem, a), LiftLoadWord(inst, n))
               = Running(f, GuestStep(s, inst).x, GuestStep(s, inst).mem, a)
  <2>. DEFINE p == s.x[inst.rs1]
              h == Load(s.mem, "I32", p + inst.imm)
              v == IF inst.op = "LW" THEN SextHalf(h) ELSE Low(h)
              e1 == Bind(e, n, p)
              e2 == Bind(e1, n + 1, h)
              f == Bind(e2, n + 2, v)
  <2>1. e1[n] = p /\ IRStep(Running(e, s.x, s.mem, a), i) = Running(e1, s.x, s.mem, a)
    BY BindSame, StepReadReg
  <2>2. IRFold!Fold(Running(e, s.x, s.mem, a), t)
          = IRStep(IRStep(IRStep(Running(e, s.x, s.mem, a), i), j), k)
    <3>. HIDE DEF i, j, k
    <3>. QED
      BY IRFold!FoldThree
  <2>3. /\ GuestStep(s, inst).x
             = SetReg(s.x, inst.rd, IF inst.op = "LW" THEN SextHalf(h) ELSE h)
        /\ GuestStep(s, inst).mem = s.mem
    BY Computes, ResultOf
  <2>4. inst.op = "LWU" => Low(h) = h
    <3>1. inst.op = "LWU" => h \in Half
      BY <1>2 DEF Operable
    <3>. HIDE DEF h
    <3>2. \A n_ \in Half : Low(n_) = n_
      BY Widths DEF Half, Low
    <3>. QED
      BY <3>1, <3>2
  <2>. HIDE DEF p, e1
  <2>5. IRStep(Running(e1, s.x, s.mem, a), j) = Running(e2, s.x, s.mem, a)
    BY <2>1, StepLoad
  <2>6. e2[n + 1] = h
    BY BindSame
  <2>. HIDE DEF h, e2
  <2>7. IRStep(Running(e2, s.x, s.mem, a), k) = Running(f, s.x, s.mem, a)
    BY <2>6, StepCast
  <2>8. f[n + 2] = v
    BY BindSame
  <2>. HIDE DEF i, j, k, t, f
  <2>9. IRFold!Fold(Running(e, s.x, s.mem, a), t \o WriteReg(inst.rd, n + 2))
          = Running(f, SetReg(s.x, inst.rd, f[n + 2]), s.mem, a)
    BY <1>1, <2>1, <2>2, <2>5, <2>7, RunThenWrite
  <2>. QED
    BY <1>0, <2>3, <2>4, <2>8, <2>9
<1>. QED
  BY <1>2 DEF Renders

\* sw and sd.
LEMMA StoreRuns ==
  ASSUME NEW inst, inst.op \in {"SW", "SD"}, NEW n \in Nat
  PROVE  Renders(LiftStore(inst, n), inst)
<1>. DEFINE ty == IF inst.op = "SW" THEN "I32" ELSE "I64"
            i == IRReadReg(n, inst.rs1)
            j == IRReadReg(n + 1, inst.rs2)
            k == IRStore(ty, n + 1, n, inst.imm)
<1>0. LiftStore(inst, n) = <<i, j, k>>
  BY DEF LiftStore
<1>1. ASSUME NEW e, NEW s, NEW a
      PROVE  \E f : IRFold!Fold(Running(e, s.x, s.mem, a), LiftStore(inst, n))
               = Running(f, GuestStep(s, inst).x, GuestStep(s, inst).mem, a)
  <2>. DEFINE p == s.x[inst.rs1]
              q == s.x[inst.rs2]
              e1 == Bind(e, n, p)
              f == Bind(e1, n + 1, q)
              m == Store(s.mem, ty, p + inst.imm, q)
  <2>1. /\ IRStep(Running(e, s.x, s.mem, a), i) = Running(e1, s.x, s.mem, a)
        /\ IRStep(Running(e1, s.x, s.mem, a), j) = Running(f, s.x, s.mem, a)
    BY StepReadReg
  <2>2. IRFold!Fold(Running(e, s.x, s.mem, a), <<i, j, k>>)
          = IRStep(IRStep(IRStep(Running(e, s.x, s.mem, a), i), j), k)
    <3>. HIDE DEF i, j, k
    <3>. QED
      BY IRFold!FoldThree
  <2>3. f[n] = p /\ f[n + 1] = q
    BY BindTwo
  <2>4. GuestStep(s, inst).x = s.x /\ GuestStep(s, inst).mem = m
    BY EffectOf DEF NoResult
  <2>. HIDE DEF p, q, e1, f, ty
  <2>5. IRStep(Running(f, s.x, s.mem, a), k) = Running(f, s.x, m, a)
    BY <2>3, StepStore
  <2>. HIDE DEF i, j, k, m
  <2>. QED
    BY <1>0, <2>1, <2>2, <2>4, <2>5
<1>. QED
  BY <1>1 DEF Renders

\* jal: the return address.
LEMMA JalRuns ==
  ASSUME NEW inst, inst.op = "JAL", NEW n \in Nat
  PROVE  Renders(LiftJal(inst, n), inst)
<1>. DEFINE v == Wrap(inst.pc + 4)
            i == IRConst(n, v)
            t == <<i>>
<1>0. LiftJal(inst, n) = t \o WriteReg(inst.rd, n)
  BY DEF LiftJal
<1>1. t \in Seq({i})
  <2>. HIDE DEF i
  <2>. QED
    OBVIOUS
<1>2. ASSUME NEW e, NEW s, NEW a
      PROVE  \E f : IRFold!Fold(Running(e, s.x, s.mem, a), LiftJal(inst, n))
               = Running(f, GuestStep(s, inst).x, GuestStep(s, inst).mem, a)
  <2>. DEFINE f == Bind(e, n, v)
  <2>1. IRFold!Fold(Running(e, s.x, s.mem, a), t) = IRStep(Running(e, s.x, s.mem, a), i)
    <3>. HIDE DEF i
    <3>. QED
      BY IRFold!FoldOne
  <2>2. /\ GuestStep(s, inst).x = SetReg(s.x, inst.rd, v)
        /\ GuestStep(s, inst).mem = s.mem
    BY Computes, ResultOf
  <2>. HIDE DEF v
  <2>3. IRStep(Running(e, s.x, s.mem, a), i) = Running(f, s.x, s.mem, a) /\ f[n] = v
    BY BindSame, StepConst
  <2>. HIDE DEF i, t, f
  <2>4. IRFold!Fold(Running(e, s.x, s.mem, a), t \o WriteReg(inst.rd, n))
          = Running(f, SetReg(s.x, inst.rd, f[n]), s.mem, a)
    BY <1>1, <2>1, <2>3, RunThenWrite
  <2>. QED
    BY <1>0, <2>2, <2>3, <2>4
<1>. QED
  BY <1>2 DEF Renders

\* jalr: the target, which no register gets, and the return address.
LEMMA JalrRuns ==
  ASSUME NEW inst, inst.op = "JALR", NEW n \in Nat
  PROVE  Renders(LiftJalr(inst, n), inst)
<1>. DEFINE v == Wrap(inst.pc + 4)
            i == IRReadReg(n, inst.rs1)
            j == IRConst(n + 1, Wrap(inst.imm))
            k == IRBinOp(n + 2, "Add", n, n + 1)
            l == IRConst(n + 3, Wrap(-2))
            o == IRBinOp(n + 4, "And", n + 2, n + 3)
            p == IRConst(n + 5, v)
            t == <<i, j, k, l, o, p>>
<1>0. LiftJalr(inst, n) = t \o WriteReg(inst.rd, n + 5)
  BY DEF LiftJalr
<1>1. t \in Seq({i, j, k, l, o, p})
  <2>. HIDE DEF i, j, k, l, o, p
  <2>. QED
    OBVIOUS
<1>2. ASSUME NEW e, NEW s, NEW a
      PROVE  \E f : IRFold!Fold(Running(e, s.x, s.mem, a), LiftJalr(inst, n))
               = Running(f, GuestStep(s, inst).x, GuestStep(s, inst).mem, a)
  <2>. DEFINE e1 == Bind(e, n, s.x[inst.rs1])
              e2 == Bind(e1, n + 1, Wrap(inst.imm))
              e3 == Bind(e2, n + 2, WordOp("Add", e2[n], e2[n + 1]))
              e4 == Bind(e3, n + 3, Wrap(-2))
              e5 == Bind(e4, n + 4, WordOp("And", e4[n + 2], e4[n + 3]))
              f == Bind(e5, n + 5, v)
              run(g) == Running(g, s.x, s.mem, a)
  <2>1. IRFold!Fold(run(e), t)
          = IRStep(IRStep(IRStep(IRStep(IRStep(IRStep(run(e), i), j), k), l), o), p)
    <3>. HIDE DEF i, j, k, l, o, p
    <3>. QED
      BY IRFold!FoldSix
  <2>2. /\ GuestStep(s, inst).x = SetReg(s.x, inst.rd, v)
        /\ GuestStep(s, inst).mem = s.mem
    BY Computes, ResultOf
  <2>. HIDE DEF v
  <2>3. IRStep(run(e), i) = run(e1)
    BY StepReadReg
  <2>. HIDE DEF e1
  <2>4. IRStep(run(e1), j) = run(e2)
    BY StepConst
  <2>. HIDE DEF e2
  <2>5. IRStep(run(e2), k) = run(e3)
    BY StepBinOp
  <2>. HIDE DEF e3
  <2>6. IRStep(run(e3), l) = run(e4)
    BY StepConst
  <2>. HIDE DEF e4
  <2>7. IRStep(run(e4), o) = run(e5)
    BY StepBinOp
  <2>. HIDE DEF e5
  <2>8. IRStep(run(e5), p) = run(f) /\ f[n + 5] = v
    BY BindSame, StepConst
  <2>. HIDE DEF i, j, k, l, o, p, t, f, run
  <2>9. IRFold!Fold(run(e), t) = run(f)
    BY <2>1, <2>3, <2>4, <2>5, <2>6, <2>7, <2>8
  <2>10. IRFold!Fold(run(e), t \o WriteReg(inst.rd, n + 5))
           = Running(f, SetReg(s.x, inst.rd, f[n + 5]), s.mem, a)
    BY <1>1, <2>9, RunThenWrite DEF run
  <2>. QED
    BY <1>0, <2>2, <2>8, <2>10 DEF run
<1>. QED
  BY <1>2 DEF Renders

\* A conditional branch: its condition is the value after the operands.
Flag(s, inst) ==
  IF Holds(BranchCond(inst.op), s.x[inst.rs1], s.x[inst.rs2]) THEN 1 ELSE 0

Compared(e, s, a, inst, n) ==
  \E f : /\ IRFold!Fold(Running(e, s.x, s.mem, a), LiftBranch(inst, n))
              = Running(f, GuestStep(s, inst).x, GuestStep(s, inst).mem, a)
         /\ f[n + 2] = Flag(s, inst)

LEMMA BranchRuns ==
  ASSUME NEW inst, inst.op \in Branches, NEW n \in Nat, NEW e, NEW s, NEW a
  PROVE  Compared(e, s, a, inst, n)
<1>. DEFINE i == IRReadReg(n, inst.rs1)
            j == IRReadReg(n + 1, inst.rs2)
            c == BranchCond(inst.op)
            k == IRICmp(n + 2, c, n, n + 1)
<1>0. LiftBranch(inst, n) = <<i, j, k>>
  BY SameOperation DEF LiftBranch
<1>. DEFINE p == s.x[inst.rs1]
            q == s.x[inst.rs2]
            v == IF Holds(c, p, q) THEN 1 ELSE 0
            e1 == Bind(e, n, p)
            e2 == Bind(e1, n + 1, q)
            f == Bind(e2, n + 2, v)
<1>1. /\ IRStep(Running(e, s.x, s.mem, a), i) = Running(e1, s.x, s.mem, a)
      /\ IRStep(Running(e1, s.x, s.mem, a), j) = Running(e2, s.x, s.mem, a)
  BY StepReadReg
<1>2. IRFold!Fold(Running(e, s.x, s.mem, a), <<i, j, k>>)
        = IRStep(IRStep(IRStep(Running(e, s.x, s.mem, a), i), j), k)
  <2>. HIDE DEF i, j, k
  <2>. QED
    BY IRFold!FoldThree
<1>3. e2[n] = p /\ e2[n + 1] = q
  BY BindTwo
<1>4. v = Flag(s, inst)
  BY DEF Flag
<1>5. GuestStep(s, inst).x = s.x /\ GuestStep(s, inst).mem = s.mem
  <2>1. inst.op \in NoResult /\ inst.op \notin {"SW", "SD"}
    BY DEF NoResult, Branches
  <2>. QED
    BY <2>1, EffectOf
<1>. HIDE DEF c, e1, e2, p, q
<1>6. IRStep(Running(e2, s.x, s.mem, a), k) = Running(f, s.x, s.mem, a)
  BY <1>3, StepICmp
<1>7. f[n + 2] = v
  BY BindSame
<1>. HIDE DEF i, j, k, v, f
<1>8. IRFold!Fold(Running(e, s.x, s.mem, a), <<i, j, k>>) = Running(f, s.x, s.mem, a)
  BY <1>1, <1>2, <1>6
<1>9. /\ IRFold!Fold(Running(e, s.x, s.mem, a), LiftBranch(inst, n))
           = Running(f, GuestStep(s, inst).x, GuestStep(s, inst).mem, a)
      /\ f[n + 2] = Flag(s, inst)
  BY <1>0, <1>4, <1>5, <1>7, <1>8
<1>. HIDE DEF Running, Flag
<1>. QED
  BY <1>9 DEF Compared

LEMMA BranchRenders ==
  ASSUME NEW inst, inst.op \in Branches, NEW n \in Nat
  PROVE  Renders(LiftBranch(inst, n), inst)
<1>1. ASSUME NEW e, NEW s, NEW a
      PROVE  \E f : IRFold!Fold(Running(e, s.x, s.mem, a), LiftBranch(inst, n))
               = Running(f, GuestStep(s, inst).x, GuestStep(s, inst).mem, a)
  <2>1. Compared(e, s, a, inst, n)
    BY BranchRuns
  <2>. QED
    BY <2>1 DEF Compared
<1>. QED
  BY <1>1 DEF Renders

-----------------------------------------------------------------------------
\* What the lifter knows.

\* Which case of LiftOp an instruction comes to.
\* auipc, where the address of the block is the instruction's.
LEMMA AuipcRuns ==
  ASSUME NEW inst, inst.op = "AUIPC", NEW n \in Nat
  PROVE  RendersAt(LiftAuipc(inst, n), inst, inst.pc)
<1>. DEFINE a == inst.pc
            i == Wrap(inst.imm)
            t(s) == SetReg(s.x, inst.rd, WordOp("Add", a, i))
<1>1. LiftAuipc(inst, n)
        = <<IRGetPC(n), IRConst(n + 1, i), IRBinOp(n + 2, "Add", n, n + 1)>>
          \o WriteReg(inst.rd, n + 2)
  BY DEF LiftAuipc
<1>2. WordOp("Add", a, i) = Wrap(a + i)
  BY DEF WordOp
<1>3. ASSUME NEW s
      PROVE  GuestStep(s, inst).x = t(s) /\ GuestStep(s, inst).mem = s.mem
  <2>1. /\ GuestStep(s, inst).x = SetReg(s.x, inst.rd, Result(inst, s))
        /\ GuestStep(s, inst).mem = s.mem
    BY Computes
  <2>2. Result(inst, s) = WordOp("Add", a, i)
    BY <1>2, ResultOf
  <2>. QED
    BY <2>1, <2>2
<1>4. ASSUME NEW e, NEW s
      PROVE  \E f : IRFold!Fold(Running(e, s.x, s.mem, a), LiftAuipc(inst, n))
               = Running(f, t(s), s.mem, a)
  <2>1. /\ IRStep(Running(e, s.x, s.mem, a), IRGetPC(n))
             = Running(Bind(e, n, a), s.x, s.mem, a)
        /\ IRStep(Running(Bind(e, n, a), s.x, s.mem, a), IRConst(n + 1, i))
             = Running(Bind(Bind(e, n, a), n + 1, i), s.x, s.mem, a)
    BY StepGetPC, StepConst
  <2>. HIDE DEF a, i
  <2>2. \E f : IRFold!Fold(Running(e, s.x, s.mem, a),
                         <<IRGetPC(n), IRConst(n + 1, i), IRBinOp(n + 2, "Add", n, n + 1)>>
                           \o WriteReg(inst.rd, n + 2))
               = Running(f, SetReg(s.x, inst.rd, WordOp("Add", a, i)), s.mem, a)
    BY <2>1, OperationRuns
  <2>. QED
    BY <1>1, <2>2
<1>. HIDE DEF a, i, t
<1>5. ASSUME NEW e, NEW s
      PROVE  \E f : IRFold!Fold(Running(e, s.x, s.mem, a), LiftAuipc(inst, n))
               = Running(f, GuestStep(s, inst).x, GuestStep(s, inst).mem, a)
  <2>1. PICK f : IRFold!Fold(Running(e, s.x, s.mem, a), LiftAuipc(inst, n))
                   = Running(f, t(s), s.mem, a)
    BY <1>4
  <2>2. GuestStep(s, inst).x = t(s) /\ GuestStep(s, inst).mem = s.mem
    BY <1>3
  <2>. QED
    BY <2>1, <2>2
<1>. QED
  BY <1>5 DEF RendersAt, a

LEMMA LiftCases ==
  ASSUME NEW inst, NEW n
  PROVE  /\ inst.op \in ImmediateOps => LiftOp(inst, n) = LiftImmediate(inst, n)
         /\ inst.op \in RegisterOps => LiftOp(inst, n) = LiftRegister(inst, n)
         /\ inst.op \in {"ADDW", "ADDIW"} => LiftOp(inst, n) = LiftAddWord(inst, n)
         /\ inst.op \in {"LW", "LWU"} => LiftOp(inst, n) = LiftLoadWord(inst, n)
         /\ inst.op = "LD" => LiftOp(inst, n) = LiftLoadDouble(inst, n)
         /\ inst.op \in {"SW", "SD"} => LiftOp(inst, n) = LiftStore(inst, n)
         /\ inst.op \in Branches => LiftOp(inst, n) = LiftBranch(inst, n)
         /\ inst.op = "JAL" => LiftOp(inst, n) = LiftJal(inst, n)
         /\ inst.op = "JALR" => LiftOp(inst, n) = LiftJalr(inst, n)
         /\ inst.op \in {"ECALL", "EBREAK", "FENCE"} => LiftOp(inst, n) = <<>>
         /\ inst.op = "AUIPC" => LiftOp(inst, n) = LiftAuipc(inst, n)
<1>1. DOMAIN CondOf = Branches
  BY SameOperation
<1>2. /\ inst.op \in ImmediateOps => LiftOp(inst, n) = LiftImmediate(inst, n)
      /\ inst.op \in RegisterOps => LiftOp(inst, n) = LiftRegister(inst, n)
  BY <1>1 DEF LiftOp, ImmediateOps, RegisterOps, Branches
<1>3. inst.op \in {"ADDW", "ADDIW"} => LiftOp(inst, n) = LiftAddWord(inst, n)
  BY <1>1 DEF LiftOp, ImmediateOps, RegisterOps, Branches
<1>4. inst.op \in {"LW", "LWU"} => LiftOp(inst, n) = LiftLoadWord(inst, n)
  BY <1>1 DEF LiftOp, ImmediateOps, RegisterOps, Branches
<1>5. inst.op = "LD" => LiftOp(inst, n) = LiftLoadDouble(inst, n)
  BY <1>1 DEF LiftOp, ImmediateOps, RegisterOps, Branches
<1>6. inst.op \in {"SW", "SD"} => LiftOp(inst, n) = LiftStore(inst, n)
  BY <1>1 DEF LiftOp, ImmediateOps, RegisterOps, Branches
<1>7. inst.op \in Branches => LiftOp(inst, n) = LiftBranch(inst, n)
  BY <1>1 DEF LiftOp, ImmediateOps, RegisterOps, Branches
<1>8. inst.op = "JAL" => LiftOp(inst, n) = LiftJal(inst, n)
  BY <1>1 DEF LiftOp, ImmediateOps, RegisterOps, Branches
<1>9. inst.op = "JALR" => LiftOp(inst, n) = LiftJalr(inst, n)
  BY <1>1 DEF LiftOp, ImmediateOps, RegisterOps, Branches
<1>10. inst.op \in {"ECALL", "EBREAK", "FENCE"} => LiftOp(inst, n) = <<>>
  BY <1>1 DEF LiftOp, ImmediateOps, RegisterOps, Branches
<1>11. inst.op = "AUIPC" => LiftOp(inst, n) = LiftAuipc(inst, n)
  BY <1>1 DEF LiftOp, ImmediateOps, RegisterOps, Branches
<1>. QED
  BY <1>2, <1>3, <1>4, <1>5, <1>6, <1>7, <1>8, <1>9, <1>10, <1>11

\* No IR for the environment calls and the fence: they do nothing to the
\* registers and the memory.
LEMMA NothingRuns ==
  ASSUME NEW inst, inst.op \in {"ECALL", "EBREAK", "FENCE"}
  PROVE  Renders(<<>>, inst)
<1>1. ASSUME NEW e, NEW s, NEW a
      PROVE  \E f : IRFold!Fold(Running(e, s.x, s.mem, a), <<>>)
               = Running(f, GuestStep(s, inst).x, GuestStep(s, inst).mem, a)
  <2>1. inst.op \in NoResult /\ inst.op \notin {"SW", "SD"}
    BY DEF NoResult
  <2>2. GuestStep(s, inst).x = s.x /\ GuestStep(s, inst).mem = s.mem
    BY <2>1, EffectOf
  <2>3. IRFold!Fold(Running(e, s.x, s.mem, a), <<>>) = Running(e, s.x, s.mem, a)
    BY IRFold!FoldEmpty
  <2>. HIDE DEF Running
  <2>. QED
    BY <2>2, <2>3
<1>. QED
  BY <1>1 DEF Renders

\* Every instruction of LiftedOps is lifted to IR that does what it does,
\* and so is an AUIPC that starts its block.
LEMMA LiftRenders ==
  ASSUME NEW inst, NEW a, Lifts(inst, a), inst.imm \in Int, NEW n \in Nat
  PROVE  RendersAt(LiftOp(inst, n), inst, a)
<1>0. Renders(LiftOp(inst, n), inst) => RendersAt(LiftOp(inst, n), inst, a)
  BY DEF Renders, RendersAt
<1>1. CASE inst.op \in ImmediateOps
  BY <1>0, <1>1, LiftCases, ImmediateRuns
<1>2. CASE inst.op \in RegisterOps
  BY <1>0, <1>2, LiftCases, RegisterRuns
<1>3. CASE inst.op \in {"ADDW", "ADDIW"}
  BY <1>0, <1>3, LiftCases, AddWordRuns
<1>4. CASE inst.op \in {"LW", "LWU"}
  BY <1>0, <1>4, LiftCases, LoadWordRuns
<1>5. CASE inst.op = "LD"
  BY <1>0, <1>5, LiftCases, LoadDoubleRuns
<1>6. CASE inst.op \in {"SW", "SD"}
  BY <1>0, <1>6, LiftCases, StoreRuns
<1>7. CASE inst.op \in Branches
  BY <1>0, <1>7, LiftCases, BranchRenders
<1>8. CASE inst.op = "JAL"
  BY <1>0, <1>8, LiftCases, JalRuns
<1>9. CASE inst.op = "JALR"
  BY <1>0, <1>9, LiftCases, JalrRuns
<1>10. CASE inst.op \in {"ECALL", "EBREAK", "FENCE"}
  BY <1>0, <1>10, LiftCases, NothingRuns
<1>11. CASE inst.op = "AUIPC"
  BY <1>11, LiftCases, AuipcRuns DEF Lifts, LiftedOps, ImmediateOps, RegisterOps, Branches
<1>. QED
  BY <1>1, <1>2, <1>3, <1>4, <1>5, <1>6, <1>7, <1>8, <1>9, <1>10, <1>11
     DEF Lifts, LiftedOps

-----------------------------------------------------------------------------
\* A whole block.

\* The folds of the model are those the facts are about.
LEMMA LiftLoop ==
  ASSUME NEW s, NEW t
  PROVE  FoldLeft(LiftInst, s, t) = LiftFold!Fold(s, t)
  BY DEF LiftFold!Fold, LiftFold!FoldLeft, LiftFold!MapThenFoldSet, LiftFold!Max,
         FoldLeft, MapThenFoldSet, Max

LEMMA GuestLoop ==
  ASSUME NEW s, NEW t
  PROVE  RunGuest(t, s) = GuestFold!Fold(s, t)
  BY DEF RunGuest, GuestFold!Fold, GuestFold!FoldLeft, GuestFold!MapThenFoldSet,
         GuestFold!Max, FoldLeft, MapThenFoldSet, Max

LEMMA IRLoop ==
  ASSUME NEW s, NEW t
  PROVE  FoldLeft(IRStep, s, t) = IRFold!Fold(s, t)
  BY DEF IRFold!Fold, IRFold!FoldLeft, IRFold!MapThenFoldSet, IRFold!Max,
         FoldLeft, MapThenFoldSet, Max

\* What an instruction is lifted to is a sequence.
IsSequence(t) == \E A : t \in Seq(A)

LEMMA WriteIsSequence ==
  ASSUME NEW t, IsSequence(t), NEW rd, NEW v
  PROVE  IsSequence(t \o WriteReg(rd, v))
<1>. DEFINE w == IRWriteReg(rd, v)
            u == WriteReg(rd, v)
<1>1. PICK B : t \in Seq(B)
  BY DEF IsSequence
<1>2. u = <<>> \/ u = <<w>>
  BY DEF WriteReg
<1>. DEFINE U == B \cup {w}
<1>3. t \in Seq(U) /\ w \in U
  BY <1>1, SeqOfLarger
<1>. HIDE DEF u, w, U
<1>4. u \in Seq(U)
  <2>1. <<>> \in Seq(U) /\ <<w>> \in Seq(U)
    BY <1>3
  <2>. QED
    BY <1>2, <2>1
<1>5. t \o u \in Seq(U)
  BY <1>3, <1>4
<1>. QED
  BY <1>5 DEF IsSequence, u

LEMMA TuplesAreSequences ==
  /\ IsSequence(<<>>)
  /\ \A a : IsSequence(<<a>>)
  /\ \A a, b : IsSequence(<<a, b>>)
  /\ \A a, b, c : IsSequence(<<a, b, c>>)
  /\ \A a, b, c, d, e : IsSequence(<<a, b, c, d, e>>)
  /\ \A a, b, c, d, e, f : IsSequence(<<a, b, c, d, e, f>>)
<1>1. <<>> \in Seq({})
  OBVIOUS
<1>2. \A a : <<a>> \in Seq({a})
  OBVIOUS
<1>3. \A a, b : <<a, b>> \in Seq({a, b})
  OBVIOUS
<1>4. \A a, b, c : <<a, b, c>> \in Seq({a, b, c})
  OBVIOUS
<1>5. \A a, b, c, d, e : <<a, b, c, d, e>> \in Seq({a, b, c, d, e})
  OBVIOUS
<1>6. \A a, b, c, d, e, f : <<a, b, c, d, e, f>> \in Seq({a, b, c, d, e, f})
  OBVIOUS
<1>. QED
  BY <1>1, <1>2, <1>3, <1>4, <1>5, <1>6 DEF IsSequence

LEMMA LiftedIsSequence ==
  ASSUME NEW inst, inst.op \in LiftedOps \cup {"AUIPC"}, NEW n
  PROVE  IsSequence(LiftOp(inst, n))
<1>1. /\ \A a, rd, v : IsSequence(<<a>> \o WriteReg(rd, v))
      /\ \A a, b, rd, v : IsSequence(<<a, b>> \o WriteReg(rd, v))
      /\ \A a, b, c, rd, v : IsSequence(<<a, b, c>> \o WriteReg(rd, v))
      /\ \A a, b, c, d, e, rd, v : IsSequence(<<a, b, c, d, e>> \o WriteReg(rd, v))
      /\ \A a, b, c, d, e, f, rd, v :
           IsSequence(<<a, b, c, d, e, f>> \o WriteReg(rd, v))
  BY TuplesAreSequences, WriteIsSequence
<1>2. /\ IsSequence(LiftImmediate(inst, n))
      /\ IsSequence(LiftRegister(inst, n))
      /\ IsSequence(LiftAddWord(inst, n))
      /\ IsSequence(LiftLoadWord(inst, n))
      /\ IsSequence(LiftLoadDouble(inst, n))
      /\ IsSequence(LiftJal(inst, n))
      /\ IsSequence(LiftJalr(inst, n))
      /\ IsSequence(LiftAuipc(inst, n))
  BY <1>1 DEF LiftImmediate, LiftRegister, LiftAddWord, LiftLoadWord, LiftLoadDouble,
              LiftJal, LiftJalr, LiftAuipc
<1>3. IsSequence(LiftStore(inst, n)) /\ IsSequence(LiftBranch(inst, n))
  BY TuplesAreSequences DEF LiftStore, LiftBranch
<1>4. CASE inst.op \in {"ECALL", "EBREAK", "FENCE"}
  BY <1>4, LiftCases, TuplesAreSequences
<1>5. CASE inst.op \notin {"ECALL", "EBREAK", "FENCE"}
  BY <1>2, <1>3, <1>5, LiftCases DEF LiftedOps
<1>. QED
  BY <1>4, <1>5

\* After some instructions of a block: prog is their IR, g the guest's state.
Agrees(prog, g, s, a, R, C) ==
  /\ IsSequence(prog)
  /\ GuestTyped(g, R, C)
  /\ \E f : IRFold!Fold(Running(<<>>, s.x, s.mem, a), prog)
              = Running(f, g.x, g.mem, a)

\* The IR of one instruction more.
LEMMA OneMore ==
  ASSUME NEW p, NEW t, IsSequence(p), IsSequence(t), NEW s
  PROVE  /\ IsSequence(p \o t)
         /\ IRFold!Fold(s, p \o t) = IRFold!Fold(IRFold!Fold(s, p), t)
<1>1. PICK A : p \in Seq(A)
  BY DEF IsSequence
<1>2. PICK B : t \in Seq(B)
  BY DEF IsSequence
<1>. DEFINE U == A \cup B
<1>3. p \in Seq(U) /\ t \in Seq(U)
  <2>1. A \subseteq U /\ B \subseteq U
    OBVIOUS
  <2>. HIDE DEF U
  <2>. QED
    BY <1>1, <1>2, <2>1, SeqOfLarger
<1>. HIDE DEF U
<1>4. p \o t \in Seq(U)
  BY <1>3
<1>5. IRFold!Fold(s, p \o t) = IRFold!Fold(IRFold!Fold(s, p), t)
  BY <1>3, IRFold!FoldConcat
<1>. QED
  BY <1>4, <1>5 DEF IsSequence

LEMMA AgreesOnce ==
  ASSUME NEW p, NEW g, NEW s, NEW a, NEW R, NEW C, Agrees(p, g, s, a, R, C),
         NEW inst, Runnable(inst, R, C), Lifts(inst, a)
  PROVE  Agrees(LiftInst(p, inst), GuestStep(g, inst), s, a, R, C)
<1>. DEFINE n == Len(p)
            t == LiftOp(inst, n)
            start == Running(<<>>, s.x, s.mem, a)
            end == GuestStep(g, inst)
<1>1. n \in Nat /\ inst.op \in LiftedOps \cup {"AUIPC"}
  BY DEF Agrees, IsSequence, Lifts
<1>2. IsSequence(p) /\ IsSequence(t) /\ GuestTyped(g, R, C)
  BY <1>1, LiftedIsSequence DEF Agrees
<1>3. /\ IsSequence(p \o t)
      /\ IRFold!Fold(start, p \o t) = IRFold!Fold(IRFold!Fold(start, p), t)
  BY <1>2, OneMore
<1>4. PICK e : IRFold!Fold(start, p) = Running(e, g.x, g.mem, a)
  BY DEF Agrees
<1>5. Operable(g, inst)
  <2>1. g.x[inst.rs1] \in Word /\ g.x[inst.rs2] \in Word
    BY <1>2 DEF GuestTyped, Runnable
  <2>2. ASSUME inst.op = "LWU"
        PROVE  Load(g.mem, "I32", g.x[inst.rs1] + inst.imm) \in Half
    <3>1. g.mem \in [Word -> Half] /\ inst.imm \in Int
      BY <1>2, <2>2 DEF GuestTyped, Runnable, Loads
    <3>2. g.x[inst.rs1] \in Int
      BY <2>1, Widths
    <3>3. g.x[inst.rs1] + inst.imm \in Int
      BY <3>1, <3>2
    <3>. QED
      BY <3>1, <3>3, LoadTyped
  <2>. QED
    BY <2>1, <2>2 DEF Operable
<1>6. RendersAt(t, inst, a)
  BY <1>1, LiftRenders DEF Runnable
<1>7. PICK f : IRFold!Fold(Running(e, g.x, g.mem, a), t)
                 = Running(f, end.x, end.mem, a)
  <2>. HIDE DEF n, t
  <2>. QED
    BY <1>5, <1>6 DEF RendersAt
<1>8. GuestTyped(end, R, C)
  BY <1>1, <1>2, GuestStepTyped
<1>9. LiftInst(p, inst) = p \o t
  BY DEF LiftInst
<1>. HIDE DEF n, t, start, end
<1>10. IRFold!Fold(start, p \o t) = Running(f, end.x, end.mem, a)
  BY <1>3, <1>4, <1>7
<1>. QED
  BY <1>3, <1>8, <1>9, <1>10 DEF Agrees, start, end

\* The instructions of a block at a: lifted, and run.
AllRunnable(insts, a, R, C) ==
  \A k \in 1 .. Len(insts) : Runnable(insts[k], R, C) /\ Lifts(insts[k], a)

LEMMA PrefixesAgree ==
  ASSUME NEW R, NEW C, NEW I, NEW insts \in Seq(I), NEW a, AllRunnable(insts, a, R, C),
         NEW s, GuestTyped(s, R, C), NEW l, NEW g,
         LiftFold!IsRun(l, <<>>, insts), GuestFold!IsRun(g, s, insts)
  PROVE  \A k \in 0 .. Len(insts) : Agrees(l[k], g[k], s, a, R, C)
<1>. DEFINE T == {k \in Nat : k <= Len(insts) => Agrees(l[k], g[k], s, a, R, C)}
<1>0. Len(insts) \in Nat
  OBVIOUS
<1>1. 0 \in T
  <2>1. l[0] = <<>> /\ g[0] = s
    BY DEF LiftFold!IsRun, GuestFold!IsRun
  <2>2. IRFold!Fold(Running(<<>>, s.x, s.mem, a), <<>>) = Running(<<>>, s.x, s.mem, a)
    BY IRFold!FoldEmpty
  <2>3. Agrees(<<>>, s, s, a, R, C)
    BY <2>2, TuplesAreSequences DEF Agrees
  <2>. QED
    BY <2>1, <2>3
<1>2. ASSUME NEW k \in Nat, k \in T
      PROVE  k + 1 \in T
  <2>1. CASE k + 1 <= Len(insts)
    <3>1. k + 1 \in 1 .. Len(insts) /\ (k + 1) - 1 = k
      BY <1>0, <2>1
    <3>2. Agrees(l[k], g[k], s, a, R, C)
      BY <1>0, <1>2, <2>1
    <3>3. Runnable(insts[k + 1], R, C) /\ Lifts(insts[k + 1], a)
      BY <3>1 DEF AllRunnable
    <3>4. l[k + 1] = LiftInst(l[k], insts[k + 1]) /\ g[k + 1] = GuestStep(g[k], insts[k + 1])
      BY <3>1 DEF LiftFold!IsRun, GuestFold!IsRun
    <3>5. Agrees(l[k + 1], g[k + 1], s, a, R, C)
      BY <3>2, <3>3, <3>4, AgreesOnce
    <3>. QED
      BY <3>5
  <2>. QED
    BY <1>0, <1>2, <2>1
<1>3. Nat \subseteq T
  <2>. HIDE DEF T
  <2>. QED
    BY <1>1, <1>2, NatSetInduction
<1>. QED
  BY <1>0, <1>3

\* A run of the IR of a block, and of its instructions.
RunsTo(ir, h, f, x, m) ==
  IRFold!Fold(Running(<<>>, h.x, h.mem, ir.start), ir.insts)
    = Running(f, x, m, ir.start)

LEMMA RunsOf ==
  ASSUME NEW ir, NEW h, NEW f, NEW x, NEW m, RunsTo(ir, h, f, x, m)
  PROVE  /\ RunIR(ir, h).x = x /\ RunIR(ir, h).mem = m
         /\ RunIR(ir, h).exit =
              ExitOf(ir.term, IF ir.term.kind \in {"CBr", "BrIndirect"}
                              THEN f[ir.term.v] ELSE 0)
<1>1. FoldLeft(IRStep, Running(<<>>, h.x, h.mem, ir.start), ir.insts)
        = Running(f, x, m, ir.start)
  BY IRLoop DEF RunsTo
<1>. QED
  BY <1>1 DEF RunIR, Running

\* A guest s that can run a block with registers in R and memory in C, and a
\* host h with the same registers and memory.
Enters(bb, s, h, R, C) ==
  /\ IsSequence(bb.insts) /\ AllRunnable(bb.insts, bb.start, R, C)
  /\ GuestTyped(s, R, C)
  /\ h.x = s.x /\ h.mem = s.mem

(***************************************************************************)
(* The registers and the memory that the instructions of a block leave are *)
(* those its IR leaves (Lifter.cpp), whatever the words, the registers and *)
(* the memory are.                                                         *)
(***************************************************************************)
THEOREM LiftPreservesRun ==
  ASSUME NEW R, NEW C, NEW bb, NEW s, NEW h, Enters(bb, s, h, R, C)
  PROVE  /\ RunIR(Lift(bb), h).x = RunGuest(bb.insts, s).x
         /\ RunIR(Lift(bb), h).mem = RunGuest(bb.insts, s).mem
         /\ GuestTyped(RunGuest(bb.insts, s), R, C)
<1>. DEFINE insts == bb.insts
            K == Len(insts)
            ir == Lift(bb)
<1>a. /\ AllRunnable(bb.insts, bb.start, R, C) /\ GuestTyped(s, R, C)
      /\ h.x = s.x /\ h.mem = s.mem
  BY DEF Enters
<1>b. PICK I : bb.insts \in Seq(I)
  BY DEF Enters, IsSequence
<1>1. PICK l : LiftFold!IsRun(l, <<>>, insts) /\ LiftFold!Fold(<<>>, insts) = l[K]
  BY <1>b, LiftFold!FoldRun
<1>2. PICK g : GuestFold!IsRun(g, s, insts) /\ GuestFold!Fold(s, insts) = g[K]
  BY <1>b, GuestFold!FoldRun
<1>3. K \in 0 .. K
  BY <1>b
<1>4. ir.insts = l[K] /\ ir.start = bb.start
  BY <1>1, LiftLoop DEF Lift
<1>5. RunGuest(insts, s) = g[K]
  BY <1>2, GuestLoop
<1>6. Agrees(l[K], g[K], s, bb.start, R, C)
  <2>1. \A k \in 0 .. K : Agrees(l[k], g[k], s, bb.start, R, C)
    <3>1. insts \in Seq(I) /\ AllRunnable(insts, bb.start, R, C)
      BY <1>a, <1>b
    <3>. HIDE DEF insts
    <3>. QED
      BY <1>1, <1>2, <1>a, <3>1, PrefixesAgree
  <2>. HIDE DEF K
  <2>. QED
    BY <1>3, <2>1
<1>7. PICK f : IRFold!Fold(Running(<<>>, s.x, s.mem, bb.start), l[K])
                 = Running(f, g[K].x, g[K].mem, bb.start)
  BY <1>6 DEF Agrees
<1>. HIDE DEF insts, K, ir
<1>8. RunsTo(ir, h, f, g[K].x, g[K].mem)
  BY <1>4, <1>7, <1>a DEF RunsTo
<1>9. RunIR(ir, h).x = g[K].x /\ RunIR(ir, h).mem = g[K].mem
  BY <1>8, RunsOf
<1>. QED
  BY <1>5, <1>6, <1>9 DEF Agrees, insts, ir

\* The last comparison of a block that ends in a branch.
LEMMA BranchComparesLast ==
  ASSUME NEW p, IsSequence(p), NEW inst, inst.op \in Branches
  PROVE  LastICmp(p \o LiftBranch(inst, Len(p))) = Len(p) + 2
<1>. DEFINE n == Len(p)
            t == LiftBranch(inst, n)
            q == p \o t
            cmps == {i \in DOMAIN q : q[i].kind = "ICmp"}
<1>1. PICK A : p \in Seq(A)
  BY DEF IsSequence
<1>2. n \in Nat
  BY <1>1
<1>3. Len(t) = 3 /\ t[3].kind = "ICmp" /\ t[3].dest = n + 2
  BY DEF LiftBranch, IRICmp, IRInst
<1>4. PICK B : t \in Seq(B)
  BY TuplesAreSequences DEF LiftBranch, IsSequence
<1>. HIDE DEF n, t
<1>5. Len(q) = n + 3 /\ DOMAIN q = 1 .. n + 3 /\ q[n + 3] = t[3]
  <2>. DEFINE U == A \cup B
  <2>1. p \in Seq(U) /\ t \in Seq(U)
    BY <1>1, <1>4, SeqOfLarger
  <2>2. Len(p) = n
    BY DEF n
  <2>. HIDE DEF U
  <2>3. /\ q \in Seq(U) /\ Len(q) = Len(p) + Len(t)
        /\ \A i \in 1 .. Len(p) + Len(t) :
             q[i] = IF i <= Len(p) THEN p[i] ELSE t[i - Len(p)]
    BY <2>1, ConcatFacts
  <2>. HIDE DEF q
  <2>4. Len(q) = n + 3 /\ DOMAIN q = 1 .. Len(q)
    BY <1>2, <1>3, <2>2, <2>3
  <2>5. q[n + 3] = t[3]
    <3>1. PICK m \in Int : m = n + 3
      BY <1>2
    <3>2. m \in 1 .. Len(p) + Len(t) /\ ~ (m <= Len(p)) /\ m - Len(p) = 3
      BY <1>2, <1>3, <2>2, <3>1
    <3>3. q[m] = t[m - Len(p)]
      BY <2>3, <3>2
    <3>. QED
      BY <3>1, <3>2, <3>3
  <2>. QED
    BY <2>4, <2>5
<1>. HIDE DEF q
<1>6. cmps \in SUBSET (1 .. (n + 2) + 1) /\ (n + 2) + 1 \in cmps
  BY <1>2, <1>3, <1>5
<1>. HIDE DEF cmps
<1>7. Max(cmps) = (n + 2) + 1
  BY <1>2, <1>6, MaxTop
<1>8. cmps # {} /\ (n + 2) + 1 = n + 3
  BY <1>2, <1>6
<1>9. LastICmp(q) = q[n + 3].dest
  BY <1>7, <1>8 DEF LastICmp, cmps
<1>. QED
  BY <1>3, <1>5, <1>9 DEF q, t, n

\* How the blocks of the graph end: where control goes after the last
\* instruction, when it does not leave the program or jump indirectly.
WellEnded(bb) ==
  LET l == bb.insts[Len(bb.insts)]
  IN \/ bb.term = "Branch" /\ l.op \in Branches
          /\ bb.succs = <<Wrap(l.pc + l.imm), Wrap(l.pc + 4)>>
     \/ bb.term = "Jump" /\ l.op = "JAL" /\ bb.succs = <<Wrap(l.pc + l.imm)>>
     \/ bb.term = "Fallthrough" /\ l.op \notin Branches \cup {"JAL", "JALR"}
          /\ bb.succs = <<Wrap(l.pc + 4)>>

(***************************************************************************)
(* The IR of a block that ends in a branch, a jump or by falling through   *)
(* leaves it for where its instructions go: the last comparison is that of *)
(* the branch, and the sides are not swapped (Lifter.cpp, CFG.cpp).        *)
(***************************************************************************)
THEOREM LiftPreservesGoto ==
  ASSUME NEW R, NEW C, NEW bb, NEW s, NEW h, Enters(bb, s, h, R, C),
         bb.insts # <<>>, WellEnded(bb)
  PROVE  /\ RunIR(Lift(bb), h).exit = [kind |-> "goto", pc |-> RunGuest(bb.insts, s).pc]
         /\ RunGuest(bb.insts, s).pc \in {bb.succs[i] : i \in 1 .. Len(bb.succs)}
         /\ Lift(bb).term.kind \in {"Br", "CBr"}
<1>. DEFINE insts == bb.insts
            K == Len(insts)
            inst == insts[K]
            ir == Lift(bb)
<1>a. /\ AllRunnable(bb.insts, bb.start, R, C) /\ GuestTyped(s, R, C)
      /\ h.x = s.x /\ h.mem = s.mem
  BY DEF Enters
<1>b. PICK I : bb.insts \in Seq(I)
  BY DEF Enters, IsSequence
<1>0. K \in Nat \ {0} /\ K \in 1 .. K /\ K - 1 \in 0 .. K /\ K \in 0 .. K
  BY <1>b
<1>1. PICK l : LiftFold!IsRun(l, <<>>, insts) /\ LiftFold!Fold(<<>>, insts) = l[K]
  BY <1>b, LiftFold!FoldRun
<1>2. PICK g : GuestFold!IsRun(g, s, insts) /\ GuestFold!Fold(s, insts) = g[K]
  BY <1>b, GuestFold!FoldRun
<1>. DEFINE p == l[K - 1]
            n == Len(p)
            b == g[K - 1]
<1>3. ir.insts = l[K] /\ ir.start = bb.start /\ ir.term = LiftTerm(bb, l[K])
  BY <1>1, LiftLoop DEF Lift
<1>4. RunGuest(insts, s) = g[K]
  BY <1>2, GuestLoop
<1>5. Agrees(p, b, s, bb.start, R, C) /\ Agrees(l[K], g[K], s, bb.start, R, C)
  <2>1. \A k \in 0 .. K : Agrees(l[k], g[k], s, bb.start, R, C)
    <3>1. insts \in Seq(I) /\ AllRunnable(insts, bb.start, R, C)
      BY <1>a, <1>b
    <3>. HIDE DEF insts
    <3>. QED
      BY <1>1, <1>2, <1>a, <3>1, PrefixesAgree
  <2>. HIDE DEF K
  <2>. QED
    BY <1>0, <2>1
<1>6. l[K] = LiftInst(p, inst) /\ g[K] = GuestStep(b, inst)
  BY <1>0, <1>1, <1>2 DEF LiftFold!IsRun, GuestFold!IsRun
<1>7. Runnable(inst, R, C)
  BY <1>0, <1>a DEF AllRunnable
<1>8. g[K].pc = Target(inst, b)
  BY <1>6, EffectOf
<1>9. \/ bb.term = "Branch" /\ inst.op \in Branches
           /\ bb.succs = <<Wrap(inst.pc + inst.imm), Wrap(inst.pc + 4)>>
      \/ bb.term = "Jump" /\ inst.op = "JAL" /\ bb.succs = <<Wrap(inst.pc + inst.imm)>>
      \/ bb.term = "Fallthrough" /\ inst.op \notin Branches \cup {"JAL", "JALR"}
           /\ bb.succs = <<Wrap(inst.pc + 4)>>
  BY DEF WellEnded
<1>. HIDE DEF insts, K, inst, ir, p, n, b
<1>10. CASE bb.term = "Branch"
  <2>. DEFINE t == Wrap(inst.pc + inst.imm)
              u == Wrap(inst.pc + 4)
              start == Running(<<>>, s.x, s.mem, bb.start)
              q == LiftBranch(inst, n)
  <2>1. inst.op \in Branches /\ bb.succs = <<t, u>>
    BY <1>9, <1>10
  <2>2. l[K] = p \o q
    BY <1>6, <2>1, LiftCases DEF LiftInst, n
  <2>3. n \in Nat /\ IsSequence(p) /\ IsSequence(q)
    <3>1. IsSequence(p)
      BY <1>5 DEF Agrees
    <3>2. n \in Nat
      BY <3>1 DEF IsSequence, n
    <3>3. IsSequence(q)
      BY TuplesAreSequences DEF LiftBranch
    <3>. QED
      BY <3>1, <3>2, <3>3
  <2>4. PICK e : IRFold!Fold(start, p) = Running(e, b.x, b.mem, bb.start)
    BY <1>5 DEF Agrees
  <2>5. Compared(e, b, bb.start, inst, n)
    BY <2>1, <2>3, BranchRuns
  <2>6. PICK f : /\ IRFold!Fold(Running(e, b.x, b.mem, bb.start), q)
                      = Running(f, g[K].x, g[K].mem, bb.start)
                 /\ f[n + 2] = Flag(b, inst)
    <3>. HIDE DEF q
    <3>. QED
      BY <1>6, <2>5 DEF Compared, q
  <2>. HIDE DEF q, start, t, u
  <2>7. IRFold!Fold(start, l[K]) = Running(f, g[K].x, g[K].mem, bb.start)
    BY <2>2, <2>3, <2>4, <2>6, OneMore
  <2>8. LastICmp(l[K]) = n + 2
    BY <2>1, <2>2, <2>3, BranchComparesLast DEF n, q
  <2>9. ir.term = IRTerm("CBr", n + 2, t, u)
    <3>1. Succ(bb, 1) = t /\ Succ(bb, 2) = u
      BY <2>1 DEF Succ
    <3>. QED
      BY <1>3, <1>10, <2>8, <3>1 DEF LiftTerm
  <2>10. RunIR(ir, h).exit = ExitOf(ir.term, f[n + 2])
    <3>1. RunsTo(ir, h, f, g[K].x, g[K].mem)
      BY <1>3, <1>a, <2>7 DEF start, RunsTo
    <3>2. ir.term.kind = "CBr" /\ ir.term.v = n + 2
      BY <2>9 DEF IRTerm
    <3>. QED
      BY <3>1, <3>2, RunsOf
  <2>11. RunIR(ir, h).exit = [kind |-> "goto", pc |-> IF f[n + 2] # 0 THEN t ELSE u]
    BY <2>9, <2>10 DEF ExitOf, IRTerm
  <2>12. g[K].pc = IF f[n + 2] # 0 THEN t ELSE u
    <3>1. inst.op # "JAL" /\ inst.op # "JALR"
      BY <2>1 DEF Branches
    <3>2. g[K].pc = IF Holds(BranchCond(inst.op), b.x[inst.rs1], b.x[inst.rs2])
                    THEN t ELSE u
      BY <1>8, <2>1, <3>1 DEF Target, t, u
    <3>. QED
      BY <2>6, <3>2 DEF Flag
  <2>13. g[K].pc \in {bb.succs[i] : i \in 1 .. Len(bb.succs)}
    <3>1. 1 \in 1 .. Len(bb.succs) /\ 2 \in 1 .. Len(bb.succs)
          /\ bb.succs[1] = t /\ bb.succs[2] = u
      BY <2>1
    <3>. QED
      BY <2>12, <3>1
  <2>14. ir.term.kind = "CBr"
    BY <2>9 DEF IRTerm
  <2>. QED
    BY <1>4, <2>11, <2>12, <2>13, <2>14 DEF ir, insts
<1>11. CASE bb.term \in {"Jump", "Fallthrough"}
  <2>1. bb.succs = <<Target(inst, b)>>
    <3>1. CASE bb.term = "Jump"
      BY <1>9, <3>1 DEF Target, Branches
    <3>2. CASE bb.term = "Fallthrough"
      BY <1>9, <3>2 DEF Target
    <3>. QED
      BY <1>11, <3>1, <3>2
  <2>2. ir.term = IRTerm("Br", 0, Target(inst, b), 0)
    <3>1. Succ(bb, 1) = Target(inst, b)
      BY <2>1 DEF Succ
    <3>. QED
      BY <1>3, <1>11, <3>1 DEF LiftTerm
  <2>3. PICK f : IRFold!Fold(Running(<<>>, s.x, s.mem, bb.start), l[K])
                   = Running(f, g[K].x, g[K].mem, bb.start)
    BY <1>5 DEF Agrees
  <2>4. RunsTo(ir, h, f, g[K].x, g[K].mem)
    BY <1>3, <1>a, <2>3 DEF RunsTo
  <2>5. ir.term.kind = "Br" /\ ir.term.t = Target(inst, b)
    BY <2>2 DEF IRTerm
  <2>6. RunIR(ir, h).exit = ExitOf(ir.term, 0)
    BY <2>4, <2>5, RunsOf
  <2>7. RunIR(ir, h).exit = [kind |-> "goto", pc |-> g[K].pc]
    BY <1>8, <2>5, <2>6 DEF ExitOf
  <2>8. g[K].pc \in {bb.succs[i] : i \in 1 .. Len(bb.succs)}
    <3>1. 1 \in 1 .. Len(bb.succs) /\ bb.succs[1] = g[K].pc
      BY <1>8, <2>1
    <3>. QED
      BY <3>1
  <2>. QED
    BY <1>4, <2>5, <2>7, <2>8 DEF ir, insts
<1>. QED
  BY <1>9, <1>10, <1>11

-----------------------------------------------------------------------------
\* Values are numbered by position.

Defines(I) == I.kind \notin {"WriteReg", "Store"}

\* The values that an instruction of the lifter takes are these.
Uses(I) == {I.args[i] : i \in 1 .. Len(I.args)}

\* The IR t of some instructions, behind n others: a value is numbered by its
\* position, and what is used has been defined before, in t itself.
SSA(t, n) ==
  /\ IsSequence(t)
  /\ \A j \in 1 .. Len(t) :
       /\ t[j].dest = IF Defines(t[j]) THEN n + j - 1 ELSE NoValue
       /\ \A v \in Uses(t[j]) : \E k \in 1 .. j - 1 : Defines(t[k]) /\ v = n + k - 1

\* Elements of one sequence behind another.
LEMMA ElementOfConcat ==
  ASSUME NEW p, IsSequence(p), NEW t, IsSequence(t)
  PROVE  /\ IsSequence(p \o t) /\ Len(p) \in Nat /\ Len(t) \in Nat
         /\ Len(p \o t) = Len(p) + Len(t)
         /\ \A i \in 1 .. Len(p) : (p \o t)[i] = p[i]
         /\ \A i \in 1 .. Len(t) : (p \o t)[Len(p) + i] = t[i]
<1>1. PICK A : p \in Seq(A)
  BY DEF IsSequence
<1>2. PICK B : t \in Seq(B)
  BY DEF IsSequence
<1>. DEFINE U == A \cup B
<1>3. p \in Seq(U) /\ t \in Seq(U)
  <2>1. A \subseteq U /\ B \subseteq U
    OBVIOUS
  <2>. HIDE DEF U
  <2>. QED
    BY <1>1, <1>2, <2>1, SeqOfLarger
<1>. HIDE DEF U
<1>4. /\ p \o t \in Seq(U) /\ Len(p \o t) = Len(p) + Len(t)
      /\ \A i \in 1 .. Len(p) + Len(t) :
           (p \o t)[i] = IF i <= Len(p) THEN p[i] ELSE t[i - Len(p)]
  BY <1>3, ConcatFacts
<1>5. Len(p) \in Nat /\ Len(t) \in Nat
  BY <1>3
<1>6. \A i \in 1 .. Len(p) : (p \o t)[i] = p[i]
  BY <1>4, <1>5
<1>7. ASSUME NEW i \in 1 .. Len(t)
      PROVE  (p \o t)[Len(p) + i] = t[i]
  <2>1. PICK m \in Int : m = Len(p) + i
    BY <1>5
  <2>2. m \in 1 .. Len(p) + Len(t) /\ ~ (m <= Len(p)) /\ m - Len(p) = i
    BY <1>5, <2>1
  <2>3. (p \o t)[m] = t[m - Len(p)]
    BY <1>4, <2>2
  <2>. QED
    BY <2>1, <2>2, <2>3
<1>8. IsSequence(p \o t)
  BY <1>4 DEF IsSequence
<1>. QED
  BY <1>4, <1>5, <1>6, <1>7, <1>8

\* Both in place: a part may use its own values only, so parts may follow.
LEMMA SSAConcat ==
  ASSUME NEW n \in Nat, NEW p, SSA(p, n), NEW t, SSA(t, n + Len(p))
  PROVE  SSA(p \o t, n)
<1>1. IsSequence(p) /\ IsSequence(t)
  BY DEF SSA
<1>. DEFINE q == p \o t
            a == Len(p)
            b == Len(t)
<1>2. /\ IsSequence(q) /\ a \in Nat /\ b \in Nat /\ Len(q) = a + b
      /\ \A i \in 1 .. a : q[i] = p[i]
      /\ \A i \in 1 .. b : q[a + i] = t[i]
  BY <1>1, ElementOfConcat
<1>. HIDE DEF q
<1>3. ASSUME NEW j \in 1 .. Len(q)
      PROVE  /\ q[j].dest = IF Defines(q[j]) THEN n + j - 1 ELSE NoValue
             /\ \A v \in Uses(q[j]) :
                  \E k \in 1 .. j - 1 : Defines(q[k]) /\ v = n + k - 1
  <2>1. CASE j <= a
    <3>1. q[j] = p[j] /\ j \in 1 .. a
      BY <1>2, <2>1
    <3>2. /\ p[j].dest = IF Defines(p[j]) THEN n + j - 1 ELSE NoValue
          /\ \A v \in Uses(p[j]) :
               \E k \in 1 .. j - 1 : Defines(p[k]) /\ v = n + k - 1
      BY <3>1 DEF SSA
    <3>3. \A k \in 1 .. j - 1 : q[k] = p[k]
      BY <1>2, <3>1
    <3>. QED
      BY <3>1, <3>2, <3>3
  <2>2. CASE ~ (j <= a)
    <3>1. PICK i \in 1 .. b : j = a + i
      <4>1. j - a \in 1 .. b /\ j = a + (j - a)
        BY <1>2, <2>2
      <4>. QED
        BY <4>1
    <3>2. /\ t[i].dest = IF Defines(t[i]) THEN (n + a) + i - 1 ELSE NoValue
          /\ \A v \in Uses(t[i]) :
               \E k \in 1 .. i - 1 : Defines(t[k]) /\ v = (n + a) + k - 1
      BY DEF SSA
    <3>3. (n + a) + i - 1 = n + j - 1 /\ q[j] = t[i]
      BY <1>2, <3>1
    <3>4. ASSUME NEW v \in Uses(q[j])
          PROVE  \E k \in 1 .. j - 1 : Defines(q[k]) /\ v = n + k - 1
      <4>1. PICK k \in 1 .. i - 1 : Defines(t[k]) /\ v = (n + a) + k - 1
        BY <3>2, <3>3
      <4>2. /\ a + k \in 1 .. j - 1 /\ n + (a + k) - 1 = (n + a) + k - 1
            /\ q[a + k] = t[k]
        BY <1>2, <3>1
      <4>. QED
        BY <4>1, <4>2
    <3>. QED
      BY <3>2, <3>3, <3>4
  <2>. HIDE DEF a
  <2>. QED
    BY <1>2, <2>1, <2>2
<1>. QED
  BY <1>2, <1>3 DEF SSA, q

\* One instruction more, which uses values of t only.
Fits(I, t, n) ==
  /\ I.dest = IF Defines(I) THEN n + Len(t) ELSE NoValue
  /\ \A v \in Uses(I) : \E k \in 1 .. Len(t) : Defines(t[k]) /\ v = n + k - 1

LEMMA SSAMore ==
  ASSUME NEW n \in Nat, NEW t, SSA(t, n), NEW I, Fits(I, t, n)
  PROVE  SSA(Append(t, I), n)
<1>. DEFINE q == Append(t, I)
            a == Len(t)
<1>1. /\ IsSequence(q) /\ a \in Nat /\ Len(q) = a + 1
      /\ \A i \in 1 .. a : q[i] = t[i]
      /\ q[a + 1] = I
  <2>1. PICK A : t \in Seq(A)
    BY DEF SSA, IsSequence
  <2>. DEFINE U == A \cup {I}
  <2>2. t \in Seq(U) /\ I \in U
    BY <2>1, SeqOfLarger
  <2>. HIDE DEF U
  <2>3. q \in Seq(U) /\ Len(q) = a + 1 /\ q[a + 1] = I /\ a \in Nat
        /\ \A i \in 1 .. a : q[i] = t[i]
    BY <2>2
  <2>. QED
    BY <2>3 DEF IsSequence
<1>2. \A j \in 1 .. a :
        /\ t[j].dest = IF Defines(t[j]) THEN n + j - 1 ELSE NoValue
        /\ \A u \in Uses(t[j]) : \E i \in 1 .. j - 1 : Defines(t[i]) /\ u = n + i - 1
  BY DEF SSA
<1>3. /\ I.dest = IF Defines(I) THEN n + a ELSE NoValue
      /\ \A u \in Uses(I) : \E i \in 1 .. a : Defines(t[i]) /\ u = n + i - 1
  BY DEF Fits
<1>. HIDE DEF q, a
<1>4. ASSUME NEW j \in 1 .. a + 1
      PROVE  /\ q[j].dest = IF Defines(q[j]) THEN n + j - 1 ELSE NoValue
             /\ \A u \in Uses(q[j]) :
                  \E i \in 1 .. j - 1 : Defines(q[i]) /\ u = n + i - 1
  <2>1. CASE j \in 1 .. a
    <3>1. q[j] = t[j] /\ \A i \in 1 .. j - 1 : q[i] = t[i]
      BY <1>1, <2>1
    <3>2. /\ t[j].dest = IF Defines(t[j]) THEN n + j - 1 ELSE NoValue
          /\ \A u \in Uses(t[j]) :
               \E i \in 1 .. j - 1 : Defines(t[i]) /\ u = n + i - 1
      BY <1>2, <2>1
    <3>. QED
      BY <3>1, <3>2
  <2>2. CASE j = a + 1
    <3>1. q[j] = I /\ j - 1 = a /\ n + j - 1 = n + a
      BY <1>1, <2>2
    <3>. QED
      BY <1>1, <1>3, <3>1
  <2>. QED
    BY <1>1, <2>1, <2>2
<1>5. SSA(q, n)
  BY <1>1, <1>4 DEF SSA
<1>. QED
  BY <1>5 DEF q

\* What the instructions the lifter makes define and use.
LEMMA Parts ==
  /\ \A v, c : LET I == IRConst(v, c)
               IN I.dest = v /\ Defines(I) /\ Uses(I) = {}
  /\ \A v, r : LET I == IRReadReg(v, r)
               IN I.dest = v /\ Defines(I) /\ Uses(I) = {}
  /\ \A v : LET I == IRGetPC(v)
            IN I.dest = v /\ Defines(I) /\ Uses(I) = {}
  /\ \A v, o, a, b : LET I == IRBinOp(v, o, a, b)
                     IN I.dest = v /\ Defines(I) /\ Uses(I) = {a, b}
  /\ \A v, c, a, b : LET I == IRICmp(v, c, a, b)
                     IN I.dest = v /\ Defines(I) /\ Uses(I) = {a, b}
  /\ \A v, y, a : \A k \in {"Trunc", "SExt", "ZExt"} :
       LET I == IRCast(k, v, y, a)
       IN I.dest = v /\ Defines(I) /\ Uses(I) = {a}
  /\ \A v, y, a, o : LET I == IRLoad(v, y, a, o)
                     IN I.dest = v /\ Defines(I) /\ Uses(I) = {a}
  /\ \A y, a, b, o : LET I == IRStore(y, a, b, o)
                     IN I.dest = NoValue /\ ~ Defines(I) /\ Uses(I) = {a, b}
  /\ \A r, a : LET I == IRWriteReg(r, a)
               IN I.dest = NoValue /\ ~ Defines(I) /\ Uses(I) = {a}
<1>. USE DEF IRConst, IRReadReg, IRGetPC, IRBinOp, IRICmp, IRCast, IRLoad, IRStore,
             IRWriteReg, IRInst, Uses, Defines
<1>1. \A I : I.args = <<>> => Uses(I) = {}
  OBVIOUS
<1>2. \A I, a : I.args = <<a>> => Uses(I) = {a}
  OBVIOUS
<1>3. \A I, a, b : I.args = <<a, b>> => Uses(I) = {a, b}
  <2>1. ASSUME NEW I, NEW a, NEW b, I.args = <<a, b>>
        PROVE  \A v : v \in Uses(I) <=> v = a \/ v = b
    <3>1. 1 \in 1 .. Len(I.args) /\ 2 \in 1 .. Len(I.args)
          /\ I.args[1] = a /\ I.args[2] = b /\ \A j \in 1 .. Len(I.args) : j = 1 \/ j = 2
      BY <2>1
    <3>. QED
      BY <3>1
  <2>. HIDE DEF Uses
  <2>. QED
    BY <2>1
<1>. HIDE DEF Uses
<1>. QED
  BY <1>1, <1>2, <1>3

\* Tuples of instructions that fit one after the other.
LEMMA SSATuples ==
  ASSUME NEW n \in Nat
  PROVE  /\ SSA(<<>>, n)
         /\ \A a : Fits(a, <<>>, n) => SSA(<<a>>, n)
         /\ \A a, b : SSA(<<a>>, n) /\ Fits(b, <<a>>, n) => SSA(<<a, b>>, n)
         /\ \A a, b, c : SSA(<<a, b>>, n) /\ Fits(c, <<a, b>>, n) => SSA(<<a, b, c>>, n)
         /\ \A a, b, c, d : SSA(<<a, b, c>>, n) /\ Fits(d, <<a, b, c>>, n)
                              => SSA(<<a, b, c, d>>, n)
         /\ \A a, b, c, d, e : SSA(<<a, b, c, d>>, n) /\ Fits(e, <<a, b, c, d>>, n)
                                 => SSA(<<a, b, c, d, e>>, n)
         /\ \A a, b, c, d, e, f :
              SSA(<<a, b, c, d, e>>, n) /\ Fits(f, <<a, b, c, d, e>>, n)
                => SSA(<<a, b, c, d, e, f>>, n)
<1>1. SSA(<<>>, n)
  BY TuplesAreSequences DEF SSA
<1>2. ASSUME NEW a,
             SSA(<<>>, n), Fits(a, <<>>, n)
      PROVE  SSA(<<a>>, n)
  <2>. DEFINE A == {a}
              t == <<>>
              u == <<a>>
  <2>1. t \in Seq(A) /\ a \in A /\ u = Append(t, a)
    OBVIOUS
  <2>. HIDE DEF A, t, u
  <2>2. SSA(u, n)
    BY <1>2, <2>1, SSAMore DEF t
  <2>. QED
    BY <2>2 DEF u
<1>3. ASSUME NEW a, NEW b,
             SSA(<<a>>, n), Fits(b, <<a>>, n)
      PROVE  SSA(<<a, b>>, n)
  <2>. DEFINE A == {a, b}
              t == <<a>>
              u == <<a, b>>
  <2>1. t \in Seq(A) /\ b \in A /\ u = Append(t, b)
    OBVIOUS
  <2>. HIDE DEF A, t, u
  <2>2. SSA(u, n)
    BY <1>3, <2>1, SSAMore DEF t
  <2>. QED
    BY <2>2 DEF u
<1>4. ASSUME NEW a, NEW b, NEW c,
             SSA(<<a, b>>, n), Fits(c, <<a, b>>, n)
      PROVE  SSA(<<a, b, c>>, n)
  <2>. DEFINE A == {a, b, c}
              t == <<a, b>>
              u == <<a, b, c>>
  <2>1. t \in Seq(A) /\ c \in A /\ u = Append(t, c)
    OBVIOUS
  <2>. HIDE DEF A, t, u
  <2>2. SSA(u, n)
    BY <1>4, <2>1, SSAMore DEF t
  <2>. QED
    BY <2>2 DEF u
<1>5. ASSUME NEW a, NEW b, NEW c, NEW d,
             SSA(<<a, b, c>>, n), Fits(d, <<a, b, c>>, n)
      PROVE  SSA(<<a, b, c, d>>, n)
  <2>. DEFINE A == {a, b, c, d}
              t == <<a, b, c>>
              u == <<a, b, c, d>>
  <2>1. t \in Seq(A) /\ d \in A /\ u = Append(t, d)
    OBVIOUS
  <2>. HIDE DEF A, t, u
  <2>2. SSA(u, n)
    BY <1>5, <2>1, SSAMore DEF t
  <2>. QED
    BY <2>2 DEF u
<1>6. ASSUME NEW a, NEW b, NEW c, NEW d, NEW e,
             SSA(<<a, b, c, d>>, n), Fits(e, <<a, b, c, d>>, n)
      PROVE  SSA(<<a, b, c, d, e>>, n)
  <2>. DEFINE A == {a, b, c, d, e}
              t == <<a, b, c, d>>
              u == <<a, b, c, d, e>>
  <2>1. t \in Seq(A) /\ e \in A /\ u = Append(t, e)
    OBVIOUS
  <2>. HIDE DEF A, t, u
  <2>2. SSA(u, n)
    BY <1>6, <2>1, SSAMore DEF t
  <2>. QED
    BY <2>2 DEF u
<1>7. ASSUME NEW a, NEW b, NEW c, NEW d, NEW e, NEW f,
             SSA(<<a, b, c, d, e>>, n), Fits(f, <<a, b, c, d, e>>, n)
      PROVE  SSA(<<a, b, c, d, e, f>>, n)
  <2>. DEFINE A == {a, b, c, d, e, f}
              t == <<a, b, c, d, e>>
              u == <<a, b, c, d, e, f>>
  <2>1. t \in Seq(A) /\ f \in A /\ u = Append(t, f)
    OBVIOUS
  <2>. HIDE DEF A, t, u
  <2>2. SSA(u, n)
    BY <1>7, <2>1, SSAMore DEF t
  <2>. QED
    BY <2>2 DEF u
<1>. QED
  BY <1>1, <1>2, <1>3, <1>4, <1>5, <1>6, <1>7

\* A write of the value of t at k.
LEMMA SSAWrite ==
  ASSUME NEW n \in Nat, NEW t, SSA(t, n), NEW rd, NEW k \in 1 .. Len(t), Defines(t[k]),
         NEW v, v = n + k - 1
  PROVE  SSA(t \o WriteReg(rd, v), n)
<1>. DEFINE w == IRWriteReg(rd, v)
<1>1. Fits(w, t, n)
  <2>1. w.dest = NoValue /\ ~ Defines(w) /\ Uses(w) = {v}
    BY Parts
  <2>. HIDE DEF w
  <2>. QED
    BY <2>1 DEF Fits
<1>2. SSA(Append(t, w), n)
  <2>. HIDE DEF w
  <2>. QED
    BY <1>1, SSAMore
<1>3. WriteReg(rd, v) = IF rd = 0 THEN <<>> ELSE <<w>>
  BY DEF WriteReg
<1>4. t \o <<>> = t /\ t \o <<w>> = Append(t, w)
  <2>1. PICK A : t \in Seq(A)
    BY DEF SSA, IsSequence
  <2>. HIDE DEF w
  <2>. QED
    BY <2>1
<1>. HIDE DEF w
<1>. QED
  BY <1>2, <1>3, <1>4

\* What an instruction is lifted to uses values of its own, defined before.
LEMMA LiftedSSA ==
  ASSUME NEW inst, NEW n \in Nat
  PROVE  SSA(LiftOp(inst, n), n)
<1>1. SSA(LiftImmediate(inst, n), n)
  <2>. DEFINE i == IRReadReg(n, inst.rs1)
              j == IRConst(n + 1, Wrap(inst.imm))
              k == IRBinOp(n + 2, BinOpOf[inst.op], n, n + 1)
  <2>1. /\ i.dest = n /\ Defines(i) /\ Uses(i) = {}
        /\ j.dest = n + 1 /\ Defines(j) /\ Uses(j) = {}
        /\ k.dest = n + 2 /\ Defines(k) /\ Uses(k) = {n, n + 1}
    BY Parts
  <2>. HIDE DEF i, j, k
  <2>2. Fits(i, <<>>, n)
    BY <2>1 DEF Fits
  <2>3. Fits(j, <<i>>, n)
    BY <2>1 DEF Fits
  <2>4. Fits(k, <<i, j>>, n)
    BY <2>1 DEF Fits
  <2>5. SSA(<<i, j, k>>, n)
    BY <2>2, <2>3, <2>4, SSATuples
  <2>6. SSA(<<i, j, k>> \o WriteReg(inst.rd, n + 2), n)
    <3>1. 3 \in 1 .. Len(<<i, j, k>>) /\ <<i, j, k>>[3] = k /\ n + 2 = n + 3 - 1
      OBVIOUS
    <3>. QED
      BY <2>1, <2>5, <3>1, SSAWrite
  <2>. QED
    BY <2>6 DEF LiftImmediate, i, j, k
<1>2. SSA(LiftRegister(inst, n), n)
  <2>. DEFINE i == IRReadReg(n, inst.rs1)
              j == IRReadReg(n + 1, inst.rs2)
              k == IRBinOp(n + 2, BinOpOf[inst.op], n, n + 1)
  <2>1. /\ i.dest = n /\ Defines(i) /\ Uses(i) = {}
        /\ j.dest = n + 1 /\ Defines(j) /\ Uses(j) = {}
        /\ k.dest = n + 2 /\ Defines(k) /\ Uses(k) = {n, n + 1}
    BY Parts
  <2>. HIDE DEF i, j, k
  <2>2. Fits(i, <<>>, n)
    BY <2>1 DEF Fits
  <2>3. Fits(j, <<i>>, n)
    BY <2>1 DEF Fits
  <2>4. Fits(k, <<i, j>>, n)
    BY <2>1 DEF Fits
  <2>5. SSA(<<i, j, k>>, n)
    BY <2>2, <2>3, <2>4, SSATuples
  <2>6. SSA(<<i, j, k>> \o WriteReg(inst.rd, n + 2), n)
    <3>1. 3 \in 1 .. Len(<<i, j, k>>) /\ <<i, j, k>>[3] = k /\ n + 2 = n + 3 - 1
      OBVIOUS
    <3>. QED
      BY <2>1, <2>5, <3>1, SSAWrite
  <2>. QED
    BY <2>6 DEF LiftRegister, i, j, k
<1>3. SSA(LiftAddWord(inst, n), n)
  <2>. DEFINE i == IRReadReg(n, inst.rs1)
              j == IF inst.op = "ADDIW" THEN IRConst(n + 1, Wrap(inst.imm))
                                    ELSE IRReadReg(n + 1, inst.rs2)
              k == IRBinOp(n + 2, "Add", n, n + 1)
              l == IRCast("Trunc", n + 3, "I32", n + 2)
              o == IRCast("SExt", n + 4, "I64", n + 3)
  <2>1. /\ i.dest = n /\ Defines(i) /\ Uses(i) = {}
        /\ j.dest = n + 1 /\ Defines(j) /\ Uses(j) = {}
        /\ k.dest = n + 2 /\ Defines(k) /\ Uses(k) = {n, n + 1}
        /\ l.dest = n + 3 /\ Defines(l) /\ Uses(l) = {n + 2}
        /\ o.dest = n + 4 /\ Defines(o) /\ Uses(o) = {n + 3}
    BY Parts
  <2>. HIDE DEF i, j, k, l, o
  <2>2. Fits(i, <<>>, n)
    BY <2>1 DEF Fits
  <2>3. Fits(j, <<i>>, n)
    BY <2>1 DEF Fits
  <2>4. Fits(k, <<i, j>>, n)
    BY <2>1 DEF Fits
  <2>5. Fits(l, <<i, j, k>>, n)
    BY <2>1 DEF Fits
  <2>6. Fits(o, <<i, j, k, l>>, n)
    BY <2>1 DEF Fits
  <2>7. SSA(<<i, j, k, l, o>>, n)
    BY <2>2, <2>3, <2>4, <2>5, <2>6, SSATuples
  <2>8. SSA(<<i, j, k, l, o>> \o WriteReg(inst.rd, n + 4), n)
    <3>1. 5 \in 1 .. Len(<<i, j, k, l, o>>) /\ <<i, j, k, l, o>>[5] = o /\ n + 4 = n + 5 - 1
      OBVIOUS
    <3>. QED
      BY <2>1, <2>7, <3>1, SSAWrite
  <2>. QED
    BY <2>8 DEF LiftAddWord, i, j, k, l, o
<1>4. SSA(LiftLoadWord(inst, n), n)
  <2>. DEFINE i == IRReadReg(n, inst.rs1)
              j == IRLoad(n + 1, "I32", n, inst.imm)
              k == IRCast(IF inst.op = "LW" THEN "SExt" ELSE "ZExt", n + 2, "I64", n + 1)
  <2>1. /\ i.dest = n /\ Defines(i) /\ Uses(i) = {}
        /\ j.dest = n + 1 /\ Defines(j) /\ Uses(j) = {n}
        /\ k.dest = n + 2 /\ Defines(k) /\ Uses(k) = {n + 1}
    BY Parts
  <2>. HIDE DEF i, j, k
  <2>2. Fits(i, <<>>, n)
    BY <2>1 DEF Fits
  <2>3. Fits(j, <<i>>, n)
    BY <2>1 DEF Fits
  <2>4. Fits(k, <<i, j>>, n)
    BY <2>1 DEF Fits
  <2>5. SSA(<<i, j, k>>, n)
    BY <2>2, <2>3, <2>4, SSATuples
  <2>6. SSA(<<i, j, k>> \o WriteReg(inst.rd, n + 2), n)
    <3>1. 3 \in 1 .. Len(<<i, j, k>>) /\ <<i, j, k>>[3] = k /\ n + 2 = n + 3 - 1
      OBVIOUS
    <3>. QED
      BY <2>1, <2>5, <3>1, SSAWrite
  <2>. QED
    BY <2>6 DEF LiftLoadWord, i, j, k
<1>5. SSA(LiftLoadDouble(inst, n), n)
  <2>. DEFINE i == IRReadReg(n, inst.rs1)
              j == IRLoad(n + 1, "I64", n, inst.imm)
  <2>1. /\ i.dest = n /\ Defines(i) /\ Uses(i) = {}
        /\ j.dest = n + 1 /\ Defines(j) /\ Uses(j) = {n}
    BY Parts
  <2>. HIDE DEF i, j
  <2>2. Fits(i, <<>>, n)
    BY <2>1 DEF Fits
  <2>3. Fits(j, <<i>>, n)
    BY <2>1 DEF Fits
  <2>4. SSA(<<i, j>>, n)
    BY <2>2, <2>3, SSATuples
  <2>5. SSA(<<i, j>> \o WriteReg(inst.rd, n + 1), n)
    <3>1. 2 \in 1 .. Len(<<i, j>>) /\ <<i, j>>[2] = j /\ n + 1 = n + 2 - 1
      OBVIOUS
    <3>. QED
      BY <2>1, <2>4, <3>1, SSAWrite
  <2>. QED
    BY <2>5 DEF LiftLoadDouble, i, j
<1>6. SSA(LiftStore(inst, n), n)
  <2>. DEFINE i == IRReadReg(n, inst.rs1)
              j == IRReadReg(n + 1, inst.rs2)
              k == IRStore(IF inst.op = "SW" THEN "I32" ELSE "I64", n + 1, n, inst.imm)
  <2>1. /\ i.dest = n /\ Defines(i) /\ Uses(i) = {}
        /\ j.dest = n + 1 /\ Defines(j) /\ Uses(j) = {}
        /\ k.dest = NoValue /\ ~ Defines(k) /\ Uses(k) = {n + 1, n}
    BY Parts
  <2>. HIDE DEF i, j, k
  <2>2. Fits(i, <<>>, n)
    BY <2>1 DEF Fits
  <2>3. Fits(j, <<i>>, n)
    BY <2>1 DEF Fits
  <2>4. Fits(k, <<i, j>>, n)
    BY <2>1 DEF Fits
  <2>5. SSA(<<i, j, k>>, n)
    BY <2>2, <2>3, <2>4, SSATuples
  <2>. QED
    BY <2>5 DEF LiftStore, i, j, k
<1>7. SSA(LiftBranch(inst, n), n)
  <2>. DEFINE i == IRReadReg(n, inst.rs1)
              j == IRReadReg(n + 1, inst.rs2)
              k == IRICmp(n + 2, CondOf[inst.op], n, n + 1)
  <2>1. /\ i.dest = n /\ Defines(i) /\ Uses(i) = {}
        /\ j.dest = n + 1 /\ Defines(j) /\ Uses(j) = {}
        /\ k.dest = n + 2 /\ Defines(k) /\ Uses(k) = {n, n + 1}
    BY Parts
  <2>. HIDE DEF i, j, k
  <2>2. Fits(i, <<>>, n)
    BY <2>1 DEF Fits
  <2>3. Fits(j, <<i>>, n)
    BY <2>1 DEF Fits
  <2>4. Fits(k, <<i, j>>, n)
    BY <2>1 DEF Fits
  <2>5. SSA(<<i, j, k>>, n)
    BY <2>2, <2>3, <2>4, SSATuples
  <2>. QED
    BY <2>5 DEF LiftBranch, i, j, k
<1>8. SSA(LiftAuipc(inst, n), n)
  <2>. DEFINE i == IRGetPC(n)
              j == IRConst(n + 1, Wrap(inst.imm))
              k == IRBinOp(n + 2, "Add", n, n + 1)
  <2>1. /\ i.dest = n /\ Defines(i) /\ Uses(i) = {}
        /\ j.dest = n + 1 /\ Defines(j) /\ Uses(j) = {}
        /\ k.dest = n + 2 /\ Defines(k) /\ Uses(k) = {n, n + 1}
    BY Parts
  <2>. HIDE DEF i, j, k
  <2>2. Fits(i, <<>>, n)
    BY <2>1 DEF Fits
  <2>3. Fits(j, <<i>>, n)
    BY <2>1 DEF Fits
  <2>4. Fits(k, <<i, j>>, n)
    BY <2>1 DEF Fits
  <2>5. SSA(<<i, j, k>>, n)
    BY <2>2, <2>3, <2>4, SSATuples
  <2>6. SSA(<<i, j, k>> \o WriteReg(inst.rd, n + 2), n)
    <3>1. 3 \in 1 .. Len(<<i, j, k>>) /\ <<i, j, k>>[3] = k /\ n + 2 = n + 3 - 1
      OBVIOUS
    <3>. QED
      BY <2>1, <2>5, <3>1, SSAWrite
  <2>. QED
    BY <2>6 DEF LiftAuipc, i, j, k
<1>9. SSA(LiftJal(inst, n), n)
  <2>. DEFINE i == IRConst(n, Wrap(inst.pc + 4))
  <2>1. /\ i.dest = n /\ Defines(i) /\ Uses(i) = {}
    BY Parts
  <2>. HIDE DEF i
  <2>2. Fits(i, <<>>, n)
    BY <2>1 DEF Fits
  <2>3. SSA(<<i>>, n)
    BY <2>2, SSATuples
  <2>4. SSA(<<i>> \o WriteReg(inst.rd, n), n)
    <3>1. 1 \in 1 .. Len(<<i>>) /\ <<i>>[1] = i /\ n = n + 1 - 1
      OBVIOUS
    <3>. QED
      BY <2>1, <2>3, <3>1, SSAWrite
  <2>. QED
    BY <2>4 DEF LiftJal, i
<1>10. SSA(LiftJalr(inst, n), n)
  <2>. DEFINE i == IRReadReg(n, inst.rs1)
              j == IRConst(n + 1, Wrap(inst.imm))
              k == IRBinOp(n + 2, "Add", n, n + 1)
              l == IRConst(n + 3, Wrap(-2))
              o == IRBinOp(n + 4, "And", n + 2, n + 3)
              p == IRConst(n + 5, Wrap(inst.pc + 4))
  <2>1. /\ i.dest = n /\ Defines(i) /\ Uses(i) = {}
        /\ j.dest = n + 1 /\ Defines(j) /\ Uses(j) = {}
        /\ k.dest = n + 2 /\ Defines(k) /\ Uses(k) = {n, n + 1}
        /\ l.dest = n + 3 /\ Defines(l) /\ Uses(l) = {}
        /\ o.dest = n + 4 /\ Defines(o) /\ Uses(o) = {n + 2, n + 3}
        /\ p.dest = n + 5 /\ Defines(p) /\ Uses(p) = {}
    BY Parts
  <2>. HIDE DEF i, j, k, l, o, p
  <2>2. Fits(i, <<>>, n)
    BY <2>1 DEF Fits
  <2>3. Fits(j, <<i>>, n)
    BY <2>1 DEF Fits
  <2>4. Fits(k, <<i, j>>, n)
    BY <2>1 DEF Fits
  <2>5. Fits(l, <<i, j, k>>, n)
    BY <2>1 DEF Fits
  <2>6. Fits(o, <<i, j, k, l>>, n)
    BY <2>1 DEF Fits
  <2>7. Fits(p, <<i, j, k, l, o>>, n)
    BY <2>1 DEF Fits
  <2>8. SSA(<<i, j, k, l, o, p>>, n)
    BY <2>2, <2>3, <2>4, <2>5, <2>6, <2>7, SSATuples
  <2>9. SSA(<<i, j, k, l, o, p>> \o WriteReg(inst.rd, n + 5), n)
    <3>1. 6 \in 1 .. Len(<<i, j, k, l, o, p>>) /\ <<i, j, k, l, o, p>>[6] = p /\ n + 5 = n + 6 - 1
      OBVIOUS
    <3>. QED
      BY <2>1, <2>8, <3>1, SSAWrite
  <2>. QED
    BY <2>9 DEF LiftJalr, i, j, k, l, o, p
<1>11. LiftOp(inst, n) \in
         {LiftImmediate(inst, n), LiftRegister(inst, n), LiftAddWord(inst, n),
          LiftLoadWord(inst, n), LiftLoadDouble(inst, n), LiftStore(inst, n),
          LiftBranch(inst, n), LiftAuipc(inst, n), LiftJal(inst, n),
          LiftJalr(inst, n), <<>>}
  BY DEF LiftOp
<1>12. SSA(<<>>, n)
  BY SSATuples
<1>. QED
  BY <1>1, <1>2, <1>3, <1>4, <1>5, <1>6, <1>7, <1>8, <1>9, <1>10, <1>11, <1>12

\* The IR of every block is in the form of single assignments.
LEMMA BlockSSA ==
  ASSUME NEW bb, IsSequence(bb.insts)
  PROVE  SSA(Lift(bb).insts, 0)
<1>1. PICK I : bb.insts \in Seq(I)
  BY DEF IsSequence
<1>2. PICK l : /\ LiftFold!IsRun(l, <<>>, bb.insts)
               /\ LiftFold!Fold(<<>>, bb.insts) = l[Len(bb.insts)]
  BY <1>1, LiftFold!FoldRun
<1>3. Len(bb.insts) \in Nat
  BY <1>1
<1>. DEFINE T == {k \in Nat : k <= Len(bb.insts) => SSA(l[k], 0)}
<1>4. 0 \in T
  BY <1>2, SSATuples DEF LiftFold!IsRun
<1>5. ASSUME NEW k \in Nat, k \in T
      PROVE  k + 1 \in T
  <2>1. CASE k + 1 <= Len(bb.insts)
    <3>1. k + 1 \in 1 .. Len(bb.insts) /\ (k + 1) - 1 = k
      BY <1>3, <2>1
    <3>2. SSA(l[k], 0)
      BY <1>3, <1>5, <2>1
    <3>. DEFINE i == bb.insts[k + 1]
                p == l[k]
    <3>3. l[k + 1] = LiftInst(p, i)
      BY <1>2, <3>1 DEF LiftFold!IsRun
    <3>. HIDE DEF i, p
    <3>4. Len(p) \in Nat
      BY <3>2 DEF SSA, IsSequence, p
    <3>5. SSA(LiftOp(i, Len(p)), 0 + Len(p))
      BY <3>4, LiftedSSA
    <3>6. SSA(p \o LiftOp(i, Len(p)), 0)
      BY <3>2, <3>5, SSAConcat DEF p
    <3>7. SSA(l[k + 1], 0)
      BY <3>3, <3>6 DEF LiftInst
    <3>8. k + 1 \in Nat
      OBVIOUS
    <3>. QED
      BY <3>7, <3>8
  <2>. QED
    BY <1>3, <1>5, <2>1
<1>6. Nat \subseteq T
  <2>. HIDE DEF T
  <2>. QED
    BY <1>4, <1>5, NatSetInduction
<1>7. Lift(bb).insts = l[Len(bb.insts)]
  BY <1>2, LiftLoop DEF Lift
<1>. QED
  BY <1>3, <1>6, <1>7

-----------------------------------------------------------------------------
\* Where an indirect jump goes.

\* After k steps of a run r of IR t in a block at a, each value that t has
\* defined is what it was when it was defined.
Settled(r, t, k, a) ==
  \E e, x, m : /\ r[k] = Running(e, x, m, a)
               /\ \A j \in 1 .. k : Defines(t[j]) =>
                    j - 1 \in DOMAIN e /\ e[j - 1] = IRValue(r[j - 1], t[j])

\* One instruction of IR, by what it defines.
LEMMA IRStepOf ==
  ASSUME NEW e, NEW x, NEW m, NEW a, NEW I
  PROVE  \/ Defines(I) /\ IRStep(Running(e, x, m, a), I)
                            = Running(Bind(e, I.dest, IRValue(Running(e, x, m, a), I)), x, m, a)
         \/ ~ Defines(I) /\ \E y, n : IRStep(Running(e, x, m, a), I) = Running(e, y, n, a)
<1>. DEFINE s == Running(e, x, m, a)
<1>1. IRDefine(s, I) = Running(Bind(e, I.dest, IRValue(s, I)), x, m, a)
  <2>1. \A v : [s EXCEPT !.env = v] = Running(v, x, m, a)
    BY DEF Running
  <2>2. s.env = e
    BY DEF Running
  <2>. HIDE DEF s
  <2>. QED
    BY <2>1, <2>2 DEF IRDefine
<1>2. IRWrite(s, I) = Running(e, [x EXCEPT ![I.reg] = e[I.args[1]]], m, a)
  BY DEF IRWrite, Running
<1>3. IRToMemory(s, I)
        = Running(e, x, Store(m, I.what, e[I.args[2]] + I.imm, e[I.args[1]]), a)
  BY DEF IRToMemory, Running
<1>. HIDE DEF s
<1>4. \/ Defines(I) /\ IRStep(s, I) = IRDefine(s, I)
      \/ ~ Defines(I) /\ IRStep(s, I) = IRWrite(s, I)
      \/ ~ Defines(I) /\ IRStep(s, I) = IRToMemory(s, I)
  BY DEF IRStep, Defines
<1>. QED
  BY <1>1, <1>2, <1>3, <1>4 DEF s

LEMMA SettledOnce ==
  ASSUME NEW t, SSA(t, 0), NEW r, NEW a, NEW k \in Nat, k + 1 <= Len(t),
         Settled(r, t, k, a), r[k + 1] = IRStep(r[k], t[k + 1])
  PROVE  Settled(r, t, k + 1, a)
<1>. DEFINE I == t[k + 1]
<1>1. PICK e, x, m : /\ r[k] = Running(e, x, m, a)
                     /\ \A j \in 1 .. k : Defines(t[j]) =>
                          j - 1 \in DOMAIN e /\ e[j - 1] = IRValue(r[j - 1], t[j])
  BY DEF Settled
<1>2. Defines(I) => I.dest = k
  <2>1. Len(t) \in Nat
    BY DEF SSA, IsSequence
  <2>2. k + 1 \in 1 .. Len(t) /\ 0 + (k + 1) - 1 = k
    BY <2>1
  <2>. QED
    BY <2>2 DEF SSA
<1>3. \A j \in 1 .. k + 1 : j \in 1 .. k \/ (j = k + 1 /\ j - 1 = k)
  OBVIOUS
<1>4. CASE Defines(I)
  <2>. DEFINE v == IRValue(r[k], I)
              f == Bind(e, k, v)
  <2>1. r[k + 1] = Running(f, x, m, a)
    BY <1>1, <1>2, <1>4, IRStepOf
  <2>2. ASSUME NEW j \in 1 .. k, Defines(t[j])
        PROVE  j - 1 \in DOMAIN f /\ f[j - 1] = IRValue(r[j - 1], t[j])
    <3>1. j - 1 # k
      OBVIOUS
    <3>2. j - 1 \in DOMAIN e /\ e[j - 1] = IRValue(r[j - 1], t[j])
      BY <1>1, <2>2
    <3>. QED
      BY <3>1, <3>2 DEF Bind
  <2>3. k \in DOMAIN f /\ f[k] = v
    BY BindSame
  <2>. HIDE DEF f
  <2>4. \A j \in 1 .. k + 1 : Defines(t[j]) =>
          j - 1 \in DOMAIN f /\ f[j - 1] = IRValue(r[j - 1], t[j])
    BY <1>3, <2>2, <2>3
  <2>. QED
    BY <2>1, <2>4 DEF Settled
<1>5. CASE ~ Defines(I)
  <2>1. PICK y, n : r[k + 1] = Running(e, y, n, a)
    BY <1>1, <1>5, IRStepOf
  <2>2. \A j \in 1 .. k + 1 : Defines(t[j]) =>
          j - 1 \in DOMAIN e /\ e[j - 1] = IRValue(r[j - 1], t[j])
    BY <1>1, <1>3, <1>5
  <2>. QED
    BY <2>1, <2>2 DEF Settled
<1>. QED
  BY <1>4, <1>5

\* A value keeps what it was defined as.
LEMMA ValuesSettle ==
  ASSUME NEW t, SSA(t, 0), NEW r, NEW x, NEW m, NEW a,
         IRFold!IsRun(r, Running(<<>>, x, m, a), t)
  PROVE  \A k \in 0 .. Len(t) : Settled(r, t, k, a)
<1>. DEFINE T == {k \in Nat : k <= Len(t) => Settled(r, t, k, a)}
<1>0. Len(t) \in Nat
  BY DEF SSA, IsSequence
<1>1. 0 \in T
  <2>1. r[0] = Running(<<>>, x, m, a)
    BY DEF IRFold!IsRun
  <2>2. \A j \in 1 .. 0 : FALSE
    OBVIOUS
  <2>. QED
    BY <2>1, <2>2 DEF Settled
<1>2. ASSUME NEW k \in Nat, k \in T
      PROVE  k + 1 \in T
  <2>1. CASE k + 1 <= Len(t)
    <3>1. k + 1 \in 1 .. Len(t) /\ (k + 1) - 1 = k
      BY <1>0, <2>1
    <3>2. Settled(r, t, k, a)
      BY <1>0, <1>2, <2>1
    <3>3. r[k + 1] = IRStep(r[k], t[k + 1])
      BY <3>1 DEF IRFold!IsRun
    <3>. QED
      BY <2>1, <3>2, <3>3, SettledOnce
  <2>. QED
    BY <1>0, <1>2, <2>1
<1>3. Nat \subseteq T
  <2>. HIDE DEF T
  <2>. QED
    BY <1>1, <1>2, NatSetInduction
<1>. QED
  BY <1>0, <1>3

\* The first IR instruction of a block reads a register or is a constant.
Leads(I, R) ==
  /\ Defines(I)
  /\ \/ I.kind = "ReadReg" /\ I.reg \in R
     \/ I.kind = "Const" /\ I.imm \in Word
     \/ I.kind = "GetPC"

LEMMA LiftedLeads ==
  ASSUME NEW R, NEW C, NEW inst, Runnable(inst, R, C), NEW a, NEW n \in Nat
  PROVE  \/ LiftOp(inst, n) = <<>>
         \/ Len(LiftOp(inst, n)) \in Nat \ {0} /\ Leads(LiftOp(inst, n)[1], R)
<1>. DEFINE W == WriteReg(inst.rd, n)
<1>1. /\ Leads(IRReadReg(n, inst.rs1), R)
      /\ Leads(IRGetPC(n), R)
      /\ Leads(IRConst(n, Wrap(inst.pc + 4)), R)
  <2>1. inst.rs1 \in R /\ Wrap(inst.pc + 4) \in Word
    BY Widths DEF Runnable
  <2>. QED
    BY <2>1 DEF Leads, Defines, IRReadReg, IRGetPC, IRConst, IRInst
<1>2. \A rd, v : IsSequence(WriteReg(rd, v))
  BY TuplesAreSequences DEF WriteReg
<1>3. ASSUME NEW t, IsSequence(t), Len(t) \in Nat \ {0}, NEW rd, NEW v
      PROVE  /\ Len(t \o WriteReg(rd, v)) \in Nat \ {0}
             /\ (t \o WriteReg(rd, v))[1] = t[1]
  BY <1>2, <1>3, ElementOfConcat
<1>4. ASSUME NEW b, NEW rd, NEW v
      PROVE  /\ Len(<<b>> \o WriteReg(rd, v)) \in Nat \ {0}
             /\ (<<b>> \o WriteReg(rd, v))[1] = b
  <2>1. IsSequence(<<b>>) /\ Len(<<b>>) \in Nat \ {0} /\ <<b>>[1] = b
    BY TuplesAreSequences
  <2>. QED
    BY <1>3, <2>1
<1>5. ASSUME NEW b, NEW c, NEW rd, NEW v
      PROVE  /\ Len(<<b, c>> \o WriteReg(rd, v)) \in Nat \ {0}
             /\ (<<b, c>> \o WriteReg(rd, v))[1] = b
  <2>1. IsSequence(<<b, c>>) /\ Len(<<b, c>>) \in Nat \ {0} /\ <<b, c>>[1] = b
    BY TuplesAreSequences
  <2>. QED
    BY <1>3, <2>1
<1>6. ASSUME NEW b, NEW c, NEW d, NEW rd, NEW v
      PROVE  /\ Len(<<b, c, d>> \o WriteReg(rd, v)) \in Nat \ {0}
             /\ (<<b, c, d>> \o WriteReg(rd, v))[1] = b
  <2>1. IsSequence(<<b, c, d>>) /\ Len(<<b, c, d>>) \in Nat \ {0} /\ <<b, c, d>>[1] = b
    BY TuplesAreSequences
  <2>. QED
    BY <1>3, <2>1
<1>7. ASSUME NEW b, NEW c, NEW d, NEW e, NEW f, NEW rd, NEW v
      PROVE  /\ Len(<<b, c, d, e, f>> \o WriteReg(rd, v)) \in Nat \ {0}
             /\ (<<b, c, d, e, f>> \o WriteReg(rd, v))[1] = b
  <2>1. /\ IsSequence(<<b, c, d, e, f>>) /\ Len(<<b, c, d, e, f>>) \in Nat \ {0}
        /\ <<b, c, d, e, f>>[1] = b
    BY TuplesAreSequences
  <2>. QED
    BY <1>3, <2>1
<1>8. ASSUME NEW b, NEW c, NEW d, NEW e, NEW f, NEW g, NEW rd, NEW v
      PROVE  /\ Len(<<b, c, d, e, f, g>> \o WriteReg(rd, v)) \in Nat \ {0}
             /\ (<<b, c, d, e, f, g>> \o WriteReg(rd, v))[1] = b
  <2>1. /\ IsSequence(<<b, c, d, e, f, g>>) /\ Len(<<b, c, d, e, f, g>>) \in Nat \ {0}
        /\ <<b, c, d, e, f, g>>[1] = b
    BY TuplesAreSequences
  <2>. QED
    BY <1>3, <2>1
<1>. DEFINE Good(t) == Len(t) \in Nat \ {0} /\ Leads(t[1], R)
<1>9. Good(LiftImmediate(inst, n)) /\ Good(LiftRegister(inst, n))
      /\ Good(LiftLoadWord(inst, n)) /\ Good(LiftAuipc(inst, n))
  BY <1>1, <1>6 DEF LiftImmediate, LiftRegister, LiftLoadWord, LiftAuipc
<1>10. Good(LiftAddWord(inst, n))
  BY <1>1, <1>7 DEF LiftAddWord
<1>11. Good(LiftLoadDouble(inst, n))
  BY <1>1, <1>5 DEF LiftLoadDouble
<1>12. Good(LiftStore(inst, n)) /\ Good(LiftBranch(inst, n))
  <2>1. \A b, c, d : Len(<<b, c, d>>) \in Nat \ {0} /\ <<b, c, d>>[1] = b
    OBVIOUS
  <2>. HIDE DEF Leads
  <2>. QED
    BY <1>1, <2>1 DEF LiftStore, LiftBranch
<1>13. Good(LiftJal(inst, n))
  BY <1>1, <1>4 DEF LiftJal
<1>14. Good(LiftJalr(inst, n))
  BY <1>1, <1>8 DEF LiftJalr
<1>15. LiftOp(inst, n) \in
         {LiftImmediate(inst, n), LiftRegister(inst, n), LiftAddWord(inst, n),
          LiftLoadWord(inst, n), LiftLoadDouble(inst, n), LiftStore(inst, n),
          LiftBranch(inst, n), LiftAuipc(inst, n), LiftJal(inst, n),
          LiftJalr(inst, n), <<>>}
  BY DEF LiftOp
<1>. HIDE DEF Good
<1>16. LiftOp(inst, n) = <<>> \/ Good(LiftOp(inst, n))
  BY <1>9, <1>10, <1>11, <1>12, <1>13, <1>14, <1>15
<1>. QED
  BY <1>16 DEF Good

\* So does the IR of the first instructions of a block, if there is any.
LEMMA PrefixLeads ==
  ASSUME NEW R, NEW C, NEW I, NEW insts \in Seq(I), NEW a, AllRunnable(insts, a, R, C),
         NEW l, LiftFold!IsRun(l, <<>>, insts),
         \A k \in 0 .. Len(insts) : IsSequence(l[k])
  PROVE  \A k \in 0 .. Len(insts) : l[k] = <<>> \/ (Len(l[k]) \in Nat \ {0} /\ Leads(l[k][1], R))
<1>. DEFINE Good(t) == Len(t) \in Nat \ {0} /\ Leads(t[1], R)
            T == {k \in Nat : k <= Len(insts) => l[k] = <<>> \/ Good(l[k])}
<1>0. Len(insts) \in Nat
  OBVIOUS
<1>1. 0 \in T
  BY DEF LiftFold!IsRun
<1>2. ASSUME NEW k \in Nat, k \in T, k + 1 <= Len(insts)
      PROVE  l[k + 1] = <<>> \/ Good(l[k + 1])
  <2>. DEFINE p == l[k]
              t == LiftOp(insts[k + 1], Len(p))
  <2>1. k + 1 \in 1 .. Len(insts) /\ (k + 1) - 1 = k /\ k \in 0 .. Len(insts)
    BY <1>0, <1>2
  <2>2. l[k + 1] = p \o t
    BY <2>1 DEF LiftFold!IsRun, LiftInst
  <2>3. IsSequence(p) /\ Len(p) \in Nat
    BY <2>1 DEF IsSequence
  <2>4. Runnable(insts[k + 1], R, C)
    BY <2>1 DEF AllRunnable
  <2>5. t = <<>> \/ Good(t)
    BY <2>3, <2>4, LiftedLeads
  <2>6. IsSequence(t)
    BY <2>3, LiftedSSA DEF SSA
  <2>7. p = <<>> \/ Good(p)
    BY <1>0, <1>2
  <2>. HIDE DEF p, t
  <2>8. /\ Len(p \o t) = Len(p) + Len(t) /\ Len(t) \in Nat
        /\ \A i \in 1 .. Len(p) : (p \o t)[i] = p[i]
        /\ \A i \in 1 .. Len(t) : (p \o t)[Len(p) + i] = t[i]
    BY <2>3, <2>6, ElementOfConcat
  <2>9. CASE Good(p)
    <3>1. 1 \in 1 .. Len(p)
      BY <2>9
    <3>2. Len(p \o t) \in Nat \ {0} /\ (p \o t)[1] = p[1]
      BY <2>3, <2>8, <2>9, <3>1
    <3>. QED
      BY <2>2, <2>9, <3>2
  <2>10. CASE p = <<>>
    <3>1. p \o t = t
      <4>1. PICK B : t \in Seq(B)
        BY <2>6 DEF IsSequence
      <4>. QED
        BY <2>10, <4>1
    <3>. QED
      BY <2>2, <2>5, <3>1
  <2>. QED
    BY <2>7, <2>9, <2>10
<1>. HIDE DEF Good
<1>3. \A k \in Nat : k \in T => k + 1 \in T
  <2>1. ASSUME NEW k \in Nat, k \in T
        PROVE  k + 1 \in T
    <3>1. k + 1 <= Len(insts) => l[k + 1] = <<>> \/ Good(l[k + 1])
      BY <1>2, <2>1
    <3>2. k + 1 \in Nat
      OBVIOUS
    <3>. QED
      BY <3>1, <3>2
  <2>. QED
    BY <2>1
<1>4. Nat \subseteq T
  <2>. HIDE DEF T
  <2>. QED
    BY <1>1, <1>3, NatSetInduction
<1>. QED
  BY <1>0, <1>4 DEF Good

\* What a jalr adds to the IR behind n values, and what its last part is.
LEMMA JalrEnds ==
  ASSUME NEW inst, NEW n \in Nat
  PROVE  LET t == LiftJalr(inst, n)
         IN /\ IsSequence(t)
            /\ inst.rd = 0 => Len(t) = 6 /\ t[6] = IRConst(n + 5, Wrap(inst.pc + 4))
            /\ inst.rd # 0 => Len(t) = 7 /\ t[7] = IRWriteReg(inst.rd, n + 5)
<1>. DEFINE i == IRReadReg(n, inst.rs1)
            j == IRConst(n + 1, Wrap(inst.imm))
            k == IRBinOp(n + 2, "Add", n, n + 1)
            l == IRConst(n + 3, Wrap(-2))
            o == IRBinOp(n + 4, "And", n + 2, n + 3)
            p == IRConst(n + 5, Wrap(inst.pc + 4))
            u == <<i, j, k, l, o, p>>
            w == IRWriteReg(inst.rd, n + 5)
<1>1. LiftJalr(inst, n) = u \o WriteReg(inst.rd, n + 5)
  BY DEF LiftJalr
<1>. HIDE DEF i, j, k, l, o, p, w
<1>2. IsSequence(u) /\ Len(u) = 6 /\ u[6] = p
  BY TuplesAreSequences
<1>. HIDE DEF u
<1>3. CASE inst.rd = 0
  <2>1. IsSequence(<<>>) /\ Len(<<>>) = 0
    BY TuplesAreSequences
  <2>2. LiftJalr(inst, n) = u \o <<>>
    BY <1>1, <1>3 DEF WriteReg
  <2>3. 6 \in 1 .. Len(u)
    BY <1>2
  <2>4. IsSequence(u \o <<>>) /\ Len(u \o <<>>) = 6 + 0 /\ (u \o <<>>)[6] = u[6]
    BY <1>2, <2>1, <2>3, ElementOfConcat
  <2>. QED
    BY <1>2, <1>3, <2>2, <2>4 DEF p
<1>4. CASE inst.rd # 0
  <2>1. IsSequence(<<w>>) /\ Len(<<w>>) = 1 /\ <<w>>[1] = w
    BY TuplesAreSequences
  <2>2. LiftJalr(inst, n) = u \o <<w>>
    BY <1>1, <1>4 DEF WriteReg, w
  <2>. DEFINE x == <<w>>
  <2>. HIDE DEF x
  <2>4. IsSequence(x) /\ Len(x) = 1 /\ x[1] = w /\ LiftJalr(inst, n) = u \o x
    BY <2>1, <2>2 DEF x
  <2>5. /\ IsSequence(u \o x) /\ Len(u \o x) = Len(u) + Len(x)
        /\ \A y \in 1 .. Len(x) : (u \o x)[Len(u) + y] = x[y]
    <3>1. IsSequence(u) /\ IsSequence(x)
      BY <1>2, <2>4
    <3>. QED
      BY <3>1, ElementOfConcat
  <2>6. (u \o x)[Len(u) + 1] = x[1]
    BY <2>4, <2>5
  <2>7. Len(u) + 1 = 7 /\ Len(u) + Len(x) = 7
    BY <1>2, <2>4
  <2>. QED
    BY <1>4, <2>4, <2>5, <2>6, <2>7 DEF w
<1>. QED
  BY <1>3, <1>4

\* The target the lifter gives an indirect jump in the run h of a block: the
\* return address if the jalr does not keep it, and else the first value of
\* the block.
GivenTarget(bb, h) ==
  LET l == bb.insts[Len(bb.insts)]
  IN IF l.rd = 0 THEN Wrap(l.pc + 4)
     ELSE IRValue(Running(<<>>, h.x, h.mem, bb.start), Lift(bb).insts[1])

(***************************************************************************)
(* Where an indirect jump goes (Lifter.cpp: "Find the last produced value  *)
(* (the masked target from JALR lowering)"): never to the value the jalr   *)
(* has masked.  The last value of a block is the return address, and if a  *)
(* register keeps that, the IR ends in a write, and value 0 stands for the *)
(* target.                                                                 *)
(***************************************************************************)
THEOREM IndirectExit ==
  ASSUME NEW R, NEW C, NEW bb, NEW s, NEW h, Enters(bb, s, h, R, C),
         bb.insts # <<>>, bb.term = "IndirectJump",
         bb.insts[Len(bb.insts)].op = "JALR"
  PROVE  /\ RunIR(Lift(bb), h).exit = [kind |-> "goto", pc |-> GivenTarget(bb, h)]
         /\ bb.start \in Word => GivenTarget(bb, h) \in Word
<1>. DEFINE insts == bb.insts
            K == Len(insts)
            inst == insts[K]
            ir == Lift(bb)
            start == Running(<<>>, h.x, h.mem, bb.start)
<1>a. /\ AllRunnable(bb.insts, bb.start, R, C) /\ GuestTyped(s, R, C)
      /\ h.x = s.x /\ h.mem = s.mem
  BY DEF Enters
<1>b. PICK I : insts \in Seq(I)
  BY DEF Enters, IsSequence
<1>0. K \in Nat \ {0} /\ K \in 1 .. K /\ K - 1 \in 0 .. K /\ K \in 0 .. K
  BY <1>b
<1>1. PICK l : LiftFold!IsRun(l, <<>>, insts) /\ LiftFold!Fold(<<>>, insts) = l[K]
  BY <1>b, LiftFold!FoldRun
<1>2. PICK g : GuestFold!IsRun(g, s, insts) /\ GuestFold!Fold(s, insts) = g[K]
  BY <1>b, GuestFold!FoldRun
<1>3. ir.insts = l[K] /\ ir.start = bb.start /\ ir.term = LiftTerm(bb, l[K])
  BY <1>1, LiftLoop DEF Lift
<1>4. \A k \in 0 .. K : IsSequence(l[k])
  <2>1. \A k \in 0 .. K : Agrees(l[k], g[k], s, bb.start, R, C)
    <3>1. insts \in Seq(I) /\ AllRunnable(insts, bb.start, R, C)
      BY <1>a, <1>b
    <3>. HIDE DEF insts
    <3>. QED
      BY <1>1, <1>2, <1>a, <3>1, PrefixesAgree
  <2>. QED
    BY <2>1 DEF Agrees
<1>5. l[K] = <<>> \/ (Len(l[K]) \in Nat \ {0} /\ Leads(l[K][1], R))
  <2>1. AllRunnable(insts, bb.start, R, C)
    BY <1>a
  <2>. HIDE DEF insts, K
  <2>2. Len(insts) = K
    BY DEF K
  <2>. QED
    BY <1>0, <1>1, <1>4, <1>b, <2>1, <2>2, PrefixLeads
<1>6. SSA(ir.insts, 0)
  BY BlockSSA DEF Enters
<1>. DEFINE t == l[K]
            p == l[K - 1]
            n == Len(p)
            q == LiftJalr(inst, n)
            m == Len(t)
<1>7. t = p \o q
  <2>1. l[K] = LiftInst(p, inst)
    BY <1>0, <1>1 DEF LiftFold!IsRun
  <2>. QED
    BY <2>1, LiftCases DEF LiftInst
<1>8. IsSequence(p) /\ n \in Nat
  BY <1>0, <1>4 DEF IsSequence
<1>. HIDE DEF p, K
<1>9. /\ IsSequence(q)
      /\ inst.rd = 0 => Len(q) = 6 /\ q[6] = IRConst(n + 5, Wrap(inst.pc + 4))
      /\ inst.rd # 0 => Len(q) = 7 /\ q[7] = IRWriteReg(inst.rd, n + 5)
  <2>. HIDE DEF inst
  <2>. QED
    BY <1>8, JalrEnds
<1>10. /\ IsSequence(t) /\ m \in Nat \ {0} /\ t # <<>>
       /\ inst.rd = 0 => t[m] = IRConst(m - 1, Wrap(inst.pc + 4))
       /\ inst.rd # 0 => t[m] = IRWriteReg(inst.rd, n + 5)
  <2>. HIDE DEF q, t, n, inst
  <2>1. /\ IsSequence(t) /\ Len(t) = n + Len(q) /\ Len(q) \in Nat
        /\ \A i \in 1 .. Len(q) : t[n + i] = q[i]
    BY <1>7, <1>8, <1>9, ElementOfConcat DEF n
  <2>2. CASE inst.rd = 0
    <3>0. Len(q) = 6
      BY <1>9, <2>2
    <3>1. m = n + 6 /\ 6 \in 1 .. Len(q)
      BY <2>1, <3>0
    <3>2. t[n + 6] = q[6]
      BY <2>1, <3>1
    <3>3. n + 5 = m - 1 /\ m \in Nat \ {0}
      BY <1>8, <3>1
    <3>4. t[m] = IRConst(m - 1, Wrap(inst.pc + 4))
      BY <1>9, <2>2, <3>1, <3>2, <3>3
    <3>. QED
      BY <2>1, <2>2, <3>3, <3>4
  <2>3. CASE inst.rd # 0
    <3>0. Len(q) = 7
      BY <1>9, <2>3
    <3>1. m = n + 7 /\ 7 \in 1 .. Len(q)
      BY <2>1, <3>0
    <3>2. t[n + 7] = q[7]
      BY <2>1, <3>1
    <3>3. m \in Nat \ {0}
      BY <1>8, <3>1
    <3>4. t[m] = IRWriteReg(inst.rd, n + 5)
      BY <1>9, <2>3, <3>1, <3>2
    <3>. QED
      BY <2>1, <2>3, <3>3, <3>4
  <2>. QED
    BY <2>2, <2>3
<1>11. PICK r : IRFold!IsRun(r, start, t) /\ IRFold!Fold(start, t) = r[m]
  <2>1. PICK A : t \in Seq(A)
    BY <1>10 DEF IsSequence
  <2>. HIDE DEF t, start
  <2>. QED
    BY <2>1, IRFold!FoldRun
<1>12. Settled(r, t, m, bb.start)
  <2>1. m \in 0 .. m
    BY <1>10
  <2>2. SSA(t, 0)
    BY <1>3, <1>6
  <2>. HIDE DEF t
  <2>. QED
    BY <1>11, <2>1, <2>2, ValuesSettle
<1>13. PICK e, x, mem : /\ r[m] = Running(e, x, mem, bb.start)
                        /\ \A j \in 1 .. m : Defines(t[j]) =>
                             j - 1 \in DOMAIN e /\ e[j - 1] = IRValue(r[j - 1], t[j])
  BY <1>12 DEF Settled
<1>14. RunIR(ir, h).exit = [kind |-> "goto", pc |-> e[LastValue(t)]]
  <2>1. RunsTo(ir, h, e, x, mem)
    BY <1>3, <1>11, <1>13 DEF RunsTo
  <2>2. ir.term.kind = "BrIndirect" /\ ir.term.v = LastValue(t)
    BY <1>3 DEF LiftTerm, IRTerm
  <2>3. RunIR(ir, h).exit = ExitOf(ir.term, e[ir.term.v])
    BY <2>1, <2>2, RunsOf
  <2>. QED
    BY <2>2, <2>3 DEF ExitOf
<1>15. r[0] = start
  BY <1>11 DEF IRFold!IsRun
<1>16. Last(t) = t[m]
  BY DEF Last
<1>17. CASE inst.rd = 0
  <2>1. t[m].dest = m - 1 /\ Defines(t[m]) /\ IRValue(r[m - 1], t[m]) = Wrap(inst.pc + 4)
    BY <1>10, <1>17, SMTT(30) DEF IRConst, IRInst, Defines, IRValue
  <2>2. m - 1 # NoValue
    BY <1>10 DEF NoValue
  <2>3. LastValue(t) = m - 1
    BY <1>10, <1>16, <2>1, <2>2 DEF LastValue
  <2>4. m \in 1 .. m
    BY <1>10
  <2>5. e[LastValue(t)] = Wrap(inst.pc + 4)
    BY <1>13, <2>1, <2>3, <2>4
  <2>6. GivenTarget(bb, h) = Wrap(inst.pc + 4)
    BY <1>17 DEF GivenTarget, K
  <2>7. inst.pc \in Int
    BY <1>0, <1>a DEF AllRunnable, Runnable, K
  <2>8. Wrap(inst.pc + 4) \in Word
    <3>. HIDE DEF inst
    <3>. QED
      BY <2>7, Widths
  <2>. QED
    BY <1>14, <2>5, <2>6, <2>8
<1>18. CASE inst.rd # 0
  <2>1. t[m].dest = NoValue
    BY <1>10, <1>18 DEF IRWriteReg, IRInst
  <2>2. LastValue(t) = 0
    BY <1>16, <2>1 DEF LastValue
  <2>3. Leads(t[1], R) /\ 1 \in 1 .. m
    BY <1>5, <1>10
  <2>4. e[0] = IRValue(start, t[1])
    BY <1>13, <1>15, <2>3 DEF Leads
  <2>5. GivenTarget(bb, h) = IRValue(start, t[1])
    BY <1>3, <1>18 DEF GivenTarget, K
  <2>6. bb.start \in Word => IRValue(start, t[1]) \in Word
    <3>1. t[1].kind = "ReadReg" => IRValue(start, t[1]) = h.x[t[1].reg]
      BY DEF IRValue, Running
    <3>2. t[1].kind = "Const" => IRValue(start, t[1]) = t[1].imm
      BY DEF IRValue
    <3>3. t[1].kind = "GetPC" => IRValue(start, t[1]) = bb.start
      BY DEF IRValue, Running
    <3>4. t[1].kind = "ReadReg" => h.x[t[1].reg] \in Word
      BY <1>a, <2>3 DEF Leads, GuestTyped
    <3>. QED
      BY <2>3, <3>1, <3>2, <3>3, <3>4 DEF Leads
  <2>. QED
    BY <1>14, <2>2, <2>4, <2>5, <2>6
<1>. QED
  BY <1>17, <1>18

-----------------------------------------------------------------------------
\* Where a guest is after the instructions of a block: at a word.
LEMMA GuestPlaced ==
  ASSUME NEW R, NEW C, NEW I, NEW insts \in Seq(I), NEW a, AllRunnable(insts, a, R, C),
         NEW s, GuestTyped(s, R, C), s.pc \in Word
  PROVE  RunGuest(insts, s).pc \in Word
<1>. DEFINE K == Len(insts)
<1>1. PICK g : GuestFold!IsRun(g, s, insts) /\ GuestFold!Fold(s, insts) = g[K]
  BY GuestFold!FoldRun
<1>. DEFINE T == {k \in Nat : k <= K => GuestTyped(g[k], R, C) /\ g[k].pc \in Word}
<1>2. K \in Nat
  OBVIOUS
<1>3. 0 \in T
  BY <1>1 DEF GuestFold!IsRun
<1>4. ASSUME NEW k \in Nat, k \in T, k + 1 <= K
      PROVE  GuestTyped(g[k + 1], R, C) /\ g[k + 1].pc \in Word
  <2>1. k + 1 \in 1 .. K /\ (k + 1) - 1 = k
    BY <1>2, <1>4
  <2>2. GuestTyped(g[k], R, C)
    BY <1>2, <1>4
  <2>3. g[k + 1] = GuestStep(g[k], insts[k + 1])
    BY <1>1, <2>1 DEF GuestFold!IsRun
  <2>4. Runnable(insts[k + 1], R, C) /\ insts[k + 1].op \in LiftedOps \cup {"AUIPC"}
    BY <2>1 DEF AllRunnable, Lifts
  <2>. QED
    BY <2>2, <2>3, <2>4, GuestStepTyped
<1>5. \A k \in Nat : k \in T => k + 1 \in T
  BY <1>4
<1>6. Nat \subseteq T
  <2>. HIDE DEF T
  <2>. QED
    BY <1>3, <1>5, NatSetInduction
<1>. QED
  BY <1>1, <1>2, <1>6, GuestLoop
=============================================================================

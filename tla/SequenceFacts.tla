----------------------------- MODULE SequenceFacts -----------------------------
(***************************************************************************)
(* Facts about the queues and stacks of the translator: what the range of  *)
(* a sequence becomes, and that its elements stay distinct, when elements  *)
(* are added or removed at either end.  And facts about its loops over a   *)
(* sequence, written as folds: a fold goes through the sequence one        *)
(* element at a time.                                                      *)
(***************************************************************************)
EXTENDS Integers, Sequences, SequencesExt, WellFoundedInduction, TLAPS

\* What a fold does with the next element: any operator.  Only the facts about
\* folds depend on it; who needs them instantiates this module with the
\* operator that is folded.
CONSTANT Step(_, _)

\* No element twice.
Distinct(s) == \A i, j \in 1 .. Len(s) : s[i] = s[j] => i = j

\* Nothing is in the empty sequence.
LEMMA RangeOfEmpty == Range(<<>>) = {}
  BY DEF Range

\* What is in a sequence is at one of its positions.
LEMMA RangeMember ==
  ASSUME NEW S, NEW s \in Seq(S)
  PROVE  /\ Range(s) \subseteq S
         /\ \A x : x \in Range(s) <=> \E i \in 1 .. Len(s) : s[i] = x
<1>1. DOMAIN s = 1 .. Len(s) /\ \A i \in 1 .. Len(s) : s[i] \in S
  OBVIOUS
<1>. QED
  BY <1>1 DEF Range

\* What Append makes of a sequence.
LEMMA AppendFacts ==
  ASSUME NEW S, NEW s \in Seq(S), NEW x \in S
  PROVE  /\ Append(s, x) \in Seq(S)
         /\ Len(Append(s, x)) = Len(s) + 1
         /\ Append(s, x) # <<>>
         /\ \A i \in 1 .. Len(s) : Append(s, x)[i] = s[i]
         /\ Append(s, x)[Len(s) + 1] = x
         /\ Len(s) \in Nat
         /\ Append(s, x)[1] = IF s = <<>> THEN x ELSE s[1]
         /\ Range(Append(s, x)) = Range(s) \cup {x}
<1>1. /\ Append(s, x) \in Seq(S)
      /\ Len(s) \in Nat
      /\ Len(Append(s, x)) = Len(s) + 1
      /\ \A i \in 1 .. Len(s) : Append(s, x)[i] = s[i]
      /\ Append(s, x)[Len(s) + 1] = x
  OBVIOUS
<1>2. Append(s, x) # <<>>
  BY <1>1
<1>3. Append(s, x)[1] = IF s = <<>> THEN x ELSE s[1]
  <2>1. CASE s = <<>>
    BY <1>1, <2>1
  <2>2. CASE s # <<>>
    <3>1. Len(s) > 0
      BY <2>2
    <3>. QED
      BY <1>1, <2>2, <3>1
  <2>. QED
    BY <2>1, <2>2
<1>4. Range(Append(s, x)) = Range(s) \cup {x}
  <2>1. ASSUME NEW y
        PROVE  y \in Range(Append(s, x)) <=> y \in Range(s) \/ y = x
    <3>1. (\E i \in 1 .. Len(s) + 1 : Append(s, x)[i] = y)
            <=> (\E i \in 1 .. Len(s) : s[i] = y) \/ x = y
      BY <1>1
    <3>2. y \in Range(Append(s, x))
            <=> \E i \in 1 .. Len(Append(s, x)) : Append(s, x)[i] = y
      BY <1>1, RangeMember
    <3>3. y \in Range(s) <=> \E i \in 1 .. Len(s) : s[i] = y
      BY RangeMember
    <3>. QED
      BY <1>1, <3>1, <3>2, <3>3
  <2>. QED
    BY <2>1
<1>. QED
  BY <1>1, <1>2, <1>3, <1>4

\* A sequence that is not empty is its head and its tail.
LEMMA TailFacts ==
  ASSUME NEW S, NEW s \in Seq(S), s # <<>>
  PROVE  /\ Tail(s) \in Seq(S)
         /\ Len(s) \in Nat \ {0}
         /\ Head(s) = s[1]
         /\ Head(s) \in S
         /\ Len(Tail(s)) = Len(s) - 1
         /\ \A i \in 1 .. Len(s) - 1 : Tail(s)[i] = s[i + 1]
         /\ Head(s) \in Range(s)
         /\ Range(s) = Range(Tail(s)) \cup {Head(s)}
<1>1. /\ Tail(s) \in Seq(S)
      /\ Len(s) \in Nat \ {0}
      /\ Head(s) = s[1]
      /\ Head(s) \in S
      /\ Len(Tail(s)) = Len(s) - 1
      /\ \A i \in 1 .. Len(s) - 1 : Tail(s)[i] = s[i + 1]
  OBVIOUS
<1>2. ASSUME NEW y
      PROVE  y \in Range(s) <=> y \in Range(Tail(s)) \/ y = Head(s)
  <2>1. ASSUME NEW i \in 1 .. Len(s), s[i] = y, i # 1
        PROVE  \E j \in 1 .. Len(s) - 1 : Tail(s)[j] = y
    <3>1. i - 1 \in 1 .. Len(s) - 1 /\ Tail(s)[i - 1] = s[i]
      BY <1>1, <2>1
    <3>. QED
      BY <2>1, <3>1
  <2>2. \A j \in 1 .. Len(s) - 1 : j + 1 \in 1 .. Len(s) /\ s[j + 1] = Tail(s)[j]
    BY <1>1
  <2>3. 1 \in 1 .. Len(s)
    BY <1>1
  <2>4. y \in Range(s) <=> \E i \in 1 .. Len(s) : s[i] = y
    BY RangeMember
  <2>5. y \in Range(Tail(s)) <=> \E i \in 1 .. Len(Tail(s)) : Tail(s)[i] = y
    <3>1. Tail(s) \in Seq(S)
      BY <1>1
    <3>. QED
      BY <3>1, RangeMember
  <2>. QED
    BY <1>1, <2>1, <2>2, <2>3, <2>4, <2>5
<1>. QED
  BY <1>1, <1>2

\* Taking the head of a sequence without repetitions removes it for good.
LEMMA DistinctTail ==
  ASSUME NEW S, NEW s \in Seq(S), s # <<>>, Distinct(s)
  PROVE  Distinct(Tail(s)) /\ Head(s) \notin Range(Tail(s))
<1>1. Distinct(Tail(s))
  BY TailFacts DEF Distinct
<1>2. ASSUME Head(s) \in Range(Tail(s))
      PROVE  FALSE
  <2>0. Tail(s) \in Seq(S)
    BY TailFacts
  <2>1. PICK i \in 1 .. Len(Tail(s)) : Tail(s)[i] = Head(s)
    BY <1>2, <2>0, RangeMember
  <2>2. s[i + 1] = s[1] /\ i + 1 \in 1 .. Len(s) /\ 1 \in 1 .. Len(s)
    BY <2>1, TailFacts
  <2>. QED
    BY <2>2 DEF Distinct
<1>. QED
  BY <1>1, <1>2

\* Appending something new makes no repetition.
LEMMA DistinctAppend ==
  ASSUME NEW S, NEW s \in Seq(S), NEW x \in S, Distinct(s), x \notin Range(s)
  PROVE  Distinct(Append(s, x))
<1>1. \A i \in 1 .. Len(s) : s[i] # x
  BY RangeMember
<1>. QED
  BY <1>1, AppendFacts DEF Distinct

\* Distinct is injectivity of the sequence as a function.
LEMMA DistinctInjective ==
  ASSUME NEW S, NEW s \in Seq(S)
  PROVE  Distinct(s) <=> IsInjective(s)
<1>1. DOMAIN s = 1 .. Len(s)
  OBVIOUS
<1>. QED
  BY <1>1 DEF Distinct, IsInjective

\* A sequence over a set is one over any larger set.
LEMMA SeqOfLarger ==
  ASSUME NEW S, NEW T, S \subseteq T, NEW s \in Seq(S)
  PROVE  s \in Seq(T)
  OBVIOUS

\* One sequence behind another.
LEMMA ConcatFacts ==
  ASSUME NEW S, NEW s \in Seq(S), NEW t \in Seq(S)
  PROVE  /\ s \o t \in Seq(S)
         /\ Len(s \o t) = Len(s) + Len(t)
         /\ \A i \in 1 .. Len(s) + Len(t) :
              (s \o t)[i] = IF i <= Len(s) THEN s[i] ELSE t[i - Len(s)]
<1>1. s \o t \in Seq(S)
  OBVIOUS
<1>2. Len(s \o t) = Len(s) + Len(t)
  OBVIOUS
<1>3. \A i \in 1 .. Len(s) + Len(t) :
        (s \o t)[i] = IF i <= Len(s) THEN s[i] ELSE t[i - Len(s)]
  OBVIOUS
<1>. QED
  BY <1>1, <1>2, <1>3

\* A stack that is not empty is its top and what is below.
LEMMA TopFacts ==
  ASSUME NEW S, NEW s \in Seq(S), s # <<>>
  PROVE  /\ SubSeq(s, 1, Len(s) - 1) \in Seq(S)
         /\ s[Len(s)] \in S
         /\ Range(s) = Range(SubSeq(s, 1, Len(s) - 1)) \cup {s[Len(s)]}
         /\ Distinct(s) => /\ Distinct(SubSeq(s, 1, Len(s) - 1))
                           /\ s[Len(s)] \notin Range(SubSeq(s, 1, Len(s) - 1))
<1>. DEFINE t == SubSeq(s, 1, Len(s) - 1)
<1>1. Len(s) \in Nat \ {0}
  OBVIOUS
<1>2. /\ t \in Seq(S) /\ s[Len(s)] \in S
      /\ Len(t) = Len(s) - 1
      /\ \A i \in 1 .. Len(s) - 1 : t[i] = s[i]
  BY <1>1, SMTT(30)
<1>3. \A x : x \in Range(t) <=> \E i \in 1 .. Len(s) - 1 : s[i] = x
  <2>1. \A x : x \in Range(t) <=> \E i \in 1 .. Len(t) : t[i] = x
    BY <1>2, RangeMember
  <2>. QED
    BY <1>2, <2>1
<1>4. \A x : x \in Range(s) <=> \E i \in 1 .. Len(s) : s[i] = x
  BY RangeMember
<1>5. Range(s) = Range(t) \cup {s[Len(s)]}
  <2>1. ASSUME NEW x
        PROVE  x \in Range(s) <=> x \in Range(t) \/ x = s[Len(s)]
    BY <1>1, <1>3, <1>4
  <2>. QED
    BY <2>1
<1>6. ASSUME Distinct(s)
      PROVE  Distinct(t) /\ s[Len(s)] \notin Range(t)
  <2>1. Distinct(t)
    BY <1>1, <1>2, <1>6 DEF Distinct
  <2>2. s[Len(s)] \notin Range(t)
    BY <1>1, <1>3, <1>6 DEF Distinct
  <2>. QED
    BY <2>1, <2>2
<1>. QED
  BY <1>2, <1>5, <1>6
-----------------------------------------------------------------------------
\* Induction, in the form the provers can use: over a set of numbers.
LEMMA NatSetInduction ==
  ASSUME NEW T, 0 \in T, \A n \in Nat : n \in T => n + 1 \in T
  PROVE  Nat \subseteq T
<1>. DEFINE U == Nat \ T
            R == {p \in Nat \X Nat : p[1] < p[2]}
<1>1. IsWellFoundedOn(R, Nat)
  BY NatLessThanWellFounded DEF OpToRel
<1>2. ASSUME U # {}
      PROVE  FALSE
  <2>1. PICK m \in U : \A y \in U : ~ (<<y, m>> \in R)
    <3>. HIDE DEF U, R
    <3>1. U \subseteq Nat
      BY DEF U
    <3>. QED
      BY <1>1, <1>2, <3>1, WFMin
  <2>2. m # 0 /\ m - 1 \in Nat
    BY <2>1
  <2>3. <<m - 1, m>> \in R
    BY <2>1, <2>2
  <2>4. m - 1 \in T
    BY <2>1, <2>2, <2>3
  <2>. QED
    BY <2>1, <2>2, <2>4
<1>. QED
  BY <1>2

\* The fold of Step from the left.
Fold(base, seq) == FoldLeft(Step, base, seq)

\* The accumulator as a fold proceeds.
IsRun(r, base, s) ==
  /\ r[0] = base
  /\ \A k \in 1 .. Len(s) : r[k] = Step(r[k - 1], s[k])

\* The largest of a set of positions that contains the last one.
LEMMA MaxTop ==
  ASSUME NEW n \in Nat, NEW s \in SUBSET (1 .. n + 1), n + 1 \in s
  PROVE  Max(s) = n + 1
<1>1. \A y \in s : n + 1 >= y
  OBVIOUS
<1>2. \A x \in s : (\A y \in s : x >= y) => x = n + 1
  OBVIOUS
<1>. QED
  BY <1>1, <1>2 DEF Max

\* The function on the sets of positions 1 .. n that defines a fold.
IsIter(f, n, base, seq) ==
  f = [s \in SUBSET (1 .. n) |->
         IF s = {} THEN base ELSE Step(f[s \ {Max(s)}], seq[Max(s)])]

\* There is such a function: one for n + 1 comes from one for n.
LEMMA IterExists ==
  ASSUME NEW base, NEW seq
  PROVE  \A n \in Nat : \E f : IsIter(f, n, base, seq)
<1>. DEFINE Body(f, s) ==
              IF s = {} THEN base ELSE Step(f[s \ {Max(s)}], seq[Max(s)])
            T == {n \in Nat : \E f : IsIter(f, n, base, seq)}
<1>1. 0 \in T
  <2>. DEFINE f == [s \in SUBSET (1 .. 0) |-> base]
  <2>1. \A s \in SUBSET (1 .. 0) : s = {}
    OBVIOUS
  <2>2. f = [s \in SUBSET (1 .. 0) |-> Body(f, s)]
    BY <2>1
  <2>. QED
    BY <2>2 DEF IsIter
<1>2. ASSUME NEW n \in Nat, n \in T
      PROVE  n + 1 \in T
  <2>1. PICK f : f = [s \in SUBSET (1 .. n) |-> Body(f, s)]
    BY <1>2 DEF IsIter
  <2>. DEFINE g == [s \in SUBSET (1 .. n + 1) |->
                      IF n + 1 \in s THEN Step(f[s \ {n + 1}], seq[n + 1]) ELSE f[s]]
  <2>2. ASSUME NEW s \in SUBSET (1 .. n + 1)
        PROVE  g[s] = Body(g, s)
    <3>1. CASE n + 1 \in s
      <4>1. Max(s) = n + 1 /\ s # {}
        BY <3>1, MaxTop
      <4>2. s \ {n + 1} \in SUBSET (1 .. n + 1) /\ n + 1 \notin s \ {n + 1}
        OBVIOUS
      <4>3. g[s] = Step(f[s \ {n + 1}], seq[n + 1]) /\ g[s \ {n + 1}] = f[s \ {n + 1}]
        BY <3>1, <4>2
      <4>. QED
        BY <4>1, <4>3
    <3>2. CASE n + 1 \notin s
      <4>1. s \in SUBSET (1 .. n)
        BY <3>2
      <4>2. g[s] = f[s] /\ f[s] = Body(f, s)
        BY <2>1, <3>2, <4>1
      <4>3. CASE s = {}
        BY <4>2, <4>3
      <4>4. CASE s # {}
        <5>. DEFINE t == s \ {Max(s)}
        <5>1. t \in SUBSET (1 .. n + 1) /\ n + 1 \notin t
          BY <3>2
        <5>2. g[t] = f[t]
          BY <5>1
        <5>. QED
          BY <4>2, <4>4, <5>2
      <4>. QED
        BY <4>3, <4>4
    <3>. QED
      BY <3>1, <3>2
  <2>3. g = [s \in SUBSET (1 .. n + 1) |-> Body(g, s)]
    <3>. DEFINE h == [s \in SUBSET (1 .. n + 1) |-> Body(g, s)]
    <3>1. \A s \in SUBSET (1 .. n + 1) : g[s] = h[s]
      BY <2>2
    <3>. QED
      BY <3>1
  <2>. HIDE DEF g
  <2>. QED
    BY <2>3 DEF IsIter
<1>3. Nat \subseteq T
  <2>. HIDE DEF T
  <2>. QED
    BY <1>1, <1>2, NatSetInduction
<1>. QED
  BY <1>3

\* A fold is the end of a run.
LEMMA FoldRun ==
  ASSUME NEW S, NEW seq \in Seq(S), NEW base
  PROVE  \E r : IsRun(r, base, seq) /\ Fold(base, seq) = r[Len(seq)]
<1>. DEFINE N == Len(seq)
            iter == CHOOSE f : IsIter(f, N, base, seq)
            r == [k \in 0 .. N |-> iter[1 .. k]]
<1>1. N \in Nat /\ DOMAIN seq = 1 .. N
  OBVIOUS
<1>2. Fold(base, seq) = iter[1 .. N]
  BY <1>1 DEF Fold, FoldLeft, MapThenFoldSet, IsIter
<1>3. IsIter(iter, N, base, seq)
  <2>. HIDE DEF N
  <2>. QED
    BY <1>1, IterExists
<1>. HIDE DEF iter
<1>4. \A s \in SUBSET (1 .. N) :
        iter[s] = IF s = {} THEN base ELSE Step(iter[s \ {Max(s)}], seq[Max(s)])
  BY <1>3 DEF IsIter
<1>5. r[0] = base
  <2>1. r[0] = iter[1 .. 0] /\ 1 .. 0 = {} /\ {} \in SUBSET (1 .. N)
    BY <1>1
  <2>. QED
    BY <1>4, <2>1
<1>6. ASSUME NEW k \in 1 .. N
      PROVE  r[k] = Step(r[k - 1], seq[k])
  <2>1. /\ k - 1 \in Nat /\ k - 1 + 1 = k /\ k \in 1 .. k /\ k \in 0 .. N
        /\ k - 1 \in 0 .. N /\ (1 .. k) \in SUBSET (1 .. N)
    BY <1>1
  <2>2. Max(1 .. k) = k
    BY <2>1, MaxTop
  <2>3. (1 .. k) \ {k} = 1 .. k - 1 /\ (1 .. k) # {}
    <3>1. \A i : i \in (1 .. k) \ {k} <=> i \in 1 .. k - 1
      BY <2>1
    <3>. QED
      BY <2>1, <3>1
  <2>4. iter[1 .. k] = Step(iter[(1 .. k) \ {Max(1 .. k)}], seq[Max(1 .. k)])
    BY <1>4, <2>1, <2>3
  <2>. QED
    BY <2>1, <2>2, <2>3, <2>4
<1>7. r[N] = iter[1 .. N]
  BY <1>1
<1>. QED
  BY <1>2, <1>5, <1>6, <1>7 DEF IsRun

\* Runs from the same start over the same sequence agree.
LEMMA RunsAgree ==
  ASSUME NEW S, NEW seq \in Seq(S), NEW base, NEW r, NEW q,
         IsRun(r, base, seq), IsRun(q, base, seq)
  PROVE  \A k \in 0 .. Len(seq) : r[k] = q[k]
<1>. DEFINE T == {k \in Nat : k <= Len(seq) => r[k] = q[k]}
<1>1. 0 \in T
  BY DEF IsRun
<1>2. ASSUME NEW k \in Nat, k \in T
      PROVE  k + 1 \in T
  <2>1. Len(seq) \in Nat
    OBVIOUS
  <2>2. CASE k + 1 <= Len(seq)
    <3>1. k + 1 \in 1 .. Len(seq) /\ k + 1 - 1 = k /\ r[k] = q[k]
      BY <1>2, <2>1, <2>2
    <3>. QED
      BY <3>1 DEF IsRun
  <2>. QED
    BY <2>1, <2>2
<1>3. Nat \subseteq T
  <2>. HIDE DEF T
  <2>. QED
    BY <1>1, <1>2, NatSetInduction
<1>. QED
  BY <1>3

\* The end of any run is what the fold gives.
LEMMA FoldIsRun ==
  ASSUME NEW S, NEW seq \in Seq(S), NEW base, NEW r, IsRun(r, base, seq)
  PROVE  Fold(base, seq) = r[Len(seq)]
<1>1. PICK q : IsRun(q, base, seq) /\ Fold(base, seq) = q[Len(seq)]
  BY FoldRun
<1>2. r[Len(seq)] = q[Len(seq)]
  BY <1>1, RunsAgree
<1>. QED
  BY <1>1, <1>2

\* Folding over nothing.
LEMMA FoldEmpty ==
  ASSUME NEW base
  PROVE  Fold(base, <<>>) = base
<1>1. <<>> \in Seq({}) /\ Len(<<>>) = 0
  OBVIOUS
<1>2. PICK r : IsRun(r, base, <<>>) /\ Fold(base, <<>>) = r[Len(<<>>)]
  BY <1>1, FoldRun
<1>. QED
  BY <1>1, <1>2 DEF IsRun

\* Folding over one element more.
LEMMA FoldAppend ==
  ASSUME NEW S, NEW seq \in Seq(S), NEW x \in S, NEW base
  PROVE  Fold(base, Append(seq, x)) = Step(Fold(base, seq), x)
<1>. DEFINE t == Append(seq, x)
            n == Len(seq)
<1>1. /\ t \in Seq(S) /\ n \in Nat /\ Len(t) = n + 1 /\ t[n + 1] = x
      /\ \A i \in 1 .. n : t[i] = seq[i]
  OBVIOUS
<1>. HIDE DEF t
<1>2. PICK r : IsRun(r, base, t) /\ Fold(base, t) = r[Len(t)]
  BY <1>1, FoldRun
<1>3. IsRun(r, base, seq)
  BY <1>1, <1>2 DEF IsRun
<1>4. Fold(base, seq) = r[n]
  BY <1>3, FoldIsRun
<1>5. n + 1 \in 1 .. Len(t) /\ n + 1 - 1 = n
  BY <1>1
<1>6. r[n + 1] = Step(r[n], x)
  BY <1>1, <1>2, <1>5 DEF IsRun
<1>. QED
  BY <1>1, <1>2, <1>4, <1>6 DEF t

\* Folding over one sequence after another.
LEMMA FoldConcat ==
  ASSUME NEW S, NEW s \in Seq(S), NEW t \in Seq(S), NEW base
  PROVE  Fold(base, s \o t) = Fold(Fold(base, s), t)
<1>. DEFINE u == s \o t
            m == Len(s)
            n == Len(t)
<1>1. /\ u \in Seq(S) /\ m \in Nat /\ n \in Nat /\ Len(u) = m + n
      /\ \A i \in 1 .. m : u[i] = s[i]
      /\ \A i \in 1 .. n : u[m + i] = t[i]
  OBVIOUS
<1>. HIDE DEF u
<1>2. PICK r : IsRun(r, base, u) /\ Fold(base, u) = r[Len(u)]
  BY <1>1, FoldRun
<1>3. IsRun(r, base, s)
  BY <1>1, <1>2 DEF IsRun
<1>4. Fold(base, s) = r[m]
  BY <1>3, FoldIsRun
<1>. DEFINE q == [k \in 0 .. n |-> r[m + k]]
<1>5. IsRun(q, r[m], t)
  <2>1. q[0] = r[m]
    BY <1>1
  <2>2. ASSUME NEW k \in 1 .. n
        PROVE  q[k] = Step(q[k - 1], t[k])
    <3>1. /\ m + k \in 1 .. Len(u) /\ m + k - 1 = m + (k - 1)
          /\ k \in 0 .. n /\ k - 1 \in 0 .. n
      BY <1>1
    <3>2. r[m + k] = Step(r[m + k - 1], u[m + k])
      BY <1>2, <3>1 DEF IsRun
    <3>. QED
      BY <1>1, <3>1, <3>2
  <2>. HIDE DEF q
  <2>. QED
    BY <2>1, <2>2 DEF IsRun
<1>6. Fold(r[m], t) = q[n]
  <2>. HIDE DEF q
  <2>. QED
    BY <1>5, FoldIsRun
<1>7. q[n] = r[m + n]
  BY <1>1
<1>. QED
  BY <1>1, <1>2, <1>4, <1>6, <1>7 DEF u

\* Folding over one element, two, three ...
LEMMA FoldOne ==
  ASSUME NEW base, NEW i
  PROVE  Fold(base, <<i>>) = Step(base, i)
<1>. DEFINE A == {i}
            t == <<>>
            u == <<i>>
<1>1. t \in Seq(A) /\ i \in A /\ u = Append(t, i) /\ Fold(base, t) = base
  BY FoldEmpty
<1>. HIDE DEF A, t, u
<1>2. Fold(base, u) = Step(Fold(base, t), i)
  BY <1>1, FoldAppend
<1>. QED
  BY <1>1, <1>2 DEF u

LEMMA FoldTwo ==
  ASSUME NEW base, NEW i, NEW j
  PROVE  Fold(base, <<i, j>>)
           = Step(Step(base, i), j)
<1>. DEFINE A == {i, j}
            t == <<i>>
            u == <<i, j>>
<1>1. /\ t \in Seq(A) /\ j \in A /\ u = Append(t, j)
      /\ Fold(base, t) = Step(base, i)
  BY FoldOne
<1>. HIDE DEF A, t, u
<1>2. Fold(base, u) = Step(Fold(base, t), j)
  BY <1>1, FoldAppend
<1>. QED
  BY <1>1, <1>2 DEF u

LEMMA FoldThree ==
  ASSUME NEW base, NEW i, NEW j, NEW k
  PROVE  Fold(base, <<i, j, k>>)
           = Step(Step(Step(base, i), j), k)
<1>. DEFINE A == {i, j, k}
            t == <<i, j>>
            u == <<i, j, k>>
<1>1. /\ t \in Seq(A) /\ k \in A /\ u = Append(t, k)
      /\ Fold(base, t) = Step(Step(base, i), j)
  BY FoldTwo
<1>. HIDE DEF A, t, u
<1>2. Fold(base, u) = Step(Fold(base, t), k)
  BY <1>1, FoldAppend
<1>. QED
  BY <1>1, <1>2 DEF u

LEMMA FoldFour ==
  ASSUME NEW base, NEW i, NEW j, NEW k, NEW l
  PROVE  Fold(base, <<i, j, k, l>>)
           = Step(Step(Step(Step(base, i), j), k), l)
<1>. DEFINE A == {i, j, k, l}
            t == <<i, j, k>>
            u == <<i, j, k, l>>
<1>1. /\ t \in Seq(A) /\ l \in A /\ u = Append(t, l)
      /\ Fold(base, t) = Step(Step(Step(base, i), j), k)
  BY FoldThree
<1>. HIDE DEF A, t, u
<1>2. Fold(base, u) = Step(Fold(base, t), l)
  BY <1>1, FoldAppend
<1>. QED
  BY <1>1, <1>2 DEF u

LEMMA FoldFive ==
  ASSUME NEW base, NEW i, NEW j, NEW k, NEW l, NEW o
  PROVE  Fold(base, <<i, j, k, l, o>>)
           = Step(Step(Step(Step(Step(base, i), j), k), l), o)
<1>. DEFINE A == {i, j, k, l, o}
            t == <<i, j, k, l>>
            u == <<i, j, k, l, o>>
<1>1. /\ t \in Seq(A) /\ o \in A /\ u = Append(t, o)
      /\ Fold(base, t) = Step(Step(Step(Step(base, i), j), k), l)
  BY FoldFour
<1>. HIDE DEF A, t, u
<1>2. Fold(base, u) = Step(Fold(base, t), o)
  BY <1>1, FoldAppend
<1>. QED
  BY <1>1, <1>2 DEF u

LEMMA FoldSix ==
  ASSUME NEW base, NEW i, NEW j, NEW k, NEW l, NEW o, NEW p
  PROVE  Fold(base, <<i, j, k, l, o, p>>)
           = Step(Step(Step(Step(Step(Step(base, i), j), k), l), o), p)
<1>. DEFINE A == {i, j, k, l, o, p}
            t == <<i, j, k, l, o>>
            u == <<i, j, k, l, o, p>>
<1>1. /\ t \in Seq(A) /\ p \in A /\ u = Append(t, p)
      /\ Fold(base, t) = Step(Step(Step(Step(Step(base, i), j), k), l), o)
  BY FoldFive
<1>. HIDE DEF A, t, u
<1>2. Fold(base, u) = Step(Fold(base, t), p)
  BY <1>1, FoldAppend
<1>. QED
  BY <1>1, <1>2 DEF u
=============================================================================

----------------------------- MODULE SequenceFolds -----------------------------
(***************************************************************************)
(* Facts about the folds of the community modules, which are chosen        *)
(* functions: that these exist, and what their steps are.  The library's   *)
(* induction takes a predicate as a parameter, which the provers cannot    *)
(* instantiate; here it is about the set of the numbers for which          *)
(* something holds.                                                        *)
(***************************************************************************)
EXTENDS Integers, Sequences, SequencesExt, SequenceTheorems, FiniteSetTheorems, TLAPS

\* Counting up from 0 to n, a property is kept.
LEMMA CountUp ==
  ASSUME NEW n \in Nat, NEW F, 0 \in F, \A k \in 0..n - 1 : k \in F => k + 1 \in F
  PROVE  \A k \in 0..n : k \in F
<1> DEFINE S == {k \in 0..n : k \notin F}
<1> SUFFICES ASSUME S # {} PROVE FALSE
  OBVIOUS
<1> DEFINE Less == {p \in Nat \X Nat : p[1] < p[2]}
<1>1. IsWellFoundedOn(Less, Nat)
  BY NatLessThanWellFounded DEF OpToRel
<1>2. S \subseteq Nat
  OBVIOUS
<1>3. PICK x \in S : \A y \in S : ~(y < x)
  <2> HIDE DEF S
  <2>1. PICK x \in S : \A y \in S : ~(<<y, x>> \in Less)
    <3> HIDE DEF Less
    <3> QED BY <1>1, <1>2, WFMin
  <2>2. \A y \in S : ~(y < x)
    BY <1>2, <2>1
  <2> QED BY <2>2
<1>4. x # 0 /\ x - 1 \in 0..n - 1 /\ x - 1 < x /\ (x - 1) + 1 = x
  OBVIOUS
<1>5. x - 1 \in F
  BY <1>3, <1>4
<1> QED BY <1>4, <1>5

\* A function whose values step leads on from base, each from the one before;
\* and a fold that takes the greatest index last.
Stepping(n, V, base, step) ==
  /\ n \in Nat /\ base \in V
  /\ \A k \in 1..n : \A v \in V : step[<<k, v>>] \in V

Run(f, n, V, base, step) ==
  /\ f \in [0..n -> V]
  /\ f[0] = base
  /\ \A k \in 1..n : f[k] = step[<<k, f[k - 1]>>]

Folding(g, n, V, base, step) ==
  /\ g \in [SUBSET (1..n) -> V]
  /\ \A s \in SUBSET (1..n) :
       g[s] = IF s = {} THEN base ELSE step[<<Max(s), g[s \ {Max(s)}]>>]

\* There is such a function.
LEMMA Recursion ==
  ASSUME NEW n, NEW V, NEW base, NEW step, Stepping(n, V, base, step)
  PROVE  \E f : Run(f, n, V, base, step)
<1> n \in Nat /\ base \in V
  BY DEF Stepping
<1>0. \A k \in 1..n : \A v \in V : step[<<k, v>>] \in V
  BY DEF Stepping
<1> DEFINE Good(m, f) == f[0] = base /\ \A k \in 1..m : f[k] = step[<<k, f[k - 1]>>]
           F == {m \in 0..n : \E f \in [0..m -> V] : Good(m, f)}
<1>1. 0 \in F
  <2> DEFINE g == [k \in 0..0 |-> base]
  <2>1. g \in [0..0 -> V] /\ Good(0, g)
    OBVIOUS
  <2> HIDE DEF g, Good
  <2> QED BY <2>1
<1>2. ASSUME NEW m \in 0..n - 1, m \in F PROVE m + 1 \in F
  <2>1. PICK f \in [0..m -> V] : Good(m, f)
    BY <1>2
  <2> DEFINE g == [k \in 0..m + 1 |-> IF k = m + 1 THEN step[<<m + 1, f[m]>>] ELSE f[k]]
  <2>2. m \in 0..m /\ m + 1 \in 1..n
    OBVIOUS
  <2>3. step[<<m + 1, f[m]>>] \in V
    BY <1>0, <2>2
  <2>4. g \in [0..m + 1 -> V]
    BY <2>3
  <2>5. Good(m + 1, g)
    <3>1. g[0] = base
      BY <2>1
    <3>2. ASSUME NEW k \in 1..m + 1 PROVE g[k] = step[<<k, g[k - 1]>>]
      <4>1. CASE k = m + 1
        <5>1. k - 1 = m /\ m # m + 1 /\ m \in 0..m + 1
          BY <4>1
        <5>2. g[k] = step[<<m + 1, f[m]>>] /\ g[m] = f[m]
          BY <4>1, <5>1
        <5> QED BY <4>1, <5>1, <5>2
      <4>2. CASE k # m + 1
        <5>1. k \in 1..m /\ k - 1 \in 0..m
          BY <4>2
        <5> QED BY <2>1, <5>1
      <4> QED BY <4>1, <4>2
    <3> QED BY <3>1, <3>2
  <2> HIDE DEF g, Good
  <2> QED BY <2>4, <2>5
<1> HIDE DEF F
<1>3. \A m \in 0..n : m \in F
  BY <1>1, <1>2, CountUp
<1>4. n \in F
  BY <1>3
<1>5. PICK f \in [0..n -> V] : Good(n, f)
  <2> HIDE DEF Good
  <2> QED BY <1>4 DEF F
<1> QED BY <1>5 DEF Run

\* What Max does to a set of the first numbers.
LEMMA Greatest ==
  ASSUME NEW n \in Nat
  PROVE  /\ \A s \in SUBSET (1..n) : s # {} => Max(s) \in s /\ \A y \in s : y <= Max(s)
         /\ \A k \in 1..n : Max(1..k) = k /\ (1..k) \ {k} = 1..k - 1
<1>1. ASSUME NEW s \in SUBSET (1..n), s # {}
      PROVE  Max(s) \in s /\ \A y \in s : y <= Max(s)
  <2> DEFINE F == {m \in 0..n : \A t \in SUBSET (1..m) :
                     t # {} => \E x \in t : \A y \in t : x >= y}
  <2>1. 0 \in F
    <3>1. 0 \in 0..n /\ \A t \in SUBSET (1..0) : t = {}
      OBVIOUS
    <3> QED BY <3>1
  <2>2. ASSUME NEW m \in 0..n - 1, m \in F PROVE m + 1 \in F
    <3> SUFFICES ASSUME NEW t \in SUBSET (1..m + 1), t # {}
                 PROVE  \E x \in t : \A y \in t : x >= y
      OBVIOUS
    <3>1. CASE m + 1 \in t
      BY <3>1
    <3>2. CASE m + 1 \notin t
      <4>1. t \in SUBSET (1..m)
        BY <3>2
      <4> QED BY <2>2, <4>1
    <3> QED BY <3>1, <3>2
  <2> HIDE DEF F
  <2>3. n \in F
    BY <2>1, <2>2, CountUp
  <2>4. \E x \in s : \A y \in s : x >= y
    BY <1>1, <2>3 DEF F
  <2>5. Max(s) \in s /\ \A y \in s : Max(s) >= y
    BY <2>4 DEF Max
  <2> QED BY <2>5
<1>2. ASSUME NEW k \in 1..n PROVE Max(1..k) = k /\ (1..k) \ {k} = 1..k - 1
  <2>1. k \in 1..k /\ 1..k \in SUBSET (1..n) /\ 1..k # {}
    OBVIOUS
  <2>2. Max(1..k) \in 1..k /\ k <= Max(1..k)
    BY <1>1, <2>1
  <2> QED BY <2>2
<1> QED BY <1>1, <1>2

\* There is such a fold.
LEMMA FoldExists ==
  ASSUME NEW n, NEW V, NEW base, NEW step, Stepping(n, V, base, step)
  PROVE  \E g : Folding(g, n, V, base, step)
<1> n \in Nat /\ base \in V
  BY DEF Stepping
<1>0. \A k \in 1..n : \A v \in V : step[<<k, v>>] \in V
  BY DEF Stepping
<1> DEFINE Good(m, g) == \A s \in SUBSET (1..m) :
                           /\ g[s] = IF s = {} THEN base
                                     ELSE step[<<Max(s), g[s \ {Max(s)}]>>]
                           /\ g[s] \in V
           F == {m \in 0..n : \E g \in [SUBSET (1..m) -> V] : Good(m, g)}
<1>1. 0 \in F
  <2> DEFINE g == [s \in SUBSET (1..0) |-> base]
  <2>1. \A s \in SUBSET (1..0) : s = {}
    OBVIOUS
  <2>2. g \in [SUBSET (1..0) -> V]
    OBVIOUS
  <2>3. Good(0, g)
    BY <2>1
  <2>4. 0 \in 0..n
    OBVIOUS
  <2> HIDE DEF g, Good
  <2> QED BY <2>2, <2>3, <2>4
<1>2. ASSUME NEW m \in 0..n - 1, m \in F PROVE m + 1 \in F
  <2>1. PICK g \in [SUBSET (1..m) -> V] : Good(m, g)
    BY <1>2
  <2> DEFINE h == [s \in SUBSET (1..m + 1) |->
                     IF m + 1 \in s THEN step[<<m + 1, g[s \ {m + 1}]>>] ELSE g[s]]
  <2>2. \A s \in SUBSET (1..m + 1) : /\ m + 1 \in s => s \ {m + 1} \in SUBSET (1..m)
                                     /\ m + 1 \notin s => s \in SUBSET (1..m)
    OBVIOUS
  <2>3. m + 1 \in 1..n /\ \A s \in SUBSET (1..m) : g[s] \in V
    OBVIOUS
  <2>4. h \in [SUBSET (1..m + 1) -> V]
    BY <1>0, <2>2, <2>3
  <2>5. ASSUME NEW s \in SUBSET (1..m + 1)
        PROVE  h[s] = IF s = {} THEN base ELSE step[<<Max(s), h[s \ {Max(s)}]>>]
    <3>1. CASE m + 1 \in s
      <4>1. Max(s) = m + 1
        <5>1. s # {} /\ \A y \in s : y <= m + 1
          BY <3>1
        <5>2. s \in SUBSET (1..n) /\ m + 1 \in Int
          OBVIOUS
        <5>3. Max(s) \in s /\ m + 1 <= Max(s)
          BY <3>1, <5>1, <5>2, Greatest
        <5>4. Max(s) <= m + 1 /\ Max(s) \in Int
          <6>1. Max(s) \in 1..m + 1
            BY <5>3
          <6> QED BY <6>1
        <5> QED BY <5>2, <5>3, <5>4
      <4>2. h[s] = step[<<m + 1, g[s \ {m + 1}]>>]
        BY <3>1
      <4>3. h[s \ {m + 1}] = g[s \ {m + 1}]
        OBVIOUS
      <4> QED BY <3>1, <4>1, <4>2, <4>3
    <3>2. CASE m + 1 \notin s
      <4>1. h[s] = g[s] /\ s \in SUBSET (1..m)
        BY <2>2, <3>2
      <4>2. s # {} => h[s \ {Max(s)}] = g[s \ {Max(s)}]
        BY <3>2
      <4>3. g[s] = IF s = {} THEN base ELSE step[<<Max(s), g[s \ {Max(s)}]>>]
        BY <2>1, <4>1
      <4> QED BY <4>1, <4>2, <4>3
    <3> QED BY <3>1, <3>2
  <2> HIDE DEF h
  <2>6. \A s \in SUBSET (1..m + 1) : h[s] \in V
    BY <2>4
  <2>7. Good(m + 1, h)
    BY <2>5, <2>6
  <2>8. m + 1 \in 0..n
    OBVIOUS
  <2> HIDE DEF Good
  <2> QED BY <2>4, <2>7, <2>8
<1> HIDE DEF F
<1>3. n \in F
  BY <1>1, <1>2, CountUp
<1>4. PICK g \in [SUBSET (1..n) -> V] : Good(n, g)
  BY <1>3 DEF F
<1> QED BY <1>4 DEF Folding

\* FlattenSeq, one sequence after the other.
LEMMA Flattened ==
  ASSUME NEW T, NEW seqs \in Seq(Seq(T))
  PROVE  \E f \in [0..Len(seqs) -> Seq(T)] :
           /\ f[0] = << >>
           /\ \A k \in 1..Len(seqs) : f[k] = f[k - 1] \o seqs[k]
           /\ FlattenSeq(seqs) = f[Len(seqs)]
<1> DEFINE n == Len(seqs)
           step == [p \in (1..n) \X Seq(T) |-> p[2] \o seqs[p[1]]]
<1>1. n \in Nat /\ DOMAIN seqs = 1..n /\ \A k \in 1..n : seqs[k] \in Seq(T)
  BY LenProperties
<1>0. n = Len(seqs)
  OBVIOUS
<1> HIDE DEF n
<1>2. \A k \in 1..n : \A v \in Seq(T) : step[<<k, v>>] \in Seq(T)
  <2> SUFFICES ASSUME NEW k \in 1..n, NEW v \in Seq(T) PROVE v \o seqs[k] \in Seq(T)
    OBVIOUS
  <2>1. seqs[k] \in Seq(T)
    BY <1>1
  <2> QED BY <2>1, ConcatProperties
<1>3. << >> \in Seq(T)
  BY EmptySeq
<1>4. PICK f \in [0..n -> Seq(T)] : /\ f[0] = << >>
                                    /\ \A k \in 1..n : f[k] = step[<<k, f[k - 1]>>]
  <2> DEFINE V == Seq(T)
             base == << >>
  <2>1. n \in Nat /\ base \in V /\ \A k \in 1..n : \A v \in V : step[<<k, v>>] \in V
    BY <1>1, <1>2, <1>3
  <2> HIDE DEF step, V, base
  <2>2. Stepping(n, V, base, step)
    BY <2>1 DEF Stepping
  <2>3. PICK f : Run(f, n, V, base, step)
    BY <2>2, Recursion
  <2>4. f \in [0..n -> V] /\ f[0] = base /\ \A k \in 1..n : f[k] = step[<<k, f[k - 1]>>]
    BY <2>3 DEF Run
  <2> QED BY <2>4 DEF V, base
<1>5. \A k \in 1..n : f[k] = f[k - 1] \o seqs[k] /\ f[k - 1] \in Seq(T)
  <2> SUFFICES ASSUME NEW k \in 1..n PROVE f[k] = f[k - 1] \o seqs[k] /\ f[k - 1] \in Seq(T)
    OBVIOUS
  <2>0. k - 1 \in 0..n
    BY <1>1
  <2>1. f[k - 1] \in Seq(T)
    BY <2>0
  <2>2. step[<<k, f[k - 1]>>] = f[k - 1] \o seqs[k]
    BY <2>1
  <2> QED BY <1>4, <2>1, <2>2
<1>6. FlattenSeq(seqs) = f[n]
  <2>1. CASE n = 0
    <3>1. seqs = << >>
      BY <1>0, <2>1, EmptySeq
    <3> QED BY <1>4, <2>1, <3>1 DEF FlattenSeq
  <2>2. CASE n # 0
    <3> DEFINE Rec(g) == g = [i \in 1..n |-> IF i = 1 THEN seqs[i] ELSE g[i - 1] \o seqs[i]]
               flatten == CHOOSE g : Rec(g)
               F == {k \in 0..n : k # 0 => flatten[k] = f[k]}
    <3>1. FlattenSeq(seqs) = flatten[n]
      BY <1>0, <1>1, <2>2 DEF FlattenSeq
    <3>2. Rec([i \in 1..n |-> f[i]])
      <4>1. f[1] = seqs[1]
        <5>1. 1 \in 1..n /\ 1 - 1 = 0
          BY <1>1, <2>2
        <5>2. f[1] = << >> \o seqs[1]
          <6>1. f[1] = f[1 - 1] \o seqs[1]
            BY <1>5, <5>1
          <6> QED BY <1>4, <5>1, <6>1
        <5>3. seqs[1] \in Seq(T)
          BY <1>1, <5>1
        <5> QED BY <5>2, <5>3, ConcatEmptySeq
      <4>2. ASSUME NEW i \in 1..n, i # 1
            PROVE  i - 1 \in 1..n /\ f[i] = f[i - 1] \o seqs[i]
        <5>1. i - 1 \in 1..n
          BY <1>1, <4>2
        <5> QED BY <1>5, <5>1
      <4> QED BY <4>1, <4>2
    <3>3. Rec(flatten)
      <4> HIDE DEF Rec
      <4> QED BY <3>2
    <3> HIDE DEF flatten
    <3>4. 0 \in F
      BY <1>1
    <3>5. ASSUME NEW k \in 0..n - 1, k \in F PROVE k + 1 \in F
      <4>1. k + 1 \in 1..n /\ (k + 1) - 1 = k
        BY <1>1
      <4>2. flatten[k + 1] = IF k + 1 = 1 THEN seqs[k + 1] ELSE flatten[k] \o seqs[k + 1]
        BY <3>3, <4>1
      <4>3. f[k + 1] = f[k] \o seqs[k + 1] /\ seqs[k + 1] \in Seq(T)
        BY <1>1, <1>5, <4>1
      <4>4. CASE k = 0
        <5>1. f[0 + 1] = << >> \o seqs[0 + 1] /\ seqs[0 + 1] \in Seq(T)
          BY <1>4, <4>3, <4>4
        <5>2. f[0 + 1] = seqs[0 + 1]
          BY <5>1, ConcatEmptySeq
        <5> QED BY <4>1, <4>2, <4>4, <5>2
      <4>5. CASE k # 0
        <5>1. flatten[k] = f[k] /\ k + 1 # 1 /\ k + 1 \in 0..n
          BY <1>1, <3>5, <4>1, <4>5
        <5> QED BY <4>2, <4>3, <5>1
      <4> QED BY <4>4, <4>5
    <3> HIDE DEF F
    <3>6. n \in F
      <4>1. n \in Nat /\ n \in 0..n
        BY <1>1
      <4>2. \A k \in 0..n : k \in F
        BY <3>4, <3>5, <4>1, CountUp
      <4> QED BY <4>1, <4>2
    <3> QED BY <2>2, <3>1, <3>6 DEF F
  <2> QED BY <2>1, <2>2
<1> QED BY <1>0, <1>4, <1>5, <1>6

\* How much of FlattenSeq(seqs) the first k sequences are.
Upto(seqs, k) == Len(FlattenSeq(SubSeq(seqs, 1, k)))

\* Each sequence is where those before it end.
LEMMA FlattenedParts ==
  ASSUME NEW T, NEW seqs \in Seq(Seq(T))
  PROVE  /\ FlattenSeq(seqs) \in Seq(T)
         /\ Upto(seqs, 0) = 0 /\ Upto(seqs, Len(seqs)) = Len(FlattenSeq(seqs))
         /\ \A k \in 0..Len(seqs) : Upto(seqs, k) \in Nat
         /\ \A k \in 1..Len(seqs) :
              /\ Upto(seqs, k) = Upto(seqs, k - 1) + Len(seqs[k])
              /\ \A r \in 1..Len(seqs[k]) :
                   /\ Upto(seqs, k - 1) + r \in 1..Len(FlattenSeq(seqs))
                   /\ FlattenSeq(seqs)[Upto(seqs, k - 1) + r] = seqs[k][r]
<1> DEFINE n == Len(seqs)
<1>1. n \in Nat /\ DOMAIN seqs = 1..n /\ \A i \in 1..n : seqs[i] \in Seq(T) /\ Len(seqs[i]) \in Nat
  BY LenProperties
<1>2. PICK f \in [0..n -> Seq(T)] : /\ f[0] = << >>
                                    /\ \A k \in 1..n : f[k] = f[k - 1] \o seqs[k]
                                    /\ FlattenSeq(seqs) = f[n]
  BY Flattened
<1>3. ASSUME NEW k \in 0..n PROVE FlattenSeq(SubSeq(seqs, 1, k)) = f[k]
  <2> DEFINE sub == SubSeq(seqs, 1, k)
  <2>1. sub \in Seq(Seq(T)) /\ Len(sub) = k /\ \A i \in 1..k : sub[i] = seqs[i]
    <3>1. k \in Int /\ \A i \in 1..k : seqs[i] \in Seq(T)
      BY <1>1
    <3> DEFINE V == Seq(T)
    <3>2. \A i \in 1..k : seqs[i] \in V
      BY <3>1
    <3> HIDE DEF V
    <3>3. /\ sub \in Seq(V) /\ Len(sub) = IF 1 <= k THEN k - 1 + 1 ELSE 0
          /\ \A i \in 1..k - 1 + 1 : sub[i] = seqs[1 + i - 1]
      BY <3>1, <3>2, SubSeqProperties
    <3>4. Len(sub) = k /\ \A i \in 1..k : sub[i] = seqs[i]
      BY <1>1, <3>3
    <3> QED BY <3>3, <3>4 DEF V
  <2> HIDE DEF sub
  <2>2. PICK g \in [0..Len(sub) -> Seq(T)] :
          /\ g[0] = << >>
          /\ \A m \in 1..Len(sub) : g[m] = g[m - 1] \o sub[m]
          /\ FlattenSeq(sub) = g[Len(sub)]
    BY <2>1, Flattened
  <2> DEFINE F == {m \in 0..k : g[m] = f[m]}
  <2>3. k \in Nat /\ 0 \in F
    BY <1>1, <1>2, <2>2
  <2>4. ASSUME NEW m \in 0..k - 1, m \in F PROVE m + 1 \in F
    <3> DEFINE l == m + 1
    <3>1. l \in 1..k /\ l \in 1..n /\ l - 1 = m /\ l \in 0..k
      BY <1>1
    <3> HIDE DEF l
    <3>2. g[l] = g[m] \o sub[l] /\ f[l] = f[m] \o seqs[l] /\ sub[l] = seqs[l]
      BY <1>2, <2>1, <2>2, <3>1
    <3> QED BY <2>4, <3>1, <3>2 DEF l
  <2> HIDE DEF F
  <2>5. \A m \in 0..k : m \in F
    BY <2>3, <2>4, CountUp
  <2>6. g[k] = f[k]
    BY <2>3, <2>5 DEF F
  <2>7. FlattenSeq(sub) = f[k]
    <3>1. Len(sub) = k
      BY <2>1
    <3>2. FlattenSeq(sub) = g[Len(sub)]
      BY <2>2
    <3> QED BY <2>6, <3>1, <3>2
  <2> QED BY <2>7 DEF sub
<1> HIDE DEF n
<1> DEFINE J == [k \in 0..n |-> Upto(seqs, k)]
<1>4. \A k \in 0..n : f[k] \in Seq(T) /\ Len(f[k]) \in Nat /\ J[k] = Len(f[k])
  BY <1>2, <1>3, LenProperties DEF Upto
<1>5. \A k \in 0..n : J[k] = Upto(seqs, k)
  OBVIOUS
<1> HIDE DEF J
<1>8. ASSUME NEW k \in 1..n
      PROVE  /\ k - 1 \in 0..n /\ k \in 0..n
             /\ J[k - 1] \in Nat /\ J[k] = J[k - 1] + Len(seqs[k])
             /\ \A m \in 1..J[k - 1] : f[k][m] = f[k - 1][m]
             /\ \A r \in 1..Len(seqs[k]) : f[k][J[k - 1] + r] = seqs[k][r]
  <2>1. k - 1 \in 0..n /\ k \in 0..n
    BY <1>1
  <2> DEFINE s == f[k - 1]
             t == seqs[k]
  <2>2. s \in Seq(T) /\ t \in Seq(T) /\ f[k] = s \o t
    BY <1>1, <1>2, <1>4, <2>1
  <2>3. t = seqs[k] /\ Len(t) = Len(seqs[k]) /\ Len(seqs[k]) \in Nat
    BY <1>1
  <2>4. J[k - 1] = Len(s) /\ J[k] = Len(s \o t) /\ Len(s) \in Nat
    BY <1>4, <2>1, <2>2
  <2> HIDE DEF s, t
  <2>5. /\ Len(s \o t) = Len(s) + Len(t)
        /\ \A m \in 1..Len(s) + Len(t) : (s \o t)[m] = IF m <= Len(s) THEN s[m] ELSE t[m - Len(s)]
    BY <2>2, ConcatProperties
  <2>6. \A m \in 1..J[k - 1] : f[k][m] = s[m]
    BY <2>2, <2>3, <2>4, <2>5
  <2>7. ASSUME NEW r \in 1..Len(seqs[k]) PROVE f[k][J[k - 1] + r] = t[r]
    <3>1. /\ J[k - 1] + r \in 1..Len(s) + Len(t) /\ ~(J[k - 1] + r <= Len(s))
          /\ (J[k - 1] + r) - Len(s) = r
      BY <2>3, <2>4
    <3> QED BY <2>2, <2>5, <3>1
  <2>8. J[k - 1] \in Nat /\ J[k] = J[k - 1] + Len(seqs[k])
    BY <2>3, <2>4, <2>5
  <2>9. \A r \in 1..Len(seqs[k]) : f[k][J[k - 1] + r] = seqs[k][r]
    BY <2>3, <2>7
  <2>10. \A m \in 1..J[k - 1] : f[k][m] = f[k - 1][m]
    BY <2>6 DEF s
  <2> QED BY <2>1, <2>8, <2>9, <2>10
<1> DEFINE Kept(k) ==
             \A q \in 1..k : \A r \in 1..Len(seqs[q]) :
               /\ J[q - 1] + r \in 1..J[k]
               /\ f[k][J[q - 1] + r] = seqs[q][r]
           F == {k \in 0..n : Kept(k)}
<1>9. 0 \in F
  BY <1>1
<1>10. ASSUME NEW k \in 0..n - 1, k \in F PROVE k + 1 \in F
  <2>1. k + 1 \in 1..n /\ (k + 1) - 1 = k /\ k + 1 \in 0..n
    BY <1>1
  <2>2. /\ J[k] \in Nat /\ J[k + 1] = J[k] + Len(seqs[k + 1]) /\ Len(seqs[k + 1]) \in Nat
        /\ \A m \in 1..J[k] : f[k + 1][m] = f[k][m]
        /\ \A r \in 1..Len(seqs[k + 1]) :
             f[k + 1][J[k] + r] = seqs[k + 1][r]
    <3> DEFINE l == k + 1
    <3>1. l \in 1..n /\ l - 1 = k
      BY <2>1
    <3> HIDE DEF l
    <3>2. /\ J[l - 1] \in Nat /\ J[l] = J[l - 1] + Len(seqs[l]) /\ Len(seqs[l]) \in Nat
          /\ \A m \in 1..J[l - 1] : f[l][m] = f[l - 1][m]
          /\ \A r \in 1..Len(seqs[l]) : f[l][J[l - 1] + r] = seqs[l][r]
      BY <1>1, <1>8, <3>1
    <3> QED BY <3>1, <3>2 DEF l
  <2>3. ASSUME NEW q \in 1..k + 1, NEW r \in 1..Len(seqs[q])
        PROVE  /\ J[q - 1] + r \in 1..J[k + 1]
               /\ f[k + 1][J[q - 1] + r] = seqs[q][r]
    <3>1. CASE q = k + 1
      <4>1. r \in 1..Len(seqs[k + 1]) /\ q - 1 = k
        BY <3>1
      <4>2. J[k] + r \in 1..J[k + 1]
        BY <2>2, <4>1
      <4> QED BY <2>2, <3>1, <4>1, <4>2
    <3>2. CASE q # k + 1
      <4>1. q \in 1..k
        BY <3>2
      <4>2. /\ J[q - 1] + r \in 1..J[k]
            /\ f[k][J[q - 1] + r] = seqs[q][r]
        BY <1>10, <4>1
      <4> DEFINE x == J[q - 1] + r
      <4>3. x \in 1..J[k] /\ f[k][x] = seqs[q][r]
        BY <4>2
      <4> HIDE DEF x
      <4>4. x \in 1..J[k + 1] /\ f[k + 1][x] = f[k][x]
        <5> DEFINE lo == J[k]
                   hi == J[k + 1]
        <5>1. lo \in Nat /\ hi \in Nat /\ lo <= hi
          BY <2>2
        <5>2. x \in 1..lo /\ \A m \in 1..lo : f[k + 1][m] = f[k][m]
          BY <2>2, <4>3
        <5> HIDE DEF lo, hi
        <5>3. x \in 1..hi /\ f[k + 1][x] = f[k][x]
          BY <5>1, <5>2
        <5> QED BY <5>3 DEF hi
      <4> QED BY <4>3, <4>4 DEF x
    <3> QED BY <3>1, <3>2
  <2> QED BY <2>1, <2>3
<1>11. Kept(n)
  <2> HIDE DEF F
  <2>1. \A k \in 0..n : k \in F
    BY <1>1, <1>9, <1>10, CountUp
  <2>2. n \in F
    BY <1>1, <2>1
  <2> QED BY <2>2 DEF F
<1>12. J[0] = 0 /\ J[n] = Len(FlattenSeq(seqs)) /\ FlattenSeq(seqs) \in Seq(T)
  <2>1. 0 \in 0..n /\ n \in 0..n
    BY <1>1
  <2>2. Len(<< >>) = 0
    OBVIOUS
  <2> QED BY <1>2, <1>4, <2>1, <2>2
<1>13. 0 \in 0..n /\ n \in 0..n /\ \A k \in 1..n : k - 1 \in 0..n /\ k \in 0..n
  BY <1>1
<1>14. \A k \in 0..n : Upto(seqs, k) \in Nat
  BY <1>4, <1>5
<1>15. Upto(seqs, 0) = 0 /\ Upto(seqs, n) = Len(FlattenSeq(seqs))
  BY <1>5, <1>12, <1>13
<1>16. ASSUME NEW k \in 1..n
      PROVE  /\ Upto(seqs, k) = Upto(seqs, k - 1) + Len(seqs[k])
             /\ \A r \in 1..Len(seqs[k]) :
                  /\ Upto(seqs, k - 1) + r \in 1..Len(FlattenSeq(seqs))
                  /\ FlattenSeq(seqs)[Upto(seqs, k - 1) + r] = seqs[k][r]
  <2>1. J[k] = Upto(seqs, k) /\ J[k - 1] = Upto(seqs, k - 1)
    BY <1>5, <1>13
  <2>2. J[k] = J[k - 1] + Len(seqs[k])
    BY <1>8
  <2>3. \A r \in 1..Len(seqs[k]) :
          /\ J[k - 1] + r \in 1..J[n]
          /\ f[n][J[k - 1] + r] = seqs[k][r]
    BY <1>11
  <2> QED BY <1>2, <1>12, <2>1, <2>2, <2>3
<1> QED BY <1>12, <1>14, <1>15, <1>16 DEF n

\* FlattenSeq begins with the first of the sequences.
LEMMA FlattenedFirst ==
  ASSUME NEW T, NEW seqs \in Seq(Seq(T)), seqs # << >>
  PROVE  /\ FlattenSeq(seqs) \in Seq(T) /\ seqs[1] \in Seq(T)
         /\ Len(seqs[1]) <= Len(FlattenSeq(seqs))
         /\ \A m \in 1..Len(seqs[1]) : FlattenSeq(seqs)[m] = seqs[1][m]
<1> DEFINE first == seqs[1]
           all == FlattenSeq(seqs)
<1>1. 1 \in 1..Len(seqs) /\ first \in Seq(T) /\ Len(first) \in Nat
  BY EmptySeq, LenProperties
<1>2. all \in Seq(T) /\ Len(all) \in Nat
  BY FlattenedParts, LenProperties
<1>3. \A m \in 1..Len(first) : m \in 1..Len(all) /\ all[m] = first[m]
  <2> SUFFICES ASSUME NEW m \in 1..Len(first)
               PROVE  m \in 1..Len(all) /\ all[m] = first[m]
    OBVIOUS
  <2>1. /\ Upto(seqs, 1 - 1) + m \in 1..Len(all)
        /\ all[Upto(seqs, 1 - 1) + m] = first[m]
    BY <1>1, FlattenedParts
  <2>2. Upto(seqs, 1 - 1) + m = m
    <3>1. Upto(seqs, 0) = 0 /\ 1 - 1 = 0
      BY FlattenedParts
    <3> QED BY <1>1, <3>1
  <2> QED BY <2>1, <2>2
<1> HIDE DEF first, all
<1>4. Len(first) <= Len(all)
  <2>1. CASE Len(first) = 0
    BY <1>2, <2>1
  <2>2. CASE Len(first) # 0
    <3>1. Len(first) \in 1..Len(first)
      BY <1>1, <2>2
    <3>2. Len(first) \in 1..Len(all)
      BY <1>3, <3>1
    <3> QED BY <1>2, <3>2
  <2> QED BY <2>1, <2>2
<1> QED BY <1>1, <1>2, <1>3, <1>4 DEF first, all
================================================================================

-------------------------- MODULE SectorStoreProofs --------------------------
(***************************************************************************)
(* Facts about the vote counter, for lists of any length over any values,  *)
(* and about the sectors that vote with it: what a read does to the        *)
(* promise of a sector, for any contents and CRCs.                         *)
(***************************************************************************)
EXTENDS SectorStore, FiniteSetTheorems, TLAPS

LEMMA Smallest ==
  ASSUME NEW S, S \subseteq Nat, S # {}
  PROVE  \E x \in S : \A y \in S : x <= y
<1> DEFINE Less == {p \in Nat \X Nat : p[1] < p[2]}
<1>1. IsWellFoundedOn(Less, Nat)
  BY NatLessThanWellFounded DEF OpToRel
<1>2. PICK x \in S : \A y \in S : ~(<<y, x>> \in Less)
  <2> HIDE DEF Less
  <2> QED BY <1>1, WFMin
<1>3. \A y \in S : ~(y < x)
  BY <1>2
<1> QED BY <1>3

LEMMA UpTo ==
  ASSUME NEW n \in Nat
  PROVE  IsFiniteSet(1..n) /\ Cardinality(1..n) = n
BY FS_Interval

\* One entry per value.
Distinct(occ) ==
  \A i, j \in DOMAIN occ : occ[i].second = occ[j].second => i = j

LEMMA ListType ==
  ASSUME NEW T, NEW occ \in occurences_t(T)
  PROVE  /\ Len(occ) \in Nat
         /\ DOMAIN occ = 1..Len(occ)
         /\ \A i \in DOMAIN occ : /\ i \in Nat \ {0}
                                  /\ occ[i] \in occurence_t(T)
                                  /\ occ[i].first \in Nat \ {0}
                                  /\ occ[i].second \in T
<1>1. occ \in Seq(occurence_t(T))
  BY DEF occurences_t
<1>2. \A i \in 1..Len(occ) : occ[i] \in occurence_t(T)
  BY <1>1
<1>3. \A o \in occurence_t(T) : o.first \in Nat \ {0} /\ o.second \in T
  BY DEF occurence_t
<1> QED BY <1>1, <1>2, <1>3

\* There is at most one first maximum, so std::max_element's answer is it.
LEMMA MostCommonIndexUnique ==
  ASSUME NEW T, NEW occ \in occurences_t(T),
         NEW i \in DOMAIN occ, IsMaxElement(occ, i)
  PROVE  MostCommonIndex(occ) = i
<1>1. \A k \in DOMAIN occ : IsMaxElement(occ, k) => k = i
  <2>1. TAKE k \in DOMAIN occ
  <2>2. HAVE IsMaxElement(occ, k)
  <2>3. occ[i].first \in Nat /\ occ[k].first \in Nat /\ i \in Nat /\ k \in Nat
    BY ListType
  <2>4. occ[i].first = occ[k].first
    BY <2>2, <2>3 DEF IsMaxElement
  <2>5. ~(i < k) /\ ~(k < i)
    BY <2>2, <2>3, <2>4 DEF IsMaxElement
  <2> QED BY <2>3, <2>5
<1> QED BY <1>1 DEF MostCommonIndex

\* A vote for a value without an entry opens one, with one vote, at the end.
LEMMA PushBackNew ==
  ASSUME NEW T, NEW occ \in occurences_t(T), NEW v \in T,
         Entries(occ, v) = {}
  PROVE  /\ push_back(occ, v) = Append(occ, [first |-> 1, second |-> v])
         /\ push_back(occ, v) \in occurences_t(T)
         /\ DOMAIN push_back(occ, v) = 1..(Len(occ) + 1)
         /\ \A i \in DOMAIN occ : push_back(occ, v)[i] = occ[i]
         /\ push_back(occ, v)[Len(occ) + 1] = [first |-> 1, second |-> v]
  BY DEF push_back, occurences_t, occurence_t

\* The first vote.
LEMMA PushBackFirst ==
  ASSUME NEW T, NEW occ \in occurences_t(T), NEW v \in T, Len(occ) = 0
  PROVE  /\ DOMAIN push_back(occ, v) = 1..1
         /\ push_back(occ, v)[1] = [first |-> 1, second |-> v]
<1>1. Entries(occ, v) = {}
  BY ListType DEF Entries
<1>2. push_back(occ, v)[Len(occ) + 1] = [first |-> 1, second |-> v]
  BY <1>1, PushBackNew
<1>3. DOMAIN push_back(occ, v) = 1..(Len(occ) + 1)
  BY <1>1, PushBackNew
<1>4. Len(occ) + 1 = 1
  OBVIOUS
<1> QED BY <1>2, <1>3, <1>4, Zenon

\* A vote for a value with an entry is counted there and nowhere else.
LEMMA PushBackOld ==
  ASSUME NEW T, NEW occ \in occurences_t(T), NEW v \in T,
         Distinct(occ), NEW e \in DOMAIN occ, occ[e].second = v
  PROVE  /\ push_back(occ, v) = [occ EXCEPT ![e].first = @ + 1]
         /\ push_back(occ, v) \in occurences_t(T)
         /\ DOMAIN push_back(occ, v) = DOMAIN occ
         /\ \A i \in DOMAIN occ : push_back(occ, v)[i].second = occ[i].second
         /\ \A i \in DOMAIN occ \ {e} :
               push_back(occ, v)[i].first = occ[i].first
         /\ push_back(occ, v)[e].first = occ[e].first + 1
<1>1. Entries(occ, v) = {e}
  BY DEF Entries, Distinct
<1>2. e \in Nat
  BY DEF occurences_t
<1>3. push_back(occ, v) = [occ EXCEPT ![e].first = @ + 1]
  <2>1. (CHOOSE i \in Entries(occ, v) : \A j \in Entries(occ, v) : i <= j) = e
    BY <1>1, <1>2
  <2>2. Entries(occ, v) # {}
    BY <1>1
  <2> QED BY <2>1, <2>2, Zenon DEF push_back
<1>4. /\ occ[e] \in [first : Nat \ {0}, second : T]
      /\ occ[e].first + 1 \in Nat \ {0}
      /\ occ[e].second \in T
  BY ListType DEF occurence_t
<1>5. [occ[e] EXCEPT !.first = @ + 1]
        = [first |-> occ[e].first + 1, second |-> occ[e].second]
  BY <1>4
<1>6. [occ[e] EXCEPT !.first = @ + 1] \in occurence_t(T)
  BY <1>4, <1>5 DEF occurence_t
<1>7. occ \in Seq(occurence_t(T))
  BY DEF occurences_t
<1>8. push_back(occ, v) \in occurences_t(T)
  BY <1>3, <1>6, <1>7 DEF occurences_t
<1>9. /\ DOMAIN push_back(occ, v) = DOMAIN occ
      /\ \A i \in DOMAIN occ \ {e} : push_back(occ, v)[i] = occ[i]
      /\ push_back(occ, v)[e] = [occ[e] EXCEPT !.first = @ + 1]
  BY <1>3, <1>7
<1> QED BY <1>3, <1>5, <1>8, <1>9

\* Where a vote goes, whether or not the values are distinct.
LEMMA PushBackOpen ==
  ASSUME NEW T, NEW occ \in occurences_t(T), NEW v \in T, Entries(occ, v) # {}
  PROVE  \E e \in DOMAIN occ : push_back(occ, v) = [occ EXCEPT ![e].first = @ + 1]
<1> DEFINE it == CHOOSE i \in Entries(occ, v) : \A j \in Entries(occ, v) : i <= j
<1>1. Entries(occ, v) \subseteq Nat /\ Entries(occ, v) \subseteq DOMAIN occ
  BY DEF Entries, occurences_t
<1>2. it \in DOMAIN occ
  BY <1>1, Smallest
<1>3. push_back(occ, v) = [occ EXCEPT ![it].first = @ + 1]
  BY DEF push_back
<1> QED BY <1>2, <1>3

LEMMA PushBackType ==
  ASSUME NEW T, NEW occ \in occurences_t(T), NEW v \in T
  PROVE  push_back(occ, v) \in occurences_t(T)
<1>1. CASE Entries(occ, v) = {}
  BY <1>1 DEF push_back, occurences_t, occurence_t
<1>2. CASE Entries(occ, v) # {}
  <2>1. PICK e \in DOMAIN occ : push_back(occ, v) = [occ EXCEPT ![e].first = @ + 1]
    BY <1>2, PushBackOpen
  <2>2. occ[e] \in occurence_t(T)
    BY ListType
  <2>3. [occ[e] EXCEPT !.first = @ + 1] \in occurence_t(T)
    BY <2>2 DEF occurence_t
  <2> QED BY <2>1, <2>3 DEF occurences_t
<1> QED BY <1>1, <1>2

-----------------------------------------------------------------------------
(***************************************************************************)
(* What a vote does to the order of the entries.                           *)
(***************************************************************************)

LEMMA PushBackDistinct ==
  ASSUME NEW T, NEW occ \in occurences_t(T), NEW v \in T, Distinct(occ)
  PROVE  /\ push_back(occ, v) \in occurences_t(T)
         /\ push_back(occ, v) # << >>
         /\ Distinct(push_back(occ, v))
<1>1. CASE Entries(occ, v) = {}
  <2>1. \A i \in DOMAIN occ : occ[i].second # v
    BY <1>1 DEF Entries
  <2>2. /\ push_back(occ, v) \in occurences_t(T)
        /\ DOMAIN push_back(occ, v) = 1..(Len(occ) + 1)
        /\ \A i \in DOMAIN occ : push_back(occ, v)[i] = occ[i]
        /\ push_back(occ, v)[Len(occ) + 1] = [first |-> 1, second |-> v]
    BY <1>1, PushBackNew
  <2>3. /\ DOMAIN occ = 1..Len(occ)
        /\ Len(occ) \in Nat
    BY ListType
  <2>4. Distinct(push_back(occ, v))
    BY <2>1, <2>2, <2>3 DEF Distinct
  <2>5. push_back(occ, v) # << >>
    BY <2>2, <2>3
  <2> QED BY <2>2, <2>4, <2>5
<1>2. CASE Entries(occ, v) # {}
  <2>1. PICK e \in DOMAIN occ : occ[e].second = v
    BY <1>2 DEF Entries
  <2>2. /\ push_back(occ, v) \in occurences_t(T)
        /\ DOMAIN push_back(occ, v) = DOMAIN occ
        /\ \A i \in DOMAIN occ : push_back(occ, v)[i].second = occ[i].second
    BY <2>1, PushBackOld
  <2>3. Distinct(push_back(occ, v))
    BY <2>2 DEF Distinct
  <2>4. e \in DOMAIN push_back(occ, v)
    BY <2>2
  <2>5. push_back(occ, v) # << >>
    BY <2>4
  <2> QED BY <2>2, <2>3, <2>5
<1> QED BY <1>1, <1>2

\* The vote of a list with a first maximum at w has a first maximum again: w,
\* or the entry of the value voted for.
LEMMA PushBackMax ==
  ASSUME NEW T, NEW occ \in occurences_t(T), NEW v \in T, Distinct(occ),
         NEW w \in DOMAIN occ, IsMaxElement(occ, w)
  PROVE  \E i \in DOMAIN push_back(occ, v) :
            /\ IsMaxElement(push_back(occ, v), i)
            /\ \/ i = w
               \/ push_back(occ, v)[i].second = v
<1> DEFINE new == push_back(occ, v)
<1>0. /\ \A i \in DOMAIN occ : i \in Nat \ {0} /\ occ[i].first \in Nat \ {0}
      /\ DOMAIN occ = 1..Len(occ)
      /\ Len(occ) \in Nat
  BY ListType
<1>1. CASE Entries(occ, v) = {}
  <2>1. /\ DOMAIN new = 1..(Len(occ) + 1)
        /\ \A i \in DOMAIN occ : new[i] = occ[i]
        /\ new[Len(occ) + 1] = [first |-> 1, second |-> v]
    BY <1>1, PushBackNew
  <2>2. ASSUME NEW j \in DOMAIN new
        PROVE  new[j].first <= new[w].first /\ (j < w => new[j].first < new[w].first)
    <3>1. CASE j \in DOMAIN occ
      BY <2>1, <3>1 DEF IsMaxElement
    <3>2. CASE j = Len(occ) + 1
      BY <1>0, <2>1, <3>2
    <3> QED BY <1>0, <2>1, <3>1, <3>2
  <2>3. IsMaxElement(new, w)
    BY <2>2 DEF IsMaxElement
  <2>4. w \in DOMAIN new
    BY <1>0, <2>1
  <2> QED BY <2>3, <2>4
<1>2. CASE Entries(occ, v) # {}
  <2>1. PICK e \in DOMAIN occ : occ[e].second = v
    BY <1>2 DEF Entries
  <2>2. /\ DOMAIN new = DOMAIN occ
        /\ \A i \in DOMAIN occ : new[i].second = occ[i].second
        /\ \A i \in DOMAIN occ \ {e} : new[i].first = occ[i].first
        /\ new[e].first = occ[e].first + 1
    BY <2>1, PushBackOld
  <2>3. \A i \in DOMAIN occ : /\ occ[i].first <= occ[w].first
                              /\ i < w => occ[i].first < occ[w].first
    BY DEF IsMaxElement
  <2>4. CASE \/ occ[e].first + 1 > occ[w].first
             \/ occ[e].first + 1 = occ[w].first /\ e < w
    <3>1. ASSUME NEW j \in DOMAIN occ
          PROVE  /\ new[j].first <= new[e].first
                 /\ j < e => new[j].first < new[e].first
      BY <1>0, <2>2, <2>3, <2>4
    <3>2. IsMaxElement(new, e)
      BY <2>2, <3>1 DEF IsMaxElement
    <3> QED BY <2>1, <2>2, <3>2
  <2>5. CASE ~ \/ occ[e].first + 1 > occ[w].first
               \/ occ[e].first + 1 = occ[w].first /\ e < w
    <3>1. ASSUME NEW j \in DOMAIN occ
          PROVE  /\ new[j].first <= new[w].first
                 /\ j < w => new[j].first < new[w].first
      BY <1>0, <2>2, <2>3, <2>5
    <3>2. IsMaxElement(new, w)
      BY <2>2, <3>1 DEF IsMaxElement
    <3> QED BY <2>2, <3>2
  <2> QED BY <2>4, <2>5
<1> QED BY <1>1, <1>2

\* A vote keeps every entry in its place, leaves the other values' votes
\* alone, and there is an entry of the value afterwards.
LEMMA PushBackEntries ==
  ASSUME NEW T, NEW occ \in occurences_t(T), NEW v \in T, Distinct(occ)
  PROVE  /\ \A i \in DOMAIN occ :
              /\ i \in DOMAIN push_back(occ, v)
              /\ push_back(occ, v)[i].second = occ[i].second
              /\ occ[i].second # v =>
                   push_back(occ, v)[i].first = occ[i].first
         /\ \E i \in DOMAIN push_back(occ, v) : push_back(occ, v)[i].second = v
<1>0. /\ DOMAIN occ = 1..Len(occ)
      /\ Len(occ) \in Nat
  BY ListType
<1>1. CASE Entries(occ, v) = {}
  <2>1. /\ DOMAIN push_back(occ, v) = 1..(Len(occ) + 1)
        /\ \A i \in DOMAIN occ : push_back(occ, v)[i] = occ[i]
        /\ push_back(occ, v)[Len(occ) + 1] = [first |-> 1, second |-> v]
    BY <1>1, PushBackNew
  <2> QED BY <1>0, <2>1
<1>2. CASE Entries(occ, v) # {}
  <2>1. PICK e \in DOMAIN occ : occ[e].second = v
    BY <1>2 DEF Entries
  <2>2. /\ DOMAIN push_back(occ, v) = DOMAIN occ
        /\ \A i \in DOMAIN occ : push_back(occ, v)[i].second = occ[i].second
        /\ \A i \in DOMAIN occ \ {e} :
              push_back(occ, v)[i].first = occ[i].first
    BY <2>1, PushBackOld
  <2> QED BY <2>1, <2>2
<1> QED BY <1>1, <1>2

-----------------------------------------------------------------------------
(***************************************************************************)
(* Induction over the subsets of a finite set, without an operator for the *)
(* induction hypothesis: of the subsets outside F one has no subset        *)
(* outside F, because inclusion is well-founded.                           *)
(***************************************************************************)

LEMMA SetInduction ==
  ASSUME NEW S, IsFiniteSet(S), NEW F,
         \A T \in SUBSET S : (\A x \in T : T \ {x} \in F) => T \in F
  PROVE  \A T \in SUBSET S : T \in F
<1> DEFINE C == {T \in SUBSET S : T \notin F}
<1> SUFFICES ASSUME C # {} PROVE FALSE
  OBVIOUS
<1>1. IsWellFoundedOn(StrictSubsetOrdering(S), SUBSET S)
  <2>1. FiniteSubsetsOf(S) = SUBSET S
    BY FS_FiniteSubsetsOfFinite
  <2>2. IsWellFoundedOn(StrictSubsetOrdering(S), FiniteSubsetsOf(S))
    BY FS_StrictSubsetOrderingWellFounded
  <2> QED BY <2>1, <2>2, Zenon
<1>2. PICK T \in C : \A U \in C : ~(<<U, T>> \in StrictSubsetOrdering(S))
  <2>1. C \subseteq SUBSET S
    OBVIOUS
  <2> QED BY <1>1, <2>1, WFMin
<1>3. ASSUME NEW x \in T PROVE T \ {x} \in F
  <2> DEFINE U == T \ {x}
  <2>1. U \in SUBSET S /\ U \subseteq T /\ U # T
    OBVIOUS
  <2> HIDE DEF U
  <2>2. <<U, T>> \in StrictSubsetOrdering(S)
    BY <2>1 DEF StrictSubsetOrdering
  <2>3. U \notin C
    BY <1>2, <2>2
  <2> QED BY <2>1, <2>3 DEF U
<1> QED BY <1>3

-----------------------------------------------------------------------------
(***************************************************************************)
(* sum is a fold, which takes the entries in an order of its own.  The     *)
(* ballots of a list have no order, and are as many.                       *)
(***************************************************************************)

\* The votes of some of the entries, one by one: <entry, number of the vote>.
Ballots(occ, entries) ==
  {b \in entries \X (Nat \ {0}) : b[2] <= occ[b[1]].first}

\* The ballots of an entry are as many as its votes.
LEMMA BallotsOfOneMore ==
  ASSUME NEW T, NEW occ \in occurences_t(T), NEW s \in SUBSET DOMAIN occ,
         NEW x \in s, IsFiniteSet(Ballots(occ, s \ {x}))
  PROVE  /\ IsFiniteSet(Ballots(occ, s))
         /\ Cardinality(Ballots(occ, s))
              = occ[x].first + Cardinality(Ballots(occ, s \ {x}))
<1> DEFINE n == occ[x].first
           old == Ballots(occ, s \ {x})
           mine == {x} \X (1..n)
<1>1. n \in Nat
  BY ListType
<1>2. Ballots(occ, s) = old \cup mine
  BY <1>1 DEF Ballots
<1>3. old \cap mine = {}
  BY DEF Ballots
<1>4. IsFiniteSet(mine) /\ Cardinality(mine) = n
  <2>1. IsFiniteSet(1..n) /\ Cardinality(1..n) = n
    BY <1>1, UpTo
  <2>2. IsFiniteSet({x}) /\ Cardinality({x}) = 1
    BY FS_Singleton
  <2>3. IsFiniteSet(mine) /\ Cardinality(mine) = Cardinality({x}) * Cardinality(1..n)
    BY <2>1, <2>2, FS_Product
  <2> QED BY <1>1, <2>1, <2>2, <2>3
<1> HIDE DEF n, old, mine
<1>5. Cardinality(old) \in Nat
  BY FS_CardinalityType DEF old
<1>6. /\ IsFiniteSet(old \cup mine)
      /\ Cardinality(old \cup mine)
           = Cardinality(old) + Cardinality(mine) - Cardinality(old \cap mine)
  BY <1>4, FS_Union DEF old
<1>7. Cardinality(old \cap mine) = 0
  BY <1>3, FS_EmptySet
<1>8. Cardinality(old \cup mine) = n + Cardinality(old)
  BY <1>1, <1>4, <1>5, <1>6, <1>7
<1> QED BY <1>2, <1>6, <1>8 DEF n, old

LEMMA BallotsFinite ==
  ASSUME NEW T, NEW occ \in occurences_t(T)
  PROVE  /\ IsFiniteSet(DOMAIN occ)
         /\ \A s \in SUBSET DOMAIN occ : IsFiniteSet(Ballots(occ, s))
<1>1. IsFiniteSet(DOMAIN occ)
  BY ListType, UpTo
<1> DEFINE F == {s \in SUBSET DOMAIN occ : IsFiniteSet(Ballots(occ, s))}
<1>2. ASSUME NEW s \in SUBSET DOMAIN occ, \A x \in s : s \ {x} \in F
      PROVE  s \in F
  <2>1. CASE s = {}
    <3>1. Ballots(occ, s) = {}
      BY <2>1 DEF Ballots
    <3> QED BY <3>1, FS_EmptySet
  <2>2. CASE s # {}
    <3>1. PICK x \in s : IsFiniteSet(Ballots(occ, s \ {x}))
      BY <1>2, <2>2
    <3> QED BY <3>1, BallotsOfOneMore
  <2> QED BY <2>1, <2>2
<1> HIDE DEF F
<1>3. \A s \in SUBSET DOMAIN occ : s \in F
  BY <1>1, <1>2, SetInduction
<1> QED BY <1>1, <1>3 DEF F

\* The element a fold takes next.
Pick(s) == CHOOSE x \in s : TRUE

\* sum, whichever entry its fold takes first, counts the ballots.
LEMMA SumIsBallots ==
  ASSUME NEW T, NEW occ \in occurences_t(T)
  PROVE  sum(occ) = Cardinality(Ballots(occ, DOMAIN occ))
<1> DEFINE D == DOMAIN occ
           g == [s \in SUBSET D |-> Cardinality(Ballots(occ, s))]
           Rec(it) == it = [s \in SUBSET D |->
                              IF s = {} THEN 0
                              ELSE occ[Pick(s)].first + it[s \ {Pick(s)}]]
           iter == CHOOSE it : Rec(it)
<1>1. sum(occ) = iter[D]
  BY DEF sum, FoldFunction, FoldFunctionOnSet, MapThenFoldSet, Pick
<1>2. ASSUME NEW s \in SUBSET D, s # {}
      PROVE  Pick(s) \in s
  BY <1>2 DEF Pick
<1>3. Rec(g)
  <2>1. ASSUME NEW s \in SUBSET D
        PROVE  g[s] = IF s = {} THEN 0 ELSE occ[Pick(s)].first + g[s \ {Pick(s)}]
    <3>1. CASE s = {}
      <4>1. Ballots(occ, s) = {}
        BY <3>1 DEF Ballots
      <4> QED BY <3>1, <4>1, FS_EmptySet
    <3>2. CASE s # {}
      <4>1. Pick(s) \in s /\ s \ {Pick(s)} \in SUBSET D
        BY <1>2, <3>2
      <4>2. IsFiniteSet(Ballots(occ, s \ {Pick(s)}))
        BY <4>1, BallotsFinite
      <4>3. Cardinality(Ballots(occ, s))
              = occ[Pick(s)].first + Cardinality(Ballots(occ, s \ {Pick(s)}))
        BY <4>1, <4>2, BallotsOfOneMore
      <4> QED BY <3>2, <4>1, <4>3
    <3> QED BY <3>1, <3>2
  <2> QED BY <2>1
<1>4. Rec(iter)
  BY <1>3
<1> DEFINE F == {s \in SUBSET D : iter[s] = g[s]}
<1> HIDE DEF iter, g
<1>5. ASSUME NEW s \in SUBSET D, \A x \in s : s \ {x} \in F
      PROVE  s \in F
  <2>1. /\ iter[s] = IF s = {} THEN 0 ELSE occ[Pick(s)].first + iter[s \ {Pick(s)}]
        /\ g[s] = IF s = {} THEN 0 ELSE occ[Pick(s)].first + g[s \ {Pick(s)}]
    BY <1>3, <1>4
  <2>2. s # {} => iter[s \ {Pick(s)}] = g[s \ {Pick(s)}]
    BY <1>2, <1>5
  <2> QED BY <2>1, <2>2
<1> HIDE DEF F
<1>6. \A s \in SUBSET D : s \in F
  BY <1>5, BallotsFinite, SetInduction
<1>7. iter[D] = g[D]
  BY <1>6 DEF F
<1> QED BY <1>1, <1>7 DEF g

LEMMA SumType ==
  ASSUME NEW T, NEW occ \in occurences_t(T)
  PROVE  sum(occ) \in Nat
BY SumIsBallots, BallotsFinite, FS_CardinalityType

\* A list without votes has none, and a vote is one vote more.
LEMMA SumOfNone == sum(<< >>) = 0
<1>1. << >> \in occurences_t({})
  BY DEF occurences_t
<1>2. Ballots(<< >>, DOMAIN << >>) = {}
  BY DEF Ballots
<1> QED BY <1>1, <1>2, SumIsBallots, FS_EmptySet

LEMMA PushBackSum ==
  ASSUME NEW T, NEW occ \in occurences_t(T), NEW v \in T
  PROVE  sum(push_back(occ, v)) = sum(occ) + 1
<1> DEFINE new == push_back(occ, v)
           old == Ballots(occ, DOMAIN occ)
<1>1. /\ new \in occurences_t(T)
      /\ DOMAIN occ = 1..Len(occ)
      /\ Len(occ) \in Nat
      /\ \A i \in DOMAIN occ : occ[i].first \in Nat \ {0}
  BY PushBackType, ListType
<1>2. ASSUME NEW b, b \notin old, Ballots(new, DOMAIN new) = old \cup {b}
      PROVE  sum(new) = sum(occ) + 1
  <2>1. IsFiniteSet(old)
    BY BallotsFinite
  <2>2. Cardinality(old \cup {b}) = Cardinality(old) + 1
    BY <1>2, <2>1, FS_AddElement
  <2>3. sum(occ) = Cardinality(old)
    BY SumIsBallots
  <2>4. sum(new) = Cardinality(Ballots(new, DOMAIN new))
    BY <1>1, SumIsBallots
  <2> QED BY <1>2, <2>2, <2>3, <2>4
<1>3. CASE Entries(occ, v) = {}
  <2> DEFINE b == <<Len(occ) + 1, 1>>
  <2>1. /\ DOMAIN new = 1..(Len(occ) + 1)
        /\ \A i \in DOMAIN occ : new[i] = occ[i]
        /\ new[Len(occ) + 1] = [first |-> 1, second |-> v]
    BY <1>3, PushBackNew
  <2>2. b \notin old
    BY <1>1 DEF Ballots
  <2>3. Ballots(new, DOMAIN new) = old \cup {b}
    BY <1>1, <2>1 DEF Ballots
  <2> QED BY <1>2, <2>2, <2>3
<1>4. CASE Entries(occ, v) # {}
  <2>1. PICK e \in DOMAIN occ : push_back(occ, v) = [occ EXCEPT ![e].first = @ + 1]
    BY <1>4, PushBackOpen
  <2>2. /\ DOMAIN new = DOMAIN occ
        /\ \A i \in DOMAIN occ \ {e} : new[i].first = occ[i].first
        /\ new[e].first = occ[e].first + 1
    <3>1. occ[e] \in occurence_t(T) /\ occ \in Seq(occurence_t(T))
      BY ListType DEF occurences_t
    <3>2. [occ[e] EXCEPT !.first = @ + 1].first = occ[e].first + 1
      BY <3>1 DEF occurence_t
    <3> QED BY <2>1, <3>1, <3>2
  <2> DEFINE b == <<e, occ[e].first + 1>>
  <2>3. b \notin old
    BY <1>1 DEF Ballots
  <2>4. Ballots(new, DOMAIN new) = old \cup {b}
    BY <1>1, <2>2 DEF Ballots
  <2> QED BY <1>2, <2>3, <2>4
<1> QED BY <1>3, <1>4

-----------------------------------------------------------------------------
(***************************************************************************)
(* One sector.                                                             *)
(***************************************************************************)

LEMMA SectorType ==
  ASSUME NEW s \in Sector
  PROVE  s.data \in Data /\ s.check \in Checks /\ s.checks \in occurences_t(Checks)
BY DEF Sector

\* The heart of the db: AddAudio preserves SectorInv.  When the bytes are
\* copied, the winner of the vote is the CRC of the audio just read, although
\* the code compares the winner with the old check only.
LEMMA AddAudioSectorInv ==
  ASSUME NEW s \in Sector, SectorInv(s), NEW audio \in Data
  PROVE  AddAudio(s, audio) \in Sector /\ SectorInv(AddAudio(s, audio))
<1> DEFINE c    == CrcOf[audio]
           occ  == s.checks
           new  == push_back(occ, c)
           copy == \/ MostCommonCount(new) <= 1
                   \/ MostCommonValue(new, NoCheck) # s.check
           t    == AddAudio(s, audio)
<1>1. c \in Checks
  BY StoreAssumption
<1>2. /\ s.data \in Data
      /\ s.check \in Checks
      /\ occ \in occurences_t(Checks)
  BY SectorType
<1>3. Distinct(occ)
  BY DEF SectorInv, Distinct
<1>4. /\ new \in occurences_t(Checks)
      /\ new # << >>
      /\ Distinct(new)
  BY <1>1, <1>2, <1>3, PushBackDistinct
<1>5. t = [data   |-> IF copy THEN audio ELSE s.data,
           check  |-> IF copy THEN c ELSE s.check,
           checks |-> new]
  BY DEF AddAudio
<1>6. t \in Sector
  BY <1>1, <1>2, <1>4, <1>5 DEF Sector
<1>7. \E i \in DOMAIN new : new[i].second = c
  BY <1>1, <1>2, <1>3, PushBackEntries
<1>8. \A i \in DOMAIN new : new[i].first \in Nat \ {0}
  BY <1>4, ListType
<1>9. \E i \in DOMAIN new :
        /\ IsMaxElement(new, i)
        /\ copy => \/ new[i].second = c
                   \/ MostCommonCount(new) <= 1
        /\ MostCommonCount(new) = new[i].first
        /\ MostCommonValue(new, NoCheck) = new[i].second
  <2>1. CASE occ = << >>
    <3>1. Len(occ) = 0
      BY <2>1
    <3>2. /\ DOMAIN new = 1..1
          /\ new[1] = [first |-> 1, second |-> c]
      BY <1>1, <1>2, <3>1, PushBackFirst
    <3>3. IsMaxElement(new, 1)
      BY <3>2 DEF IsMaxElement
    <3>4. MostCommonIndex(new) = 1
      BY <1>4, <3>2, <3>3, MostCommonIndexUnique
    <3> QED BY <1>4, <3>2, <3>3, <3>4 DEF MostCommonCount, MostCommonValue
  <2>2. CASE occ # << >>
    <3>1. PICK w \in DOMAIN occ : IsMaxElement(occ, w)
      BY <2>2 DEF SectorInv
    <3>2. PICK k \in DOMAIN occ :
             /\ occ[k].second = s.check
             /\ \/ IsMaxElement(occ, k)
                \/ \A j \in DOMAIN occ : occ[j].first = 1
      BY <2>2 DEF SectorInv
    <3>3. PICK i \in DOMAIN new : /\ IsMaxElement(new, i)
                                  /\ i = w \/ new[i].second = c
      BY <1>1, <1>2, <1>3, <3>1, PushBackMax
    <3>4. MostCommonIndex(new) = i
      BY <1>4, <3>3, MostCommonIndexUnique
    <3>5. /\ MostCommonCount(new) = new[i].first
          /\ MostCommonValue(new, NoCheck) = new[i].second
      BY <1>4, <3>4 DEF MostCommonCount, MostCommonValue
    <3>6. ASSUME copy, new[i].second # c
          PROVE  new[i].first <= 1
      <4>1. i = w
        BY <3>3, <3>6
      <4>2. /\ new[w].second = occ[w].second
            /\ occ[w].second # c => new[w].first = occ[w].first
        BY <1>1, <1>2, <1>3, PushBackEntries
      <4>3. CASE IsMaxElement(occ, k)
        <5>1. k = w
          BY <1>2, <3>1, <4>3, MostCommonIndexUnique
        <5>2. MostCommonValue(new, NoCheck) = s.check
          BY <3>2, <3>5, <4>1, <4>2, <5>1
        <5> QED BY <3>5, <3>6, <5>2
      <4>4. CASE \A j \in DOMAIN occ : occ[j].first = 1
        BY <3>6, <4>1, <4>2, <4>4
      <4> QED BY <3>2, <4>3, <4>4
    <3> QED BY <3>3, <3>5, <3>6
  <2> QED BY <2>1, <2>2
<1>10. CASE copy
  <2>1. t.checks = new /\ t.check = c /\ t.data = audio
    BY <1>5, <1>10
  <2>2. PICK i \in DOMAIN new :
          /\ IsMaxElement(new, i)
          /\ \/ new[i].second = c
             \/ MostCommonCount(new) <= 1
          /\ MostCommonCount(new) = new[i].first
    BY <1>9, <1>10
  <2>3. \E j \in DOMAIN new :
          /\ new[j].second = c
          /\ \/ IsMaxElement(new, j)
             \/ \A l \in DOMAIN new : new[l].first = 1
    <3>1. CASE new[i].second = c
      BY <2>2, <3>1
    <3>2. CASE MostCommonCount(new) <= 1
      <4>1. \A l \in DOMAIN new : new[l].first <= new[i].first
        BY <2>2 DEF IsMaxElement
      <4>2. \A l \in DOMAIN new : new[l].first = 1
        BY <1>8, <2>2, <3>2, <4>1
      <4> QED BY <1>7, <4>2
    <3> QED BY <2>2, <3>1, <3>2
  <2> QED BY <1>4, <1>6, <2>1, <2>2, <2>3 DEF SectorInv, Distinct
<1>11. CASE ~copy
  <2>1. t.checks = new /\ t.check = s.check /\ t.data = s.data
    BY <1>5, <1>11
  <2>2. PICK i \in DOMAIN new : /\ IsMaxElement(new, i)
                                /\ MostCommonCount(new) = new[i].first
                                /\ MostCommonValue(new, NoCheck) = new[i].second
    BY <1>9
  <2>3. new[i].second = s.check /\ ~(new[i].first <= 1)
    BY <1>11, <2>2
  <2>4. occ # << >>
    <3>1. ASSUME occ = << >> PROVE FALSE
      <4>1. Len(occ) = 0
        BY <3>1
      <4>2. DOMAIN new = 1..1 /\ new[1] = [first |-> 1, second |-> c]
        BY <1>1, <1>2, <4>1, PushBackFirst
      <4> QED BY <2>3, <4>2
    <3> QED BY <3>1
  <2>5. CrcOf[s.data] = s.check
    BY <2>4 DEF SectorInv
  <2> QED BY <1>4, <1>6, <2>1, <2>2, <2>3, <2>5 DEF SectorInv, Distinct
<1> QED BY <1>10, <1>11

\* SectorInv is enough for the promise of sectorDb.h.
LEMMA SectorInvPlurality ==
  ASSUME NEW s \in Sector, SectorInv(s)
  PROVE  Plurality(s)
<1> SUFFICES ASSUME s.checks # << >>
             PROVE  /\ CrcOf[s.data] = s.check
                    /\ \A c \in Checks : Votes(s, c) <= Votes(s, s.check)
                    /\ Votes(s, s.check) > 0
  BY DEF Plurality
<1> DEFINE occ == s.checks
<1>1. occ \in occurences_t(Checks)
  BY SectorType
<1>2. \A i \in DOMAIN occ : occ[i].first \in Nat \ {0}
  BY <1>1, ListType
<1>3. \A i \in DOMAIN occ : Votes(s, occ[i].second) = occ[i].first
  <2>1. TAKE i \in DOMAIN occ
  <2>2. Entries(occ, occ[i].second) = {i}
    BY DEF Entries, SectorInv
  <2> QED BY <2>2 DEF Votes
<1>4. PICK k \in DOMAIN occ :
         /\ occ[k].second = s.check
         /\ \A j \in DOMAIN occ : occ[j].first <= occ[k].first
  BY <1>2 DEF SectorInv, IsMaxElement
<1>5. Votes(s, s.check) = occ[k].first
  BY <1>3, <1>4
<1>6. ASSUME NEW c \in Checks PROVE Votes(s, c) <= Votes(s, s.check)
  <2>1. CASE Entries(occ, c) = {}
    BY <1>2, <1>5, <2>1 DEF Votes
  <2>2. CASE Entries(occ, c) # {}
    <3>1. PICK i \in DOMAIN occ : occ[i].second = c
      BY <2>2 DEF Entries
    <3> QED BY <1>3, <1>4, <1>5, <3>1
  <2> QED BY <2>1, <2>2
<1>7. CrcOf[s.data] = s.check
  BY DEF SectorInv
<1> QED BY <1>2, <1>5, <1>6, <1>7

LEMMA CountType ==
  ASSUME NEW s \in Sector, SectorInv(s)
  PROVE  MostCommonCount(s.checks) \in Nat
<1>1. s.checks \in occurences_t(Checks)
  BY SectorType
<1>2. CASE s.checks = << >>
  BY <1>2 DEF MostCommonCount
<1>3. CASE s.checks # << >>
  <2>1. PICK i \in DOMAIN s.checks : IsMaxElement(s.checks, i)
    BY <1>3 DEF SectorInv
  <2>2. MostCommonIndex(s.checks) = i
    BY <1>1, <2>1, MostCommonIndexUnique
  <2>3. s.checks[i].first \in Nat
    BY <1>1, ListType
  <2> QED BY <1>3, <2>2, <2>3 DEF MostCommonCount
<1> QED BY <1>2, <1>3

\* One sector's votes: AddAudio is one vote, and what is kept has won.
LEMMA VotesOfEntry ==
  ASSUME NEW s \in Sector, SectorInv(s), NEW i \in DOMAIN s.checks
  PROVE  Votes(s, s.checks[i].second) = s.checks[i].first
<1>1. Entries(s.checks, s.checks[i].second) = {i}
  BY DEF Entries, SectorInv
<1> QED BY <1>1 DEF Votes

LEMMA VotesOfNone ==
  ASSUME NEW s \in Sector, NEW c \in Checks,
         \A i \in DOMAIN s.checks : s.checks[i].second # c
  PROVE  Votes(s, c) = 0
BY DEF Votes, Entries

LEMMA VotesType ==
  ASSUME NEW s \in Sector, SectorInv(s), NEW c \in Checks
  PROVE  Votes(s, c) \in Nat
<1>1. CASE \E i \in DOMAIN s.checks : s.checks[i].second = c
  <2>1. PICK i \in DOMAIN s.checks : s.checks[i].second = c
    BY <1>1
  <2>2. s.checks[i].first \in Nat
    BY SectorType, ListType
  <2> QED BY <2>1, <2>2, VotesOfEntry
<1>2. CASE ~\E i \in DOMAIN s.checks : s.checks[i].second = c
  BY <1>2, VotesOfNone
<1> QED BY <1>1, <1>2

LEMMA AddAudioIsVote ==
  ASSUME NEW s \in Sector, SectorInv(s), NEW audio \in Data, NEW c \in Checks
  PROVE  Votes(AddAudio(s, audio), c)
           = Votes(s, c) + (IF c = CrcOf[audio] THEN 1 ELSE 0)
<1> DEFINE v == CrcOf[audio]
           t == AddAudio(s, audio)
           occ == s.checks
           new == push_back(occ, v)
<1>1. /\ v \in Checks
      /\ occ \in occurences_t(Checks)
      /\ Distinct(occ)
      /\ t \in Sector /\ SectorInv(t)
      /\ t.checks = new
  BY SectorType, AddAudioSectorInv, StoreAssumption DEF SectorInv, Distinct, AddAudio
<1>2. DOMAIN occ = 1..Len(occ) /\ Len(occ) \in Nat
  BY <1>1, ListType
<1> HIDE DEF v, t, occ, new
<1>3. \A i \in DOMAIN occ : Votes(s, occ[i].second) = occ[i].first
  BY VotesOfEntry DEF occ
<1>4. \A i \in DOMAIN new : Votes(t, new[i].second) = new[i].first
  BY <1>1, VotesOfEntry
<1>5. CASE Entries(occ, v) = {}
  <2>1. /\ DOMAIN new = 1..(Len(occ) + 1)
        /\ \A i \in DOMAIN occ : new[i] = occ[i]
        /\ new[Len(occ) + 1] = [first |-> 1, second |-> v]
    BY <1>1, <1>5, PushBackNew DEF new
  <2>2. \A i \in DOMAIN occ : occ[i].second # v
    BY <1>5 DEF Entries
  <2>3. CASE c = v
    <3>1. Votes(s, c) = 0
      BY <2>2, <2>3, VotesOfNone DEF occ
    <3>2. Votes(t, c) = 1
      BY <1>2, <1>4, <2>1, <2>3
    <3> QED BY <2>3, <3>1, <3>2 DEF v, t
  <2>4. CASE c # v /\ \E i \in DOMAIN occ : occ[i].second = c
    <3>1. PICK i \in DOMAIN occ : occ[i].second = c
      BY <2>4
    <3>2. i \in DOMAIN new /\ new[i] = occ[i]
      BY <1>2, <2>1, <3>1
    <3>3. Votes(t, c) = occ[i].first /\ Votes(s, c) = occ[i].first
      BY <1>3, <1>4, <3>1, <3>2
    <3>4. Votes(s, c) \in Nat
      BY VotesType
    <3> QED BY <2>4, <3>3, <3>4 DEF v, t
  <2>5. CASE c # v /\ ~\E i \in DOMAIN occ : occ[i].second = c
    <3>1. \A i \in DOMAIN new : new[i].second # c
      BY <1>2, <2>1, <2>5
    <3>2. Votes(t, c) = 0 /\ Votes(s, c) = 0
      BY <1>1, <2>5, <3>1, VotesOfNone DEF occ
    <3> QED BY <2>5, <3>2 DEF v, t
  <2> QED BY <2>3, <2>4, <2>5
<1>6. CASE Entries(occ, v) # {}
  <2>1. PICK e \in DOMAIN occ : occ[e].second = v
    BY <1>6 DEF Entries
  <2>2. /\ DOMAIN new = DOMAIN occ
        /\ \A i \in DOMAIN occ : new[i].second = occ[i].second
        /\ \A i \in DOMAIN occ \ {e} : new[i].first = occ[i].first
        /\ new[e].first = occ[e].first + 1
    BY <1>1, <2>1, PushBackOld DEF new
  <2>3. CASE c = v
    <3>1. Votes(t, c) = occ[e].first + 1 /\ Votes(s, c) = occ[e].first
      BY <1>3, <1>4, <2>1, <2>2, <2>3
    <3> QED BY <2>3, <3>1 DEF v, t
  <2>4. CASE c # v /\ \E i \in DOMAIN occ : occ[i].second = c
    <3>1. PICK i \in DOMAIN occ : occ[i].second = c
      BY <2>4
    <3>2. i # e
      BY <2>1, <2>4, <3>1
    <3>3. Votes(t, c) = occ[i].first /\ Votes(s, c) = occ[i].first
      BY <1>3, <1>4, <2>2, <3>1, <3>2
    <3>4. Votes(s, c) \in Nat
      BY VotesType
    <3> QED BY <2>4, <3>3, <3>4 DEF v, t
  <2>5. CASE c # v /\ ~\E i \in DOMAIN occ : occ[i].second = c
    <3>1. \A i \in DOMAIN new : new[i].second # c
      BY <2>2, <2>5
    <3>2. Votes(t, c) = 0 /\ Votes(s, c) = 0
      BY <1>1, <2>5, <3>1, VotesOfNone DEF occ
    <3> QED BY <2>5, <3>2 DEF v, t
  <2> QED BY <2>3, <2>4, <2>5
<1> QED BY <1>5, <1>6

\* What is kept is the old content or the new one, and has won the vote.
LEMMA AddAudioKeepsWinner ==
  ASSUME NEW s \in Sector, SectorInv(s), NEW audio \in Data
  PROVE  /\ AddAudio(s, audio).data \in {s.data, audio}
         /\ CrcOf[AddAudio(s, audio).data] \in Checks
         /\ Votes(AddAudio(s, audio), CrcOf[AddAudio(s, audio).data]) > 0
         /\ \A c \in Checks : Votes(AddAudio(s, audio), c)
              <= Votes(AddAudio(s, audio), CrcOf[AddAudio(s, audio).data])
<1> DEFINE t == AddAudio(s, audio)
<1>1. t \in Sector /\ SectorInv(t)
  BY AddAudioSectorInv
<1>2. Plurality(t)
  BY <1>1, SectorInvPlurality
<1>3. t.checks # << >>
  BY SectorType, PushBackDistinct, StoreAssumption DEF AddAudio, SectorInv, Distinct
<1>4. t.data \in {s.data, audio}
  BY DEF AddAudio
<1>5. CrcOf[t.data] = t.check /\ t.check \in Checks
  BY <1>1, <1>2, <1>3, SectorType DEF Plurality
<1>6. /\ \A c \in Checks : Votes(t, c) <= Votes(t, t.check)
      /\ Votes(t, t.check) > 0
  BY <1>2, <1>3 DEF Plurality
<1> HIDE DEF t
<1>7. /\ t.data \in {s.data, audio}
      /\ CrcOf[t.data] \in Checks
      /\ Votes(t, CrcOf[t.data]) > 0
      /\ \A c \in Checks : Votes(t, c) <= Votes(t, CrcOf[t.data])
  BY <1>4, <1>5, <1>6
<1> QED BY <1>7 DEF t

\* The most common count is that of an entry, and no entry has more.
LEMMA CountIsMost ==
  ASSUME NEW s \in Sector, SectorInv(s), s.checks # << >>
  PROVE  \E i \in DOMAIN s.checks :
           /\ MostCommonCount(s.checks) = s.checks[i].first
           /\ \A j \in DOMAIN s.checks : s.checks[j].first <= s.checks[i].first
<1>1. PICK i \in DOMAIN s.checks : IsMaxElement(s.checks, i)
  BY DEF SectorInv
<1>2. MostCommonIndex(s.checks) = i
  BY <1>1, SectorType, MostCommonIndexUnique
<1> QED BY <1>1, <1>2 DEF MostCommonCount, IsMaxElement

\* A vote is one vote more, whatever it does to the kept audio.
LEMMA AddAudioSum ==
  ASSUME NEW s \in Sector, SectorInv(s), NEW audio \in Data
  PROVE  sum(AddAudio(s, audio).checks) = sum(s.checks) + 1
<1>1. /\ s.checks \in occurences_t(Checks)
      /\ CrcOf[audio] \in Checks
      /\ Distinct(s.checks)
      /\ AddAudio(s, audio).checks = push_back(s.checks, CrcOf[audio])
  BY SectorType, StoreAssumption DEF SectorInv, Distinct, AddAudio
<1> QED BY <1>1, PushBackSum

-----------------------------------------------------------------------------
(***************************************************************************)
(* The sectors of a db.                                                    *)
(***************************************************************************)

\* Sectors that keep what they promise.
SectorsInv(sectors) ==
  sectors \in Seq(Sector) /\ \A i \in DOMAIN sectors : SectorInv(sectors[i])

\* A sector nobody has read promises nothing.
LEMMA NewSectorInv == NewSector \in Sector /\ SectorInv(NewSector)
<1>1. << >> \in occurences_t(Checks)
  BY DEF occurences_t
<1>2. NewSector \in Sector
  BY <1>1, StoreAssumption DEF NewSector, Sector
<1>3. NewSector.checks = << >>
  BY DEF NewSector
<1> QED BY <1>2, <1>3 DEF SectorInv

\* A db keeps its sectors when it grows, and the new ones promise nothing.
LEMMA ResizedInv ==
  ASSUME NEW sectors, SectorsInv(sectors), NEW n \in Nat
  PROVE  /\ SectorsInv(Resized(sectors, n, NewSector))
         /\ Len(Resized(sectors, n, NewSector)) = n
<1> DEFINE new == Resized(sectors, n, NewSector)
<1>1. new = [i \in 1..n |-> IF i <= Len(sectors) THEN sectors[i] ELSE NewSector]
  BY DEF Resized
<1>2. /\ sectors \in Seq(Sector)
      /\ \A i \in DOMAIN sectors : SectorInv(sectors[i])
  BY DEF SectorsInv
<1>3. \A i \in 1..n : new[i] \in Sector /\ SectorInv(new[i])
  <2>1. TAKE i \in 1..n
  <2>2. CASE i <= Len(sectors)
    <3>1. i \in DOMAIN sectors /\ sectors[i] \in Sector /\ new[i] = sectors[i]
      BY <1>1, <1>2, <2>2
    <3> QED BY <1>2, <3>1
  <2>3. CASE ~(i <= Len(sectors))
    BY <1>1, <2>3, NewSectorInv
  <2> QED BY <2>2, <2>3
<1>4. new \in Seq(Sector) /\ Len(new) = n /\ DOMAIN new = 1..n
  BY <1>1, <1>3
<1> QED BY <1>3, <1>4 DEF SectorsInv
=============================================================================

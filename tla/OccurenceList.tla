---------------------------- MODULE OccurenceList ----------------------------
(***************************************************************************)
(* The vote counter of a sector: OccurenceList<T> and the struct           *)
(* MostCommonOccurence<T> that reads it.                                   *)
(*                                                                         *)
(* A list is a sequence of pairs <first, second> = <how often, which       *)
(* value>, in the order in which the values were seen for the first time.  *)
(* The order matters: std::max_element returns the first of several        *)
(* maxima, so of two values seen equally often the older one is "the most  *)
(* common".                                                                *)
(***************************************************************************)
EXTENDS Naturals, Sequences, Functions

occurence_t(T)  == [first : Nat \ {0}, second : T]
occurences_t(T) == Seq(occurence_t(T))

-----------------------------------------------------------------------------
\* Mutated forms, used only to show that the properties depend on the code.

\* find_if never finds: every vote opens an entry of its own.
push_back_Duplicates(occ, v) == Append(occ, [first |-> 1, second |-> v])

\* max_element with its comparison turned round: the rarest value wins.
MostCommonIndex_Rarest(occ) ==
  CHOOSE i \in DOMAIN occ : \A j \in DOMAIN occ : occ[i].first <= occ[j].first

-----------------------------------------------------------------------------
\* The entries std::find_if would stop at.
Entries(occ, v) == {i \in DOMAIN occ : occ[i].second = v}

\* One more vote for v.
push_back(occ, v) ==
  IF Entries(occ, v) = {}
  THEN Append(occ, [first |-> 1, second |-> v])
  ELSE LET it == CHOOSE i \in Entries(occ, v) :
                    \A j \in Entries(occ, v) : i <= j
       IN  [occ EXCEPT ![it].first = @ + 1]

\* All votes of the list.
sum(occ) == FoldFunction(LAMBDA o, acc : o.first + acc, 0, occ)

-----------------------------------------------------------------------------
\* What std::max_element returns: the first of the entries with most votes.
IsMaxElement(occ, i) ==
  \A j \in DOMAIN occ : /\ occ[j].first <= occ[i].first
                        /\ j < i => occ[j].first < occ[i].first

MostCommonIndex(occ) == CHOOSE i \in DOMAIN occ : IsMaxElement(occ, i)

\* MostCommonOccurence::compute: count and value (default stands for T()).
MostCommonCount(occ) ==
  IF occ = << >> THEN 0 ELSE occ[MostCommonIndex(occ)].first

MostCommonValue(occ, default) ==
  IF occ = << >> THEN default ELSE occ[MostCommonIndex(occ)].second
=============================================================================

------------------------------ MODULE VoteStore ------------------------------
(***************************************************************************)
(* What a SectorDb promises, without its lists, files and loops: a vote    *)
(* for every sector and every CRC, one content per sector that has won its *)
(* vote, and a copy on disk that is a copy of both or is nothing.          *)
(* SectorDb implements this module (its IsVoteStore).                      *)
(***************************************************************************)
EXTENDS Naturals, Sequences

CONSTANTS
  Data,   \* the contents a sector can have
  Zeros,  \* the content of a sector nobody voted for
  Checks, \* the CRC values
  CrcOf   \* the CRC of a content

VARIABLES
  tally, \* per sector and CRC, the votes
  kept,  \* per sector, the content that is kept
  disk   \* the tally and the contents that were saved, or Lost

Lost    == [whole |-> FALSE, tally |-> << >>, kept |-> << >>]
NoVotes == [c \in Checks |-> 0]

Init == tally = << >> /\ kept = << >> /\ disk = Lost

Wins(c, votes) == votes[c] > 0 /\ \A d \in Checks : votes[d] <= votes[c]

\* One vote for one sector.  The only content that can take the place of the
\* kept one is the one voted for, and what is kept has won.
Vote(i, audio) ==
  /\ tally' = [tally EXCEPT ![i][CrcOf[audio]] = @ + 1]
  /\ kept' \in {kept, [kept EXCEPT ![i] = audio]}
  /\ Wins(CrcOf[kept'[i]], tally'[i])
  /\ UNCHANGED disk

\* The first n sectors stay, the others are new.
Grow(n) ==
  /\ n <= Len(tally)
  /\ Len(kept') = Len(tally') /\ Len(tally') >= n
  /\ \A i \in 1..Len(tally') :
       IF i <= n THEN tally'[i] = tally[i] /\ kept'[i] = kept[i]
                 ELSE tally'[i] = NoVotes /\ kept'[i] = Zeros
  /\ UNCHANGED disk

Save ==
  /\ disk' \in {Lost, [whole |-> TRUE, tally |-> tally, kept |-> kept]}
  /\ UNCHANGED <<tally, kept>>

Load ==
  /\ disk.whole
  /\ tally' = disk.tally /\ kept' = disk.kept
  /\ UNCHANGED disk

\* Grow(0) is a new store, Grow(Len(tally)) a larger one.
Next ==
  \/ \E i \in DOMAIN tally, audio \in Data : Vote(i, audio)
  \/ Grow(0) \/ Grow(Len(tally))
  \/ Save \/ Load

Spec == Init /\ [][Next]_<<tally, kept, disk>>
=============================================================================

------------------------------ MODULE Arrange ------------------------------
(* Selecting and sorting, for the components that rank, filter and keep the   *)
(* order of what they rank.  An order on a finite set is a set of pairs, and   *)
(* nothing here is recursive: what these operators return is proved about in   *)
(* ArrangeProofs, which the built-in SelectSeq and SortSeq do not allow.       *)
EXTENDS Integers, Sequences, FiniteSets

\* The value of a set of one.  In an action TLC evaluates what LET or a parameter
\* names at every use, and what a set comprehension binds once.
Value(S) == CHOOSE v \in S : TRUE

\* The elements of the finite set T, those before others first.
Listed(T, before) ==
  Value({SubSeq([n \in 1..Cardinality(T) |-> CHOOSE i \in T : place[i] = n],
                1, Cardinality(T)) :
         place \in {[i \in T |-> Cardinality({k \in T : <<k, i>> \in before}) + 1]}})

Ascending(T) == {e \in T \X T : e[1] < e[2]}

\* What is left of a sequence when only the indices in T are kept.
Kept(seq, T) ==
  Value({SubSeq([n \in 1..Len(at) |-> seq[at[n]]], 1, Len(at)) :
         at \in {Listed(T, Ascending(T))}})

\* The sequence sorted by score, the highest first, among equals the earlier.
BestFirst(seq, score) ==
  Value({SubSeq([n \in 1..Len(seq) |-> seq[order[n]]], 1, Len(seq)) :
         order \in {Listed(DOMAIN seq, {e \in (DOMAIN seq) \X (DOMAIN seq) :
                             \/ score[e[1]] > score[e[2]]
                             \/ score[e[1]] = score[e[2]] /\ e[1] < e[2]})}})
=============================================================================

------------------------------- MODULE Keeping -------------------------------
(***************************************************************************)
(* What Option, Iterator::filter and sum, Vec::retain and slice::sort_by   *)
(* do.                                                                     *)
(***************************************************************************)
EXTENDS Integers, Sequences, FiniteSets, SequencesExt

Nil == -1  \* an amount that is not known
Elements(s) == {s[i] : i \in DOMAIN s}

\* What of a sequence is in a set, in the order of the sequence.
Kept(s, S) ==
  LET f[i \in 0..Len(s)] ==
        IF i = 0 THEN <<>> ELSE IF s[i] \in S THEN Append(f[i-1], s[i]) ELSE f[i-1]
  IN f[Len(s)]

\* What of a sequence passes a test.
Where(s, Test(_)) == Kept(s, {x \in {s[i] : i \in DOMAIN s} : Test(x)})

\* The numbers of a sequence together.
Total(s) == FoldLeft(+, 0, s)

\* The sequence whose places are in the order R, a relation on the places.
Ranked(s, R) ==
  LET rank(i) == Cardinality({j \in DOMAIN s : <<j, i>> \in R})
  IN [k \in DOMAIN s |-> s[CHOOSE i \in DOMAIN s : rank(i) = k - 1]]

\* A sort that leaves in their order what it need not move.
Sorted(s, Before(_, _)) ==
  Ranked(s, {p \in (DOMAIN s) \X (DOMAIN s) :
               \/ Before(s[p[1]], s[p[2]])
               \/ p[1] < p[2] /\ ~Before(s[p[2]], s[p[1]])})
=============================================================================

---------------------------- MODULE Subsequence ----------------------------
(***************************************************************************)
(* Filters and sums of a list, as functions of how far it was read.        *)
(***************************************************************************)
EXTENDS Naturals, Sequences, Functions

\* The elements of a sequence that are in a set, in their order.
Only(seq, S) ==
    LET upTo[n \in 0..Len(seq)] ==
          IF n = 0 THEN <<>>
          ELSE IF seq[n] \in S THEN Append(upTo[n - 1], seq[n]) ELSE upTo[n - 1]
    IN upTo[Len(seq)]

\* The sum of a list of numbers.
Total(seq) ==
    LET upTo[n \in 0..Len(seq)] == IF n = 0 THEN 0 ELSE upTo[n - 1] + seq[n]
    IN upTo[Len(seq)]

\* Those that pass a test: SelectSeq.
Select(seq, Test(_)) == Only(seq, {x \in Range(seq) : Test(x)})
=============================================================================

--------------------------- MODULE SequenceFilters ---------------------------
(****************************************************************************)
(* What retain, filter and a set of what was seen leave of a sequence, and  *)
(* the sum over one: recursive functions, which proofs can unfold, where a  *)
(* proof is about them; SelectSeq and the folds where none is.              *)
(****************************************************************************)
EXTENDS Naturals, Sequences

\* The elements of s that are not dropped, in their order.
Excluding(s, dropped) ==
    LET kept[n \in 0..Len(s)] ==
            IF n = 0 THEN <<>>
            ELSE IF s[n] \in dropped THEN kept[n - 1] ELSE Append(kept[n - 1], s[n])
    IN kept[Len(s)]

\* The elements of s at their first place.
Distinct(s) ==
    LET kept[n \in 0..Len(s)] ==
            IF n = 0 THEN <<>>
            ELSE LET before == kept[n - 1]
                 IN IF \E i \in DOMAIN before : before[i] = s[n]
                    THEN before ELSE Append(before, s[n])
    IN kept[Len(s)]

\* The sum of what is measured of the elements of s.
Total(s, measure) ==
    LET sum[n \in 0..Len(s)] == IF n = 0 THEN 0 ELSE sum[n - 1] + s[n][measure]
    IN sum[Len(s)]
=============================================================================

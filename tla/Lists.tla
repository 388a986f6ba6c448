------------------------------- MODULE Lists --------------------------------
(* Lists of which some members are left out, as Vec::retain and              *)
(* Iterator::filter do.                                                      *)
EXTENDS Naturals, Sequences

\* The members of a list at the indices of a set.
Picked(list, indices) ==
  LET picked[n \in 0..Len(list)] ==
        IF n = 0 THEN <<>>
        ELSE IF n \in indices THEN Append(picked[n - 1], list[n])
        ELSE picked[n - 1]
  IN picked[Len(list)]

=============================================================================

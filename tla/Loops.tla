------------------------------- MODULE Loops -------------------------------
(***************************************************************************)
(* Two loops that the services write again and again, a running sum and a  *)
(* filter, as recursive functions over the prefixes of what they go        *)
(* through.                                                                *)
(***************************************************************************)
EXTENDS Integers, Sequences

Total(numbers) ==
  LET upTo[n \in 0..Len(numbers)] == IF n = 0 THEN 0 ELSE upTo[n - 1] + numbers[n]
  IN  upTo[Len(numbers)]

\* The elements at some places of a sequence, in its order.
Chosen(seq, places) ==
  LET upTo[n \in 0..Len(seq)] ==
        IF n = 0 THEN <<>>
        ELSE IF n \in places THEN Append(upTo[n - 1], seq[n])
        ELSE upTo[n - 1]
  IN  upTo[Len(seq)]
=============================================================================

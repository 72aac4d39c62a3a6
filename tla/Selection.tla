----------------------------- MODULE Selection -----------------------------
(***************************************************************************)
(* What a loop over entries that looks at some of them only gets to see:   *)
(* the elements of a sequence that are in a set, in their order.  (It is   *)
(* SelectSeq with a set for the test; SelectSeq itself has no definition   *)
(* the proof system can use.)                                              *)
(***************************************************************************)
EXTENDS Naturals, Sequences

\* The first n elements of seq, those that are not in S left out, for each n.
Selected(seq, S) ==
  LET upTo[n \in 0 .. Len(seq)] ==
        IF n = 0 THEN <<>>
        ELSE IF seq[n] \in S THEN Append(upTo[n - 1], seq[n]) ELSE upTo[n - 1]
  IN upTo

Select(seq, S) == Selected(seq, S)[Len(seq)]
=============================================================================

---------------------------- MODULE Subsequences ----------------------------
(***************************************************************************)
(* The loops "for x in s: if ...: append" of the code, by the positions    *)
(* they keep.  A set in place of the predicate of SelectSeq, and a         *)
(* function in place of its recursion: so that it can be reasoned about.   *)
(***************************************************************************)
EXTENDS Integers, Sequences

\* Picked(s, I)[n]: what the loop has put together after n passes.
Picked(s, I) ==
  LET upto[n \in 0 .. Len(s)] ==
        IF n = 0 THEN <<>>
        ELSE IF n \in I THEN Append(upto[n - 1], s[n]) ELSE upto[n - 1]
  IN upto

\* The elements of s at the positions in I, in the order of s.
Pick(s, I) == Picked(s, I)[Len(s)]
=============================================================================

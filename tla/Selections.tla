----------------------------- MODULE Selections -----------------------------
(***************************************************************************)
(* The elements of a sequence that are in a set, in their order: what is   *)
(* left of a list when a loop has unlinked the rest.  It is SelectSeq for  *)
(* tests that are sets, as a recursive function, which SelectionsProofs    *)
(* says the facts of that the other modules' proofs need.                  *)
(***************************************************************************)
EXTENDS Integers, SequencesExt

\* What is kept of each prefix of s.
KeptPrefixes(s, K) ==
    LET kept[n \in 0 .. Len(s)] ==
            IF n = 0 THEN <<>>
            ELSE IF s[n] \in K THEN Append(kept[n - 1], s[n]) ELSE kept[n - 1]
    IN  kept

Kept(s, K) == KeptPrefixes(s, K)[Len(s)]

Dropped(s, D) == Kept(s, ToSet(s) \ D)

=============================================================================

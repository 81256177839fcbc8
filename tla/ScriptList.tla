----------------------------- MODULE ScriptList -----------------------------
(***************************************************************************)
(* What a packed array ("Array", as opposed to "Map") is to a script: a    *)
(* list that is written, resized, inserted into and erased from, and one   *)
(* that slices of it are put in.  Positions count from 0; a negative one   *)
(* counts from the end where an element is written, and nowhere else.      *)
(***************************************************************************)
EXTENDS Integers, SequencesExt, FiniteSetsExt

CONSTANTS Values, Nothing, MaxSize

VARIABLES list,     \* the list
          part,     \* the last slice
          broken    \* what the list promises is at an end

Positions == -MaxSize .. MaxSize
Lists == BoundedSeq(Values \cup {Nothing}, MaxSize)

Init == list = <<>> /\ part = <<>> /\ broken = FALSE

Keeps == UNCHANGED <<part, broken>>

Put(at, value) ==
    LET n == IF at < 0 THEN at + Len(list) ELSE at
    IN /\ list' = CASE n \in 0 .. Len(list) - 1 -> ReplaceAt(list, n + 1, value)
                    [] n = Len(list)            -> Append(list, value)
                    [] OTHER                    -> list
       /\ Keeps

InsertOne(at, value) ==
    /\ list' = IF at \in 0 .. Len(list) THEN InsertAt(list, at + 1, value) ELSE list
    /\ Keeps

InsertPart(at) ==
    /\ list' = IF at \in 0 .. Len(list)
               THEN SubSeq(list, 1, at) \o part \o SubSeq(list, at + 1, Len(list))
               ELSE list
    /\ Keeps

Resize(size, pad) ==
    /\ list' = [i \in 1 .. size |-> IF i <= Len(list) THEN list[i] ELSE pad]
    /\ Keeps

First(lo) == Max({0, Min({lo, Len(list)})})      \* the first position from lo on
Past(lo, hi) == Max({First(lo), Min({hi + 1, Len(list)})})

EraseRange(lo, hi) ==
    /\ list' = SubSeq(list, 1, First(lo)) \o SubSeq(list, Past(lo, hi) + 1, Len(list))
    /\ Keeps

Slice(lo, hi) ==
    /\ part' = SubSeq(list, First(lo) + 1, Past(lo, hi))
    /\ UNCHANGED <<list, broken>>

\* Nothing is promised of inserting an empty list, or the list itself.
Break == list' \in Lists /\ part' = part /\ broken' = TRUE

Next ==
    /\ ~broken
    /\ \/ \E at \in Positions :
            \/ \E value \in Values : Put(at, value) \/ InsertOne(at, value)
            \/ InsertPart(at)
            \/ \E hi \in Positions : EraseRange(at, hi) \/ Slice(at, hi)
       \/ \E size \in 0 .. MaxSize, pad \in Values : Resize(size, pad)
       \/ Break

Spec == Init /\ [][Next]_<<list, part, broken>>
=============================================================================

----------------------------- MODULE PackedArray -----------------------------
(***************************************************************************)
(* Packed arrays (nvse/nvse/ArrayVar.cpp): std::map from numbers to        *)
(* elements whose keys are to be 0 .. Size()-1, although most of what      *)
(* works on it sets one key after the other and would make a hole as soon  *)
(* as one of them were wrong.  An element that was made and never set, or  *)
(* set to itself, is Nothing (kDataType_Invalid).                          *)
(*                                                                         *)
(* One action is one command; what a loop of it has done is a function of  *)
(* the number of its rounds.                                               *)
(***************************************************************************)
EXTENDS Integers, FiniteSetsExt, Functions, TLC

CONSTANTS Values, Nothing, MaxSize    \* bound: elements

VARIABLES elems,     \* m_elements of the array
          slice,     \* m_elements of the array MakeSlice made last
          broken     \* history: a range was inserted that Insert cannot take

vars == <<elems, slice, broken>>

Empty == [k \in {} |-> Nothing]
Size(e) == Cardinality(DOMAIN e)
Positions == -MaxSize .. MaxSize
-----------------------------------------------------------------------------
\* ArrayVar::Get(key, true), whose element is then set to the value: a negative
\* key counts from the end, and a new element may only be the next one.
SetElement(e, key, value) ==
    LET k == IF key < 0 THEN key + Size(e) ELSE key
    IN IF k \in DOMAIN e \cup 0 .. Size(e)
       THEN [i \in DOMAIN e \cup {k} |-> IF i = k THEN value ELSE e[i]] ELSE e

\* Set(e[from]): Unset comes first, also when the element is the same one.
SetToElement(e, key, from) ==
    SetElement(e, key, IF key = from THEN Nothing ELSE e[from])

WithoutKey(e, key) == Restrict(e, DOMAIN e \ {key})

\* The next key in order becomes curIdx, until there is none left: those that
\* did are the ones below.
Packing(e) ==
    LET packed[n \in 0 .. Size(e)] ==
            IF n = 0 THEN e
            ELSE LET t == packed[n - 1]
                     curIdx == n - 1
                     key == Min({k \in DOMAIN t : k >= curIdx})
                 IN IF key = curIdx THEN t
                    ELSE WithoutKey(SetElement(t, curIdx, t[key]), key)
    IN packed

Pack(e) == Packing(e)[Size(e)]

\* Its bounds are compared with the keys as they are.
EraseElements(e, lo, hi) ==
    Pack(Restrict(e, {k \in DOMAIN e : k < lo \/ hi < k}))

Padding(e, newSize, padWith) ==
    LET padded[n \in 0 .. newSize - Size(e)] ==
            IF n = 0 THEN e
            ELSE SetElement(padded[n - 1], Size(e) + n - 1, padWith)
    IN padded

SetSize(e, newSize, padWith) ==
    IF Size(e) <= newSize THEN Padding(e, newSize, padWith)[newSize - Size(e)]
    ELSE EraseElements(e, newSize, Size(e) - 1)

\* Mutant: the elements were moved from the lowest on.
InsertFromBelow(e, atIndex, toInsert) ==
    LET raised[n \in 0 .. Size(e) - atIndex + 1] ==
            IF n = 0 THEN e
            ELSE LET i == atIndex + n - 1
                 IN SetElement(raised[n - 1], i,
                               IF i > 0 THEN raised[n - 1][i - 1] ELSE Nothing)
    IN IF atIndex \notin 0 .. Size(e) THEN e
       ELSE SetElement(IF atIndex < Size(e) THEN raised[Size(e) - atIndex + 1] ELSE e,
                       atIndex, toInsert)

\* From behind the last element down to atIndex, each becomes the one before it.
Raising(e, atIndex) ==
    LET raised[n \in 0 .. Size(e) - atIndex + 1] ==
            IF n = 0 THEN e
            ELSE LET i == Size(e) - (n - 1)
                 IN SetElement(raised[n - 1], i,
                               IF i > 0 THEN raised[n - 1][i - 1] ELSE Nothing)
    IN raised

Insert(e, atIndex, toInsert) ==
    LET raised == Raising(e, atIndex)[Size(e) - atIndex + 1]
    IN IF atIndex \notin 0 .. Size(e) THEN e
       ELSE SetElement(IF atIndex < Size(e) THEN raised ELSE e, atIndex, toInsert)

\* From the last element on, each becomes the one delta before it.
Shifting(e, delta, rounds) ==
    LET shifted[n \in 0 .. rounds] ==
            IF n = 0 THEN e
            ELSE SetToElement(shifted[n - 1], Size(e) - n, Size(e) - n - delta)
    IN shifted

Putting(e, atIndex, range, isSelf) ==
    LET put[n \in 0 .. Size(range)] ==
            IF n = 0 THEN e
            ELSE IF isSelf THEN SetToElement(put[n - 1], atIndex + n - 1, n - 1)
                 ELSE SetElement(put[n - 1], atIndex + n - 1, range[n - 1])
    IN put

\* Insert of a range: its elements are read while those of the array are set,
\* which are the same when the range is the array itself.
InsertRange(e, atIndex, range, isSelf) ==
    LET delta == Size(range)
        resized == SetSize(e, Size(e) + delta, Nothing)
        rounds == Size(resized) - delta - atIndex
        shifted == Shifting(resized, delta, rounds)[rounds]
    IN IF atIndex \notin 0 .. Size(e) THEN e
       ELSE Putting(shifted, atIndex, range, isSelf)[delta]

\* The elements from lo to hi, in order, under the keys from 0 on.
Slicing(e, lo, hi) ==
    LET keys == {k \in DOMAIN e : lo <= k /\ k <= hi}
        sliced[n \in 0 .. Cardinality(keys)] ==
            IF n = 0 THEN [left |-> keys, e |-> Empty]
            ELSE LET done == sliced[n - 1]
                     key == Min(done.left)
                 IN [left |-> done.left \ {key},
                     e    |-> SetElement(done.e, n - 1, e[key])]
    IN sliced

MakeSlice(e, lo, hi) == Slicing(e, lo, hi)[Cardinality({k \in DOMAIN e : lo <= k /\ k <= hi})].e
-----------------------------------------------------------------------------
Init == elems = Empty /\ slice = Empty /\ broken = FALSE

Becomes(e) ==
    /\ ~broken
    /\ Size(e) <= MaxSize
    /\ elems' = e
    /\ UNCHANGED slice

Write(key, value) == Becomes(SetElement(elems, key, value)) /\ UNCHANGED broken

\* ar_Insert, and ar_Append at the end.
InsertElement(atIndex, value) ==
    Becomes(Insert(elems, atIndex, value)) /\ UNCHANGED broken

\* ar_InsertRange.  An empty range sets each later element to itself.
InsertSlice(atIndex) ==
    /\ Becomes(InsertRange(elems, atIndex, slice, FALSE))
    /\ broken' = (slice = Empty /\ atIndex \in DOMAIN elems)

InsertItself(atIndex) ==
    /\ Becomes(InsertRange(elems, atIndex, elems, TRUE))
    /\ broken' = (elems # Empty /\ atIndex \in 0 .. Size(elems))

\* ar_Resize.
Resize(newSize, padWith) ==
    Becomes(SetSize(elems, newSize, padWith)) /\ UNCHANGED broken

\* ar_Erase of a range; of one key, lo = hi.
EraseRange(lo, hi) == Becomes(EraseElements(elems, lo, hi)) /\ UNCHANGED broken

Slice(lo, hi) ==
    /\ ~broken
    /\ slice' = MakeSlice(elems, lo, hi)
    /\ UNCHANGED <<elems, broken>>

Next ==
    \/ \E key \in Positions :
        \/ \E value \in Values : Write(key, value) \/ InsertElement(key, value)
        \/ InsertSlice(key)
        \/ InsertItself(key)
        \/ \E hi \in Positions : EraseRange(key, hi) \/ Slice(key, hi)
    \/ \E size \in 0 .. MaxSize, pad \in Values : Resize(size, pad)

Spec == Init /\ [][Next]_vars
-----------------------------------------------------------------------------
AsList(e) == [i \in 1 .. Size(e) |-> e[i - 1]]
List == INSTANCE ScriptList WITH list <- AsList(elems), part <- AsList(slice)

\* A packed array is the list scripts take it for: the loops that move its
\* elements write each one before they overwrite it, move none twice and lose
\* none, up to a command that inserts an empty range or the array itself.
ImplementsList == List!Spec
=============================================================================

------------------------------- MODULE Arrays -------------------------------
(***************************************************************************)
(* Both models of the arrays of scripts (nvse/nvse/ArrayVar.cpp): the heap *)
(* (ArrayVars), and one packed array under the commands that move its      *)
(* elements (PackedArray).  The heap knows which of its elements are       *)
(* arrays, the packed array which element is where.                        *)
(***************************************************************************)
EXTENDS ArrayVars

CONSTANTS Values, Nothing, MaxSize
VARIABLES elems, slice, broken

ASSUME SizeAssumption == MaxSize \in Nat

Packed == INSTANCE PackedArray

\* A packed array is the list scripts take it for: the loops that move its
\* elements write each one before they overwrite it, move none twice and lose
\* none, up to a command that inserts an empty range or the array itself.
ImplementsList == Packed!ImplementsList
=============================================================================

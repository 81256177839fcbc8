--------------------------- MODULE MCEventManager ---------------------------
(* Two game events, a hit by two different objects and another event that no *)
(* handler is set for, and one user event.  The handlers are of one script,  *)
(* with and without filters; a user event's arguments pass no filter, so its *)
(* filtered handler makes the vector grow and is passed over.                *)
EXTENDS EventManager, TLC

CONSTANTS hit, add, user, s1, ref, base, target, array, null

Unfiltered == [script |-> s1, source |-> NoFilter, object |-> NoFilter]
Filtered == [script |-> s1, source |-> base, object |-> target]
MCHandlers == (hit :> {Unfiltered, Filtered}) @@ (add :> {}) @@ (user :> {Filtered})
MCGameArgs == {[source |-> ref, base |-> base, object |-> o] : o \in {target, null}}
MCOneGameArg == {[source |-> ref, base |-> base, object |-> target]}
MCOneEach == (hit :> {Filtered}) @@ (add :> {}) @@ (user :> {Unfiltered})
MCByObject ==
    (hit :> {[script |-> s1, source |-> NoFilter, object |-> o] : o \in {target, ref}})
        @@ (add :> {}) @@ (user :> {})
MCUserArgs == [source |-> array, base |-> array, object |-> null]

=============================================================================

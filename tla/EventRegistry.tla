---------------------------- MODULE EventRegistry ----------------------------
(***************************************************************************)
(* What scripts may rely on of the event manager: a set of handlers per    *)
(* event, changed by nothing but SetEventHandler and RemoveEventHandler,   *)
(* and handlers that are called only while they are registered and return  *)
(* in the reverse order of their calls.                                    *)
(***************************************************************************)
EXTENDS Integers, Sequences

CONSTANTS Events, Handlers, NoFilter

VARIABLES registered,   \* the handlers of each event
          calls         \* the handlers running now, innermost last

registryVars == <<registered, calls>>

RegistryInit ==
    /\ registered = [e \in Events |-> {}]
    /\ calls = <<>>

Set(e, h) ==
    /\ registered' = [registered EXCEPT ![e] = @ \cup {h}]
    /\ UNCHANGED calls

\* All handlers with the given script, of any source or of the given one.
Remove(e, h) ==
    /\ registered' = [registered EXCEPT ![e] =
                         {g \in @ : ~(/\ g.script = h.script
                                      /\ h.source \in {NoFilter, g.source})}]
    /\ UNCHANGED calls

Call(e, h) ==
    /\ h \in registered[e]
    /\ calls' = Append(calls, h)
    /\ UNCHANGED registered

Return ==
    /\ calls # <<>>
    /\ calls' = SubSeq(calls, 1, Len(calls) - 1)
    /\ UNCHANGED registered

RegistryNext ==
    \/ \E e \in Events, h \in Handlers : Set(e, h) \/ Remove(e, h) \/ Call(e, h)
    \/ Return

RegistrySpec == RegistryInit /\ [][RegistryNext]_registryVars

=============================================================================

---------------------------- MODULE EventManager ----------------------------
(***************************************************************************)
(* EventManager (nvse/nvse/EventManager.cpp): handlers scripts register    *)
(* for events, called at once on the main thread and by Tick, once per     *)
(* frame, for events raised on another thread.  One recursive lock covers  *)
(* everything and is held while handlers run, so other threads act only    *)
(* when neither a dispatch nor Tick is in progress.  A handler may set and *)
(* remove handlers, also itself, and raise further events; two flags keep  *)
(* the callbacks alive that an iterator somewhere still points to.         *)
(*                                                                         *)
(* The calling-object filter is left out: no code sets it.  A form list    *)
(* used as a filter is one call per member, each taking the lock anew.     *)
(***************************************************************************)
EXTENDS Integers, Selections, FiniteSets

CONSTANTS GameEvents,    \* the events the game marks; EventInfos made by Init
          HitEvents,     \* OnHit and OnHitWith, filtered a second time
          UserEvents,    \* events scripts dispatch by name
          Handlers,      \* per event: what scripts register, [script, source, object]
          NoFilter,      \* no source or no object filter
          GameArgs,      \* [source, base, object] of marked events
          UserArgs,      \* those of a dispatched event: an array, no object
          None,          \* no event seen this frame
          MaxDepth,      \* bound: handlers running inside each other
          MaxDeferred    \* bound: deferred callbacks

ASSUME EventsAssumption == HitEvents \subseteq GameEvents /\ GameEvents \cap UserEvents = {}
ASSUME ArgsAssumption == None \notin GameArgs
ASSUME DepthAssumption == MaxDepth \in Nat /\ MaxDeferred \in Nat

Events == GameEvents \cup UserEvents
Args == GameArgs \cup {UserArgs}
AllHandlers == UNION {Handlers[e] : e \in Events}

VARIABLES
    known,      \* the events with an entry in s_eventInfos
    callbacks,  \* per event: the callback list
    stack,      \* HandleEventForCallingObject calls in progress, innermost last
    deferred,   \* s_deferredCallbacks
    tick,       \* where Tick stands: "idle", "loop" or "calling"
    tickAt,     \* its position in s_deferredCallbacks
    last,       \* s_lastEvent, s_lastObj, s_lastTarget
    lastHit,    \* s_lastOnHitVictim ... per hit event
    faulted     \* memory that was freed or never set has been used

filterVars == <<last, lastHit>>
tickVars == <<deferred, tick, tickAt>>
vars == <<known, callbacks, stack, tickVars, filterVars, faulted>>

\* A callback's id stands for its list node, which iterators point to; 0 is end().
Callbacks == [id : Nat \ {0}, handler : AllHandlers, inUse : BOOLEAN, removed : BOOLEAN]
Frames == [event : Events, args : Args, at : Nat, running : BOOLEAN,
           wasInUse : BOOLEAN, stale : BOOLEAN]
DeferredCallbacks == [event : Events, args : Args, at : Nat \ {0}, stale : BOOLEAN]

TypeOK ==
    /\ GameEvents \subseteq known /\ known \subseteq Events
    /\ callbacks \in [Events -> Seq(Callbacks)]
    /\ \A e \in Events \ known : callbacks[e] = <<>>
    /\ stack \in Seq(Frames)
    /\ deferred \in Seq(DeferredCallbacks) /\ Len(deferred) <= MaxDeferred
    /\ tick \in {"idle", "loop", "calling"}
    /\ tickAt \in 1 .. Len(deferred) + 1
    /\ last \in (GameEvents \X GameArgs) \cup {None}
    /\ lastHit \in [HitEvents -> GameArgs \cup {None}]
    /\ faulted \in BOOLEAN

Init ==
    /\ known = GameEvents
    /\ callbacks = [e \in Events |-> <<>>]
    /\ stack = <<>>
    /\ deferred = <<>> /\ tick = "idle" /\ tickAt = 1
    /\ last = None
    /\ lastHit = [e \in HitEvents |-> None]
    /\ faulted = FALSE

-----------------------------------------------------------------------------
(* List nodes and iterators. *)

Nodes(e) == ToSet(callbacks[e])
Ids(e) == {c.id : c \in Nodes(e)}
Position(e, id) == CHOOSE i \in 1 .. Len(callbacks[e]) : callbacks[e][i].id = id
CallbackAt(it) == callbacks[it.event][Position(it.event, it.at)]

\* An iterator may be used while its list exists and its node is in it.
Valid(it) == ~it.stale /\ it.at \in Ids(it.event) \cup {0}

FirstOf(e) == IF callbacks[e] = <<>> THEN 0 ELSE callbacks[e][1].id
After(it) ==
    LET next == Position(it.event, it.at) + 1
    IN  IF next > Len(callbacks[it.event]) THEN 0 ELSE callbacks[it.event][next].id

Without(it) ==
    [callbacks EXCEPT ![it.event] = Dropped(@, {CallbackAt(it)})]
WithInUse(it, inUse) ==
    [callbacks EXCEPT ![it.event][Position(it.event, it.at)].inUse = inUse]

\* A new node is none that anything still points to.
FreshId(e) ==
    LET taken == Ids(e) \cup {stack[k].at : k \in 1 .. Len(stack)}
                        \cup {deferred[k].at : k \in 1 .. Len(deferred)}
    IN  CHOOSE n \in 1 .. Cardinality(taken) + 1 :
            n \notin taken /\ \A m \in 1 .. n - 1 : m \in taken

-----------------------------------------------------------------------------
(* Who runs: the lock is free, or a handler has been called and may do what *)
(* scripts do.                                                              *)

LockIsFree == stack = <<>> /\ tick = "idle"
HandlerRuns == IF stack # <<>> THEN stack[Len(stack)].running ELSE tick = "calling"
ScriptsRun == ~faulted /\ (LockIsFree \/ HandlerRuns)

Depth == Cardinality({k \in 1 .. Len(stack) : stack[k].running})
             + (IF tick = "calling" THEN 1 ELSE 0)

-----------------------------------------------------------------------------
(* SetHandler and RemoveHandler. *)

\* Mutant: only a callback that is not flagged counts as the same one.
RegistersBesideRemoved(e, h) ==
    IF \E c \in Nodes(e) : c.handler = h /\ ~c.removed
    THEN callbacks[e]
    ELSE Append(callbacks[e], [id |-> FreshId(e), handler |-> h,
                               inUse |-> FALSE, removed |-> FALSE])

Registers(e, h) ==
    IF \E c \in Nodes(e) : c.handler = h
    THEN [i \in 1 .. Len(callbacks[e]) |->
             IF callbacks[e][i].handler = h
             THEN [callbacks[e][i] EXCEPT !.removed = FALSE] ELSE callbacks[e][i]]
    ELSE Append(callbacks[e], [id |-> FreshId(e), handler |-> h,
                               inUse |-> FALSE, removed |-> FALSE])

AllStale(iterators) ==
    [k \in 1 .. Len(iterators) |-> [iterators[k] EXCEPT !.stale = TRUE]]

\* An event not seen before gets an EventInfo: when the vector is full, all
\* EventInfos are copied, their lists too, and the old ones freed.
SetHandler(e, h) ==
    /\ ScriptsRun
    /\ known' = known \cup {e}
    /\ callbacks' = [callbacks EXCEPT ![e] = Registers(e, h)]
    /\ \/ UNCHANGED <<stack, deferred>>
       \/ /\ e \notin known
          /\ stack' = AllStale(stack)
          /\ deferred' = AllStale(deferred)
    /\ UNCHANGED <<tick, tickAt, filterVars, faulted>>

RemovalMatches(h, c) ==
    /\ c.handler.script = h.script
    /\ h.source \in {NoFilter, c.handler.source}

RemoveHandler(e, h) ==
    LET kept == Kept(callbacks[e], {c \in Nodes(e) : RemovalMatches(h, c) => c.inUse})
    IN  /\ ScriptsRun
        /\ callbacks' = [callbacks EXCEPT ![e] =
                            [i \in 1 .. Len(kept) |->
                                IF RemovalMatches(h, kept[i])
                                THEN [kept[i] EXCEPT !.removed = TRUE] ELSE kept[i]]]
        /\ UNCHANGED <<known, stack, tickVars, filterVars, faulted>>

-----------------------------------------------------------------------------
(* HandleEventForCallingObject. *)

Matches(c, args) ==
    /\ c.handler.source \in {NoFilter, args.source, args.base}
    /\ c.handler.object \in {NoFilter, args.object}

\* Mutant: the Removed flag is not looked at.
CallableThoughRemoved(c, args) == Matches(c, args)

Callable(c, args) == ~c.removed /\ Matches(c, args)

\* On the main thread: the loop over the callbacks starts.
HandleEvent(e, args) ==
    /\ stack' = Append(stack, [event |-> e, args |-> args, at |-> FirstOf(e),
                               running |-> FALSE, wasInUse |-> FALSE,
                               stale |-> FALSE])
    /\ UNCHANGED <<callbacks, deferred>>

\* On another thread the whole loop runs before the lock is free again, and
\* the callbacks are left to Tick.
DeferEvent(e, args) ==
    LET kept == Kept(callbacks[e], {c \in Nodes(e) : c.removed => c.inUse})
        calls == Kept(callbacks[e], {c \in Nodes(e) : Callable(c, args)})
    IN  /\ Len(deferred) + Len(calls) <= MaxDeferred
        /\ callbacks' = [callbacks EXCEPT ![e] =
                            [i \in 1 .. Len(kept) |->
                                IF Callable(kept[i], args)
                                THEN [kept[i] EXCEPT !.inUse = TRUE] ELSE kept[i]]]
        /\ deferred' = deferred \o
               [i \in 1 .. Len(calls) |->
                   [event |-> e, args |-> args, at |-> calls[i].id, stale |-> FALSE]]
        /\ UNCHANGED stack

\* Main thread or another one.
Raise(e, args) ==
    \/ HandleEvent(e, args)
    \/ LockIsFree /\ DeferEvent(e, args)

\* HandleGameEvent, unless the event repeats the last one; hits are also
\* compared with the last hit.
MarkEvent(e, args) ==
    /\ ScriptsRun /\ Depth < MaxDepth
    /\ last # <<e, args>>
    /\ last' = <<e, args>>
    /\ IF e \in HitEvents
       THEN IF lastHit[e] = args
            THEN UNCHANGED <<lastHit, callbacks, stack, deferred>>
            ELSE lastHit' = [lastHit EXCEPT ![e] = args] /\ Raise(e, args)
       ELSE UNCHANGED lastHit /\ Raise(e, args)
    /\ UNCHANGED <<known, tick, tickAt, faulted>>

\* DispatchUserDefinedEvent, and HandleNVSEMessage for events NVSE itself sends.
DispatchUserDefinedEvent(e) ==
    /\ ScriptsRun /\ Depth < MaxDepth
    /\ e \in known
    /\ Raise(e, UserArgs)
    /\ UNCHANGED <<known, tick, tickAt, filterVars, faulted>>

Top == stack[Len(stack)]
Under == SubSeq(stack, 1, Len(stack) - 1)
Looping == ~faulted /\ stack # <<>> /\ ~Top.running

\* The loop goes on to the next callback to be called, if there is one, and
\* drops what is removed and unused on the way.
Continue ==
    LET e == Top.event
        list == callbacks[e]
        rest == IF Top.at = 0 THEN {} ELSE Position(e, Top.at) .. Len(list)
        ahead == {i \in rest : Callable(list[i], Top.args)}
        next == CHOOSE i \in ahead : \A j \in ahead : i <= j
        passed == IF ahead = {} THEN rest ELSE {i \in rest : i < next}
        swept == {c \in {list[i] : i \in passed} : c.removed /\ ~c.inUse}
        called == IF ahead = {} THEN list
                  ELSE [list EXCEPT ![next].inUse = TRUE]
    IN  /\ Looping /\ Valid(Top)
        /\ callbacks' = [callbacks EXCEPT ![e] = Dropped(called, swept)]
        /\ stack' = IF ahead = {} THEN Under
                    ELSE Append(Under, [Top EXCEPT !.at = list[next].id,
                                                   !.running = TRUE,
                                                   !.wasInUse = list[next].inUse])
        /\ UNCHANGED <<known, tickVars, filterVars, faulted>>

\* Mutant: the InUse flag is cleared instead of put back.
HandlerReturnsClearingFlag ==
    /\ ~faulted /\ stack # <<>> /\ Top.running /\ Valid(Top)
    /\ stack' = Append(Under, [Top EXCEPT !.running = FALSE, !.wasInUse = FALSE,
                                          !.at = After(Top)])
    /\ callbacks' = IF CallbackAt(Top).removed /\ ~Top.wasInUse
                    THEN Without(Top)
                    ELSE WithInUse(Top, FALSE)
    /\ UNCHANGED <<known, tickVars, filterVars, faulted>>

\* The script ends: the flag is put back, and a callback removed meanwhile goes
\* unless something else still points to it.
HandlerReturns ==
    /\ ~faulted /\ stack # <<>> /\ Top.running /\ Valid(Top)
    /\ stack' = Append(Under, [Top EXCEPT !.running = FALSE, !.wasInUse = FALSE,
                                          !.at = After(Top)])
    /\ callbacks' = IF CallbackAt(Top).removed /\ ~Top.wasInUse
                    THEN Without(Top)
                    ELSE WithInUse(Top, Top.wasInUse)
    /\ UNCHANGED <<known, tickVars, filterVars, faulted>>

-----------------------------------------------------------------------------
(* Tick, on the main thread, outside of any event. *)

ForgetLastEvents ==
    /\ last' = None
    /\ lastHit' = [e \in HitEvents |-> None]

BeginTick ==
    /\ ~faulted /\ LockIsFree
    /\ IF deferred = <<>>
       THEN ForgetLastEvents /\ UNCHANGED tick
       ELSE tick' = "loop" /\ UNCHANGED filterVars
    /\ UNCHANGED <<known, callbacks, stack, deferred, tickAt, faulted>>

AtDeferred == ~faulted /\ tick = "loop" /\ tickAt <= Len(deferred)

\* A deferred callback that has been removed is neither called nor passed
\* over: then no step is possible, and the loop spins with the lock held.
TickCalls ==
    /\ AtDeferred /\ Valid(deferred[tickAt])
    /\ ~CallbackAt(deferred[tickAt]).removed
    /\ tick' = "calling"
    /\ UNCHANGED <<known, callbacks, stack, deferred, tickAt, filterVars, faulted>>

\* Mutant: the loop steps on after erasing, too.
TickReturnsSteppingTwice ==
    /\ ~faulted /\ tick = "calling" /\ stack = <<>> /\ Valid(deferred[tickAt])
    /\ tick' = "loop"
    /\ tickAt' = tickAt + 1
    /\ deferred' = IF CallbackAt(deferred[tickAt]).removed THEN deferred
                   ELSE SubSeq(deferred, 1, tickAt - 1)
                            \o SubSeq(deferred, tickAt + 1, Len(deferred))
    /\ UNCHANGED <<known, callbacks, stack, filterVars, faulted>>

\* Mutant: the handled callback is not erased.
TickReturnsWithoutErase ==
    /\ ~faulted /\ tick = "calling" /\ stack = <<>> /\ Valid(deferred[tickAt])
    /\ tick' = "loop"
    /\ UNCHANGED <<known, callbacks, stack, deferred, tickAt, filterVars, faulted>>

\* A callback removed while it ran stays for the clean-up.
TickReturns ==
    /\ ~faulted /\ tick = "calling" /\ stack = <<>> /\ Valid(deferred[tickAt])
    /\ tick' = "loop"
    /\ IF CallbackAt(deferred[tickAt]).removed
       THEN tickAt' = tickAt + 1 /\ UNCHANGED deferred
       ELSE /\ deferred' = SubSeq(deferred, 1, tickAt - 1)
                               \o SubSeq(deferred, tickAt + 1, Len(deferred))
            /\ UNCHANGED tickAt
    /\ UNCHANGED <<known, callbacks, stack, filterVars, faulted>>

EndTick ==
    /\ ~faulted /\ tick = "loop" /\ deferred = <<>>
    /\ tick' = "idle"
    /\ ForgetLastEvents
    /\ UNCHANGED <<known, callbacks, stack, deferred, tickAt, faulted>>

\* An iterator is used that points nowhere; the clean-up erases through the
\* loop's own iterator, which stands at the end of the list.
Fault ==
    /\ ~faulted
    /\ \/ stack # <<>> /\ ~Valid(Top)
       \/ AtDeferred /\ ~Valid(deferred[tickAt])
       \/ tick = "calling" /\ stack = <<>> /\ ~Valid(deferred[tickAt])
       \/ tick = "loop" /\ deferred # <<>> /\ tickAt > Len(deferred)
    /\ faulted' = TRUE
    /\ UNCHANGED <<known, callbacks, stack, tickVars, filterVars>>

-----------------------------------------------------------------------------

Registration == \E e \in Events : \E h \in Handlers[e] : SetHandler(e, h) \/ RemoveHandler(e, h)

Raising ==
    \/ \E e \in GameEvents, args \in GameArgs : MarkEvent(e, args)
    \/ \E e \in UserEvents : DispatchUserDefinedEvent(e)

TickStep == TickCalls \/ EndTick

Next ==
    \/ Registration
    \/ Raising
    \/ Continue
    \/ HandlerReturns
    \/ BeginTick
    \/ TickStep
    \/ TickReturns
    \/ Fault

Spec == Init /\ [][Next]_vars

\* The main loop calls Tick every frame; the loops run on; a script ends
\* however many events it raises.
FairSpec ==
    /\ Spec
    /\ WF_vars(Continue) /\ WF_vars(TickStep)
    /\ SF_vars(BeginTick)
    /\ \A n \in 1 .. MaxDepth : SF_vars(HandlerReturns /\ Len(stack) = n)
    /\ SF_vars(TickReturns)
    /\ SF_vars(Fault)

-----------------------------------------------------------------------------
(* Properties. *)

Iterators == {stack[k] : k \in 1 .. Len(stack)} \cup {deferred[k] : k \in 1 .. Len(deferred)}

\* An iterator a dispatch in progress or the deferred list holds points to a
\* callback that is still in its list, whatever its handler and the handlers
\* around it removed - as long as no new event name made the vector move.
IteratorsStayValid == \A it \in Iterators : it.stale \/ Valid(it)

\* No event has two callbacks of one handler, also when it was removed during
\* its own call and set again.
HandlersAreDistinct ==
    \A e \in Events : \A i, j \in 1 .. Len(callbacks[e]) :
        callbacks[e][i].handler = callbacks[e][j].handler => i = j

\* For a script the event manager is the registry: flags, sweeping, deferral
\* and vector growth do not show.
Registered(e) == {c.handler : c \in {d \in Nodes(e) : ~d.removed}}
TickCall == IF tick = "calling" THEN <<CallbackAt(deferred[tickAt]).handler>> ELSE <<>>
RunningFrames == IF stack = <<>> \/ Top.running THEN stack ELSE Under
CallsInProgress ==
    TickCall \o [k \in 1 .. Len(RunningFrames) |-> CallbackAt(RunningFrames[k]).handler]
Registry == INSTANCE EventRegistry WITH
    Handlers <- AllHandlers,
    registered <- [e \in Events |-> Registered(e)],
    calls <- CallsInProgress
ImplementsRegistry == Registry!RegistrySpec

\* Scripts that go on setting and removing handlers from their handlers may keep
\* a loop running for good: it visits what is appended behind it.
ScriptsSettle == <>[][\A e \in Events : Registered(e)' = Registered(e)]_vars

\* Tick gets through the deferred callbacks unless one of them was removed or
\* the process is lost already.
DeferredIsRemoved ==
    \E k \in 1 .. Len(deferred) :
        ~deferred[k].stale /\ deferred[k].at \in Ids(deferred[k].event)
            /\ CallbackAt(deferred[k]).removed
DeferredAreHandled ==
    ScriptsSettle
        => (deferred # <<>> ~> (deferred = <<>> \/ DeferredIsRemoved \/ faulted))

\* Tick is "called each frame to update internal state" (EventManager.h:169): it
\* has to return.
TickReturnsToGame == ScriptsSettle => (tick # "idle" ~> (tick = "idle" \/ faulted))

\* "removes handler only if all filters match" (EventManager.h:154): a handler
\* with another object filter than the one given is not removed.
RemovalRespectsFilters ==
    [][\A e \in Events : \A h \in Handlers[e] :
          RemoveHandler(e, h)
              => \A g \in Registered(e) \ Registered(e)' :
                    /\ h.source \in {NoFilter, g.source}
                    /\ h.object \in {NoFilter, g.object}]_vars

=============================================================================

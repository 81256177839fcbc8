------------------------------ MODULE ArrayVars ------------------------------
(***************************************************************************)
(* The array variables of scripts (nvse/nvse/ArrayVar.cpp): a heap of      *)
(* arrays with reference counts, kept by the index of the mod that refers, *)
(* and a collector that runs once a frame.  Who may refer to an array:     *)
(*   - a script's variable (Eval_Assign_Array);                            *)
(*   - an element of another array;                                        *)
(*   - the variable of a foreach loop, while the loop runs (Loops.cpp);    *)
(*   - a parameter of a user function, of a handler too, while it runs     *)
(*     (FunctionScripts.cpp).                                              *)
(* An event's array of arguments is referred to by nothing before its      *)
(* handler runs, which for an event of another thread is at the next Tick. *)
(*                                                                         *)
(* One action is one command, between which only the other thread and the  *)
(* engine come.  Keys are numbers in the order of the map; what is not an  *)
(* array is Other.  A mod is named, not numbered: its index in the load    *)
(* order changes between two sessions, and the fix-up tables undo that.    *)
(*                                                                         *)
(* `fault` says which of the code's own errors has happened (see Faults):  *)
(* what follows is undefined and is not followed.                          *)
(***************************************************************************)
EXTENDS VarMap, Selections

CONSTANTS Mods,       \* the mods whose scripts run
          Engine,     \* index 0xFF: of no mod, the hooks' and the loops'
          Vars,       \* the scripts' array variables
          ModOf,      \* by variable, the mod of its script
          Assigns,    \* <<mod, variable>>: whose scripts assign to what
          Callees,    \* the mods with functions and handlers
          Keys,       \* the keys of an array, from 0
          Other,      \* an element that is no array
          MaxID,      \* bound: ids
          MaxOps,     \* bound: commands run
          MaxPosts,   \* bound: steps of the other thread, two by event
          Removable,  \* bound: the mods a session may be without
          MaxLoads,   \* bound: saves, loads and new games
          MaxUsed     \* bound: all of these together

ValueKey == Min(Keys)     \* of an iterator: its "value"

ASSUME ModsAssumption == Engine \notin Mods /\ ModOf \in [Vars -> Mods]
                         /\ Assigns \subseteq Mods \X Vars
                         /\ Callees \cup Removable \subseteq Mods
ASSUME VarsAssumption == IsFiniteSet(Vars)
ASSUME KeysAssumption == Keys # {} /\ IsFiniteSet(Keys) /\ Keys = 0 .. Cardinality(Keys) - 1
ASSUME OtherAssumption == Other \notin Nat
ASSUME BoundsAssumption == {MaxID, MaxOps, MaxPosts, MaxLoads, MaxUsed} \subseteq Nat

IDs == 0 .. MaxID                     \* 0: no array
Owners == Mods \cup {Engine}
Phases == {"menu", "loading", "scripts", "tick", "clean"}
Faults == {"none",      \* none yet
           "cache",     \* the cache handed out a deleted array
           "id",        \* two arrays got one id
           "erase",     \* an array was erased while it was referred to
           "unload",    \* the load dropped an array that is referred to
           "lost"}      \* a failed load without a co-save dropped all arrays

VARIABLES
    state,      \* m_state
    backup,     \* m_backupState, with the phase the load began in: a sequence
                \* of at most one
    data,       \* by variable, the id it holds
    loop,       \* the foreach loop that runs: a sequence of at most one
    frames,     \* the function call that runs: a sequence of at most one
    phase,      \* what the main thread is at
    worker,     \* the other thread: 0, or the id GetUnusedID gave it
    deferred,   \* s_deferredCallbacks: the arguments' ids
    save,       \* the save game with its co-save: a sequence of at most one
    absent,     \* the mods that are not loaded in this session
    used,       \* the bounded things that happened
    leaked,     \* history: some reference was left to nobody, see Leaks
    hollow,     \* history: an element named no other array that exists
    fault

heap == <<state, fault, hollow>>
script == <<data, loop, frames, leaked>>
engine == <<backup, phase, save, absent>>
events == <<worker, deferred>>
vars == <<heap, script, engine, events, used>>

-----------------------------------------------------------------------------
(* The operations of the heap, on the record of VarMap::State.  What a loop *)
(* over the elements of an array has done is a function of how many keys   *)
(* are behind it.                                                          *)

Elements(s, id) == s.vars[id].elems

\* GetUnusedID, and an array that is queued for deletion until a reference to
\* it is made.  Its id is UnusedID(s).
NewArray(mod, packed) ==
    [owner |-> mod, packed |-> packed, refs |-> <<>>, elems |-> [k \in {} |-> 0]]

Create(s, packed, mod) ==
    LET id == UnusedID(s)
    IN MarkTemporary(Insert(TakeUnusedID(s), id, NewArray(mod, packed)), id, TRUE)

RemoveReference(s, held, mod) ==
    LET got == Get(s, held)
        refs == RemoveFirst(got.vars[held].refs, mod)
    IN IF held \notin Live(got) THEN got
       ELSE [(IF refs = <<>> THEN MarkTemporary(got, held, TRUE) ELSE got)
                EXCEPT !.vars[held].refs = refs]

\* Mutant: the array stayed queued for deletion.
AddReferenceLeavingItQueued(s, held, id, mod) ==
    LET freed == IF held = 0 THEN s ELSE RemoveReference(s, held, mod)
        got == Get(freed, id)
    IN IF held = id THEN s
       ELSE IF id \notin Live(got) THEN got
       ELSE [got EXCEPT !.vars[id].refs = Append(@, mod)]

\* The reference to `held` becomes one to `id`; what it holds then is Held.
AddReference(s, held, id, mod) ==
    LET freed == IF held = 0 THEN s ELSE RemoveReference(s, held, mod)
        got == Get(freed, id)
    IN IF held = id THEN s
       ELSE IF id \notin Live(got) THEN got
       ELSE [MarkTemporary(got, id, FALSE)
                EXCEPT !.vars[id].refs = Append(@, mod)]

Held(s, id) == IF id \in Live(s) THEN id ELSE 0

OwningModIndex(s, id) == IF id \in Live(s) THEN s.vars[id].owner ELSE 0

\* ArrayElement::Unset of an element of the array `owner`.
Unset(s, owner, value) ==
    IF value = Other THEN s
    ELSE RemoveReference(Get(s, owner), value, OwningModIndex(s, owner))

\* The next key is the only new one a packed array may get.
SetElement(s, id, key, value) ==
    LET may == s.vars[id].packed => key <= Cardinality(DOMAIN Elements(s, id))
        got == Get(s, id)
        old == IF key \in DOMAIN Elements(s, id)
               THEN Unset(got, id, Elements(s, id)[key]) ELSE got
        new == IF value = Other THEN old
               ELSE AddReference(old, 0, value, s.vars[id].owner)
    IN IF ~may THEN got
       ELSE [new EXCEPT !.vars[id].elems =
                With(@, key, IF value = Other THEN Other ELSE Held(old, value))]

WithoutKey(s, id, key) ==
    [s EXCEPT !.vars[id].elems = Restrict(@, DOMAIN @ \ {key})]

\* The element is unset, which gives up its reference, and erased.
UnsetElement(s, id, key) ==
    WithoutKey(Unset(s, id, Elements(s, id)[key]), id, key)

UnsettingKeys(s, id, keys) ==
    LET unset[n \in 0 .. Cardinality(Keys)] ==
            IF n = 0 THEN s
            ELSE LET t == unset[n - 1]
                 IN IF n - 1 \in keys \cap DOMAIN Elements(t, id)
                    THEN UnsetElement(t, id, n - 1) ELSE t
    IN unset

\* The elements under the keys, each with its reference, in their order.
UnsetKeys(s, id, keys) == UnsettingKeys(s, id, keys)[Cardinality(Keys)]

\* Moving an element refers to its array anew before the old reference goes.
Moved(s, id, key, to) ==
    UnsetElement(SetElement(s, id, to, Elements(s, id)[key]), id, key)

Packing(s, id) ==
    LET packed[n \in 0 .. Cardinality(Keys)] ==
            IF n = 0 THEN s
            ELSE LET t == packed[n - 1]
                     curIdx == Cardinality({k \in DOMAIN Elements(s, id) : k < n - 1})
                 IN IF n - 1 \in DOMAIN Elements(s, id) \ {curIdx}
                    THEN Moved(t, id, n - 1, curIdx) ELSE t
    IN packed

Pack(s, id) == Packing(s, id)[Cardinality(Keys)]

EraseElements(s, id, lo, hi) ==
    LET rest == UnsetKeys(Get(s, id), id, lo .. hi)
    IN IF s.vars[id].packed THEN Pack(rest, id) ELSE rest

\* Its ~ArrayVar works on the map's current state, whose array it still is.
Delete(s, id) ==
    Forget(IF id \in Live(s)
           THEN UnsetKeys(CacheRemove(Get(s, id), id), id, Keys)
           ELSE Get(s, id), id)

Erase(s, id) ==
    Delete(IF id \in Live(s) THEN UnsetKeys(Get(s, id), id, Keys) ELSE Get(s, id), id)

\* Mutant: it went through the queue once as it was at the start.
CleanOnce(s) == FoldSet(LAMBDA id, t : Delete(t, id), s, s.tempVars)

\* Destroying an array may queue those it contained: one at a time, the least
\* id first, until none is left.
Cleaning(s) ==
    LET cleaned[n \in 0 .. Cardinality(Live(s))] ==
            IF n = 0 THEN s
            ELSE LET t == cleaned[n - 1]
                 IN IF t.tempVars = {} THEN t ELSE Delete(t, Min(t.tempVars))
    IN cleaned

Clean(s) == Cleaning(s)[Cardinality(Live(s))]

Filling(s, id, value) ==
    LET filled[n \in 0 .. Cardinality(Keys)] ==
            IF n = 0 THEN s ELSE SetElement(filled[n - 1], id, n - 1, value)
    IN filled

\* value, value ... into a new array.
Filled(s, id, value) == Filling(s, id, value)[Cardinality(Keys)]
-----------------------------------------------------------------------------
(* Copying.  A call of Copy has made its array and has the elements under  *)
(* the keys `left` to copy yet; the call of an inner array is above that   *)
(* of the array whose element it is.                                       *)

\* A call on an array that is there: its copy's id is UnusedID(s).
Enters(s, calls, from, mod) ==
    [heap  |-> Create(Get(s, from), s.vars[from].packed, mod),
     calls |-> Append(calls, [copy |-> UnusedID(s), from |-> from,
                              left |-> DOMAIN Elements(s, from)])]

\* The last call copies its next element as the value.
Copies(c, value) ==
    LET n == Len(c.calls)
        key == Min(c.calls[n].left)
    IN [heap  |-> SetElement(c.heap, c.calls[n].copy, key, value),
        calls |-> [c.calls EXCEPT ![n].left = @ \ {key}]]

CopyStep(c, mod, deep) ==
    LET call == Last(c.calls)
        value == Elements(c.heap, call.from)[Min(call.left)]
        under == [c EXCEPT !.calls = Front(@)]
    IN IF c.calls = <<>> THEN c
       ELSE IF call.left = {}
            THEN IF under.calls = <<>> THEN under ELSE Copies(under, call.copy)
       ELSE IF deep /\ value \in Live(c.heap)
            THEN Enters(c.heap, c.calls, value, mod)
       ELSE Copies(c, IF deep /\ value # Other THEN 0 ELSE value)

\* Each array is entered and left, and each of its elements copied.
CopySteps == MaxID * (Cardinality(Keys) + 2)

Copying(s, from, mod, deep) ==
    LET copied[n \in 0 .. CopySteps] ==
            IF n = 0 THEN Enters(s, <<>>, from, mod)
            ELSE LET c == copied[n - 1] IN CopyStep(c, mod, deep)
    IN copied

Copy(s, from, mod, deep) == Copying(s, from, mod, deep)[CopySteps]
-----------------------------------------------------------------------------
(* What holds what                                                         *)

ArrayElements(s, id) ==
    {k \in DOMAIN Elements(s, id) : Elements(s, id)[k] \notin {Other, 0}}

Named == {0} \cup {data[v] : v \in Vars} \cup {frames[i].id : i \in DOMAIN frames}
Arrays == Named \cap Live(state)

\* An element that names no array, or its own.
IsHollow(s) ==
    \E id \in Live(s), k \in Keys :
        /\ k \in DOMAIN Elements(s, id) /\ Elements(s, id)[k] # Other
        /\ Elements(s, id)[k] \notin Live(s) \ {id}

InArrays(s, S) ==
    Live(s) \cap UNION {{Elements(s, id)[k] : k \in ArrayElements(s, id)} : id \in S}

Dangling(s, d, f) ==
    \/ \E v \in Vars : d[v] \notin {0} \cup Live(s)
    \/ \E i \in DOMAIN f : f[i].id \notin {0} \cup Live(s)
    \/ \E id \in Live(s) : \E k \in ArrayElements(s, id) : Elements(s, id)[k] \notin Live(s)
-----------------------------------------------------------------------------
Init ==
    /\ state = NewState /\ backup = <<>> /\ save = <<>>
    /\ data = [v \in Vars |-> 0]
    /\ loop = <<>> /\ frames = <<>>
    /\ phase = "menu" /\ absent = {}
    /\ worker = 0 /\ deferred = <<>>
    /\ used = [ops |-> 0, posts |-> 0, loads |-> 0]
    /\ leaked = FALSE /\ hollow = FALSE /\ fault = "none"

\* The heap is now s, unless what was done to it went through a deleted array.
BecomesOr(s, wrong) ==
    /\ Live(s) \subseteq IDs
    /\ state' = s
    /\ fault' = CASE s.misled                                -> "cache"
                  [] ~s.misled /\ worker \in Live(s)        -> "id"
                  [] ~s.misled /\ worker \notin Live(s)     -> wrong
    /\ hollow' = (hollow \/ IsHollow(s))
Becomes(s) == BecomesOr(s, "none")

Uses(what, n, bound) ==
    /\ fault = "none" /\ used[what] + n <= bound
    /\ used.ops + used.posts + used.loads + n <= MaxUsed
    /\ used' = [used EXCEPT ![what] = @ + n]

\* A script of the mod m runs its next command.  Scripts that run while a game is
\* being loaded are left out.
Command(m) ==
    /\ m \in Mods \ absent
    /\ CASE frames # <<>>               -> m = frames[1].mod
         [] frames = <<>> /\ loop # <<>> -> m = loop[1].mod
         [] frames = <<>> /\ loop = <<>> -> phase = "scripts"
    /\ Uses("ops", 1, MaxOps)

\* s_criticalSection, which Tick holds, and a dispatch until its handlers ended.
LockIsFree ==
    /\ phase # "tick" /\ worker = 0
    /\ \A i \in DOMAIN frames : frames[i].of = "call"
-----------------------------------------------------------------------------
(* Commands on arrays                                                      *)

\* let v := <the array id>, in a script of mod m: the reference is recorded,
\* and the old one looked for, under m whoever's variable it is.  So is the
\* variable of a loop that runs, although that reference is the engine's.
AssignTo(m, v, s, id) ==
    /\ Becomes(AddReference(s, data[v], id, m))
    /\ data' = [data EXCEPT ![v] = IF id = @ THEN id ELSE Held(s, id)]
    /\ leaked' = \/ leaked
                 \/ /\ id # data[v]
                    /\ m # ModOf[v] \/ \E i \in DOMAIN loop : loop[i].var = v
    /\ UNCHANGED <<loop, frames, engine, events>>

Construct(m, v) ==
    /\ Command(m)
    /\ AssignTo(m, v, Create(state, FALSE, m), UnusedID(state))

\* let v := ar_List value, value ...: a packed array.
AssignList(m, v, value) ==
    LET id == UnusedID(state)
    IN /\ Command(m)
       /\ AssignTo(m, v, Filled(Create(state, TRUE, m), id, value), id)

Assign(m, v, id) ==
    /\ Command(m)
    /\ AssignTo(m, v, state, id)

AssignElement(m, v, from, key) ==
    LET value == Elements(state, from)[key]
    IN /\ Command(m)
       /\ key \in DOMAIN Elements(state, from)
       /\ value \in {0} \cup Live(state)
       /\ AssignTo(m, v, Get(Get(state, from), value), value)

\* Bound: it ends with the ids there are (inside itself it never would).
AssignCopy(m, v, from, deep) ==
    LET copied == Copy(state, from, m, deep)
    IN /\ Command(m)
       /\ copied.calls = <<>>
       /\ AssignTo(m, v, copied.heap, UnusedID(state))

OnHeap(s) == Becomes(s) /\ UNCHANGED <<script, engine, events>>

SetElementTo(m, id, key, value) ==
    Command(m) /\ OnHeap(SetElement(state, id, key, value))

\* let ar[key] := ar_Construct
SetElementToNew(m, id, key) ==
    Command(m) /\ OnHeap(SetElement(Create(state, FALSE, m), id, key, UnusedID(state)))

EraseRange(m, id, lo, hi) ==
    Command(m) /\ OnHeap(EraseElements(state, id, lo, hi))
-----------------------------------------------------------------------------
(* foreach v <- src (Eval_In, Cmd_ForEach, ArrayIterLoop)                  *)

\* UpdateIterator: the element under "value", and its key.
UpdateIterator(s, iter, value) == Get(SetElement(s, iter, ValueKey, value), iter)

EndLoop(s, d, v) ==                   \* ~ArrayIterLoop
    /\ Becomes(RemoveReference(s, d[v], Engine))
    /\ data' = [d EXCEPT ![v] = 0]
    /\ loop' = <<>>

ForEach(m, v, src) ==
    LET iter == UnusedID(state)
        cleared == RemoveReference(Create(state, FALSE, m), data[v], m)
        begun == Get(AddReference(cleared, 0, iter, Engine), src)
        keys == IF src \in Live(state) THEN DOMAIN Elements(state, src) ELSE {}
    IN /\ Command(m) /\ frames = <<>> /\ loop = <<>>
       /\ IF keys = {} THEN EndLoop(begun, [data EXCEPT ![v] = iter], v)
          ELSE /\ Becomes(UpdateIterator(begun, iter, Elements(begun, src)[Min(keys)]))
               /\ data' = [data EXCEPT ![v] = iter]
               /\ loop' = <<[mod |-> m, var |-> v, iter |-> iter,
                             src |-> src, key |-> Min(keys)]>>
       /\ UNCHANGED <<frames, leaked, engine, events>>

Break ==
    /\ fault = "none" /\ frames = <<>> /\ loop # <<>>
    /\ EndLoop(state, data, loop[1].var)
    /\ UNCHANGED <<frames, leaked, engine, events, used>>

\* The loop ends when the key it is at is gone, or is the last one.
Continue ==
    LET at == loop[1]
        keys == IF at.src \in Live(state) THEN DOMAIN Elements(state, at.src) ELSE {}
        later == IF at.key \in keys THEN {k \in keys : k > at.key} ELSE {}
    IN /\ loop # <<>> /\ Command(at.mod) /\ frames = <<>> /\ later # {}
       /\ Becomes(UpdateIterator(Get(state, at.src), at.iter,
                                 Elements(state, at.src)[Min(later)]))
       /\ loop' = <<[at EXCEPT !.key = Min(later)]>>
       /\ UNCHANGED <<data, frames, leaked, engine, events>>
-----------------------------------------------------------------------------
(* Function calls and events                                               *)

Enter(s, mod, id, of) ==              \* PopulateArgs of the array parameter
    /\ Becomes(AddReference(s, 0, id, mod))
    /\ frames' = <<[mod |-> mod, id |-> Held(s, id), of |-> of]>>

Call(m, f, id) ==
    /\ Command(m) /\ frames = <<>>
    /\ Enter(state, f, id, "call")
    /\ UNCHANGED <<data, loop, leaked, engine, events>>

\* PopulateArgs fails at a later parameter: what it did is not undone.
CallFails(m, f, id) ==
    /\ Command(m) /\ frames = <<>>
    /\ Becomes(AddReference(state, 0, id, f))
    /\ leaked' = TRUE
    /\ UNCHANGED <<data, loop, frames, engine, events>>

\* DispatchUserDefinedEvent from a script, to a handler of mod h.
Dispatch(m, h) ==
    /\ Command(m) /\ frames = <<>> /\ LockIsFree
    /\ Enter(Create(state, FALSE, m), h, UnusedID(state), "event")
    /\ UNCHANGED <<data, loop, leaked, engine, events>>

\* doTileTextHook: the arguments are the engine's, and erased by the hook.
TileText(h) ==
    /\ Uses("ops", 1, MaxOps)
    /\ phase = "scripts" /\ frames = <<>> /\ loop = <<>> /\ LockIsFree
    /\ Enter(Create(state, FALSE, Engine), h, UnusedID(state), "tile")
    /\ UNCHANGED <<data, loop, leaked, engine, events>>

Return ==
    LET frame == frames[1]
        cleaned == RemoveReference(state, frame.id, frame.mod)   \* CleanEventList
        after == IF frame.of = "tile" THEN Erase(cleaned, frame.id) ELSE cleaned
    IN /\ fault = "none" /\ frames # <<>>
       /\ BecomesOr(after, IF Dangling(after, data, <<>>) THEN "erase" ELSE "none")
       /\ frames' = <<>>
       /\ UNCHANGED <<data, loop, leaked, engine, events, used>>

\* A dispatch on another thread, under the lock: the id is found before the
\* array is in the map.  The event is deferred.
TakeID ==
    /\ phase \in {"scripts", "clean"} /\ LockIsFree
    /\ Uses("posts", 2, MaxPosts)
    /\ UnusedID(state) \in IDs
    /\ state' = TakeUnusedID(state) /\ worker' = UnusedID(state)
    /\ UNCHANGED <<script, engine, deferred, fault, hollow>>

\* What is posted once Tick is over does not outlive the Clean that follows.
Post(mod) ==
    /\ fault = "none" /\ worker # 0
    /\ LET made == Insert(state, worker, NewArray(mod, FALSE))
       IN state' = Get(MarkTemporary(made, worker, TRUE), worker)
    /\ worker' = 0
    /\ deferred' = Append(deferred, [id |-> worker, spoiled |-> phase = "clean"])
    /\ UNCHANGED <<script, engine, used, fault, hollow>>
-----------------------------------------------------------------------------
(* One round of HandleMainLoopHook.  Scripts run between two of them.      *)

\* Mutant: Clean came before the deferred events, as it once did.
PhaseAfterCleaningFirst == [scripts |-> "clean", clean |-> "tick", tick |-> "scripts"]

PhaseAfter == [scripts |-> "tick", tick |-> "clean", clean |-> "scripts"]

PhaseEnds(s) ==
    /\ fault = "none" /\ frames = <<>> /\ loop = <<>>
    /\ phase' = PhaseAfter[phase]
    /\ Becomes(s)
    /\ UNCHANGED <<script, backup, save, absent, events, used>>

EndScripts == phase = "scripts" /\ worker = 0 /\ PhaseEnds(state)

Deliver(h) ==
    /\ phase = "tick" /\ fault = "none" /\ frames = <<>> /\ deferred # <<>>
    /\ Enter(state, h, Head(deferred).id, "event")
    /\ deferred' = Tail(deferred)
    /\ UNCHANGED <<data, loop, leaked, engine, worker, used>>

EndTick == phase = "tick" /\ deferred = <<>> /\ PhaseEnds(state)

CleanUp == phase = "clean" /\ PhaseEnds(Clean(state))
-----------------------------------------------------------------------------
(* Saving and loading (ArrayVarMap::Save, Load; VarMap::Preload, PostLoad; *)
(* the core callbacks).  The game does neither inside a script.            *)

Between == phase \in {"menu", "scripts"} /\ frames = <<>> /\ loop = <<>>
Spoiled == [i \in DOMAIN deferred |-> [deferred[i] EXCEPT !.spoiled = TRUE]]
Referred(s) == \E id \in Live(s) : s.vars[id].refs # <<>>

IsLoaded(mod) == mod \notin absent        \* ResolveRefID; it lets 0xFF through

SaveGame ==
    /\ phase = "scripts" /\ Between /\ Uses("loads", 1, MaxLoads)
    /\ Becomes(Clean(state))
    /\ save' = <<[arrays |-> state'.vars, data |-> data, leaked |-> leaked]>>
    /\ deferred' = Spoiled
    /\ UNCHANGED <<script, backup, phase, absent, worker>>

\* Mutant: the references of the mods that are gone were kept.
LoadedArrayWithAllRefs(array) ==
    [array EXCEPT !.owner = IF IsLoaded(@) \/ array.refs = <<>> THEN @
                            ELSE Head(array.refs)]

\* An array of a mod that is gone goes to the first mod that refers to it and
\* is not; without one it is discarded.
LoadedArray(array) ==
    LET refs == Kept(array.refs, Owners \ absent)
    IN [array EXCEPT !.refs = refs,
                     !.owner = IF IsLoaded(@) \/ refs = <<>> THEN @ ELSE Head(refs)]

\* Mutant: an array is queued before it is known to stay.
LoadedStateQueuingFirst(arrays) ==
    LET loaded == [id \in DOMAIN arrays |-> LoadedArray(arrays[id])]
        kept == {id \in DOMAIN arrays : IsLoaded(loaded[id].owner)}
    IN [NewState EXCEPT !.vars = Restrict(loaded, kept),
                        !.tempVars = {id \in DOMAIN arrays : loaded[id].refs = <<>>}]

\* Load, into the new state.  Elements that are arrays are taken as they are;
\* the others are set through the map.
LoadedState(arrays) ==
    LET loaded == [id \in DOMAIN arrays |-> LoadedArray(arrays[id])]
        kept == {id \in DOMAIN arrays : IsLoaded(loaded[id].owner)}
        gaps == {id \in IDs \ ({0} \cup kept) : \E later \in kept : id < later}
        set == {id \in kept : Other \in {arrays[id].elems[k] : k \in DOMAIN arrays[id].elems}}
    IN SetIDAvailable(
           [NewState EXCEPT
               !.vars = Restrict(loaded, kept),
               !.tempVars = {id \in kept : loaded[id].refs = <<>>},
               !.cache = [@ EXCEPT !.id = IF set = {} THEN 0 ELSE Max(set)]],
           gaps)

\* Core_PreLoadCallback, when there is a co-save.
PreLoad ==
    /\ Between /\ worker = 0 /\ save # <<>> /\ Uses("loads", 1, MaxLoads)
    /\ backup' = <<[state |-> state, phase |-> phase]>>
    /\ Becomes(LoadedState(save[1].arrays))
    /\ phase' = "loading"
    /\ deferred' = Spoiled
    /\ UNCHANGED <<script, save, absent, worker>>

LoadedData == [v \in Vars |-> IF IsLoaded(ModOf[v]) THEN save[1].data[v] ELSE 0]

\* Arrays taken from a mod that is gone refer to what they hold under a new
\* index, which no one recorded; so may those whose counts were wrong before.
Unloads ==
    \/ \E id \in DOMAIN save[1].arrays :
           ~IsLoaded(save[1].arrays[id].owner) /\ id \in Live(state)
               /\ ArrayElements(state, id) # {}
    \/ save[1].leaked /\ absent # {}

\* Mutant: the old state is destroyed while the new one is in place.
AfterLoadInPlace(new, old) ==
    LET unset(slot, s) == Unset(s, slot[1], Elements(old, slot[1])[slot[2]])
    IN FoldSet(unset, new, UNION {{id} \X DOMAIN Elements(old, id) : id \in Live(old)})

\* PostLoad(true).  The old state is put back while it is destroyed, so that
\* the references its arrays give up are looked for in it.
AfterLoad(new, old) == new

LoadSucceeds ==
    /\ phase = "loading" /\ fault = "none"
    /\ BecomesOr(AfterLoad(state, backup[1].state), IF Unloads THEN "unload" ELSE "none")
    /\ data' = LoadedData /\ leaked' = save[1].leaked
    /\ backup' = <<>> /\ phase' = "scripts"
    /\ UNCHANGED <<loop, frames, save, absent, events, used>>

\* PostLoad(false): the restore point.
LoadFails ==
    /\ phase = "loading" /\ fault = "none"
    /\ Becomes(backup[1].state)
    /\ backup' = <<>> /\ phase' = backup[1].phase
    /\ UNCHANGED <<script, save, absent, events, used>>

\* A new game, or a save game without a co-save, whose variables hold nothing
\* (HandleNewGame): what other variables referred to stays in the map.
NewGame ==
    /\ Between
    /\ IF phase = "menu" THEN fault = "none" /\ UNCHANGED used
       ELSE Uses("loads", 1, MaxLoads)
    /\ Becomes(Clean(state))
    /\ data' = [v \in Vars |-> 0]
    /\ leaked' = Referred(state')
    /\ phase' = "scripts"
    /\ deferred' = Spoiled
    /\ UNCHANGED <<loop, frames, backup, save, absent, worker>>

\* Such a save game, that fails to load: PostLoad(false) without a Preload.
BareLoadFails ==
    /\ Between /\ worker = 0 /\ Uses("loads", 1, MaxLoads)
    /\ BecomesOr(NewState, IF Dangling(NewState, data, <<>>) THEN "lost" ELSE "none")
    /\ deferred' = Spoiled
    /\ UNCHANGED <<script, engine, worker>>

\* The process ends, wherever it is, and starts with other mods.  Bound: it does
\* so only once there is a save, and not twice with the same mods.
Restart(gone) ==
    /\ fault = "none" /\ save # <<>> /\ (phase = "menu" => gone # absent)
    /\ state' = NewState /\ backup' = <<>>
    /\ data' = [v \in Vars |-> 0] /\ loop' = <<>> /\ frames' = <<>>
    /\ leaked' = FALSE /\ hollow' = FALSE
    /\ phase' = "menu" /\ absent' = gone
    /\ worker' = 0 /\ deferred' = <<>>
    /\ UNCHANGED <<save, used, fault>>
-----------------------------------------------------------------------------
\* Bound: another mod's variable is only given a new array, or one that has a name.
Statements(m) ==
    \/ \E v \in {w \in Vars : <<m, w>> \in Assigns} :
        \/ Construct(m, v)
        \/ \E id \in Named : Assign(m, v, id)
    \/ \E v \in {w \in Vars : ModOf[w] = m} :
        \/ \E value \in Arrays \cup {Other} : AssignList(m, v, value)
        \/ \E src \in Arrays : ForEach(m, v, src)
        \/ \E from \in Arrays, key \in Keys : AssignElement(m, v, from, key)
        \/ \E from \in Arrays, deep \in BOOLEAN : AssignCopy(m, v, from, deep)
    \/ \E id \in Arrays :
        \/ \E key \in Keys, value \in Named \cup {Other} : SetElementTo(m, id, key, value)
        \/ \E key \in Keys : SetElementToNew(m, id, key)
        \/ \E lo, hi \in Keys : lo <= hi /\ EraseRange(m, id, lo, hi)

Calls(m, f) ==
    \/ \E id \in Arrays : Call(m, f, id) \/ CallFails(m, f, id)
    \/ Dispatch(m, f)

Commands ==
    \/ \E m \in Mods : Statements(m)
    \/ \E m \in Mods, f \in Callees \ absent : Calls(m, f)
    \/ Continue \/ Break \/ Return

Hooks ==
    \/ \E h \in Callees \ absent : TileText(h) \/ Deliver(h)
    \/ EndScripts \/ EndTick \/ CleanUp

OtherThread == TakeID \/ \E mod \in Mods \ absent : Post(mod)

Games ==
    \/ SaveGame \/ PreLoad \/ LoadSucceeds \/ LoadFails
    \/ NewGame \/ BareLoadFails
    \/ \E gone \in SUBSET Removable : Restart(gone)

Next == Commands \/ Hooks \/ OtherThread \/ Games

Spec == Init /\ [][Next]_vars
-----------------------------------------------------------------------------
(* Properties.  While a game loads, scripts' variables still belong to the *)
(* heap that was set aside.                                                *)

Heap == IF phase = "loading" THEN backup[1].state ELSE state

ArrayOK(array) ==
    /\ array.owner \in Owners /\ array.packed \in BOOLEAN
    /\ \A i \in DOMAIN array.refs : array.refs[i] \in Owners
    /\ DOMAIN array.elems \subseteq Keys
    /\ \A k \in DOMAIN array.elems : array.elems[k] \in IDs \cup {Other}

StateOK(s) ==
    /\ Live(s) \subseteq IDs \ {0}
    /\ \A id \in Live(s) : ArrayOK(s.vars[id])
    /\ s.tempVars \subseteq Live(s)
    /\ s.available \subseteq IDs \ {0}
    /\ s.cache.id \in IDs /\ s.cache.current \in BOOLEAN /\ s.misled \in BOOLEAN

\* The types; an id is queued for deletion only while its array is there.
TypeOK ==
    /\ StateOK(state)
    /\ \A i \in DOMAIN backup : StateOK(backup[i].state)
    /\ Len(backup) = IF phase = "loading" THEN 1 ELSE 0
    /\ data \in [Vars -> IDs]
    /\ Len(loop) <= 1 /\ Len(frames) <= 1
    /\ \A i \in DOMAIN frames : frames[i].id \in IDs /\ frames[i].mod \in Mods
    /\ phase \in Phases /\ fault \in Faults
    /\ worker \in IDs
    /\ \A i \in DOMAIN deferred : deferred[i].id \in IDs
    /\ absent \subseteq Mods

\* Reference counting keeps what is in use: every array a variable, a running
\* call or loop, or an element of an array names is in the map and not queued
\* for deletion.  It holds although scripts record references under the index
\* of the wrong mod, since the counts then err on the side of too many.
HeldArraysLive ==
    fault = "none" =>
        LET kept == {0} \cup (Live(Heap) \ Heap.tempVars)
        IN /\ \A v \in Vars : data[v] \in kept
           /\ \A i \in DOMAIN frames : frames[i].id \in kept
           /\ \A i \in DOMAIN loop : loop[i].iter \in kept
           /\ \A id \in Live(Heap) : \A k \in ArrayElements(Heap, id) :
                  Elements(Heap, id)[k] \in kept

\* Who refers to the array, and under which index.
ByVars(id, mod) ==
    {v \in Vars : /\ data[v] = id
                  /\ mod = IF \E i \in DOMAIN loop : loop[i].var = v
                           THEN Engine ELSE ModOf[v]}
ByElements(id, mod) ==
    UNION {{<<holder, k>> : k \in {e \in ArrayElements(Heap, holder) :
                                     Elements(Heap, holder)[e] = id}} :
           holder \in {h \in Live(Heap) : Heap.vars[h].owner = mod}}
ByFrames(id, mod) ==
    {i \in DOMAIN frames : frames[i].id = id /\ frames[i].mod = mod}

RefsOf(id, mod) == {i \in DOMAIN Heap.vars[id].refs : Heap.vars[id].refs[i] = mod}

\* As long as every script assigns to its own mod's variables, no iterator is
\* reassigned in its loop, every call gets its arguments and no game is left
\* behind: the recorded references are those there are, mod by mod, and the
\* arrays nobody refers to are those queued for deletion.
RefsCountHolders ==
    fault = "none" /\ ~leaked =>
        \A id \in Live(Heap) :
            /\ \A mod \in Owners :
                  Cardinality(RefsOf(id, mod)) =
                      Cardinality(ByVars(id, mod)) + Cardinality(ByElements(id, mod))
                          + Cardinality(ByFrames(id, mod))
            /\ (id \in Heap.tempVars) <=> (Heap.vars[id].refs = <<>>)

\* No id is given out that is in use, and none below the greatest one in use
\* is lost, whatever was deleted, discarded or loaded.
IdsNeitherLostNorTwice ==
    fault = "none" =>
        /\ state.available \cap (Live(state) \cup {worker}) = {}
        /\ \A id \in Live(state) : \A n \in 1 .. id :
               n \in Live(state) \cup state.available \cup {worker}

\* The cache, which Get trusts, never points to an array that is deleted, as
\* long as no element named no array or its own: destroying that element
\* leaves the array that is being destroyed in the cache.
CacheIsCurrent ==
    fault = "none" /\ ~hollow => state.cache.current

\* An event deferred in time keeps its arguments until Tick has called its
\* handler: "moved after deffered processing because of array parameter to
\* User Defined Events".
EventArgsWait ==
    \A i \in DOMAIN deferred :
        fault = "none" /\ ~deferred[i].spoiled => deferred[i].id \in Live(Heap)

\* A load finds what was saved: with all the mods, every array; without some,
\* every array a variable of those that are left refers to, with all that is
\* in it; and nothing in the heap belongs to the others.
LoadedAsSaved ==
    [][phase # "loading" /\ phase' = "loading" =>
        /\ absent = {} => state'.vars = save[1].arrays /\ state'.tempVars = {}
        /\ ~save[1].leaked =>
               \A v \in Vars : LoadedData[v] # 0 =>
                  /\ LoadedData[v] \in Live(state') \ state'.tempVars
                  /\ Elements(state', LoadedData[v]) = save[1].arrays[LoadedData[v]].elems
        /\ \A id \in Live(state') :
               /\ IsLoaded(state'.vars[id].owner)
               /\ \A i \in DOMAIN state'.vars[id].refs : IsLoaded(state'.vars[id].refs[i])]_vars

\* The largest set of arrays each of which has a reference from outside the
\* heap, or from an element of one in the set.
InUse(s, roots) ==
    UNION {S \in SUBSET Live(s) : \A id \in S : id \in roots \cup InArrays(s, S)}

\* A collection deletes every array that nothing refers to, those it contained
\* included, and no other; arrays that refer to each other stay.
CollectsGarbage ==
    [][phase = "clean" /\ phase' = "scripts" /\ ~leaked /\ fault' = "none" =>
        Live(state') = InUse(state, {data[v] : v \in Vars})]_vars
=============================================================================

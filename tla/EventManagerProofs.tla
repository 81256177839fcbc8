------------------------- MODULE EventManagerProofs -------------------------
(***************************************************************************)
(* Proofs about EventManager for any events, handlers and depths: types,   *)
(* iterators that keep their nodes, one callback per handler, and that the *)
(* event manager implements the EventRegistry.  The inductive invariant    *)
(* says which nodes are flagged InUse, and whose flag a returning handler  *)
(* may clear.                                                              *)
(***************************************************************************)
EXTENDS EventManager, SelectionsProofs, FiniteSetTheorems

\* A list of callbacks: its nodes have ids and handlers of their own.
IsList(list) ==
    /\ list \in Seq(Callbacks)
    /\ \A i, j \in 1 .. Len(list) : list[i].id = list[j].id => i = j
    /\ \A i, j \in 1 .. Len(list) : list[i].handler = list[j].handler => i = j
ListsAreLists == \A e \in Events : IsList(callbacks[e])

\* The node is in the list and flagged, so that nobody unlinks it.
Pinned(list, id) == \E c \in ToSet(list) : c.id = id /\ c.inUse

\* What a running handler's frame points to is pinned; the frame on top may be
\* between two callbacks, its iterator at a node or at the end.
FrameOK(frame) ==
    IF frame.running THEN Pinned(callbacks[frame.event], frame.at)
    ELSE frame.at \in Ids(frame.event) \cup {0}
FramesOK == \A k \in 1 .. Len(stack) : FrameOK(stack[k])
OnlyTopLoops == \A k \in 1 .. Len(stack) - 1 : stack[k].running
DeferredPinned ==
    \A k \in 1 .. Len(deferred) : Pinned(callbacks[deferred[k].event], deferred[k].at)

\* The frame that found the flag clear is the first that points to the node: the
\* flag is its to clear.
SameNode(it, frame) == it.event = frame.event /\ it.at = frame.at
FlagsNest ==
    \A k \in 1 .. Len(stack) : stack[k].running /\ ~stack[k].wasInUse =>
        /\ \A j \in 1 .. k - 1 : ~SameNode(stack[j], stack[k])
        /\ \A j \in 1 .. Len(deferred) : ~SameNode(deferred[j], stack[k])

\* Tick works while no event is dispatched, except by what it calls.
TickAlone ==
    /\ tick = "loop" => stack = <<>>
    /\ tick = "calling" => tickAt <= Len(deferred)

IteratorsOK ==
    /\ FramesOK
    /\ OnlyTopLoops
    /\ DeferredPinned
    /\ FlagsNest

IInv ==
    /\ TypeOK
    /\ ListsAreLists
    /\ IteratorsOK
    /\ TickAlone

-----------------------------------------------------------------------------
(* Lists. *)

\* The nodes of a list are what stands at its positions.
LEMMA ElementsAt ==
    ASSUME NEW list, IsList(list)
    PROVE  /\ Len(list) \in Nat
           /\ ToSet(list) = {list[i] : i \in 1 .. Len(list)}
           /\ ToSet(list) \subseteq Callbacks
BY DEF IsList, ToSet

\* A node is known by its id.
LEMMA NodeById ==
    ASSUME NEW list, IsList(list), NEW c \in ToSet(list), NEW d \in ToSet(list),
           c.id = d.id
    PROVE  c = d
<1>1. PICK i \in 1 .. Len(list) : c = list[i]
  BY ElementsAt
<1>2. PICK j \in 1 .. Len(list) : d = list[j]
  BY ElementsAt
<1>3. i = j
  BY <1>1, <1>2 DEF IsList
<1> QED
  BY <1>1, <1>2, <1>3

\* Unlinking nodes leaves a list.
LEMMA KeptIsList ==
    ASSUME NEW list, IsList(list), NEW K
    PROVE  IsList(Kept(list, K)) /\ ToSet(Kept(list, K)) = ToSet(list) \cap K
<1> DEFINE id == [c \in Callbacks |-> c.id]
           handler == [c \in Callbacks |-> c.handler]
           new == Kept(list, K)
<1>1. list \in Seq(Callbacks) /\ new \in Seq(Callbacks)
  BY KeptSelects DEF IsList
<1>2. \A i \in 1 .. Len(list) : /\ id[list[i]] = list[i].id
                                /\ handler[list[i]] = list[i].handler
  BY <1>1
<1>3. \A i \in 1 .. Len(new) : id[new[i]] = new[i].id /\ handler[new[i]] = new[i].handler
  <2> HIDE DEF new
  <2> QED
    BY <1>1
<1> HIDE DEF id, handler
<1>4. \A i, j \in 1 .. Len(new) : id[new[i]] = id[new[j]] => i = j
  BY <1>1, <1>2, KeptStaysInjective DEF IsList
<1>5. \A i, j \in 1 .. Len(new) : handler[new[i]] = handler[new[j]] => i = j
  BY <1>1, <1>2, KeptStaysInjective DEF IsList
<1>6. IsList(new)
  <2> HIDE DEF new
  <2> QED
    BY <1>1, <1>3, <1>4, <1>5 DEF IsList
<1> QED
  BY <1>1, <1>6, KeptElements

\* So does changing flags.
SameNodes(old, new) ==
    /\ new \in Seq(Callbacks) /\ Len(new) = Len(old)
    /\ \A i \in 1 .. Len(old) : new[i].id = old[i].id /\ new[i].handler = old[i].handler

LEMMA FlagsLeaveList ==
    ASSUME NEW old, NEW new, IsList(old), SameNodes(old, new)
    PROVE  IsList(new)
BY DEF IsList, SameNodes

\* A list grows by a node with an id and a handler of its own.
LEMMA AppendedIsList ==
    ASSUME NEW list, IsList(list), NEW c \in Callbacks,
           \A d \in ToSet(list) : d.id # c.id /\ d.handler # c.handler
    PROVE  IsList(Append(list, c)) /\ ToSet(Append(list, c)) = ToSet(list) \cup {c}
<1> DEFINE new == Append(list, c)
<1>1. /\ list \in Seq(Callbacks) /\ Len(list) \in Nat
      /\ new \in Seq(Callbacks) /\ Len(new) = Len(list) + 1 /\ new[Len(list) + 1] = c
      /\ \A i \in 1 .. Len(list) : new[i] = list[i] /\ list[i] \in ToSet(list)
  BY ElementsAt DEF IsList
<1> HIDE DEF new
<1>2. \A i \in 1 .. Len(new) : i = Len(list) + 1 \/ i \in 1 .. Len(list)
  BY <1>1
<1>3. IsList(new)
  BY <1>1, <1>2 DEF IsList
<1>4. ToSet(new) = ToSet(list) \cup {c}
  BY <1>1, <1>2, <1>3, ElementsAt
<1> QED
  BY <1>3, <1>4 DEF new

\* Where an id is in its list.
LEMMA PositionOfId ==
    ASSUME NEW e \in Events, IsList(callbacks[e]), NEW id \in Ids(e)
    PROVE  /\ Position(e, id) \in 1 .. Len(callbacks[e])
           /\ callbacks[e][Position(e, id)].id = id
           /\ callbacks[e][Position(e, id)] \in Nodes(e)
<1>1. \E i \in 1 .. Len(callbacks[e]) : callbacks[e][i].id = id
  BY ElementsAt DEF Ids, Nodes
<1>2. /\ Position(e, id) \in 1 .. Len(callbacks[e])
      /\ callbacks[e][Position(e, id)].id = id
  BY <1>1 DEF Position
<1> QED
  BY <1>2, ElementsAt DEF Nodes

\* A pinned node is in the list.
LEMMA PinnedHasId ==
    ASSUME NEW e \in Events, NEW id, Pinned(callbacks[e], id)
    PROVE  id \in Ids(e)
BY DEF Pinned, Ids, Nodes

\* A new node has an id of its own, and not the one that stands for end().
LEMMA FreshIdIsNew ==
    ASSUME NEW e \in Events, IsList(callbacks[e]), stack \in Seq(Frames),
           deferred \in Seq(DeferredCallbacks)
    PROVE  FreshId(e) \in Nat \ {0} /\ FreshId(e) \notin Ids(e)
<1> DEFINE list == callbacks[e]
           taken == Ids(e) \cup {stack[k].at : k \in 1 .. Len(stack)}
                           \cup {deferred[k].at : k \in 1 .. Len(deferred)}
<1>1. Len(list) \in Nat /\ Len(stack) \in Nat /\ Len(deferred) \in Nat
  BY ElementsAt
<1>2. IsFiniteSet(Ids(e))
  <2> DEFINE f == [i \in 1 .. Len(list) |-> list[i].id]
  <2>1. Ids(e) = {list[i].id : i \in 1 .. Len(list)}
    BY ElementsAt DEF Ids, Nodes
  <2>2. f \in Surjection(1 .. Len(list), Ids(e))
    BY <2>1 DEF Surjection
  <2>3. IsFiniteSet(1 .. Len(list))
    <3> HIDE DEF list, f
    <3> QED
      BY <1>1, FS_Interval
  <2> QED
    BY <2>2, <2>3, FS_Surjection
<1>3. IsFiniteSet({stack[k].at : k \in 1 .. Len(stack)})
  <2> DEFINE f == [k \in 1 .. Len(stack) |-> stack[k].at]
             A == {stack[k].at : k \in 1 .. Len(stack)}
  <2>1. f \in Surjection(1 .. Len(stack), A)
    BY DEF Surjection
  <2>2. IsFiniteSet(1 .. Len(stack))
    BY <1>1, FS_Interval
  <2> QED
    BY <2>1, <2>2, FS_Surjection
<1>4. IsFiniteSet({deferred[k].at : k \in 1 .. Len(deferred)})
  <2> DEFINE f == [k \in 1 .. Len(deferred) |-> deferred[k].at]
             A == {deferred[k].at : k \in 1 .. Len(deferred)}
  <2>1. f \in Surjection(1 .. Len(deferred), A)
    BY DEF Surjection
  <2>2. IsFiniteSet(1 .. Len(deferred))
    BY <1>1, FS_Interval
  <2> QED
    BY <2>1, <2>2, FS_Surjection
<1>5. IsFiniteSet(taken) /\ Cardinality(taken) \in Nat
  BY <1>2, <1>3, <1>4, FS_Union, FS_CardinalityType
<1> DEFINE free == (1 .. Cardinality(taken) + 1) \ taken
<1> HIDE DEF taken
<1>6. free # {}
  <2>1. SUFFICES ASSUME 1 .. Cardinality(taken) + 1 \subseteq taken PROVE FALSE
    OBVIOUS
  <2>2. Cardinality(1 .. Cardinality(taken) + 1) <= Cardinality(taken)
    BY <1>5, <2>1, FS_Subset
  <2>3. Cardinality(1 .. Cardinality(taken) + 1) = Cardinality(taken) + 1
    BY <1>5, FS_Interval
  <2> QED
    BY <1>5, <2>2, <2>3
<1>7. PICK n \in free : \A m \in free : n <= m
  <2>1. free \subseteq Nat
    BY <1>5
  <2> HIDE DEF free
  <2> QED
    BY <1>6, <2>1, LeastOfSet
<1>8. /\ n \in 1 .. Cardinality(taken) + 1 /\ n \notin taken
      /\ \A m \in 1 .. n - 1 : m \in taken
  BY <1>5, <1>7
<1>9. FreshId(e) = CHOOSE n_1 \in 1 .. Cardinality(taken) + 1 :
                      n_1 \notin taken /\ \A m \in 1 .. n_1 - 1 : m \in taken
  BY DEF FreshId, taken
<1>10. FreshId(e) \in 1 .. Cardinality(taken) + 1 /\ FreshId(e) \notin taken
  BY <1>8, <1>9
<1> QED
  BY <1>5, <1>10 DEF taken

-----------------------------------------------------------------------------
(* What a step leaves of the lists. *)

\* Nodes flagged InUse stay, with their handlers and flagged, but for the freed.
Survives(new, c) == \E d \in ToSet(new) : d.id = c.id /\ d.handler = c.handler /\ d.inUse
Advances(e, freed) ==
    /\ callbacks' \in [Events -> Seq(Callbacks)]
    /\ \A f \in Events \ {e} : callbacks'[f] = callbacks[f]
    /\ IsList(callbacks'[e])
    /\ \A c \in Nodes(e) : c.inUse /\ c.id \notin freed => Survives(callbacks'[e], c)

\* A step that leaves the lists alone frees nothing.
LEMMA UnchangedAdvances ==
    ASSUME TypeOK, ListsAreLists, UNCHANGED callbacks, NEW e \in Events, NEW freed
    PROVE  Advances(e, freed)
BY DEF TypeOK, ListsAreLists, Advances, Survives, Nodes

\* Every pinned node that is not freed is still pinned, and is still the
\* callback of its handler.
LEMMA PinsSurvive ==
    ASSUME ListsAreLists, NEW e \in Events, NEW freed, Advances(e, freed),
           NEW f \in Events, NEW id, Pinned(callbacks[f], id), f = e => id \notin freed
    PROVE  /\ Pinned(callbacks'[f], id)
           /\ id \in Ids(f) /\ id \in Ids(f)'
           /\ \E c \in Nodes(f), d \in Nodes(f)' :
                 c.id = id /\ d.id = id /\ c.handler = d.handler
<1>1. PICK c \in Nodes(f) : c.id = id /\ c.inUse
  BY DEF Pinned, Nodes
<1>2. \E d \in ToSet(callbacks'[f]) : d.id = id /\ d.handler = c.handler /\ d.inUse
  BY <1>1 DEF Advances, Survives, Nodes
<1> QED
  BY <1>1, <1>2 DEF Pinned, Nodes, Ids

\* Lists stay lists in every step that advances.
LEMMA ListsStayLists ==
    ASSUME ListsAreLists, NEW e \in Events, NEW freed, Advances(e, freed)
    PROVE  ListsAreLists'
BY DEF ListsAreLists, Advances

\* The callback with a given id, found by looking for it.
LEMMA CallbackOfId ==
    ASSUME NEW it, it.event \in Events, IsList(callbacks[it.event]),
           NEW c \in Nodes(it.event), c.id = it.at
    PROVE  CallbackAt(it) = c
<1>1. it.at \in Ids(it.event)
  BY DEF Ids
<1>2. CallbackAt(it) \in Nodes(it.event) /\ CallbackAt(it).id = it.at
  BY <1>1, PositionOfId DEF CallbackAt
<1> QED
  BY <1>2, NodeById DEF Nodes

\* SetHandler adds its handler, and takes no flag InUse away.
LEMMA RegistersList ==
    ASSUME NEW e \in Events, NEW h \in Handlers[e], IsList(callbacks[e]),
           stack \in Seq(Frames), deferred \in Seq(DeferredCallbacks)
    PROVE  LET new == Registers(e, h)
           IN  /\ IsList(new)
               /\ \A c \in Nodes(e) : c.inUse => Survives(new, c)
               /\ {c.handler : c \in {d \in ToSet(new) : ~d.removed}} = Registered(e) \cup {h}
<1> DEFINE list == callbacks[e]
           new == Registers(e, h)
           again == [i \in 1 .. Len(list) |->
                        IF list[i].handler = h
                        THEN [list[i] EXCEPT !.removed = FALSE] ELSE list[i]]
           fresh == [id |-> FreshId(e), handler |-> h, inUse |-> FALSE, removed |-> FALSE]
<1>1. /\ Len(list) \in Nat /\ ToSet(list) = {list[i] : i \in 1 .. Len(list)}
      /\ ToSet(list) \subseteq Callbacks
  BY ElementsAt
<1>2. CASE \E c \in Nodes(e) : c.handler = h
  <2>1. new = again
    BY <1>2 DEF Registers
  <2>2. /\ again \in Seq(Callbacks) /\ Len(again) = Len(list)
        /\ \A i \in 1 .. Len(list) :
              /\ again[i].id = list[i].id /\ again[i].handler = list[i].handler
              /\ again[i].inUse = list[i].inUse
              /\ list[i].handler = h => ~again[i].removed
              /\ list[i].handler # h => again[i].removed = list[i].removed
    <3>1. \A i \in 1 .. Len(list) : list[i] \in Callbacks
      BY <1>1
    <3>2. \A i \in 1 .. Len(list) :
             IF list[i].handler = h
             THEN /\ again[i] = [list[i] EXCEPT !.removed = FALSE]
                  /\ again[i] = [id |-> list[i].id, handler |-> list[i].handler,
                                 inUse |-> list[i].inUse, removed |-> FALSE]
             ELSE again[i] = list[i]
      BY <3>1 DEF Callbacks
    <3>3. again \in [1 .. Len(list) -> Callbacks]
      BY <3>1, <3>2 DEF Callbacks
    <3>4. again \in Seq(Callbacks) /\ Len(again) = Len(list)
      BY <1>1, <3>3
    <3> HIDE DEF again
    <3> QED
      BY <3>1, <3>2, <3>4 DEF Callbacks
  <2> HIDE DEF again
  <2>3. IsList(again)
    BY <2>2, FlagsLeaveList DEF SameNodes
  <2>4. ToSet(again) = {again[i] : i \in 1 .. Len(list)}
    BY <2>2, <2>3, ElementsAt
  <2>5. \A c \in Nodes(e) : c.inUse => Survives(again, c)
    BY <1>1, <2>2, <2>4 DEF Nodes, Survives
  <2>6. {c.handler : c \in {d \in ToSet(again) : ~d.removed}} \subseteq Registered(e) \cup {h}
    <3>1. ASSUME NEW b \in ToSet(again), ~b.removed, b.handler # h
          PROVE  \E d \in Nodes(e) : ~d.removed /\ b.handler = d.handler
      BY <1>1, <2>2, <2>4, <3>1 DEF Nodes
    <3> QED
      BY <3>1 DEF Registered
  <2>7. Registered(e) \cup {h} \subseteq {c.handler : c \in {d \in ToSet(again) : ~d.removed}}
    <3>1. PICK c \in Nodes(e) : c.handler = h
      BY <1>2
    <3>2. PICK i \in 1 .. Len(list) : list[i] = c
      BY <1>1 DEF Nodes
    <3>3. again[i] \in ToSet(again) /\ again[i].handler = h /\ ~again[i].removed
      BY <2>2, <2>4, <3>1, <3>2
    <3>4. ASSUME NEW d \in Nodes(e), ~d.removed
          PROVE  \E b \in ToSet(again) : ~b.removed /\ b.handler = d.handler
      <4>1. PICK j \in 1 .. Len(list) : list[j] = d
        BY <1>1 DEF Nodes
      <4>2. again[j] \in ToSet(again) /\ ~again[j].removed /\ again[j].handler = d.handler
        BY <2>2, <2>4, <3>4, <4>1
      <4> QED
        BY <4>2
    <3> QED
      BY <3>3, <3>4 DEF Registered
  <2> QED
    BY <2>1, <2>3, <2>5, <2>6, <2>7
<1>3. CASE ~\E c \in Nodes(e) : c.handler = h
  <2>1. new = Append(list, fresh)
    BY <1>3 DEF Registers
  <2>2. fresh \in Callbacks
    BY FreshIdIsNew DEF Callbacks, AllHandlers
  <2>3. \A d \in ToSet(list) : d.id # fresh.id /\ d.handler # fresh.handler
    BY <1>3, FreshIdIsNew DEF Ids, Nodes
  <2>4. fresh.handler = h /\ ~fresh.removed
    OBVIOUS
  <2> HIDE DEF list, fresh
  <2>5. IsList(new) /\ ToSet(new) = ToSet(list) \cup {fresh}
    BY <2>1, <2>2, <2>3, AppendedIsList DEF list
  <2> HIDE DEF new
  <2>6. \A c \in Nodes(e) : c.inUse => Survives(new, c)
    BY <2>5 DEF Nodes, Survives, list
  <2>7. {c.handler : c \in {d \in ToSet(new) : ~d.removed}} = Registered(e) \cup {h}
    BY <2>4, <2>5 DEF Nodes, Registered, list
  <2> QED
    BY <2>5, <2>6, <2>7 DEF new
<1> QED
  BY <1>2, <1>3

\* RemoveHandler takes out or marks the matching callbacks, and unlinks none
\* that is flagged InUse.
LEMMA RemovesList ==
    ASSUME TypeOK, ListsAreLists, NEW e \in Events, NEW h, RemoveHandler(e, h)
    PROVE  /\ Advances(e, {})
           /\ callbacks[e] = <<>> => callbacks'[e] = <<>>
           /\ Registered(e)' = {g \in Registered(e) : ~(/\ g.script = h.script
                                                        /\ h.source \in {NoFilter, g.source})}
<1> DEFINE list == callbacks[e]
           K == {c \in Nodes(e) : RemovalMatches(h, c) => c.inUse}
           kept == Kept(list, K)
           new == [i \in 1 .. Len(kept) |->
                      IF RemovalMatches(h, kept[i])
                      THEN [kept[i] EXCEPT !.removed = TRUE] ELSE kept[i]]
<1>1. IsList(list)
  BY DEF ListsAreLists
<1>2. IsList(kept) /\ ToSet(kept) = Nodes(e) \cap K
  BY <1>1, KeptIsList DEF Nodes
<1>3. callbacks' = [callbacks EXCEPT ![e] = new]
  BY DEF RemoveHandler
<1>4. callbacks'[e] = new /\ \A f \in Events \ {e} : callbacks'[f] = callbacks[f]
  BY <1>3 DEF TypeOK
<1> HIDE DEF kept
<1>5. /\ Len(kept) \in Nat /\ ToSet(kept) = {kept[i] : i \in 1 .. Len(kept)}
      /\ ToSet(kept) \subseteq Callbacks
  BY <1>2, ElementsAt
<1>6. /\ new \in Seq(Callbacks) /\ Len(new) = Len(kept)
      /\ \A i \in 1 .. Len(kept) :
            /\ new[i].id = kept[i].id /\ new[i].handler = kept[i].handler
            /\ new[i].inUse = kept[i].inUse
            /\ RemovalMatches(h, kept[i]) => new[i].removed
            /\ ~RemovalMatches(h, kept[i]) => new[i].removed = kept[i].removed
  <2>1. \A i \in 1 .. Len(kept) : kept[i] \in Callbacks
    BY <1>5
  <2>2. \A i \in 1 .. Len(kept) :
           IF RemovalMatches(h, kept[i])
           THEN new[i] = [id |-> kept[i].id, handler |-> kept[i].handler,
                          inUse |-> kept[i].inUse, removed |-> TRUE]
           ELSE new[i] = kept[i]
    BY <2>1 DEF Callbacks
  <2>3. new \in [1 .. Len(kept) -> Callbacks]
    BY <2>1, <2>2 DEF Callbacks
  <2>4. new \in Seq(Callbacks) /\ Len(new) = Len(kept)
    BY <1>5, <2>3
  <2> HIDE DEF new
  <2>5. ASSUME NEW i \in 1 .. Len(kept), RemovalMatches(h, kept[i])
        PROVE  /\ new[i].id = kept[i].id /\ new[i].handler = kept[i].handler
               /\ new[i].inUse = kept[i].inUse /\ new[i].removed
    <3>1. new[i] = [id |-> kept[i].id, handler |-> kept[i].handler,
                    inUse |-> kept[i].inUse, removed |-> TRUE]
      BY <2>2, <2>5, Zenon
    <3> QED
      BY <3>1
  <2>6. ASSUME NEW i \in 1 .. Len(kept), ~RemovalMatches(h, kept[i])
        PROVE  new[i] = kept[i]
    BY <2>2, <2>6
  <2> QED
    BY <2>4, <2>5, <2>6
<1> HIDE DEF new
<1>7. IsList(new)
  BY <1>2, <1>6, FlagsLeaveList DEF SameNodes
<1>8. ToSet(new) = {new[i] : i \in 1 .. Len(kept)}
  BY <1>6, <1>7, ElementsAt
<1>9. \A c \in Nodes(e) : c.inUse => Survives(new, c)
  <2>1. ASSUME NEW c \in Nodes(e), c.inUse PROVE Survives(new, c)
    <3>1. PICK i \in 1 .. Len(kept) : kept[i] = c
      BY <1>2, <1>5, <2>1
    <3> QED
      BY <1>6, <1>8, <2>1, <3>1 DEF Survives
  <2> QED
    BY <2>1
<1>10. Advances(e, {})
  <2>1. callbacks' \in [Events -> Seq(Callbacks)]
    BY <1>3, <1>6 DEF TypeOK
  <2> QED
    BY <1>4, <1>7, <1>9, <2>1 DEF Advances
<1>11. Registered(e)' = {c.handler : c \in {d \in ToSet(new) : ~d.removed}}
  BY <1>4 DEF Registered, Nodes
<1>12. ASSUME NEW b \in ToSet(new), ~b.removed
       PROVE  \E d \in Nodes(e) : ~d.removed /\ b.handler = d.handler /\ ~RemovalMatches(h, d)
  <2>1. PICK i \in 1 .. Len(kept) : b = new[i]
    BY <1>8
  <2>2. ~RemovalMatches(h, kept[i]) /\ ~kept[i].removed /\ kept[i] \in Nodes(e)
    BY <1>2, <1>5, <1>6, <1>12, <2>1
  <2> QED
    BY <1>6, <2>1, <2>2
<1>13. ASSUME NEW d \in Nodes(e), ~d.removed, ~RemovalMatches(h, d)
       PROVE  \E b \in ToSet(new) : ~b.removed /\ b.handler = d.handler
  <2>1. PICK i \in 1 .. Len(kept) : kept[i] = d
    BY <1>2, <1>5, <1>13
  <2> QED
    BY <1>6, <1>8, <1>13, <2>1
<1>14. ASSUME NEW g
       PROVE  g \in Registered(e)' <=>
                  g \in Registered(e) /\ ~(/\ g.script = h.script
                                           /\ h.source \in {NoFilter, g.source})
  <2>1. g \in Registered(e)' <=> \E b \in ToSet(new) : ~b.removed /\ b.handler = g
    BY <1>11
  <2>2. g \in Registered(e) <=> \E d \in Nodes(e) : ~d.removed /\ d.handler = g
    BY DEF Registered
  <2>3. \A d \in Nodes(e) : d.handler = g =>
            (RemovalMatches(h, d) <=> /\ g.script = h.script
                                      /\ h.source \in {NoFilter, g.source})
    BY DEF RemovalMatches
  <2> QED
    BY <1>12, <1>13, <2>1, <2>2, <2>3
<1>15. callbacks[e] = <<>> => callbacks'[e] = <<>>
  <2>1. Len(kept) <= Len(list)
    BY <1>1, KeptSelects DEF IsList, kept
  <2> QED
    BY <1>4, <1>6, <2>1
<1> QED
  BY <1>10, <1>14, <1>15

\* DeferEvent unlinks only what is removed and not flagged, and flags what it
\* defers.
LEMMA DefersList ==
    ASSUME TypeOK, ListsAreLists, NEW e \in Events, NEW args, DeferEvent(e, args)
    PROVE  LET calls == Kept(callbacks[e], {c \in Nodes(e) : Callable(c, args)})
           IN  /\ Advances(e, {})
               /\ Registered(e)' = Registered(e)
               /\ calls \in Seq(Callbacks)
               /\ \A i \in 1 .. Len(calls) : Pinned(callbacks'[e], calls[i].id)
<1> DEFINE list == callbacks[e]
           K == {c \in Nodes(e) : c.removed => c.inUse}
           C == {c \in Nodes(e) : Callable(c, args)}
           kept == Kept(list, K)
           calls == Kept(list, C)
           new == [i \in 1 .. Len(kept) |->
                      IF Callable(kept[i], args)
                      THEN [kept[i] EXCEPT !.inUse = TRUE] ELSE kept[i]]
<1>1. IsList(list)
  BY DEF ListsAreLists
<1>2. IsList(kept) /\ ToSet(kept) = Nodes(e) \cap K
  BY <1>1, KeptIsList DEF Nodes
<1>3. IsList(calls) /\ ToSet(calls) = Nodes(e) \cap C
  BY <1>1, KeptIsList DEF Nodes
<1>4. callbacks' = [callbacks EXCEPT ![e] = new]
  BY DEF DeferEvent
<1>5. callbacks'[e] = new /\ \A f \in Events \ {e} : callbacks'[f] = callbacks[f]
  BY <1>4 DEF TypeOK
<1> HIDE DEF kept, calls
<1>6. /\ Len(kept) \in Nat /\ ToSet(kept) = {kept[i] : i \in 1 .. Len(kept)}
      /\ ToSet(kept) \subseteq Callbacks
  BY <1>2, ElementsAt
<1>7. /\ new \in Seq(Callbacks) /\ Len(new) = Len(kept)
      /\ \A i \in 1 .. Len(kept) :
            /\ new[i].id = kept[i].id /\ new[i].handler = kept[i].handler
            /\ new[i].removed = kept[i].removed
            /\ kept[i].inUse \/ Callable(kept[i], args) => new[i].inUse
  <2>1. \A i \in 1 .. Len(kept) : kept[i] \in Callbacks
    BY <1>6
  <2>2. \A i \in 1 .. Len(kept) :
           IF Callable(kept[i], args)
           THEN new[i] = [id |-> kept[i].id, handler |-> kept[i].handler,
                          inUse |-> TRUE, removed |-> kept[i].removed]
           ELSE new[i] = kept[i]
    BY <2>1 DEF Callbacks
  <2>3. new \in [1 .. Len(kept) -> Callbacks]
    BY <2>1, <2>2 DEF Callbacks
  <2>4. new \in Seq(Callbacks) /\ Len(new) = Len(kept)
    BY <1>6, <2>3
  <2> HIDE DEF new
  <2>5. ASSUME NEW i \in 1 .. Len(kept), Callable(kept[i], args)
        PROVE  /\ new[i].id = kept[i].id /\ new[i].handler = kept[i].handler
               /\ new[i].removed = kept[i].removed /\ new[i].inUse
    <3>1. new[i] = [id |-> kept[i].id, handler |-> kept[i].handler,
                    inUse |-> TRUE, removed |-> kept[i].removed]
      BY <2>2, <2>5, Zenon
    <3> QED
      BY <3>1
  <2>6. ASSUME NEW i \in 1 .. Len(kept), ~Callable(kept[i], args)
        PROVE  new[i] = kept[i]
    BY <2>2, <2>6
  <2> QED
    BY <2>4, <2>5, <2>6
<1> HIDE DEF new
<1>8. IsList(new)
  BY <1>2, <1>7, FlagsLeaveList DEF SameNodes
<1>9. ToSet(new) = {new[i] : i \in 1 .. Len(kept)}
  BY <1>7, <1>8, ElementsAt
<1>10. \A c \in Nodes(e) : c.inUse => Survives(new, c)
  <2>1. ASSUME NEW c \in Nodes(e), c.inUse PROVE Survives(new, c)
    <3>1. PICK i \in 1 .. Len(kept) : kept[i] = c
      BY <1>2, <1>6, <2>1
    <3> QED
      BY <1>7, <1>9, <2>1, <3>1 DEF Survives
  <2> QED
    BY <2>1
<1>11. Advances(e, {})
  <2>1. callbacks' \in [Events -> Seq(Callbacks)]
    BY <1>4, <1>7 DEF TypeOK
  <2> QED
    BY <1>5, <1>8, <1>10, <2>1 DEF Advances
<1>12. Registered(e)' = {c.handler : c \in {d \in ToSet(new) : ~d.removed}}
  BY <1>5 DEF Registered, Nodes
<1>13. ASSUME NEW b \in ToSet(new), ~b.removed
       PROVE  \E d \in Nodes(e) : ~d.removed /\ b.handler = d.handler
  BY <1>2, <1>6, <1>7, <1>9, <1>13
<1>14. ASSUME NEW d \in Nodes(e), ~d.removed
       PROVE  \E b \in ToSet(new) : ~b.removed /\ b.handler = d.handler
  <2>1. PICK i \in 1 .. Len(kept) : kept[i] = d
    BY <1>2, <1>6, <1>14
  <2> QED
    BY <1>7, <1>9, <1>14, <2>1
<1>15. Registered(e)' = Registered(e)
  BY <1>12, <1>13, <1>14 DEF Registered
<1>16. ASSUME NEW i \in 1 .. Len(calls)
       PROVE  Pinned(callbacks'[e], calls[i].id)
  <2>1. calls[i] \in Nodes(e) /\ Callable(calls[i], args)
    BY <1>3, ElementsAt
  <2>2. calls[i] \in K
    BY <2>1 DEF Callable
  <2>3. PICK k \in 1 .. Len(kept) : kept[k] = calls[i]
    BY <1>2, <1>6, <2>1, <2>2
  <2>4. new[k].id = calls[i].id /\ new[k].inUse /\ new[k] \in ToSet(new)
    BY <1>7, <1>9, <2>1, <2>3
  <2> QED
    BY <1>5, <2>4 DEF Pinned
<1>17. calls \in Seq(Callbacks)
  BY <1>3 DEF IsList
<1> QED
  BY <1>11, <1>15, <1>16, <1>17 DEF calls

\* Setting the flag InUse changes nothing else.
LEMMA FlagSet ==
    ASSUME NEW c \in Callbacks, NEW b \in BOOLEAN
    PROVE  LET d == [c EXCEPT !.inUse = b]
           IN  /\ d \in Callbacks /\ d.id = c.id /\ d.handler = c.handler
               /\ d.removed = c.removed /\ d.inUse = b
<1>1. [c EXCEPT !.inUse = b]
          = [id |-> c.id, handler |-> c.handler, inUse |-> b, removed |-> c.removed]
  BY DEF Callbacks
<1> QED
  BY <1>1 DEF Callbacks

\* The innermost dispatch and those around it.
LEMMA TopIsFrame ==
    ASSUME stack \in Seq(Frames), stack # <<>>
    PROVE  /\ Len(stack) \in Nat \ {0} /\ Top \in Frames /\ Top = stack[Len(stack)]
           /\ Under \in Seq(Frames) /\ Len(Under) = Len(stack) - 1
           /\ \A k \in 1 .. Len(Under) : Under[k] = stack[k]
           /\ Top.event \in Events
<1>1. Len(stack) \in Nat \ {0} /\ Len(stack) \in 1 .. Len(stack)
  OBVIOUS
<1>2. Top \in Frames /\ Top = stack[Len(stack)]
  BY <1>1 DEF Top
<1>3. Top.event \in Events
  BY <1>2 DEF Frames
<1>4. /\ Under \in Seq(Frames) /\ Len(Under) = Len(stack) - 1
      /\ \A k \in 1 .. Len(Under) : Under[k] = stack[k]
  <2> DEFINE n == Len(stack) - 1
  <2>1. n \in Nat /\ n <= Len(stack) /\ Under = SubSeq(stack, 1, n)
    BY <1>1 DEF Under
  <2> HIDE DEF n
  <2>2. Under \in Seq(Frames) /\ Len(Under) = n /\ \A k \in 1 .. n : Under[k] = stack[k]
    BY <2>1
  <2> QED
    BY <2>2 DEF n
<1> QED
  BY <1>1, <1>2, <1>3, <1>4

\* Continue unlinks only what is removed and not flagged, and flags what it calls.
LEMMA ContinuesList ==
    ASSUME TypeOK, ListsAreLists, Continue
    PROVE  LET e == Top.event
           IN  /\ Advances(e, {})
               /\ callbacks[e] = <<>> => callbacks'[e] = <<>>
               /\ \A f \in Events : Registered(f)' = Registered(f)
               /\ \/ stack' = Under
                  \/ \E c \in Nodes(e) :
                        /\ ~c.removed
                        /\ stack' = Append(Under, [Top EXCEPT !.at = c.id, !.running = TRUE,
                                                              !.wasInUse = c.inUse])
                        /\ Survives(callbacks'[e], c)
<1> DEFINE e == Top.event
           list == callbacks[e]
           rest == IF Top.at = 0 THEN {} ELSE Position(e, Top.at) .. Len(list)
           ahead == {i \in rest : Callable(list[i], Top.args)}
           next == CHOOSE i \in ahead : \A j \in ahead : i <= j
           passed == IF ahead = {} THEN rest ELSE {i \in rest : i < next}
           swept == {c \in {list[i] : i \in passed} : c.removed /\ ~c.inUse}
           called == IF ahead = {} THEN list ELSE [list EXCEPT ![next].inUse = TRUE]
           new == Dropped(called, swept)
<1>1. stack # <<>> /\ e \in Events /\ Valid(Top)
  BY TopIsFrame DEF Continue, Looping, TypeOK
<1>2. /\ IsList(list) /\ Len(list) \in Nat
      /\ ToSet(list) = {list[i] : i \in 1 .. Len(list)} /\ ToSet(list) \subseteq Callbacks
  BY <1>1, ElementsAt DEF ListsAreLists
<1>3. rest \subseteq 1 .. Len(list)
  <2>1. CASE Top.at = 0
    BY <2>1
  <2>2. CASE Top.at # 0
    <3>1. Position(e, Top.at) \in 1 .. Len(list)
      BY <1>1, <1>2, <2>2, PositionOfId DEF Valid
    <3> QED
      BY <1>2, <3>1
  <2> QED
    BY <2>1, <2>2
<1>4. ahead # {} => next \in ahead /\ next \in 1 .. Len(list) /\ Callable(list[next], Top.args)
  <2>1. ahead \subseteq Nat
    BY <1>2, <1>3
  <2>2. SUFFICES ASSUME ahead # {} PROVE next \in ahead
    BY <1>3
  <2> HIDE DEF ahead
  <2> QED
    BY <2>1, <2>2, LeastOfSet
<1>5. /\ callbacks' = [callbacks EXCEPT ![e] = new]
      /\ stack' = IF ahead = {} THEN Under
                  ELSE Append(Under, [Top EXCEPT !.at = list[next].id,
                                                 !.running = TRUE,
                                                 !.wasInUse = list[next].inUse])
  BY DEF Continue
<1>6. callbacks'[e] = new /\ \A f \in Events \ {e} : callbacks'[f] = callbacks[f]
  BY <1>1, <1>5 DEF TypeOK
<1> HIDE DEF next, ahead, rest, passed, list, e
<1>7. /\ called \in Seq(Callbacks) /\ Len(called) = Len(list)
      /\ \A i \in 1 .. Len(list) :
            /\ called[i].id = list[i].id /\ called[i].handler = list[i].handler
            /\ called[i].removed = list[i].removed
            /\ list[i].inUse => called[i].inUse
      /\ ahead # {} => called[next].inUse
  <2>1. CASE ahead = {}
    BY <1>2, <2>1 DEF IsList
  <2>2. CASE ahead # {}
    <3>1. next \in 1 .. Len(list) /\ list \in Seq(Callbacks) /\ list[next] \in Callbacks
      BY <1>2, <1>4, <2>2 DEF IsList
    <3> DEFINE it == [list[next] EXCEPT !.inUse = TRUE]
    <3>2. called = [list EXCEPT ![next] = it]
      BY <2>2
    <3>3. /\ it \in Callbacks /\ it.id = list[next].id /\ it.handler = list[next].handler
          /\ it.removed = list[next].removed /\ it.inUse
      BY <3>1, FlagSet
    <3> HIDE DEF it, called
    <3>5. /\ called \in Seq(Callbacks) /\ Len(called) = Len(list)
          /\ \A i \in 1 .. Len(list) : called[i] = IF i = next THEN it ELSE list[i]
      BY <3>1, <3>2, <3>3
    <3> QED
      BY <3>1, <3>3, <3>5
  <2> QED
    BY <2>1, <2>2
<1> HIDE DEF called
<1>8. IsList(called) /\ ToSet(called) = {called[i] : i \in 1 .. Len(list)}
  BY <1>2, <1>7, FlagsLeaveList, ElementsAt DEF SameNodes
<1>9. IsList(new) /\ ToSet(new) = ToSet(called) \ swept
  BY <1>8, KeptIsList DEF Dropped
<1>10. \A c \in swept : c.removed /\ ~c.inUse
  OBVIOUS
<1> HIDE DEF new, swept
<1>11. ASSUME NEW i \in 1 .. Len(list), called[i].inUse \/ ~called[i].removed
       PROVE  called[i] \in ToSet(new)
  BY <1>8, <1>9, <1>10, <1>11
<1>12. \A c \in Nodes(e) : c.inUse => Survives(new, c)
  <2>1. ASSUME NEW c \in Nodes(e), c.inUse PROVE Survives(new, c)
    <3>1. PICK i \in 1 .. Len(list) : list[i] = c
      BY <1>2 DEF Nodes, list
    <3> QED
      BY <1>7, <1>11, <2>1, <3>1 DEF Survives
  <2> QED
    BY <2>1
<1>13. Advances(e, {})
  <2>1. callbacks' \in [Events -> Seq(Callbacks)]
    BY <1>5, <1>9 DEF TypeOK, IsList
  <2> QED
    BY <1>6, <1>9, <1>12, <2>1 DEF Advances
<1>14. ASSUME NEW f \in Events PROVE Registered(f)' = Registered(f)
  <2>0. CASE f # e
    BY <1>6, <2>0 DEF Registered, Nodes
  <2> SUFFICES ASSUME f = e PROVE Registered(f)' = Registered(f)
    BY <2>0
  <2>1. ASSUME NEW b \in ToSet(new), ~b.removed
        PROVE  \E d \in Nodes(e) : ~d.removed /\ b.handler = d.handler
    <3>1. PICK i \in 1 .. Len(list) : b = called[i]
      BY <1>8, <1>9
    <3> QED
      BY <1>2, <1>7, <2>1, <3>1 DEF Nodes, list
  <2>2. ASSUME NEW d \in Nodes(e), ~d.removed
        PROVE  \E b \in ToSet(new) : ~b.removed /\ b.handler = d.handler
    <3>1. PICK i \in 1 .. Len(list) : list[i] = d
      BY <1>2 DEF Nodes, list
    <3> QED
      BY <1>7, <1>11, <2>2, <3>1
  <2>3. Registered(f)' = {c.handler : c \in {d \in ToSet(new) : ~d.removed}}
    BY <1>6 DEF Registered, Nodes
  <2> QED
    BY <2>1, <2>2, <2>3 DEF Registered
<1>15. callbacks[e] = <<>> => callbacks'[e] = <<>>
  <2>1. Len(new) <= Len(called)
    BY <1>8, KeptSelects DEF IsList, new, Dropped
  <2> QED
    BY <1>6, <1>7, <1>9, <2>1 DEF IsList, list
<1>16. CASE ahead = {}
  BY <1>5, <1>13, <1>14, <1>15, <1>16 DEF e
<1>17. CASE ahead # {}
  <2>1. list[next] \in Nodes(e) /\ ~list[next].removed
    BY <1>2, <1>4, <1>17 DEF Nodes, list, Callable
  <2>2. Survives(new, list[next])
    BY <1>4, <1>7, <1>11, <1>17 DEF Survives
  <2> QED
    BY <1>5, <1>6, <1>13, <1>14, <1>15, <1>17, <2>1, <2>2 DEF e
<1> QED
  BY <1>16, <1>17

\* HandlerReturns frees the node it called if the flag was clear before, unlinks
\* nothing but a removed one, and stays in the list or at its end.
LEMMA ReturnsList ==
    ASSUME TypeOK, ListsAreLists, HandlerReturns, FrameOK(Top)
    PROVE  /\ Advances(Top.event, IF Top.wasInUse THEN {} ELSE {Top.at})
           /\ \A f \in Events : Registered(f)' = Registered(f)
           /\ After(Top) = 0 \/ \E c \in ToSet(callbacks'[Top.event]) : c.id = After(Top)
<1> DEFINE e == Top.event
           list == callbacks[e]
           at == Position(e, Top.at)
           freed == IF Top.wasInUse THEN {} ELSE {Top.at}
           next == at + 1
           it == CallbackAt(Top)
<1>1. stack # <<>> /\ Top.running /\ e \in Events /\ Top \in Frames
  BY TopIsFrame DEF HandlerReturns, TypeOK
<1>2. /\ IsList(list) /\ Len(list) \in Nat
      /\ ToSet(list) = {list[i] : i \in 1 .. Len(list)} /\ ToSet(list) \subseteq Callbacks
  BY <1>1, ElementsAt DEF ListsAreLists
<1>3. PICK p \in Nodes(e) : p.id = Top.at /\ p.inUse
  BY <1>1 DEF FrameOK, Pinned, Nodes
<1>4. at \in 1 .. Len(list) /\ list[at] = it /\ it \in Nodes(e) /\ it.id = Top.at
  BY <1>1, <1>2, <1>3, PositionOfId, Zenon DEF CallbackAt, Ids
<1>5. it \in Callbacks /\ it = p /\ it.inUse
  BY <1>1, <1>2, <1>3, <1>4, NodeById DEF Nodes
<1>6. After(Top) = IF next > Len(list) THEN 0 ELSE list[next].id
  BY DEF After
<1>7. next <= Len(list) => next \in 1 .. Len(list) /\ list[next].id # it.id
  BY <1>2, <1>4 DEF IsList
<1>8. callbacks' = IF it.removed /\ ~Top.wasInUse THEN Without(Top)
                   ELSE WithInUse(Top, Top.wasInUse)
  BY DEF HandlerReturns
<1> HIDE DEF it, at, list, e, next
<1>9. CASE it.removed /\ ~Top.wasInUse
  <2> DEFINE new == Dropped(list, {it})
  <2>1. callbacks' = [callbacks EXCEPT ![e] = new]
    BY <1>8, <1>9 DEF Without, it, e, list
  <2>2. callbacks'[e] = new /\ \A f \in Events \ {e} : callbacks'[f] = callbacks[f]
    BY <1>1, <2>1 DEF TypeOK
  <2>3. IsList(new) /\ ToSet(new) = Nodes(e) \ {it}
    BY <1>2, KeptIsList DEF Dropped, Nodes, list
  <2> HIDE DEF new
  <2>4. Advances(e, {Top.at})
    <3>1. callbacks' \in [Events -> Seq(Callbacks)]
      BY <2>1, <2>3 DEF TypeOK, IsList
    <3>2. \A c \in Nodes(e) : c.inUse /\ c.id \notin {Top.at} => Survives(new, c)
      BY <1>4, <2>3 DEF Survives
    <3> QED
      BY <2>2, <2>3, <3>1, <3>2 DEF Advances
  <2>5. ASSUME NEW f \in Events PROVE Registered(f)' = Registered(f)
    BY <1>9, <2>2, <2>3 DEF Registered, Nodes
  <2>6. next <= Len(list) => list[next] \in ToSet(new)
    BY <1>2, <1>7, <2>3 DEF Nodes, list
  <2> QED
    BY <1>2, <1>4, <1>6, <1>9, <2>2, <2>4, <2>5, <2>6 DEF e, next
<1>10. CASE ~(it.removed /\ ~Top.wasInUse)
  <2> DEFINE flag == Top.wasInUse
             back == [it EXCEPT !.inUse = flag]
             new == [list EXCEPT ![at] = back]
  <2>0. flag \in BOOLEAN
    BY <1>1 DEF Frames
  <2>1. /\ back \in Callbacks /\ back.id = it.id /\ back.handler = it.handler
        /\ back.removed = it.removed /\ back.inUse = flag
    BY <1>5, <2>0, FlagSet
  <2>2. callbacks' = [callbacks EXCEPT ![e] = new]
    BY <1>4, <1>8, <1>10 DEF WithInUse, e, list, at
  <2>3. callbacks'[e] = new /\ \A f \in Events \ {e} : callbacks'[f] = callbacks[f]
    BY <1>1, <2>2 DEF TypeOK
  <2> HIDE DEF back
  <2>4. /\ new \in Seq(Callbacks) /\ Len(new) = Len(list)
        /\ \A i \in 1 .. Len(list) : new[i] = IF i = at THEN back ELSE list[i]
    BY <1>2, <1>4, <2>1 DEF IsList
  <2> HIDE DEF new
  <2>5. IsList(new) /\ ToSet(new) = {new[i] : i \in 1 .. Len(list)}
    BY <1>2, <1>4, <2>1, <2>4, FlagsLeaveList, ElementsAt DEF SameNodes
  <2>6. Advances(e, freed)
    <3>1. callbacks' \in [Events -> Seq(Callbacks)]
      BY <2>2, <2>5 DEF TypeOK, IsList
    <3>2. ASSUME NEW c \in Nodes(e), c.inUse, c.id \notin freed PROVE Survives(new, c)
      <4>1. PICK i \in 1 .. Len(list) : list[i] = c
        BY <1>2 DEF Nodes, list
      <4>2. i = at => Top.wasInUse
        BY <1>4, <3>2, <4>1
      <4> QED
        BY <1>4, <2>1, <2>4, <2>5, <3>2, <4>1, <4>2 DEF Survives
    <3> QED
      BY <2>3, <2>5, <3>1, <3>2 DEF Advances
  <2>7. ASSUME NEW f \in Events PROVE Registered(f)' = Registered(f)
    <3>1. CASE f # e
      BY <2>3, <3>1 DEF Registered, Nodes
    <3>2. CASE f = e
      <4>1. ASSUME NEW b \in ToSet(new), ~b.removed
            PROVE  \E d \in Nodes(e) : ~d.removed /\ b.handler = d.handler
        BY <1>2, <1>4, <2>1, <2>4, <2>5, <4>1 DEF Nodes, list
      <4>2. ASSUME NEW d \in Nodes(e), ~d.removed
            PROVE  \E b \in ToSet(new) : ~b.removed /\ b.handler = d.handler
        <5>1. PICK i \in 1 .. Len(list) : list[i] = d
          BY <1>2 DEF Nodes, list
        <5> QED
          BY <1>4, <2>1, <2>4, <2>5, <4>2, <5>1
      <4>3. Registered(f)' = {c.handler : c \in {d \in ToSet(new) : ~d.removed}}
        BY <2>3, <3>2 DEF Registered, Nodes
      <4>4. Registered(f) = {c.handler : c \in {d \in Nodes(e) : ~d.removed}}
        BY <3>2 DEF Registered
      <4> QED
        BY <4>1, <4>2, <4>3, <4>4
    <3> QED
      BY <3>1, <3>2
  <2>8. next <= Len(list) => \E c \in ToSet(new) : c.id = list[next].id
    BY <1>4, <1>7, <2>1, <2>4, <2>5
  <2> QED
    BY <1>2, <1>4, <1>6, <2>3, <2>6, <2>7, <2>8 DEF e, next
<1> QED
  BY <1>9, <1>10

-----------------------------------------------------------------------------
(* What a step leaves of the iterators. *)

\* What iterators are, and that their events have lists.
LEMMA IteratorsTyped ==
    ASSUME TypeOK
    PROVE  /\ Len(stack) \in Nat /\ Len(deferred) \in Nat
           /\ \A k \in 1 .. Len(stack) : stack[k] \in Frames /\ stack[k].event \in Events
           /\ \A k \in 1 .. Len(deferred) :
                 deferred[k] \in DeferredCallbacks /\ deferred[k].event \in Events
<1>1. Len(stack) \in Nat /\ Len(deferred) \in Nat
  BY DEF TypeOK
<1>2. \A k \in 1 .. Len(stack) : stack[k] \in Frames
  BY DEF TypeOK
<1>3. \A k \in 1 .. Len(deferred) : deferred[k] \in DeferredCallbacks
  BY DEF TypeOK
<1> QED
  BY <1>1, <1>2, <1>3 DEF Frames, DeferredCallbacks

\* A handler runs, or nothing is dispatched: no frame is between two callbacks.
LEMMA AllFramesRun ==
    ASSUME TypeOK, IteratorsOK, TickAlone, ScriptsRun
    PROVE  \A k \in 1 .. Len(stack) : stack[k].running
<1>1. Len(stack) \in Nat
  BY DEF TypeOK
<1>2. CASE stack = <<>>
  BY <1>2
<1>3. CASE stack # <<>>
  BY <1>1, <1>3 DEF ScriptsRun, LockIsFree, HandlerRuns, IteratorsOK, OnlyTopLoops
<1> QED
  BY <1>2, <1>3

\* Steps of a script that add no iterator: some may have become stale.
SameIterators(old, new) ==
    /\ Len(new) = Len(old)
    /\ \A k \in 1 .. Len(old) : new[k].event = old[k].event /\ new[k].at = old[k].at

\* If no iterator comes or goes and no flag is cleared, all stay pinned.
LEMMA IteratorsRemain ==
    ASSUME TypeOK, ListsAreLists, IteratorsOK, NEW e \in Events, Advances(e, {}),
           \A k \in 1 .. Len(stack) : stack[k].running,
           SameIterators(stack, stack'), SameIterators(deferred, deferred'),
           \A k \in 1 .. Len(stack) : /\ stack'[k].running = stack[k].running
                                      /\ stack'[k].wasInUse = stack[k].wasInUse
    PROVE  IteratorsOK'
<1>1. /\ \A k \in 1 .. Len(stack) : stack[k].event \in Events
      /\ \A k \in 1 .. Len(deferred) : deferred[k].event \in Events
      /\ Len(stack) \in Nat /\ Len(deferred) \in Nat
  BY IteratorsTyped
<1>2. \A f \in Events : \A id : Pinned(callbacks[f], id) => Pinned(callbacks'[f], id)
  BY PinsSurvive
<1>3. /\ \A k \in 1 .. Len(stack) : Pinned(callbacks[stack[k].event], stack[k].at)
      /\ \A k \in 1 .. Len(deferred) : Pinned(callbacks[deferred[k].event], deferred[k].at)
  BY DEF IteratorsOK, FramesOK, FrameOK, DeferredPinned
<1>4. FramesOK'
  BY <1>1, <1>2, <1>3 DEF FramesOK, FrameOK, SameIterators
<1>5. OnlyTopLoops'
  BY <1>1 DEF OnlyTopLoops, SameIterators
<1>6. DeferredPinned'
  BY <1>1, <1>2, <1>3 DEF DeferredPinned, SameIterators
<1>7. FlagsNest'
  BY <1>1 DEF IteratorsOK, FlagsNest, SameNode, SameIterators
<1> QED
  BY <1>4, <1>5, <1>6, <1>7 DEF IteratorsOK

\* Steps that leave lists and iterators alone.
LEMMA NothingMoves ==
    ASSUME ListsAreLists, IteratorsOK, UNCHANGED <<callbacks, stack, deferred>>
    PROVE  ListsAreLists' /\ IteratorsOK'
BY DEF ListsAreLists, IteratorsOK, FramesOK, FrameOK, Ids, Nodes, OnlyTopLoops,
       DeferredPinned, FlagsNest, SameNode

\* A loop begins at the first callback, or at the end of an empty list.
LEMMA LoopBegins ==
    ASSUME TypeOK, ListsAreLists, IteratorsOK, NEW e \in Events, NEW args \in Args,
           \A k \in 1 .. Len(stack) : stack[k].running, HandleEvent(e, args)
    PROVE  stack' \in Seq(Frames) /\ ListsAreLists' /\ IteratorsOK'
<1> DEFINE frame == [event |-> e, args |-> args, at |-> FirstOf(e), running |-> FALSE,
                     wasInUse |-> FALSE, stale |-> FALSE]
           n == Len(stack)
<1>1. FirstOf(e) \in Ids(e) \cup {0}
  BY ElementsAt DEF FirstOf, Ids, Nodes, ListsAreLists, IsList
<1>2. Ids(e) \subseteq Nat
  BY ElementsAt DEF Ids, Nodes, ListsAreLists, Callbacks
<1>3. frame \in Frames
  BY <1>1, <1>2 DEF Frames
<1>4. /\ n \in Nat /\ stack' \in Seq(Frames) /\ Len(stack') = n + 1
      /\ stack'[n + 1] = frame
      /\ \A k \in 1 .. n : stack'[k] = stack[k] /\ stack[k].running
  BY <1>3 DEF HandleEvent, TypeOK
<1>5. /\ UNCHANGED <<callbacks, deferred>>
      /\ frame.event = e /\ frame.at = FirstOf(e) /\ ~frame.running
  BY DEF HandleEvent
<1> HIDE DEF frame, n
<1>6. \A k \in 1 .. Len(stack') : k = n + 1 \/ k \in 1 .. n
  BY <1>4
<1>7. ListsAreLists'
  BY <1>5 DEF ListsAreLists
<1>8. FramesOK'
  BY <1>1, <1>4, <1>5, <1>6 DEF IteratorsOK, FramesOK, FrameOK, Ids, Nodes, n
<1>9. OnlyTopLoops'
  BY <1>4 DEF OnlyTopLoops
<1>10. DeferredPinned'
  BY <1>5 DEF IteratorsOK, DeferredPinned
<1>11. FlagsNest'
  BY <1>4, <1>5, <1>6 DEF IteratorsOK, FlagsNest, SameNode, n
<1> QED
  BY <1>4, <1>7, <1>8, <1>9, <1>10, <1>11 DEF IteratorsOK

\* The parts of a concatenation.
LEMMA Concatenated ==
    ASSUME NEW S, NEW s \in Seq(S), NEW t \in Seq(S)
    PROVE  /\ s \o t \in Seq(S) /\ Len(s \o t) = Len(s) + Len(t)
           /\ \A k \in 1 .. Len(s) : (s \o t)[k] = s[k]
           /\ \A k \in Len(s) + 1 .. Len(s) + Len(t) : (s \o t)[k] = t[k - Len(s)]
OBVIOUS

\* A deferral finds no dispatch in progress, and pins what it defers.
LEMMA DeferralPins ==
    ASSUME TypeOK, ListsAreLists, IteratorsOK, LockIsFree,
           NEW e \in Events, NEW args \in Args, DeferEvent(e, args)
    PROVE  /\ deferred' \in Seq(DeferredCallbacks)
           /\ Len(deferred) <= Len(deferred') /\ Len(deferred') <= MaxDeferred
           /\ UNCHANGED stack /\ ListsAreLists' /\ IteratorsOK'
<1> DEFINE calls == Kept(callbacks[e], {c \in Nodes(e) : Callable(c, args)})
           new == [i \in 1 .. Len(calls) |->
                      [event |-> e, args |-> args, at |-> calls[i].id, stale |-> FALSE]]
           n == Len(deferred)
           m == Len(calls)
<1>1. /\ Advances(e, {}) /\ calls \in Seq(Callbacks)
      /\ \A i \in 1 .. Len(calls) : Pinned(callbacks'[e], calls[i].id)
  BY DefersList
<1>2. stack = <<>> /\ UNCHANGED stack /\ deferred' = deferred \o new /\ n + m <= MaxDeferred
  BY DEF DeferEvent, LockIsFree
<1> HIDE DEF calls
<1>3. n \in Nat /\ m \in Nat /\ deferred \in Seq(DeferredCallbacks)
  BY <1>1 DEF TypeOK
<1>4. \A i \in 1 .. m : /\ new[i] \in DeferredCallbacks
                        /\ new[i].event = e /\ new[i].at = calls[i].id
  <2>1. \A i \in 1 .. m : calls[i] \in Callbacks
    BY <1>1
  <2>2. \A i \in 1 .. m : calls[i].id \in Nat \ {0}
    BY <2>1 DEF Callbacks
  <2> QED
    BY <2>2 DEF DeferredCallbacks
<1>5. new \in Seq(DeferredCallbacks) /\ Len(new) = m
  <2>1. new \in [1 .. m -> DeferredCallbacks]
    BY <1>4
  <2> QED
    BY <1>3, <2>1
<1> HIDE DEF new, n, m
<1>6. /\ deferred' \in Seq(DeferredCallbacks) /\ Len(deferred') = n + m
      /\ \A k \in 1 .. n : deferred'[k] = deferred[k]
      /\ \A k \in n + 1 .. n + m : deferred'[k] = new[k - n]
  BY <1>2, <1>3, <1>5, Concatenated DEF n
<1>7. ListsAreLists'
  BY <1>1, ListsStayLists
<1>8. DeferredPinned'
  <2>0. \A f \in Events : \A id : Pinned(callbacks[f], id) => Pinned(callbacks'[f], id)
    BY <1>1, PinsSurvive
  <2>1. ASSUME NEW k \in 1 .. n PROVE Pinned(callbacks'[deferred'[k].event], deferred'[k].at)
    <3>1. Pinned(callbacks[deferred[k].event], deferred[k].at) /\ deferred[k].event \in Events
      BY IteratorsTyped DEF IteratorsOK, DeferredPinned, n
    <3> QED
      BY <1>6, <2>0, <3>1
  <2>2. ASSUME NEW k \in n + 1 .. n + m
        PROVE  Pinned(callbacks'[deferred'[k].event], deferred'[k].at)
    <3>1. k - n \in 1 .. m
      BY <1>3
    <3> QED
      BY <1>1, <1>4, <1>6, <3>1 DEF m
  <2>3. \A k \in 1 .. n + m : k \in 1 .. n \/ k \in n + 1 .. n + m
    BY <1>3
  <2> QED
    BY <1>6, <2>1, <2>2, <2>3 DEF DeferredPinned
<1>9. FramesOK' /\ OnlyTopLoops' /\ FlagsNest'
  BY <1>2 DEF FramesOK, OnlyTopLoops, FlagsNest
<1> QED
  BY <1>2, <1>3, <1>6, <1>7, <1>8, <1>9 DEF IteratorsOK

\* The frame that clears the flag is the only one that points to the node.
LEMMA OthersNotFreed ==
    ASSUME TypeOK, IteratorsOK, stack # <<>>, Top.running, ~Top.wasInUse
    PROVE  /\ \A k \in 1 .. Len(stack) - 1 : stack[k].event = Top.event => stack[k].at # Top.at
           /\ \A k \in 1 .. Len(deferred) :
                 deferred[k].event = Top.event => deferred[k].at # Top.at
<1>1. Len(stack) \in 1 .. Len(stack) /\ Top = stack[Len(stack)]
  BY TopIsFrame DEF TypeOK
<1> QED
  BY <1>1 DEF IteratorsOK, FlagsNest, SameNode

\* A returning handler frees its node only if nobody else points to it.
LEMMA ReturnFreesItsOwn ==
    ASSUME TypeOK, ListsAreLists, IteratorsOK, HandlerReturns
    PROVE  stack' \in Seq(Frames) /\ Len(stack') = Len(stack) /\ ListsAreLists' /\ IteratorsOK'
<1>1. PICK n \in Nat \ {0}, top \in Frames, e \in Events :
          /\ n = Len(stack) /\ top = Top /\ top = stack[n] /\ e = top.event
          /\ Under \in Seq(Frames) /\ Len(Under) = n - 1
          /\ \A k \in 1 .. n - 1 : Under[k] = stack[k]
  BY TopIsFrame DEF TypeOK, HandlerReturns
<1> DEFINE freed == IF top.wasInUse THEN {} ELSE {top.at}
<1>2. FrameOK(top) /\ top.running
  BY <1>1 DEF IteratorsOK, FramesOK, HandlerReturns
<1>3. PICK after :
          /\ after = After(Top) /\ Advances(e, freed)
          /\ after = 0 \/ \E c \in ToSet(callbacks'[e]) : c.id = after
  BY <1>1, <1>2, ReturnsList
<1>0. PICK frame : frame = [top EXCEPT !.running = FALSE, !.wasInUse = FALSE, !.at = after]
  OBVIOUS
<1>4. stack' = Append(Under, frame) /\ UNCHANGED deferred
  BY <1>0, <1>1, <1>3 DEF HandlerReturns, tickVars
<1>5. IsList(callbacks'[e])
  BY <1>3 DEF Advances
<1>6. after \in Nat
  BY <1>3, <1>5, ElementsAt DEF Callbacks
<1>7. frame \in Frames /\ frame.event = e /\ frame.at = after /\ ~frame.running
  BY <1>0, <1>1, <1>6 DEF Frames
<1> HIDE DEF freed
<1>8. /\ stack' \in Seq(Frames) /\ Len(stack') = n /\ stack'[n] = frame
      /\ \A k \in 1 .. n - 1 : stack'[k] = stack[k]
  BY <1>1, <1>4, <1>7
<1>9. \A k \in 1 .. n : k = n \/ k \in 1 .. n - 1
  OBVIOUS
<1>10. \A k \in 1 .. n - 1 : stack[k].event = e => stack[k].at \notin freed
  BY <1>1, <1>2, OthersNotFreed DEF freed
<1>11. \A k \in 1 .. Len(deferred) : deferred[k].event = e => deferred[k].at \notin freed
  BY <1>1, <1>2, OthersNotFreed DEF freed
<1>12. \A f \in Events : \A id :
           Pinned(callbacks[f], id) /\ (f = e => id \notin freed) => Pinned(callbacks'[f], id)
  BY <1>3, PinsSurvive
<1>13. FramesOK'
  <2>1. ASSUME NEW k \in 1 .. n - 1
        PROVE  stack[k].running /\ Pinned(callbacks'[stack[k].event], stack[k].at)
    <3>1. stack[k].running /\ stack[k].event \in Events /\ FrameOK(stack[k])
      BY <1>1, IteratorsTyped DEF IteratorsOK, OnlyTopLoops, FramesOK
    <3> QED
      BY <1>10, <1>12, <3>1 DEF FrameOK
  <2>2. after \in Ids(e)' \cup {0}
    BY <1>3 DEF Ids, Nodes
  <2> QED
    BY <1>7, <1>8, <1>9, <2>1, <2>2 DEF FramesOK, FrameOK
<1>14. OnlyTopLoops'
  BY <1>1, <1>8 DEF IteratorsOK, OnlyTopLoops
<1>15. DeferredPinned'
  BY <1>4, <1>11, <1>12, IteratorsTyped DEF IteratorsOK, DeferredPinned
<1>16. FlagsNest'
  <2>1. ASSUME NEW k \in 1 .. n - 1, stack[k].running, ~stack[k].wasInUse
        PROVE  /\ \A j \in 1 .. k - 1 : ~SameNode(stack'[j], stack'[k])
               /\ \A j \in 1 .. Len(deferred) : ~SameNode(deferred[j], stack'[k])
    <3>1. /\ \A j \in 1 .. k - 1 : ~SameNode(stack[j], stack[k])
          /\ \A j \in 1 .. Len(deferred) : ~SameNode(deferred[j], stack[k])
      BY <1>1, <2>1 DEF IteratorsOK, FlagsNest
    <3>2. \A j \in 1 .. k : stack'[j] = stack[j]
      BY <1>8
    <3> QED
      BY <3>1, <3>2
  <2> QED
    BY <1>4, <1>7, <1>8, <1>9, <2>1 DEF FlagsNest
<1>17. ListsAreLists'
  BY <1>3, ListsStayLists
<1> QED
  BY <1>1, <1>8, <1>13, <1>14, <1>15, <1>16, <1>17 DEF IteratorsOK

\* A dispatch that goes on pins what it calls, and remembers whether anything
\* pointed to it before.
LEMMA ContinuePins ==
    ASSUME TypeOK, ListsAreLists, IteratorsOK, Continue
    PROVE  /\ stack' \in Seq(Frames) /\ Len(stack') <= Len(stack)
           /\ Len(stack) - 1 <= Len(stack')
           /\ ListsAreLists' /\ IteratorsOK'
<1>1. PICK n \in Nat \ {0}, top \in Frames, e \in Events, under \in Seq(Frames) :
          /\ n = Len(stack) /\ top = Top /\ top = stack[n] /\ e = top.event
          /\ under = Under /\ Len(under) = n - 1
          /\ \A k \in 1 .. n - 1 : under[k] = stack[k]
  BY TopIsFrame DEF TypeOK, Continue, Looping
<1>2. Advances(e, {})
  BY <1>1, ContinuesList
<1>3. UNCHANGED deferred
  BY DEF Continue, tickVars
<1>4. \A f \in Events : \A id : Pinned(callbacks[f], id) => Pinned(callbacks'[f], id)
  BY <1>2, PinsSurvive
<1>5. ASSUME NEW k \in 1 .. n - 1
      PROVE  /\ stack[k].running /\ stack[k].event \in Events
             /\ Pinned(callbacks[stack[k].event], stack[k].at)
             /\ Pinned(callbacks'[stack[k].event], stack[k].at)
  <2>1. stack[k].running /\ stack[k].event \in Events /\ FrameOK(stack[k])
    BY <1>1, IteratorsTyped DEF IteratorsOK, OnlyTopLoops, FramesOK
  <2> QED
    BY <1>4, <2>1 DEF FrameOK
<1>6. \A k \in 1 .. Len(deferred) : /\ deferred[k].event \in Events
                                    /\ Pinned(callbacks[deferred[k].event], deferred[k].at)
  BY IteratorsTyped DEF IteratorsOK, DeferredPinned
<1>7. DeferredPinned'
  BY <1>3, <1>4, <1>6 DEF DeferredPinned
<1>8. ListsAreLists'
  BY <1>2, ListsStayLists
<1>9. CASE stack' = under
  <2>1. /\ stack' \in Seq(Frames) /\ Len(stack') = n - 1
        /\ \A k \in 1 .. n - 1 : stack'[k] = stack[k]
    BY <1>1, <1>9
  <2>2. FramesOK' /\ OnlyTopLoops'
    BY <1>1, <1>5, <2>1 DEF FramesOK, FrameOK, OnlyTopLoops
  <2>3. FlagsNest'
    <3>1. ASSUME NEW k \in 1 .. n - 1, ~stack[k].wasInUse
          PROVE  /\ \A j \in 1 .. k - 1 : ~SameNode(stack[j], stack[k])
                 /\ \A j \in 1 .. Len(deferred) : ~SameNode(deferred[j], stack[k])
      <4>1. k \in 1 .. Len(stack) /\ stack[k].running
        BY <1>1, <1>5
      <4>2. FlagsNest
        BY DEF IteratorsOK
      <4> QED
        BY <3>1, <4>1, <4>2, Zenon DEF FlagsNest
    <3> QED
      BY <1>3, <2>1, <3>1 DEF FlagsNest
  <2> QED
    BY <1>1, <1>7, <1>8, <2>1, <2>2, <2>3 DEF IteratorsOK
<1>10. ASSUME NEW c \in Nodes(e), Survives(callbacks'[e], c),
              stack' = Append(under, [top EXCEPT !.at = c.id, !.running = TRUE,
                                                 !.wasInUse = c.inUse])
       PROVE  /\ stack' \in Seq(Frames) /\ Len(stack') = n
              /\ FramesOK' /\ OnlyTopLoops' /\ FlagsNest'
  <2>1. c \in Callbacks /\ IsList(callbacks[e])
    BY ElementsAt DEF ListsAreLists, Nodes
  <2>2. c.id \in Nat /\ c.inUse \in BOOLEAN
    BY <2>1 DEF Callbacks
  <2>0. PICK frame : frame = [top EXCEPT !.at = c.id, !.running = TRUE, !.wasInUse = c.inUse]
    OBVIOUS
  <2>3. /\ frame \in Frames /\ frame.event = e /\ frame.at = c.id /\ frame.running
        /\ frame.wasInUse = c.inUse
    BY <1>1, <2>2, <2>0 DEF Frames
  <2>4. stack' = Append(under, frame)
    BY <1>10, <2>0
  <2>5. /\ stack' \in Seq(Frames) /\ Len(stack') = n /\ stack'[n] = frame
        /\ \A k \in 1 .. n - 1 : stack'[k] = stack[k]
    BY <1>1, <2>3, <2>4
  <2>6. \A k \in 1 .. n : k = n \/ k \in 1 .. n - 1
    OBVIOUS
  <2>7. Pinned(callbacks'[e], c.id)
    BY <1>10 DEF Survives, Pinned
  <2>8. FramesOK' /\ OnlyTopLoops'
    BY <1>5, <2>3, <2>5, <2>6, <2>7 DEF FramesOK, FrameOK, OnlyTopLoops
  <2>9. Pinned(callbacks[e], c.id) => c.inUse
    BY <2>1, NodeById DEF Pinned, Nodes
  <2>10. ~c.inUse => /\ \A j \in 1 .. n - 1 : ~SameNode(stack[j], frame)
                     /\ \A j \in 1 .. Len(deferred) : ~SameNode(deferred[j], frame)
    BY <1>5, <1>6, <2>3, <2>9 DEF SameNode
  <2>11. FlagsNest'
    <3>1. ASSUME NEW k \in 1 .. n - 1, ~stack[k].wasInUse
          PROVE  /\ \A j \in 1 .. k - 1 : ~SameNode(stack'[j], stack'[k])
                 /\ \A j \in 1 .. Len(deferred) : ~SameNode(deferred[j], stack'[k])
      BY <1>1, <1>5, <2>5, <3>1 DEF IteratorsOK, FlagsNest
    <3> QED
      BY <1>3, <2>3, <2>5, <2>6, <2>10, <3>1 DEF FlagsNest
  <2> QED
    BY <2>5, <2>8, <2>11
<1>11. \/ stack' = under
       \/ \E c \in Nodes(e) :
             /\ stack' = Append(under, [top EXCEPT !.at = c.id, !.running = TRUE,
                                                   !.wasInUse = c.inUse])
             /\ Survives(callbacks'[e], c)
  BY <1>1, ContinuesList
<1>12. CASE stack' # under
  <2>1. PICK c \in Nodes(e) :
            /\ stack' = Append(under, [top EXCEPT !.at = c.id, !.running = TRUE,
                                                  !.wasInUse = c.inUse])
            /\ Survives(callbacks'[e], c)
    BY <1>11, <1>12
  <2>2. /\ stack' \in Seq(Frames) /\ Len(stack') = n
        /\ FramesOK' /\ OnlyTopLoops' /\ FlagsNest'
    BY <1>10, <2>1
  <2> QED
    BY <1>1, <1>7, <1>8, <2>2 DEF IteratorsOK
<1> QED
  BY <1>9, <1>12

-----------------------------------------------------------------------------
(* Every step keeps the invariant. *)

\* Iterators whose lists were freed are where they were.
LEMMA StaleIterators ==
    ASSUME TypeOK
    PROVE  /\ AllStale(stack) \in Seq(Frames) /\ SameIterators(stack, AllStale(stack))
           /\ \A k \in 1 .. Len(stack) : /\ AllStale(stack)[k].running = stack[k].running
                                         /\ AllStale(stack)[k].wasInUse = stack[k].wasInUse
           /\ AllStale(deferred) \in Seq(DeferredCallbacks)
           /\ SameIterators(deferred, AllStale(deferred))
<1>1. ASSUME NEW k \in 1 .. Len(stack), NEW it, it = [stack[k] EXCEPT !.stale = TRUE]
      PROVE  /\ it \in Frames /\ it.event = stack[k].event /\ it.at = stack[k].at
             /\ it.running = stack[k].running /\ it.wasInUse = stack[k].wasInUse
  <2>1. stack[k] \in Frames
    BY IteratorsTyped
  <2> QED
    BY <1>1, <2>1 DEF Frames
<1>2. ASSUME NEW k \in 1 .. Len(deferred), NEW it, it = [deferred[k] EXCEPT !.stale = TRUE]
      PROVE  it \in DeferredCallbacks /\ it.event = deferred[k].event /\ it.at = deferred[k].at
  <2>1. deferred[k] \in DeferredCallbacks
    BY IteratorsTyped
  <2> QED
    BY <1>2, <2>1 DEF DeferredCallbacks
<1>3. Len(stack) \in Nat /\ Len(deferred) \in Nat
  BY IteratorsTyped
<1>4. \A k \in 1 .. Len(stack) : AllStale(stack)[k] = [stack[k] EXCEPT !.stale = TRUE]
  BY DEF AllStale
<1>5. \A k \in 1 .. Len(deferred) :
         AllStale(deferred)[k] = [deferred[k] EXCEPT !.stale = TRUE]
  BY DEF AllStale
<1>6. AllStale(stack) \in [1 .. Len(stack) -> Frames]
  BY <1>1 DEF AllStale
<1>7. AllStale(deferred) \in [1 .. Len(deferred) -> DeferredCallbacks]
  BY <1>2 DEF AllStale
<1>8. /\ AllStale(stack) \in Seq(Frames) /\ Len(AllStale(stack)) = Len(stack)
      /\ AllStale(deferred) \in Seq(DeferredCallbacks)
      /\ Len(AllStale(deferred)) = Len(deferred)
  BY <1>3, <1>6, <1>7
<1> QED
  BY <1>1, <1>2, <1>4, <1>5, <1>8 DEF SameIterators

\* SetHandler moves no iterator, but may leave all stale.
LEMMA SetHandlerIterators ==
    ASSUME TypeOK, NEW e \in Events, NEW h \in Handlers[e], SetHandler(e, h)
    PROVE  /\ stack' \in Seq(Frames) /\ deferred' \in Seq(DeferredCallbacks)
           /\ SameIterators(stack, stack') /\ SameIterators(deferred, deferred')
           /\ \A k \in 1 .. Len(stack) : /\ stack'[k].running = stack[k].running
                                         /\ stack'[k].wasInUse = stack[k].wasInUse
<1>1. CASE UNCHANGED <<stack, deferred>>
  BY <1>1 DEF TypeOK, SameIterators
<1>2. CASE stack' = AllStale(stack) /\ deferred' = AllStale(deferred)
  BY <1>2, StaleIterators
<1> QED
  BY <1>1, <1>2 DEF SetHandler

\* At first there are no callbacks and no iterators.
LEMMA InitKeeps ==
    ASSUME Init
    PROVE  IInv
<1>1. \A e \in Events : callbacks[e] = <<>>
  BY DEF Init
<1>2. TypeOK
  <2>1. callbacks \in [Events -> Seq(Callbacks)] /\ \A e \in Events \ known : callbacks[e] = <<>>
    BY <1>1 DEF Init
  <2>2. GameEvents \subseteq known /\ known \subseteq Events
    BY DEF Init, Events
  <2>3. /\ stack \in Seq(Frames) /\ deferred \in Seq(DeferredCallbacks)
        /\ Len(deferred) <= MaxDeferred
        /\ tick \in {"idle", "loop", "calling"} /\ tickAt \in 1 .. Len(deferred) + 1
    BY DepthAssumption DEF Init
  <2>4. /\ last \in (GameEvents \X GameArgs) \cup {None} /\ faulted \in BOOLEAN
        /\ lastHit \in [HitEvents -> GameArgs \cup {None}]
    BY DEF Init
  <2> QED
    BY <2>1, <2>2, <2>3, <2>4 DEF TypeOK
<1>3. ListsAreLists
  <2>1. IsList(<<>>)
    BY DEF IsList
  <2> QED
    BY <1>1, <2>1 DEF ListsAreLists
<1>4. IteratorsOK
  BY DEF Init, IteratorsOK, FramesOK, OnlyTopLoops, DeferredPinned, FlagsNest
<1> QED
  BY <1>2, <1>3, <1>4 DEF IInv, TickAlone, Init

LEMMA SetHandlerKeeps ==
    ASSUME IInv, NEW e \in Events, NEW h \in Handlers[e], SetHandler(e, h)
    PROVE  /\ IInv'
           /\ Advances(e, {})
           /\ Registered(e)' = Registered(e) \cup {h}
<1> USE DEF IInv
<1> DEFINE new == Registers(e, h)
<1>1. /\ IsList(new)
      /\ \A c \in Nodes(e) : c.inUse => Survives(new, c)
      /\ {c.handler : c \in {d \in ToSet(new) : ~d.removed}} = Registered(e) \cup {h}
  BY RegistersList DEF ListsAreLists, TypeOK
<1>2. callbacks' = [callbacks EXCEPT ![e] = new] /\ known' = known \cup {e}
  BY DEF SetHandler
<1> HIDE DEF new
<1>3. callbacks'[e] = new /\ \A f \in Events \ {e} : callbacks'[f] = callbacks[f]
  BY <1>2 DEF TypeOK
<1>4. callbacks' \in [Events -> Seq(Callbacks)]
  BY <1>1, <1>2 DEF TypeOK, IsList
<1>5. Advances(e, {})
  BY <1>1, <1>3, <1>4 DEF Advances
<1>6. Registered(e)' = Registered(e) \cup {h}
  BY <1>1, <1>3 DEF Registered, Nodes
<1>7. /\ stack' \in Seq(Frames) /\ deferred' \in Seq(DeferredCallbacks)
      /\ SameIterators(stack, stack') /\ SameIterators(deferred, deferred')
      /\ \A k \in 1 .. Len(stack) : /\ stack'[k].running = stack[k].running
                                    /\ stack'[k].wasInUse = stack[k].wasInUse
  BY SetHandlerIterators
<1>8. \A k \in 1 .. Len(stack) : stack[k].running
  BY AllFramesRun DEF SetHandler
<1>9. IteratorsOK'
  BY <1>5, <1>7, <1>8, IteratorsRemain
<1>10. ListsAreLists'
  BY <1>5, ListsStayLists
<1>11. UNCHANGED <<tick, tickAt, last, lastHit, faulted>>
  BY DEF SetHandler, filterVars
<1>12. TypeOK'
  BY <1>2, <1>3, <1>4, <1>7, <1>11 DEF TypeOK, SameIterators
<1>13. TickAlone'
  BY <1>7, <1>11 DEF TickAlone, SameIterators, TypeOK
<1> QED
  BY <1>5, <1>6, <1>9, <1>10, <1>12, <1>13

LEMMA RemoveHandlerKeeps ==
    ASSUME IInv, NEW e \in Events, NEW h \in Handlers[e], RemoveHandler(e, h)
    PROVE  IInv'
<1> USE DEF IInv
<1>1. Advances(e, {}) /\ (callbacks[e] = <<>> => callbacks'[e] = <<>>)
  BY RemovesList
<1>2. UNCHANGED <<known, stack, deferred, tick, tickAt, last, lastHit, faulted>>
  BY DEF RemoveHandler, tickVars, filterVars
<1>3. \A k \in 1 .. Len(stack) : stack[k].running
  BY AllFramesRun DEF RemoveHandler
<1>4. IteratorsOK'
  BY <1>1, <1>2, <1>3, IteratorsRemain DEF SameIterators
<1>5. ListsAreLists'
  BY <1>1, ListsStayLists
<1>6. TypeOK'
  BY <1>1, <1>2 DEF TypeOK, Advances
<1> QED
  BY <1>2, <1>4, <1>5, <1>6 DEF TickAlone

\* An event is raised by a script or the game, on any thread.
LEMMA RaiseKeeps ==
    ASSUME IInv, ScriptsRun, NEW e \in known, NEW args \in Args, Raise(e, args),
           UNCHANGED <<known, tick, tickAt>>
    PROVE  /\ ListsAreLists' /\ IteratorsOK' /\ TickAlone'
           /\ stack' \in Seq(Frames) /\ deferred' \in Seq(DeferredCallbacks)
           /\ Len(deferred) <= Len(deferred') /\ Len(deferred') <= MaxDeferred
           /\ callbacks' \in [Events -> Seq(Callbacks)]
           /\ \A f \in Events \ {e} : callbacks'[f] = callbacks[f]
<1> USE DEF IInv
<1>1. e \in Events /\ Len(deferred) \in Nat
  BY DEF TypeOK
<1>2. tick # "loop"
  BY DEF ScriptsRun, LockIsFree, HandlerRuns, TickAlone
<1>3. CASE HandleEvent(e, args)
  <2>1. /\ stack' \in Seq(Frames) /\ ListsAreLists' /\ IteratorsOK'
        /\ UNCHANGED <<callbacks, deferred>>
    BY <1>1, <1>3, AllFramesRun, LoopBegins DEF HandleEvent
  <2> QED
    BY <1>1, <1>2, <2>1 DEF TypeOK, TickAlone
<1>4. CASE LockIsFree /\ DeferEvent(e, args)
  <2>1. /\ deferred' \in Seq(DeferredCallbacks)
        /\ Len(deferred) <= Len(deferred') /\ Len(deferred') <= MaxDeferred
        /\ UNCHANGED stack /\ ListsAreLists' /\ IteratorsOK'
    BY <1>1, <1>4, DeferralPins
  <2>2. Advances(e, {})
    BY <1>1, <1>4, DefersList
  <2> QED
    BY <1>1, <1>4, <2>1, <2>2 DEF TypeOK, TickAlone, Advances, LockIsFree
<1> QED
  BY <1>3, <1>4 DEF Raise

LEMMA MarkEventKeeps ==
    ASSUME IInv, NEW e \in GameEvents, NEW args \in GameArgs, MarkEvent(e, args)
    PROVE  IInv'
<1> USE DEF IInv
<1>1. /\ e \in known /\ args \in Args /\ ScriptsRun /\ last' = <<e, args>>
      /\ lastHit' \in [HitEvents -> GameArgs \cup {None}]
      /\ UNCHANGED <<known, tick, tickAt, faulted>>
  BY DEF MarkEvent, TypeOK, Args
<1>2. CASE Raise(e, args)
  <2>1. /\ ListsAreLists' /\ IteratorsOK' /\ TickAlone'
        /\ stack' \in Seq(Frames) /\ deferred' \in Seq(DeferredCallbacks)
        /\ Len(deferred) <= Len(deferred') /\ Len(deferred') <= MaxDeferred
        /\ callbacks' \in [Events -> Seq(Callbacks)]
        /\ \A f \in Events \ {e} : callbacks'[f] = callbacks[f]
    BY <1>1, <1>2, RaiseKeeps
  <2>2. TypeOK'
    <3>1. tickAt' \in 1 .. Len(deferred') + 1
      BY <1>1, <2>1 DEF TypeOK
    <3> QED
      BY <1>1, <2>1, <3>1 DEF TypeOK
  <2> QED
    BY <2>1, <2>2
<1>3. CASE UNCHANGED <<callbacks, stack, deferred>>
  <2>1. TypeOK' /\ TickAlone'
    BY <1>1, <1>3 DEF TypeOK, TickAlone
  <2> QED
    BY <1>3, <2>1, NothingMoves
<1> QED
  BY <1>2, <1>3 DEF MarkEvent

LEMMA DispatchKeeps ==
    ASSUME IInv, NEW e \in UserEvents, DispatchUserDefinedEvent(e)
    PROVE  IInv'
<1> USE DEF IInv
<1>1. /\ e \in known /\ UserArgs \in Args /\ ScriptsRun /\ Raise(e, UserArgs)
      /\ UNCHANGED <<known, tick, tickAt, last, lastHit, faulted>>
  BY DEF DispatchUserDefinedEvent, Args, filterVars
<1>2. /\ ListsAreLists' /\ IteratorsOK' /\ TickAlone'
      /\ stack' \in Seq(Frames) /\ deferred' \in Seq(DeferredCallbacks)
      /\ Len(deferred) <= Len(deferred') /\ Len(deferred') <= MaxDeferred
      /\ callbacks' \in [Events -> Seq(Callbacks)]
      /\ \A f \in Events \ {e} : callbacks'[f] = callbacks[f]
  BY <1>1, RaiseKeeps
<1>3. tickAt' \in 1 .. Len(deferred') + 1
  BY <1>1, <1>2 DEF TypeOK
<1> QED
  BY <1>1, <1>2, <1>3 DEF TypeOK

LEMMA ContinueKeeps ==
    ASSUME IInv, Continue
    PROVE  IInv'
<1> USE DEF IInv
<1>1. stack' \in Seq(Frames) /\ ListsAreLists' /\ IteratorsOK'
  BY ContinuePins
<1>2. UNCHANGED <<known, deferred, tick, tickAt, last, lastHit, faulted>>
  BY DEF Continue, tickVars, filterVars
<1>3. PICK e \in Events :
          /\ Advances(e, {})
          /\ callbacks[e] = <<>> => callbacks'[e] = <<>>
  BY TopIsFrame, ContinuesList DEF TypeOK, Continue, Looping
<1>4. TypeOK'
  BY <1>1, <1>2, <1>3 DEF TypeOK, Advances
<1>5. TickAlone'
  BY <1>2 DEF TickAlone, Continue, Looping
<1> QED
  BY <1>1, <1>4, <1>5

LEMMA HandlerReturnsKeeps ==
    ASSUME IInv, HandlerReturns
    PROVE  IInv'
<1> USE DEF IInv
<1>1. stack' \in Seq(Frames) /\ ListsAreLists' /\ IteratorsOK'
  BY ReturnFreesItsOwn
<1>2. UNCHANGED <<known, deferred, tick, tickAt, last, lastHit, faulted>>
  BY DEF HandlerReturns, tickVars, filterVars
<1>3. PICK top \in Frames, e \in Events : top = Top /\ e = top.event /\ FrameOK(top) /\ top.running
  BY TopIsFrame DEF TypeOK, HandlerReturns, IteratorsOK, FramesOK
<1>4. Advances(e, IF top.wasInUse THEN {} ELSE {top.at})
  BY <1>3, ReturnsList
<1>5. callbacks[e] # <<>>
  BY <1>3, ElementsAt DEF FrameOK, Pinned, ListsAreLists
<1>6. TypeOK'
  BY <1>1, <1>2, <1>4, <1>5 DEF TypeOK, Advances
<1>7. TickAlone'
  BY <1>2 DEF TickAlone, HandlerReturns
<1> QED
  BY <1>1, <1>6, <1>7

\* What is left of a sequence when one place is taken out.
LEMMA WithoutOne ==
    ASSUME NEW S, NEW s \in Seq(S), NEW i \in 1 .. Len(s)
    PROVE  LET t == SubSeq(s, 1, i - 1) \o SubSeq(s, i + 1, Len(s))
           IN  /\ t \in Seq(S) /\ Len(t) = Len(s) - 1
               /\ \A k \in 1 .. Len(t) : \E j \in 1 .. Len(s) : t[k] = s[j]
<1> DEFINE front == SubSeq(s, 1, i - 1)
           back == SubSeq(s, i + 1, Len(s))
           t == front \o back
<1>1. /\ front \in Seq(S) /\ Len(front) = i - 1
      /\ \A k \in 1 .. i - 1 : front[k] = s[k]
  <2>1. i - 1 \in Nat /\ i - 1 <= Len(s)
    OBVIOUS
  <2> QED
    BY <2>1
<1>2. /\ back \in Seq(S) /\ Len(back) = Len(s) - i
      /\ \A k \in 1 .. Len(s) - i : back[k] = s[i + k]
  <2>1. i + 1 \in Nat \ {0} /\ Len(s) \in Nat /\ i + 1 <= Len(s) + 1
    OBVIOUS
  <2> QED
    BY <2>1
<1> HIDE DEF front, back
<1>3. /\ t \in Seq(S) /\ Len(t) = Len(s) - 1
      /\ \A k \in 1 .. i - 1 : t[k] = front[k]
      /\ \A k \in i .. Len(s) - 1 : t[k] = back[k - (i - 1)]
  <2>1. Len(front) + 1 = i /\ Len(front) + Len(back) = Len(s) - 1
    BY <1>1, <1>2
  <2>2. /\ t \in Seq(S) /\ Len(t) = Len(front) + Len(back)
        /\ \A k \in 1 .. Len(front) : t[k] = front[k]
        /\ \A k \in Len(front) + 1 .. Len(front) + Len(back) : t[k] = back[k - Len(front)]
    BY <1>1, <1>2, Concatenated
  <2> HIDE DEF t
  <2> QED
    BY <1>1, <2>1, <2>2
<1> HIDE DEF t
<1>4. ASSUME NEW k \in 1 .. Len(t) PROVE \E j \in 1 .. Len(s) : t[k] = s[j]
  <2>1. CASE k <= i - 1
    BY <1>1, <1>3, <2>1
  <2>2. CASE k > i - 1
    <3>1. k \in i .. Len(s) - 1 /\ k - (i - 1) \in 1 .. Len(s) - i /\ k + 1 \in 1 .. Len(s)
      BY <1>3, <2>2
    <3>2. t[k] = s[i + (k - (i - 1))] /\ i + (k - (i - 1)) = k + 1
      BY <1>2, <1>3, <3>1
    <3> QED
      BY <3>1, <3>2
  <2> QED
    BY <2>1, <2>2, <1>3
<1> QED
  BY <1>3, <1>4 DEF t, front, back

LEMMA TickReturnsKeeps ==
    ASSUME IInv, TickReturns
    PROVE  IInv'
<1> USE DEF IInv
<1>1. /\ stack = <<>> /\ tick = "calling" /\ tick' = "loop"
      /\ UNCHANGED <<known, callbacks, stack, last, lastHit, faulted>>
  BY DEF TickReturns, filterVars
<1>2. tickAt \in 1 .. Len(deferred) /\ Len(deferred) \in Nat /\ deferred \in Seq(DeferredCallbacks)
  BY <1>1 DEF TypeOK, TickAlone
<1>3. /\ deferred' \in Seq(DeferredCallbacks) /\ Len(deferred') <= Len(deferred)
      /\ tickAt' \in 1 .. Len(deferred') + 1
      /\ \A k \in 1 .. Len(deferred') : \E j \in 1 .. Len(deferred) : deferred'[k] = deferred[j]
  <2>1. CASE tickAt' = tickAt + 1 /\ UNCHANGED deferred
    BY <1>2, <2>1
  <2>2. CASE /\ UNCHANGED tickAt
             /\ deferred' = SubSeq(deferred, 1, tickAt - 1)
                                \o SubSeq(deferred, tickAt + 1, Len(deferred))
    <3>1. /\ deferred' \in Seq(DeferredCallbacks) /\ Len(deferred') = Len(deferred) - 1
          /\ \A k \in 1 .. Len(deferred') : \E j \in 1 .. Len(deferred) : deferred'[k] = deferred[j]
      BY <1>2, <2>2, WithoutOne
    <3>2. Len(deferred') <= Len(deferred) /\ tickAt \in 1 .. Len(deferred') + 1
      BY <1>2, <3>1
    <3> QED
      BY <2>2, <3>1, <3>2
  <2> QED
    BY <2>1, <2>2 DEF TickReturns
<1>4. IteratorsOK'
  <2>1. FramesOK' /\ OnlyTopLoops' /\ FlagsNest'
    BY <1>1 DEF FramesOK, OnlyTopLoops, FlagsNest
  <2>2. DeferredPinned'
    BY <1>1, <1>3 DEF IteratorsOK, DeferredPinned
  <2> QED
    BY <2>1, <2>2 DEF IteratorsOK
<1>5. ListsAreLists'
  BY <1>1 DEF ListsAreLists
<1>6. TypeOK'
  <2>1. Len(deferred') \in Nat /\ Len(deferred') <= MaxDeferred
    BY <1>2, <1>3, DepthAssumption DEF TypeOK
  <2> QED
    BY <1>1, <1>3, <2>1 DEF TypeOK
<1>7. TickAlone'
  BY <1>1 DEF TickAlone
<1> QED
  BY <1>4, <1>5, <1>6, <1>7

\* Tick's own steps, and using an iterator that points nowhere, move nothing.
LEMMA QuietStepsKeep ==
    ASSUME IInv, BeginTick \/ TickStep \/ Fault
    PROVE  IInv'
<1> USE DEF IInv
<1>1. /\ UNCHANGED <<known, callbacks, stack, deferred, tickAt>>
      /\ last' \in {last, None} /\ faulted' \in {faulted, TRUE}
      /\ lastHit' = lastHit \/ lastHit' = [e \in HitEvents |-> None]
  BY DEF BeginTick, TickStep, TickCalls, EndTick, Fault, ForgetLastEvents, filterVars, tickVars
<1>2. TickAlone' /\ tick' \in {"idle", "loop", "calling"}
  BY DEF BeginTick, TickStep, TickCalls, EndTick, Fault, TickAlone, TypeOK, LockIsFree,
         AtDeferred, tickVars
<1>3. lastHit' \in [HitEvents -> GameArgs \cup {None}]
  BY <1>1 DEF TypeOK
<1>4. TypeOK'
  BY <1>1, <1>2, <1>3 DEF TypeOK
<1> QED
  BY <1>1, <1>2, <1>4, NothingMoves

\* No step breaks the inductive invariant.
LEMMA StepsKeep ==
    ASSUME IInv, [Next]_vars
    PROVE  IInv'
<1>1. CASE Registration
  BY <1>1, SetHandlerKeeps, RemoveHandlerKeeps DEF Registration
<1>2. CASE Raising
  BY <1>2, MarkEventKeeps, DispatchKeeps DEF Raising
<1>3. CASE Continue
  BY <1>3, ContinueKeeps
<1>4. CASE HandlerReturns
  BY <1>4, HandlerReturnsKeeps
<1>5. CASE TickReturns
  BY <1>5, TickReturnsKeeps
<1>6. CASE BeginTick \/ TickStep \/ Fault
  BY <1>6, QuietStepsKeep
<1>7. CASE UNCHANGED vars
  <2>1. UNCHANGED <<callbacks, stack, deferred>> /\ TypeOK' /\ TickAlone'
    BY <1>7 DEF vars, tickVars, filterVars, IInv, TypeOK, TickAlone
  <2> QED
    BY <2>1, NothingMoves DEF IInv
<1> QED
  BY <1>1, <1>2, <1>3, <1>4, <1>5, <1>6, <1>7 DEF Next

-----------------------------------------------------------------------------
(* Theorems. *)

\* The inductive invariant holds throughout.
THEOREM Invariance == Spec => []IInv
<1>1. Init => IInv
  BY InitKeeps
<1>2. IInv /\ [Next]_vars => IInv'
  BY StepsKeep
<1> QED
  BY <1>1, <1>2, PTL DEF Spec

\* Variables have the types TypeOK says.
THEOREM TypeCorrect == Spec => []TypeOK
<1>1. IInv => TypeOK
  BY DEF IInv
<1> QED
  BY <1>1, Invariance, PTL

\* Whatever handlers remove, themselves included, every iterator that a dispatch
\* or the deferred list holds points into its list, or its list was moved.
THEOREM IteratorsHold == Spec => []IteratorsStayValid
<1>1. IInv => IteratorsStayValid
  <2> SUFFICES ASSUME IInv, NEW it \in Iterators PROVE Valid(it) \/ it.stale
    BY DEF IteratorsStayValid
  <2> USE DEF IInv
  <2>1. it.at \in Ids(it.event) \cup {0}
    <3>1. CASE \E k \in 1 .. Len(stack) : it = stack[k]
      BY <3>1, IteratorsTyped, PinnedHasId DEF IteratorsOK, FramesOK, FrameOK
    <3>2. CASE \E k \in 1 .. Len(deferred) : it = deferred[k]
      BY <3>2, IteratorsTyped, PinnedHasId DEF IteratorsOK, DeferredPinned
    <3> QED
      BY <3>1, <3>2 DEF Iterators
  <2> QED
    BY <2>1 DEF Valid
<1> QED
  BY <1>1, Invariance, PTL

\* However handlers are set and removed while they run, an event has one
\* callback per handler.
THEOREM OneCallbackPerHandler == Spec => []HandlersAreDistinct
<1>1. IInv => HandlersAreDistinct
  BY DEF IInv, ListsAreLists, IsList, HandlersAreDistinct
<1> QED
  BY <1>1, Invariance, PTL

-----------------------------------------------------------------------------
(* The event manager implements the registry. *)

HandlerIn(list, id) == list[CHOOSE i \in 1 .. Len(list) : list[i].id = id].handler
HandlersAt(lists, its) ==
    [k \in 1 .. Len(its) |-> HandlerIn(lists[its[k].event], its[k].at)]

\* Looking a node up by its id finds its handler.
LEMMA HandlerOfNode ==
    ASSUME NEW list, IsList(list), NEW c \in ToSet(list)
    PROVE  HandlerIn(list, c.id) = c.handler
<1> DEFINE i == CHOOSE j \in 1 .. Len(list) : list[j].id = c.id
<1>1. \E j \in 1 .. Len(list) : list[j].id = c.id
  BY ElementsAt
<1>2. i \in 1 .. Len(list) /\ list[i].id = c.id
  BY <1>1
<1>3. HandlerIn(list, c.id) = list[i].handler
  BY DEF HandlerIn
<1> HIDE DEF i
<1>4. list[i] = c
  BY <1>2, ElementsAt, NodeById
<1> QED
  BY <1>3, <1>4

\* The calls in progress are Tick's and then those of the running frames, before
\* and after a step.
LEMMA CallsAre ==
    /\ CallsInProgress = TickCall \o HandlersAt(callbacks, RunningFrames)
    /\ CallsInProgress' = TickCall' \o HandlersAt(callbacks', RunningFrames')
    /\ TickCall = IF tick = "calling"
                  THEN HandlersAt(callbacks, <<deferred[tickAt]>>) ELSE <<>>
    /\ TickCall' = IF tick' = "calling"
                   THEN HandlersAt(callbacks', <<deferred'[tickAt']>>) ELSE <<>>
<1>1. ASSUME NEW lists, NEW it
      PROVE  HandlersAt(lists, <<it>>) = <<HandlerIn(lists[it.event], it.at)>>
  BY DEF HandlersAt
<1>2. /\ CallsInProgress = TickCall \o HandlersAt(callbacks, RunningFrames)
      /\ CallsInProgress' = TickCall' \o HandlersAt(callbacks', RunningFrames')
  BY DEF CallsInProgress, HandlersAt, HandlerIn, CallbackAt, Position
<1>3. /\ TickCall = IF tick = "calling"
                    THEN <<HandlerIn(callbacks[deferred[tickAt].event], deferred[tickAt].at)>>
                    ELSE <<>>
      /\ TickCall' = IF tick' = "calling"
                     THEN <<HandlerIn(callbacks'[deferred'[tickAt'].event],
                                      deferred'[tickAt'].at)>>
                     ELSE <<>>
  BY DEF TickCall, HandlerIn, CallbackAt, Position
<1> QED
  BY <1>1, <1>2, <1>3

\* Iterators to nodes that are not freed stand for the same handlers.
LEMMA HandlersStay ==
    ASSUME ListsAreLists, NEW e \in Events, NEW freed, Advances(e, freed),
           NEW its, NEW moved, Len(its) \in Nat, SameIterators(its, moved),
           \A k \in 1 .. Len(its) :
              /\ its[k].event \in Events /\ Pinned(callbacks[its[k].event], its[k].at)
              /\ its[k].event = e => its[k].at \notin freed
    PROVE  HandlersAt(callbacks', moved) = HandlersAt(callbacks, its)
<1>1. ASSUME NEW k \in 1 .. Len(its)
      PROVE  HandlerIn(callbacks'[moved[k].event], moved[k].at)
                 = HandlerIn(callbacks[its[k].event], its[k].at)
  <2>0. PICK f \in Events : f = its[k].event
    OBVIOUS
  <2>1. PICK id : f = its[k].event /\ id = its[k].at
    BY <2>0
  <2>2. PICK c \in Nodes(f), d \in Nodes(f)' : c.id = id /\ d.id = id /\ c.handler = d.handler
    <3>1. Pinned(callbacks[f], id) /\ (f = e => id \notin freed)
      BY <2>1
    <3>2. \E c \in Nodes(f), d \in Nodes(f)' : c.id = id /\ d.id = id /\ c.handler = d.handler
      BY <3>1, PinsSurvive
    <3> QED
      BY <3>2
  <2>3. IsList(callbacks[f]) /\ IsList(callbacks'[f])
    BY ListsStayLists DEF ListsAreLists
  <2>4. HandlerIn(callbacks[f], id) = c.handler
    BY <2>2, <2>3, HandlerOfNode DEF Nodes
  <2>5. HandlerIn(callbacks'[f], id) = d.handler
    BY <2>2, <2>3, HandlerOfNode DEF Nodes
  <2> QED
    BY <2>1, <2>2, <2>4, <2>5 DEF SameIterators
<1> QED
  BY <1>1 DEF HandlersAt, SameIterators

\* The frames whose handlers run point to pinned nodes.
LEMMA RunningFramesPin ==
    ASSUME IInv
    PROVE  /\ RunningFrames \in Seq(Frames) /\ Len(RunningFrames) \in Nat
           /\ \A k \in 1 .. Len(RunningFrames) :
                 /\ k \in 1 .. Len(stack) /\ RunningFrames[k] = stack[k]
                 /\ stack[k].running /\ stack[k].event \in Events
                 /\ Pinned(callbacks[stack[k].event], stack[k].at)
<1> USE DEF IInv
<1>1. \A k \in 1 .. Len(stack) : stack[k].running =>
         /\ stack[k].event \in Events
         /\ Pinned(callbacks[stack[k].event], stack[k].at)
  BY IteratorsTyped DEF IteratorsOK, FramesOK, FrameOK
<1>2. stack \in Seq(Frames) /\ Len(stack) \in Nat
  BY DEF TypeOK
<1>3. CASE stack = <<>>
  BY <1>2, <1>3 DEF RunningFrames
<1>4. CASE stack # <<>> /\ Top.running
  <2>1. \A k \in 1 .. Len(stack) : stack[k].running
    BY <1>2, <1>4, TopIsFrame DEF IteratorsOK, OnlyTopLoops
  <2> QED
    BY <1>1, <1>2, <1>4, <2>1 DEF RunningFrames
<1>5. CASE stack # <<>> /\ ~Top.running
  <2>1. /\ Under \in Seq(Frames) /\ Len(Under) = Len(stack) - 1 /\ Len(stack) \in Nat \ {0}
        /\ \A k \in 1 .. Len(Under) : Under[k] = stack[k]
    BY <1>2, <1>5, TopIsFrame
  <2>2. RunningFrames = Under
    BY <1>5 DEF RunningFrames
  <2>3. \A k \in 1 .. Len(Under) : k \in 1 .. Len(stack) /\ stack[k].running
    BY <2>1 DEF IteratorsOK, OnlyTopLoops
  <2> QED
    BY <1>1, <2>1, <2>2, <2>3
<1> QED
  BY <1>3, <1>4, <1>5

\* Tick's call goes on while others' lists change.
LEMMA TickCallStays ==
    ASSUME IInv, NEW e \in Events, NEW freed, Advances(e, freed),
           UNCHANGED <<tick, tickAt>>,
           \A k \in 1 .. Len(deferred) :
              /\ deferred[k].event = e => deferred[k].at \notin freed
              /\ deferred'[k].event = deferred[k].event /\ deferred'[k].at = deferred[k].at
    PROVE  TickCall' = TickCall
<1> USE DEF IInv
<1>1. CASE tick # "calling"
  BY <1>1, CallsAre
<1>2. CASE tick = "calling"
  <2>1. tickAt \in 1 .. Len(deferred)
    BY <1>2, IteratorsTyped DEF TypeOK, TickAlone
  <2>2. PICK it, moved : it = deferred[tickAt] /\ moved = deferred'[tickAt']
    OBVIOUS
  <2>3. /\ it.event \in Events /\ Pinned(callbacks[it.event], it.at)
        /\ it.event = e => it.at \notin freed
        /\ moved.event = it.event /\ moved.at = it.at
    BY <2>1, <2>2, IteratorsTyped DEF IteratorsOK, DeferredPinned
  <2>4. HandlersAt(callbacks', <<moved>>) = HandlersAt(callbacks, <<it>>)
    <3>1. Len(<<it>>) = 1 /\ Len(<<moved>>) = 1 /\ <<it>>[1] = it /\ <<moved>>[1] = moved
      OBVIOUS
    <3>2. SameIterators(<<it>>, <<moved>>)
      BY <2>3, <3>1 DEF SameIterators
    <3>3. \A k \in 1 .. Len(<<it>>) : <<it>>[k] = it
      OBVIOUS
    <3> HIDE DEF SameIterators
    <3> QED
      BY <2>3, <3>1, <3>2, <3>3, HandlersStay
  <2> QED
    BY <1>2, <2>2, <2>4, CallsAre
<1> QED
  BY <1>1, <1>2

\* A step that begins and ends no call, seen from the registry.
LEMMA CallsStay ==
    ASSUME IInv, NEW e \in Events, Advances(e, {}), UNCHANGED <<tick, tickAt>>,
           SameIterators(RunningFrames, RunningFrames'),
           \A k \in 1 .. Len(deferred) :
              deferred'[k].event = deferred[k].event /\ deferred'[k].at = deferred[k].at
    PROVE  CallsInProgress' = CallsInProgress
<1>1. TickCall' = TickCall
  BY TickCallStays
<1>2. PICK its, moved : its = RunningFrames /\ moved = RunningFrames'
  OBVIOUS
<1>3. HandlersAt(callbacks', moved) = HandlersAt(callbacks, its)
  <2>1. \A k \in 1 .. Len(its) :
           /\ its[k].event \in Events /\ Pinned(callbacks[its[k].event], its[k].at)
           /\ its[k].event = e => its[k].at \notin {}
    BY <1>2, RunningFramesPin
  <2>2. Len(its) \in Nat /\ ListsAreLists /\ SameIterators(its, moved)
    BY <1>2, RunningFramesPin DEF IInv
  <2> QED
    BY <2>1, <2>2, HandlersStay
<1> QED
  BY <1>1, <1>2, <1>3, CallsAre

\* While a handler or nothing runs, all frames have called.
LEMMA AllFramesCall ==
    ASSUME \A k \in 1 .. Len(stack) : stack[k].running, stack \in Seq(Frames)
    PROVE  RunningFrames = stack
<1>1. stack # <<>> => Top.running
  BY TopIsFrame
<1> QED
  BY <1>1 DEF RunningFrames

AbstractHandlers == [f \in Events |-> Registered(f)]

\* SetHandler is the registry's Set.
LEMMA SetImplements ==
    ASSUME IInv, NEW e \in Events, NEW h \in Handlers[e], SetHandler(e, h)
    PROVE  Registry!Set(e, h)
<1> USE DEF IInv
<1>1. Advances(e, {}) /\ Registered(e)' = Registered(e) \cup {h}
  BY SetHandlerKeeps
<1>2. \A f \in Events \ {e} : Registered(f)' = Registered(f)
  BY <1>1 DEF Advances, Registered, Nodes
<1>3. AbstractHandlers' = [AbstractHandlers EXCEPT ![e] = @ \cup {h}]
  BY <1>1, <1>2 DEF AbstractHandlers
<1>4. /\ stack' \in Seq(Frames)
      /\ SameIterators(stack, stack') /\ SameIterators(deferred, deferred')
      /\ \A k \in 1 .. Len(stack) : stack'[k].running = stack[k].running
  BY SetHandlerIterators
<1>5. \A k \in 1 .. Len(stack) : stack[k].running
  BY AllFramesRun DEF SetHandler
<1>6. RunningFrames = stack
  BY <1>5, AllFramesCall DEF TypeOK
<1>7. RunningFrames' = stack'
  <2>1. \A k \in 1 .. Len(stack') : stack'[k].running
    BY <1>4, <1>5 DEF SameIterators
  <2>2. stack' # <<>> => Len(stack') \in 1 .. Len(stack')
    BY <1>4
  <2> QED
    BY <2>1, <2>2 DEF RunningFrames, Top
<1>8. UNCHANGED CallsInProgress
  <2>1. UNCHANGED <<tick, tickAt>>
    BY DEF SetHandler
  <2>2. \A k \in 1 .. Len(deferred) :
           deferred'[k].event = deferred[k].event /\ deferred'[k].at = deferred[k].at
    BY <1>4 DEF SameIterators
  <2>3. SameIterators(RunningFrames, RunningFrames')
    BY <1>4, <1>6, <1>7
  <2> QED
    BY <1>1, <2>1, <2>2, <2>3, CallsStay
<1> QED
  BY <1>3, <1>8 DEF Registry!Set, AbstractHandlers

\* RemoveHandler is the registry's Remove.
LEMMA RemoveImplements ==
    ASSUME IInv, NEW e \in Events, NEW h \in Handlers[e], RemoveHandler(e, h)
    PROVE  Registry!Remove(e, h)
<1> USE DEF IInv
<1> DEFINE left == {g \in Registered(e) : ~(/\ g.script = h.script
                                             /\ h.source \in {NoFilter, g.source})}
<1>1. Advances(e, {}) /\ Registered(e)' = left
  BY RemovesList
<1>2. \A f \in Events \ {e} : Registered(f)' = Registered(f)
  BY <1>1 DEF Advances, Registered, Nodes
<1>3. AbstractHandlers' = [AbstractHandlers EXCEPT ![e] = left]
  BY <1>1, <1>2 DEF AbstractHandlers
<1>4. AbstractHandlers[e] = Registered(e)
  BY DEF AbstractHandlers
<1>5. UNCHANGED CallsInProgress
  <2>1. UNCHANGED <<tick, tickAt, stack, deferred>>
    BY DEF RemoveHandler, tickVars
  <2>2. SameIterators(RunningFrames, RunningFrames')
    BY <2>1 DEF RunningFrames, Top, Under, SameIterators
  <2> QED
    BY <1>1, <2>1, <2>2, CallsStay
<1> QED
  BY <1>3, <1>4, <1>5 DEF Registry!Remove, AbstractHandlers

\* Raising an event, on any thread, is no step of the registry.
LEMMA RaiseStutters ==
    ASSUME IInv, ScriptsRun, NEW e \in Events, NEW args \in Args, Raise(e, args),
           UNCHANGED <<tick, tickAt>>
    PROVE  UNCHANGED <<AbstractHandlers, CallsInProgress>>
<1> USE DEF IInv
<1>1. \A k \in 1 .. Len(stack) : stack[k].running
  BY AllFramesRun
<1>2. RunningFrames = stack
  BY <1>1, AllFramesCall DEF TypeOK
<1>3. CASE HandleEvent(e, args)
  <2>1. UNCHANGED <<callbacks, deferred>>
    BY <1>3 DEF HandleEvent
  <2>2. PICK n \in Nat : n = Len(stack)
    BY DEF TypeOK
  <2>3. /\ stack' \in Seq(Frames) /\ Len(stack') = n + 1 /\ ~stack'[n + 1].running
        /\ \A k \in 1 .. n : stack'[k] = stack[k]
    <3>1. stack' \in Seq(Frames)
      BY <1>1, <1>3, LoopBegins
    <3> QED
      BY <1>3, <2>2, <3>1 DEF HandleEvent, TypeOK
  <2>4. RunningFrames' = SubSeq(stack', 1, n)
    BY <2>3 DEF RunningFrames, Top, Under
  <2>5. SameIterators(RunningFrames, RunningFrames')
    <3>1. Len(SubSeq(stack', 1, n)) = n /\ \A k \in 1 .. n : SubSeq(stack', 1, n)[k] = stack'[k]
      BY <2>3
    <3> QED
      BY <1>2, <2>2, <2>3, <2>4, <3>1 DEF SameIterators
  <2>6. Advances(e, {})
    BY <2>1, UnchangedAdvances
  <2>7. UNCHANGED CallsInProgress
    BY <2>1, <2>5, <2>6, CallsStay
  <2> QED
    BY <2>1, <2>7 DEF AbstractHandlers, Registered, Nodes
<1>4. CASE LockIsFree /\ DeferEvent(e, args)
  <2>1. Advances(e, {}) /\ Registered(e)' = Registered(e)
    BY <1>4, DefersList
  <2>2. \A f \in Events \ {e} : Registered(f)' = Registered(f)
    BY <2>1 DEF Advances, Registered, Nodes
  <2>3. AbstractHandlers' = AbstractHandlers
    BY <2>1, <2>2 DEF AbstractHandlers
  <2>4. tick = "idle" /\ UNCHANGED stack /\ stack = <<>>
    BY <1>4 DEF DeferEvent, LockIsFree
  <2>5. RunningFrames = <<>> /\ RunningFrames' = <<>>
    BY <2>4 DEF RunningFrames
  <2>6. /\ HandlersAt(callbacks, <<>>) = HandlersAt(callbacks', <<>>)
    BY DEF HandlersAt
  <2>7. UNCHANGED CallsInProgress
    BY <2>4, <2>5, <2>6, CallsAre
  <2> QED
    BY <2>3, <2>7
<1> QED
  BY <1>3, <1>4 DEF Raise

\* Calls are of handlers.
LEMMA HandlersTyped ==
    ASSUME ListsAreLists, NEW its, Len(its) \in Nat,
           \A k \in 1 .. Len(its) :
              its[k].event \in Events /\ Pinned(callbacks[its[k].event], its[k].at)
    PROVE  HandlersAt(callbacks, its) \in Seq(AllHandlers)
<1>1. ASSUME NEW k \in 1 .. Len(its)
      PROVE  HandlerIn(callbacks[its[k].event], its[k].at) \in AllHandlers
  <2>0. PICK f \in Events : f = its[k].event
    OBVIOUS
  <2>1. PICK id : f = its[k].event /\ id = its[k].at
    BY <2>0
  <2>2. PICK c \in ToSet(callbacks[f]) : c.id = id
    BY <2>1 DEF Pinned
  <2>3. IsList(callbacks[f])
    BY DEF ListsAreLists
  <2>4. c \in Callbacks
    BY <2>3, ElementsAt
  <2>5. HandlerIn(callbacks[f], id) = c.handler
    BY <2>2, <2>3, HandlerOfNode
  <2> QED
    BY <2>1, <2>4, <2>5 DEF Callbacks
<1>2. HandlersAt(callbacks, its) \in [1 .. Len(its) -> AllHandlers]
  BY <1>1 DEF HandlersAt
<1> QED
  BY <1>2

\* So is the one Tick has in progress.
LEMMA TickCallTyped ==
    ASSUME IInv
    PROVE  TickCall \in Seq(AllHandlers)
<1> USE DEF IInv
<1>1. CASE tick = "calling"
  <2>1. PICK it : it = deferred[tickAt]
    OBVIOUS
  <2>2. it.event \in Events /\ Pinned(callbacks[it.event], it.at)
    BY <1>1, <2>1, IteratorsTyped DEF TypeOK, TickAlone, IteratorsOK, DeferredPinned
  <2>3. Len(<<it>>) \in Nat /\ \A k \in 1 .. Len(<<it>>) : <<it>>[k] = it
    OBVIOUS
  <2> QED
    BY <1>1, <2>1, <2>2, <2>3, HandlersTyped, CallsAre
<1> QED
  BY <1>1, CallsAre

\* One more iterator is one more call.
LEMMA HandlersAtAppend ==
    ASSUME NEW lists, NEW its, NEW all, NEW it, Len(its) \in Nat, Len(all) = Len(its) + 1,
           \A k \in 1 .. Len(its) : all[k] = its[k], all[Len(its) + 1] = it,
           NEW S, HandlersAt(lists, its) \in Seq(S)
    PROVE  HandlersAt(lists, all)
               = Append(HandlersAt(lists, its), HandlerIn(lists[it.event], it.at))
<1> DEFINE n == Len(its)
           new == HandlersAt(lists, all)
           old == HandlersAt(lists, its)
           h == HandlerIn(lists[it.event], it.at)
<1>1. /\ new = [k \in 1 .. n + 1 |-> HandlerIn(lists[all[k].event], all[k].at)]
      /\ old = [k \in 1 .. n |-> HandlerIn(lists[its[k].event], its[k].at)]
  BY DEF HandlersAt
<1>2. Len(old) = n /\ Append(old, h) = [k \in 1 .. n + 1 |-> IF k <= n THEN old[k] ELSE h]
  BY <1>1
<1>3. ASSUME NEW k \in 1 .. n + 1
      PROVE  HandlerIn(lists[all[k].event], all[k].at) = IF k <= n THEN old[k] ELSE h
  <2>1. CASE k <= n
    BY <1>1, <2>1
  <2>2. CASE k = n + 1
    BY <2>2
  <2> QED
    BY <2>1, <2>2
<1> QED
  BY <1>1, <1>2, <1>3

\* What is appended last is what a return takes off.
LEMMA AppendBehind ==
    ASSUME NEW S, NEW s \in Seq(S), NEW t \in Seq(S), NEW x \in S
    PROVE  /\ s \o Append(t, x) = Append(s \o t, x)
           /\ Append(s, x) # <<>>
           /\ SubSeq(Append(s, x), 1, Len(Append(s, x)) - 1) = s
OBVIOUS

\* The loop calls a registered handler, or ends unseen.
LEMMA ContinueImplements ==
    ASSUME IInv, Continue
    PROVE  \/ UNCHANGED <<AbstractHandlers, CallsInProgress>>
           \/ \E e \in Events, h \in AllHandlers : Registry!Call(e, h)
<1> USE DEF IInv
<1>1. PICK n \in Nat \ {0}, top \in Frames, e \in Events, under \in Seq(Frames) :
          /\ n = Len(stack) /\ top = Top /\ e = top.event
          /\ under = Under /\ Len(under) = n - 1
          /\ \A k \in 1 .. n - 1 : under[k] = stack[k]
  BY TopIsFrame DEF TypeOK, Continue, Looping
<1>2. Advances(e, {}) /\ \A f \in Events : Registered(f)' = Registered(f)
  BY <1>1, ContinuesList
<1>3. UNCHANGED <<deferred, tick, tickAt>> /\ UNCHANGED AbstractHandlers
  BY <1>2 DEF Continue, tickVars, AbstractHandlers
<1>4. RunningFrames = under
  BY <1>1 DEF RunningFrames, Continue, Looping
<1>5. \A k \in 1 .. n - 1 : under[k].running
  BY <1>1 DEF IteratorsOK, OnlyTopLoops
<1>6. CASE stack' = under
  <2>1. stack' # <<>> => Len(stack') \in 1 .. n - 1
    BY <1>1, <1>6
  <2>2. RunningFrames' = under
    BY <1>5, <1>6, <2>1 DEF RunningFrames, Top
  <2>3. SameIterators(RunningFrames, RunningFrames')
    BY <1>4, <2>2 DEF SameIterators
  <2> QED
    BY <1>2, <1>3, <2>3, CallsStay
<1>7. CASE stack' # under
  <2>0. PICK c \in Nodes(e) :
            /\ ~c.removed /\ Survives(callbacks'[e], c)
            /\ stack' = Append(under, [top EXCEPT !.at = c.id, !.running = TRUE,
                                                 !.wasInUse = c.inUse])
    BY <1>1, <1>7, ContinuesList
  <2>1. PICK frame :
            /\ ~c.removed /\ Survives(callbacks'[e], c)
            /\ frame = [top EXCEPT !.at = c.id, !.running = TRUE, !.wasInUse = c.inUse]
            /\ stack' = Append(under, frame)
    BY <2>0
  <2>2. c \in Callbacks
    BY ElementsAt DEF ListsAreLists, Nodes
  <2>3. frame \in Frames /\ frame.event = e /\ frame.at = c.id /\ frame.running
    BY <1>1, <2>1, <2>2 DEF Frames, Callbacks
  <2>4. /\ Len(stack') = n /\ stack'[n] = frame /\ stack' # <<>>
        /\ \A k \in 1 .. n - 1 : stack'[k] = under[k]
    BY <1>1, <2>1, <2>3
  <2>5. RunningFrames' = stack'
    BY <2>3, <2>4 DEF RunningFrames, Top
  <2> DEFINE h == c.handler
             old == HandlersAt(callbacks, under)
  <2>6. h \in AllHandlers /\ h \in Registered(e)
    BY <2>1, <2>2 DEF Callbacks, Registered
  <2>7. /\ Len(under) \in Nat
        /\ \A k \in 1 .. Len(under) :
              under[k].event \in Events /\ Pinned(callbacks[under[k].event], under[k].at)
    BY <1>1, <1>4, RunningFramesPin
  <2>8. old \in Seq(AllHandlers) /\ TickCall \in Seq(AllHandlers)
    BY <2>7, HandlersTyped, TickCallTyped
  <2>9. HandlersAt(callbacks', under) = old
    <3>1. SameIterators(under, under)
      BY DEF SameIterators
    <3> QED
      BY <1>2, <2>7, <3>1, HandlersStay
  <2>10. HandlerIn(callbacks'[e], c.id) = h
    <3>1. PICK d \in ToSet(callbacks'[e]) : d.id = c.id /\ d.handler = c.handler
      BY <2>1 DEF Survives
    <3>2. IsList(callbacks'[e])
      BY <1>2 DEF Advances
    <3> QED
      BY <3>1, <3>2, HandlerOfNode
  <2>11. HandlersAt(callbacks', stack') = Append(old, h)
    <3>1. /\ Len(stack') = Len(under) + 1 /\ stack'[Len(under) + 1] = frame
          /\ \A k \in 1 .. Len(under) : stack'[k] = under[k]
      BY <1>1, <2>4
    <3> HIDE DEF old, h
    <3>2. HandlersAt(callbacks', stack')
              = Append(HandlersAt(callbacks', under), HandlerIn(callbacks'[frame.event], frame.at))
      <4>1. Len(under) \in Nat /\ HandlersAt(callbacks', under) \in Seq(AllHandlers)
        BY <2>7, <2>8, <2>9
      <4> QED
        BY <3>1, <4>1, HandlersAtAppend
    <3> QED
      BY <2>3, <2>9, <2>10, <3>2
  <2>12. TickCall' = TickCall
    BY <1>2, <1>3, TickCallStays
  <2> HIDE DEF old, h
  <2>13. CallsInProgress' = TickCall \o Append(old, h)
    BY <2>5, <2>11, <2>12, CallsAre
  <2>14. CallsInProgress = TickCall \o old
    BY <1>4, CallsAre DEF old
  <2>15. CallsInProgress' = Append(CallsInProgress, h)
    BY <2>6, <2>8, <2>13, <2>14, AppendBehind
  <2>16. Registry!Call(e, h)
    BY <1>3, <2>6, <2>15 DEF Registry!Call, AbstractHandlers
  <2> QED
    BY <2>6, <2>16
<1> QED
  BY <1>6, <1>7

\* The handler that returns is the innermost call.
LEMMA HandlerReturnsImplements ==
    ASSUME IInv, HandlerReturns
    PROVE  Registry!Return
<1> USE DEF IInv
<1>1. PICK n \in Nat \ {0}, top \in Frames, e \in Events, under \in Seq(Frames) :
          /\ n = Len(stack) /\ top = Top /\ top = stack[n] /\ e = top.event
          /\ under = Under /\ Len(under) = n - 1
          /\ \A k \in 1 .. n - 1 : under[k] = stack[k]
  BY TopIsFrame DEF TypeOK, HandlerReturns
<1> DEFINE freed == IF top.wasInUse THEN {} ELSE {top.at}
           old == HandlersAt(callbacks, under)
           h == HandlerIn(callbacks[e], top.at)
<1>2. stack # <<>> /\ top.running /\ FrameOK(top)
  BY <1>1 DEF HandlerReturns, IteratorsOK, FramesOK
<1>3. Advances(e, freed) /\ \A f \in Events : Registered(f)' = Registered(f)
  BY <1>1, <1>2, ReturnsList
<1>4. UNCHANGED <<deferred, tick, tickAt>> /\ UNCHANGED AbstractHandlers
  BY <1>3 DEF HandlerReturns, tickVars, AbstractHandlers
<1>5. PICK frame : /\ frame = [top EXCEPT !.running = FALSE, !.wasInUse = FALSE,
                                          !.at = After(Top)]
                   /\ stack' = Append(under, frame)
  BY <1>1 DEF HandlerReturns
<1>6. ~frame.running
  BY <1>1, <1>5 DEF Frames
<1>7. RunningFrames = stack
  BY <1>1, <1>2 DEF RunningFrames
<1>8. RunningFrames' = under
  <2>1. /\ stack' # <<>> /\ Len(stack') = n /\ stack'[n] = frame
        /\ SubSeq(stack', 1, n - 1) = under
    <3>1. under \in Seq(Frames \cup {frame}) /\ frame \in Frames \cup {frame}
      BY <1>1
    <3> QED
      BY <1>1, <1>5, <3>1
  <2> QED
    BY <1>6, <2>1 DEF RunningFrames, Top, Under
<1>9. \A k \in 1 .. n - 1 : stack[k].event = e => stack[k].at \notin freed
  BY <1>1, <1>2, OthersNotFreed
<1>10. \A k \in 1 .. Len(deferred) : deferred[k].event = e => deferred[k].at \notin freed
  BY <1>1, <1>2, OthersNotFreed
<1> HIDE DEF freed
<1>11. /\ Len(under) \in Nat /\ Len(stack) \in Nat
       /\ \A k \in 1 .. Len(stack) :
             stack[k].event \in Events /\ Pinned(callbacks[stack[k].event], stack[k].at)
       /\ \A k \in 1 .. Len(under) :
             under[k].event \in Events /\ Pinned(callbacks[under[k].event], under[k].at)
  BY <1>1, <1>7, RunningFramesPin
<1>12. /\ old \in Seq(AllHandlers) /\ TickCall \in Seq(AllHandlers)
       /\ HandlersAt(callbacks, stack) \in Seq(AllHandlers)
  BY <1>11, HandlersTyped, TickCallTyped
<1>13. HandlersAt(callbacks', under) = old
  <2>1. SameIterators(under, under)
    BY DEF SameIterators
  <2>2. \A k \in 1 .. Len(under) : under[k].event = e => under[k].at \notin freed
    BY <1>1, <1>9
  <2> QED
    BY <1>3, <1>11, <2>1, <2>2, HandlersStay
<1>14. TickCall' = TickCall
  BY <1>3, <1>4, <1>10, TickCallStays
<1>15. HandlersAt(callbacks, stack) = Append(old, h)
  <2>1. /\ Len(stack) = Len(under) + 1 /\ stack[Len(under) + 1] = top
        /\ \A k \in 1 .. Len(under) : stack[k] = under[k]
    BY <1>1
  <2> HIDE DEF h
  <2>2. HandlersAt(callbacks, stack)
            = Append(HandlersAt(callbacks, under), HandlerIn(callbacks[top.event], top.at))
    BY <1>11, <1>12, <2>1, HandlersAtAppend
  <2> QED
    BY <1>1, <2>2 DEF h
<1>16. h \in AllHandlers
  <2>1. PICK c \in ToSet(callbacks[e]) : c.id = top.at
    BY <1>1, <1>2 DEF FrameOK, Pinned
  <2>2. IsList(callbacks[e]) /\ c \in Callbacks
    BY ElementsAt DEF ListsAreLists
  <2> QED
    BY <2>1, <2>2, HandlerOfNode DEF Callbacks
<1> HIDE DEF old, h
<1>17. CallsInProgress = Append(TickCall \o old, h)
  <2>1. CallsInProgress = TickCall \o Append(old, h)
    BY <1>7, <1>15, CallsAre
  <2> QED
    BY <1>12, <1>16, <2>1, AppendBehind
<1>18. CallsInProgress' = TickCall \o old
  BY <1>8, <1>13, <1>14, CallsAre
<1>19. TickCall \o old \in Seq(AllHandlers)
  BY <1>12
<1>20. /\ CallsInProgress # <<>>
       /\ CallsInProgress' = SubSeq(CallsInProgress, 1, Len(CallsInProgress) - 1)
  BY <1>16, <1>17, <1>18, <1>19, AppendBehind
<1> QED
  BY <1>4, <1>20 DEF Registry!Return, AbstractHandlers

\* Tick calls what its position points to, and only that, while it is calling.
LEMMA TickCallIsLone ==
    ASSUME IInv
    PROVE  tick # "idle" /\ stack = <<>> => CallsInProgress = TickCall
<1> SUFFICES ASSUME stack = <<>> PROVE CallsInProgress = TickCall
  OBVIOUS
<1>1. RunningFrames = <<>>
  BY DEF RunningFrames
<1>2. HandlersAt(callbacks, <<>>) = <<>>
  BY DEF HandlersAt
<1>3. TickCall \in Seq(AllHandlers)
  BY TickCallTyped
<1> QED
  BY <1>1, <1>2, <1>3, CallsAre

\* Tick calls a handler that is registered still.
LEMMA TickCallsImplements ==
    ASSUME IInv, TickCalls
    PROVE  \E e \in Events, h \in AllHandlers : Registry!Call(e, h)
<1> USE DEF IInv
<1>1. /\ tick = "loop" /\ tick' = "calling" /\ stack = <<>>
      /\ UNCHANGED <<callbacks, stack, deferred, tickAt>>
  BY DEF TickCalls, AtDeferred, TickAlone
<1>2. PICK it : it = deferred[tickAt]
  OBVIOUS
<1>3. it.event \in Events /\ Pinned(callbacks[it.event], it.at)
  BY <1>2, IteratorsTyped DEF TypeOK, TickCalls, AtDeferred, IteratorsOK, DeferredPinned
<1>4. PICK e \in Events : e = it.event
  BY <1>3
<1>5. PICK c \in Nodes(e) : c.id = it.at
  BY <1>3, <1>4 DEF Pinned, Nodes
<1>6. CallbackAt(it) = c /\ c \in Callbacks
  BY <1>4, <1>5, CallbackOfId, ElementsAt DEF ListsAreLists, Nodes
<1>7. ~c.removed /\ c.handler \in AllHandlers
  BY <1>2, <1>6 DEF TickCalls, Callbacks
<1>8. c.handler \in Registered(e)
  BY <1>7 DEF Registered
<1>9. CallsInProgress = <<>>
  BY <1>1, CallsAre, TickCallIsLone
<1>10. CallsInProgress' = <<c.handler>>
  <2>1. TickCall' = <<c.handler>>
    BY <1>1, <1>2, <1>6 DEF TickCall, CallbackAt, Position
  <2>2. RunningFrames' = <<>>
    BY <1>1 DEF RunningFrames
  <2>3. HandlersAt(callbacks', <<>>) = <<>>
    BY DEF HandlersAt
  <2>4. <<c.handler>> \o <<>> = <<c.handler>>
    OBVIOUS
  <2> QED
    BY <2>1, <2>2, <2>3, <2>4, CallsAre
<1>11. CallsInProgress' = Append(CallsInProgress, c.handler)
  BY <1>9, <1>10
<1>12. UNCHANGED AbstractHandlers
  BY <1>1 DEF AbstractHandlers, Registered, Nodes
<1>13. Registry!Call(e, c.handler)
  BY <1>8, <1>11, <1>12 DEF Registry!Call, AbstractHandlers
<1> QED
  BY <1>7, <1>13

\* The call that Tick began ends.
LEMMA TickReturnsImplements ==
    ASSUME IInv, TickReturns
    PROVE  Registry!Return
<1> USE DEF IInv
<1>1. /\ tick = "calling" /\ tick' = "loop" /\ stack = <<>> /\ stack' = <<>>
      /\ UNCHANGED callbacks
  BY DEF TickReturns
<1>2. PICK h : CallsInProgress = <<h>>
  BY <1>1, TickCallIsLone DEF TickCall
<1>3. CallsInProgress' = <<>>
  <2>1. RunningFrames' = <<>> /\ TickCall' = <<>>
    BY <1>1 DEF RunningFrames, TickCall
  <2>2. HandlersAt(callbacks', <<>>) = <<>>
    BY DEF HandlersAt
  <2> QED
    BY <2>1, <2>2, CallsAre
<1>4. CallsInProgress # <<>> /\ SubSeq(CallsInProgress, 1, Len(CallsInProgress) - 1) = <<>>
  BY <1>2
<1>5. UNCHANGED AbstractHandlers
  BY <1>1 DEF AbstractHandlers, Registered, Nodes
<1> QED
  BY <1>3, <1>4, <1>5 DEF Registry!Return, AbstractHandlers

\* Where neither lists nor calls move, the registry does not.
LEMMA QuietStepsStutter ==
    ASSUME IInv, UNCHANGED <<callbacks, stack, deferred, tickAt>>,
           tick' = "calling" <=> tick = "calling"
    PROVE  UNCHANGED <<AbstractHandlers, CallsInProgress>>
<1>1. UNCHANGED AbstractHandlers
  BY DEF AbstractHandlers, Registered, Nodes
<1>2. UNCHANGED RunningFrames
  BY DEF RunningFrames, Top, Under
<1>3. UNCHANGED TickCall
  BY CallsAre
<1> QED
  BY <1>1, <1>2, <1>3, CallsAre

\* Every step is one of the registry's, or none.
LEMMA StepsImplement ==
    ASSUME IInv, [Next]_vars
    PROVE  [Registry!RegistryNext]_(Registry!registryVars)
<1> DEFINE Stays == UNCHANGED <<AbstractHandlers, CallsInProgress>>
<1>0. Stays => UNCHANGED Registry!registryVars
  BY DEF Registry!registryVars, AbstractHandlers
<1> HIDE DEF Stays
<1>1. CASE Registration
  <2>1. PICK e \in Events : \E g \in Handlers[e] : SetHandler(e, g) \/ RemoveHandler(e, g)
    BY <1>1 DEF Registration
  <2>2. PICK h \in Handlers[e] : SetHandler(e, h) \/ RemoveHandler(e, h)
    BY <2>1
  <2>3. h \in AllHandlers
    BY DEF AllHandlers
  <2> QED
    BY <2>2, <2>3, SetImplements, RemoveImplements DEF Registry!RegistryNext
<1>2. CASE Raising
  <2>1. ASSUME NEW e \in GameEvents, NEW args \in GameArgs, MarkEvent(e, args) PROVE Stays
    <3>1. /\ e \in Events /\ args \in Args /\ ScriptsRun /\ UNCHANGED <<tick, tickAt>>
          /\ Raise(e, args) \/ UNCHANGED <<callbacks, stack, deferred>>
      BY <2>1 DEF MarkEvent, Events, Args
    <3> QED
      BY <3>1, RaiseStutters, QuietStepsStutter DEF Stays
  <2>2. ASSUME NEW e \in UserEvents, DispatchUserDefinedEvent(e) PROVE Stays
    <3>1. /\ e \in Events /\ UserArgs \in Args /\ ScriptsRun /\ UNCHANGED <<tick, tickAt>>
          /\ Raise(e, UserArgs)
      BY <2>2 DEF DispatchUserDefinedEvent, Events, Args
    <3> QED
      BY <3>1, RaiseStutters DEF Stays
  <2> QED
    BY <1>0, <1>2, <2>1, <2>2 DEF Raising
<1>3. CASE Continue
  BY <1>0, <1>3, ContinueImplements DEF Registry!RegistryNext, Stays
<1>4. CASE HandlerReturns
  BY <1>4, HandlerReturnsImplements DEF Registry!RegistryNext
<1>5. CASE TickReturns
  BY <1>5, TickReturnsImplements DEF Registry!RegistryNext
<1>6. CASE TickCalls
  BY <1>6, TickCallsImplements DEF Registry!RegistryNext
<1>7. CASE BeginTick \/ EndTick \/ Fault \/ UNCHANGED vars
  <2>1. /\ UNCHANGED <<callbacks, stack, deferred, tickAt>>
        /\ tick' = "calling" <=> tick = "calling"
    BY <1>7 DEF BeginTick, EndTick, Fault, vars, tickVars, LockIsFree
  <2> QED
    BY <1>0, <2>1, QuietStepsStutter DEF Stays
<1> QED
  BY <1>1, <1>2, <1>3, <1>4, <1>5, <1>6, <1>7 DEF Next, TickStep

\* For a script the event manager is the registry: flags, sweeping, deferral,
\* recursion and the moving of the lists do not show.
THEOREM EventManagerImplementsRegistry == Spec => ImplementsRegistry
<1>1. Init => Registry!RegistryInit
  <2> SUFFICES ASSUME Init PROVE Registry!RegistryInit
    OBVIOUS
  <2>1. \A e \in Events : Registered(e) = {}
    BY DEF Init, Registered, Nodes, ToSet
  <2>2. CallsInProgress = <<>>
    BY DEF Init, CallsInProgress, TickCall, RunningFrames
  <2> QED
    BY <2>1, <2>2 DEF Registry!RegistryInit
<1>2. IInv /\ [Next]_vars => [Registry!RegistryNext]_(Registry!registryVars)
  BY StepsImplement
<1> QED
  BY <1>1, <1>2, Invariance, PTL DEF Spec, ImplementsRegistry, Registry!RegistrySpec

=============================================================================

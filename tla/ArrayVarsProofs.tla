-------------------------- MODULE ArrayVarsProofs --------------------------
(***************************************************************************)
(* Proofs about Arrays.  Of ArrayVars, for any mods, variables, keys and   *)
(* bounds: the heap stays in order, an array that something refers to      *)
(* stays, one that nothing refers to goes, ids are neither lost nor given  *)
(* out twice, and a load brings back what was saved.  Of PackedArray, in   *)
(* the last section, for any values and any size: it is the list scripts   *)
(* take it for.                                                            *)
(*                                                                         *)
(* The invariant of the heap counts. Of an array and a class of mods, Refs *)
(* are the references recorded, and Slots the elements that name it; what  *)
(* is left over, the Surplus, must be what variables and parameters        *)
(* Demand: at least that, and exactly that, mod by mod, unless a script    *)
(* left a reference to nobody. So an operation of the heap need only be    *)
(* shown to leave the surplus alone, or to move one reference, whatever    *)
(* else it does to elements; and an action, to demand what the heap has    *)
(* for it.                                                                 *)
(***************************************************************************)
EXTENDS Arrays, SelectionsProofs, FiniteSetTheorems, FunctionTheorems,
        SequenceTheorems

-----------------------------------------------------------------------------
(* Counting references.                                                    *)

\* How many references to the array are recorded for mods of the class c.
Refs(s, id, c) ==
    IF id \in Live(s)
    THEN Occurrences(s.vars[id].refs, c)
    ELSE 0

\* The elements that name it, of arrays that such mods own.
Slots(s, id, c) ==
    {slot \in Live(s) \X Keys :
        /\ slot[2] \in DOMAIN Elements(s, slot[1])
        /\ Elements(s, slot[1])[slot[2]] = id
        /\ s.vars[slot[1]].owner \in c}

\* The recorded references that no element accounts for.
Surplus(s, id, c) == Refs(s, id, c) - Cardinality(Slots(s, id, c))

\* Under which index a script's variable refers.
RefersAs(l, v) == IF \E i \in DOMAIN l : l[i].var = v THEN Engine ELSE ModOf[v]

\* The variables and the parameters that refer to id, for mods of the class.
OnVars(d, l, id, c) == {v \in Vars : d[v] = id /\ RefersAs(l, v) \in c}
OnFrames(f, id, c) == {i \in DOMAIN f : f[i].id = id /\ f[i].mod \in c}

\* How many references they need.
Demand(d, l, f, id, c) ==
    Cardinality(OnVars(d, l, id, c)) + Cardinality(OnFrames(f, id, c))

AllIDs == Nat \ {0}

\* The references left over are as many as needed, or more ...
Covered(s, d, l, f) ==
    \A id \in AllIDs : Surplus(s, id, Owners) >= Demand(d, l, f, id, Owners)

\* ... or as many, mod by mod.
Exact(s, d, l, f) ==
    \A id \in AllIDs, c \in SUBSET Owners : Surplus(s, id, c) = Demand(d, l, f, id, c)

-----------------------------------------------------------------------------
(* The invariant.                                                          *)

\* Records and functions are what their fields and values say.
ArrayRecord(a) ==
    a = [owner |-> a.owner, packed |-> a.packed, refs |-> a.refs, elems |-> a.elems]

IsMap(f) == f = [x \in DOMAIN f |-> f[x]]

HeapRecord(s) ==
    s = [vars |-> s.vars, tempVars |-> s.tempVars, available |-> s.available,
         cache |-> s.cache, misled |-> s.misled]

\* An array, whose elements name the arrays N.
IsArray(a, N) ==
    /\ ArrayRecord(a)
    /\ a.owner \in Owners /\ a.packed \in BOOLEAN /\ a.refs \in Seq(Owners)
    /\ DOMAIN a.elems \subseteq Keys
    /\ a.elems \in [DOMAIN a.elems -> N \cup {Other}]

\* The type of a heap.
HeapType(s) ==
    /\ HeapRecord(s)
    /\ IsMap(s.vars)
    /\ \A id \in Live(s) : IsArray(s.vars[id], IDs \cup Live(s))
    /\ Live(s) \subseteq AllIDs /\ s.available \subseteq AllIDs \cap IDs
    /\ s.cache \in [id : IDs \cup Live(s), current : BOOLEAN]
    /\ s.misled \in BOOLEAN
    /\ \E n \in Nat : Live(s) \subseteq 1 .. n

\* Arrays without a reference wait to be collected, and no others.
QueueOK(s) == s.tempVars = {id \in Live(s) : s.vars[id].refs = <<>>}

HeapOK(s) == HeapType(s) /\ QueueOK(s) /\ s.available \cap Live(s) = {}

\* The ids given out, taken or free again: those below one of them are too.
Taken(s, w) == Live(s) \cup s.available \cup {w}

\* Ids are not given out twice, and none is lost.
IdsOK(s, w) ==
    /\ s.available \cap (Live(s) \cup {w}) = {}
    /\ \A id \in Taken(s, w) : \A n \in 1 .. id : n \in Taken(s, w)

\* The cache names an array that exists.
CacheOK(s) == s.cache.current /\ s.cache.id \in {0} \cup Live(s) /\ ~IsHollow(s)

\* The arrays of a co-save as a heap, and what is saved.
SavedHeap(arrays) == [NewState EXCEPT !.vars = arrays]

SaveOK(game) ==
    /\ HeapType(SavedHeap(game.arrays))
    /\ Live(SavedHeap(game.arrays)) \subseteq IDs
    /\ game.data \in [Vars -> IDs] /\ game.leaked \in BOOLEAN
    /\ \A id \in DOMAIN game.arrays : game.arrays[id].refs # <<>>
    /\ Covered(SavedHeap(game.arrays), game.data, <<>>, <<>>)
    /\ ~game.leaked => Exact(SavedHeap(game.arrays), game.data, <<>>, <<>>)

\* The types of the loop, the call and the events.
IsLoop(l) ==
    l \in Seq([mod : Mods, var : Vars, iter : IDs, src : IDs, key : Keys]) /\ Len(l) <= 1

IsFrames(f) ==
    f \in Seq([mod : Mods, id : IDs, of : {"call", "event", "tile"}]) /\ Len(f) <= 1

IsDeferred(q) == q \in Seq([id : IDs, spoiled : BOOLEAN])

\* The type of the state; the heap is the one being loaded while a game loads.
Types ==
    /\ HeapOK(state) /\ Live(state) \subseteq IDs
    /\ backup = IF phase = "loading" THEN <<backup[1]>> ELSE <<>>
    /\ phase = "loading" => /\ HeapOK(backup[1].state)
                            /\ Live(backup[1].state) \subseteq IDs
                            /\ backup[1].phase \in {"menu", "scripts"}
    /\ data \in [Vars -> IDs] /\ IsLoop(loop) /\ IsFrames(frames)
    /\ phase \in Phases /\ fault \in Faults
    /\ worker \in IDs /\ IsDeferred(deferred)
    /\ save = <<>> \/ save = <<save[1]>>
    /\ absent \subseteq Mods
    /\ leaked \in BOOLEAN /\ hollow \in BOOLEAN

\* t is what a session without the mods `gone` loads of the arrays.
LoadedOf(t, arrays, gone) ==
    /\ \A id \in Live(t) :
          /\ id \in DOMAIN arrays
          /\ t.vars[id].refs = Kept(arrays[id].refs, Owners \ gone)
          /\ t.vars[id].owner = IF arrays[id].owner \notin gone \/ t.vars[id].refs = <<>>
                               THEN arrays[id].owner ELSE Head(t.vars[id].refs)
          /\ t.vars[id].owner \notin gone
          /\ Elements(t, id) = arrays[id].elems
    /\ \A id \in DOMAIN arrays \ Live(t) :
          arrays[id].owner \in gone /\ Kept(arrays[id].refs, Owners \ gone) = <<>>

\* What can happen in which phase.
Order ==
    /\ worker # 0 => phase \in {"scripts", "clean"}
    /\ loop # <<>> => phase = "scripts"
    /\ frames # <<>> => phase \in {"scripts", "tick"}
    /\ \A i \in DOMAIN frames : frames[i].of = "tile" => loop = <<>>
    /\ phase = "loading" => save # <<>> /\ LoadedOf(state, save[1].arrays, absent)

\* Of both heaps, the ids are in order.
Ids ==
    /\ worker \notin Live(state)
    /\ IdsOK(state, worker)
    /\ phase = "loading" => IdsOK(backup[1].state, 0)

\* The arguments of an event that waits are there, and not those of the hook.
Waiting ==
    /\ \A i \in DOMAIN deferred : ~deferred[i].spoiled =>
          /\ deferred[i].id \in Live(state)
          /\ phase \notin {"clean", "loading"}
          /\ \A j \in DOMAIN frames : frames[j].of = "tile" => frames[j].id # deferred[i].id
    /\ \A j \in DOMAIN frames : frames[j].of = "tile" => frames[j].id \in Live(state)

\* The recorded references are those there are, or more; as many, unless some were
\* left to nobody (k).  The iterator of a loop is the engine's.
Counted(s, d, l, f, k) ==
    /\ Covered(s, d, l, f)
    /\ ~k => Exact(s, d, l, f)
    /\ \A i \in DOMAIN l : Surplus(s, l[i].iter, {Engine}) >= 1

\* The counts of the scripts' heap are right.
Counts == Counted(Heap, data, loop, frames, leaked)

\* Of both heaps, the cache is.
Caches ==
    ~hollow => CacheOK(state) /\ (phase = "loading" => CacheOK(backup[1].state))

\* All of it holds unless one of the errors happened that the code makes itself.
Inv ==
    /\ Types
    /\ save # <<>> => SaveOK(save[1])
    /\ fault = "none" => Order /\ Ids /\ Waiting /\ Counts /\ Caches

\* Every element is accounted for.
NonNeg(s) == \A id \in AllIDs, c \in SUBSET Owners : Surplus(s, id, c) >= 0

\* From s to t no reference is lost, and if none was missing, none is added.
Grows(s, t) ==
    /\ \A id \in AllIDs, c \in SUBSET Owners : Surplus(t, id, c) >= Surplus(s, id, c)
    /\ NonNeg(s) => \A id \in AllIDs, c \in SUBSET Owners : Surplus(t, id, c) = Surplus(s, id, c)

\* The cache is current.
GoodCache(s) == s.cache.current /\ s.cache.id \in {0} \cup Live(s)

\* The arrays, their owners and the free ids are the same.
Same(s, t) ==
    /\ Live(t) = Live(s) /\ t.available = s.available
    /\ \A id \in Live(s) : t.vars[id].owner = s.vars[id].owner
                            /\ t.vars[id].packed = s.vars[id].packed

\* An operation on the elements of arrays.
Keeps(s, t) ==
    /\ HeapOK(t) /\ Same(s, t) /\ Grows(s, t)
    /\ GoodCache(s) => GoodCache(t)

-----------------------------------------------------------------------------
(* What the invariant says of a heap.                                      *)

\* The keys are the first numbers.
LEMMA KeysFacts ==
    /\ Cardinality(Keys) \in Nat /\ Keys = 0 .. Cardinality(Keys) - 1
    /\ Cardinality(Keys) > 0 /\ Keys \subseteq Nat /\ IsFiniteSet(Keys)
<1>1. Cardinality(Keys) \in Nat
  BY KeysAssumption, FS_CardinalityType
<1>2. Keys = 0 .. Cardinality(Keys) - 1 /\ Keys # {} /\ IsFiniteSet(Keys)
  BY KeysAssumption
<1> QED
  BY <1>1, <1>2

\* The ids are numbers, of which what is no array is not one.
LEMMA IDsFacts == MaxID \in Nat /\ IDs \subseteq Nat /\ 0 \in IDs /\ Other \notin Nat
BY BoundsAssumption, OtherAssumption DEF IDs

\* What the type of a heap says of one array.
LEMMA ArrayFacts ==
    ASSUME NEW s, HeapType(s), NEW id \in Live(s)
    PROVE  /\ id \in AllIDs /\ id \in Nat /\ id # 0
           /\ s.vars[id].owner \in Owners /\ s.vars[id].packed \in BOOLEAN
           /\ s.vars[id].refs \in Seq(Owners)
           /\ DOMAIN Elements(s, id) \subseteq Keys
           /\ Elements(s, id) = s.vars[id].elems
           /\ \A k \in DOMAIN Elements(s, id) :
                 /\ k \in Keys
                 /\ Elements(s, id)[k] \in IDs \cup Live(s) \cup {Other}
                 /\ Elements(s, id)[k] # Other => Elements(s, id)[k] \in Nat
<1>1. /\ IsArray(s.vars[id], IDs \cup Live(s)) /\ Live(s) \subseteq AllIDs
  BY DEF HeapType
<1> DEFINE a == s.vars[id]
<1>2. Elements(s, id) = a.elems
  BY DEF Elements
<1> HIDE DEF a
<1>3. /\ a.owner \in Owners /\ a.packed \in BOOLEAN /\ a.refs \in Seq(Owners)
      /\ DOMAIN a.elems \subseteq Keys
      /\ a.elems \in [DOMAIN a.elems -> IDs \cup Live(s) \cup {Other}]
  BY <1>1 DEF IsArray, a
<1>4. \A k \in DOMAIN a.elems : k \in Keys /\ a.elems[k] \in IDs \cup Live(s) \cup {Other}
  BY <1>3
<1>5. Live(s) \subseteq Nat /\ IDs \subseteq Nat /\ id \in AllIDs /\ id \in Nat /\ id # 0
  BY <1>1, IDsFacts DEF AllIDs
<1> QED
  BY <1>2, <1>3, <1>4, <1>5 DEF a

\* A heap has finitely many arrays.
LEMMA LiveIsFinite ==
    ASSUME NEW s, HeapType(s)
    PROVE  IsFiniteSet(Live(s)) /\ Live(s) \subseteq AllIDs
<1>1. PICK n \in Nat : Live(s) \subseteq 1 .. n
  BY DEF HeapType
<1>2. IsFiniteSet(1 .. n)
  BY FS_Interval
<1> QED
  BY <1>1, <1>2, FS_Subset DEF HeapType

\* So finitely many elements name one.
LEMMA SlotsAreFinite ==
    ASSUME NEW s, HeapType(s), NEW id, NEW c
    PROVE  IsFiniteSet(Slots(s, id, c)) /\ Cardinality(Slots(s, id, c)) \in Nat
<1>1. IsFiniteSet(Live(s) \X Keys)
  BY LiveIsFinite, KeysFacts, FS_Product
<1>2. Slots(s, id, c) \in SUBSET (Live(s) \X Keys)
  BY DEF Slots
<1> QED
  BY <1>1, <1>2, FS_Subset, FS_CardinalityType

\* References and the elements that account for them can be counted.
LEMMA SurplusType ==
    ASSUME NEW s, HeapType(s), NEW id, NEW c
    PROVE  /\ Refs(s, id, c) \in Nat
           /\ Surplus(s, id, c) \in Int
           /\ Surplus(s, id, c) <= Refs(s, id, c)
<1>1. Refs(s, id, c) \in Nat
  <2>1. CASE id \in Live(s)
    <3>1. s.vars[id].refs \in Seq(Owners)
      BY <2>1, ArrayFacts
    <3> QED
      BY <2>1, <3>1, OccurrencesType DEF Refs
  <2> QED
    BY <2>1 DEF Refs
<1> QED
  BY <1>1, SlotsAreFinite DEF Surplus

\* The counts are about the arrays, not what is queued, free or cached.
LEMMA SameArrays ==
    ASSUME NEW s, NEW t, t.vars = s.vars
    PROVE  /\ Live(t) = Live(s)
           /\ \A id : Elements(t, id) = Elements(s, id)
           /\ \A id, c : /\ Refs(t, id, c) = Refs(s, id, c)
                         /\ Slots(t, id, c) = Slots(s, id, c)
                         /\ Surplus(t, id, c) = Surplus(s, id, c)
<1>1. Live(t) = Live(s) /\ \A id : Elements(t, id) = Elements(s, id)
  BY DEF Live, Elements
<1>2. \A id, c : Refs(t, id, c) = Refs(s, id, c)
  BY <1>1 DEF Refs
<1>3. \A id, c : Slots(t, id, c) = Slots(s, id, c)
  BY <1>1 DEF Slots
<1> QED
  BY <1>1, <1>2, <1>3 DEF Surplus

\* A heap that is left alone keeps its counts.
LEMMA GrowsReflexive == ASSUME NEW s, HeapType(s) PROVE Grows(s, s)
BY SurplusType DEF Grows

\* Two changes that lose no reference lose none together.
LEMMA GrowsTransitive ==
    ASSUME NEW r, NEW s, NEW t, HeapType(r), HeapType(s), HeapType(t), Grows(r, s), Grows(s, t)
    PROVE  Grows(r, t)
<1>1. ASSUME NEW id \in AllIDs, NEW c \in SUBSET Owners
      PROVE  Surplus(t, id, c) >= Surplus(r, id, c)
  <2>1. Surplus(r, id, c) \in Int /\ Surplus(s, id, c) \in Int /\ Surplus(t, id, c) \in Int
    BY SurplusType
  <2>2. Surplus(t, id, c) >= Surplus(s, id, c) /\ Surplus(s, id, c) >= Surplus(r, id, c)
    BY DEF Grows
  <2> QED
    BY <2>1, <2>2
<1>2. ASSUME NonNeg(r)
      PROVE  \A id \in AllIDs, c \in SUBSET Owners : Surplus(t, id, c) = Surplus(r, id, c)
  <2>1. \A id \in AllIDs, c \in SUBSET Owners : Surplus(s, id, c) = Surplus(r, id, c)
    BY <1>2 DEF Grows
  <2>2. NonNeg(s)
    BY <1>2, <2>1 DEF NonNeg
  <2>3. \A id \in AllIDs, c \in SUBSET Owners : Surplus(t, id, c) = Surplus(s, id, c)
    BY <2>2 DEF Grows
  <2> QED
    BY <2>1, <2>3
<1> QED
  BY <1>1, <1>2 DEF Grows

\* A heap that is left alone keeps its arrays and counts.
LEMMA KeepsReflexive == ASSUME NEW s, HeapOK(s) PROVE Keeps(s, s)
BY GrowsReflexive DEF Keeps, Same, HeapOK

\* Two changes that keep the arrays keep them together.
LEMMA KeepsTransitive ==
    ASSUME NEW r, NEW s, NEW t, HeapOK(r), Keeps(r, s), Keeps(s, t)
    PROVE  Keeps(r, t)
<1>1. HeapOK(s) /\ HeapOK(t) /\ Same(r, s) /\ Same(s, t)
  BY DEF Keeps
<1>2. Same(r, t)
  BY <1>1 DEF Same
<1>3. Grows(r, t)
  BY <1>1, GrowsTransitive DEF Keeps, HeapOK
<1> QED
  BY <1>1, <1>2, <1>3 DEF Keeps

\* Get touches nothing but the cache.
LEMMA GetKeeps ==
    ASSUME NEW s, HeapOK(s), NEW id \in Nat
    PROVE  /\ Get(s, id).vars = s.vars /\ Get(s, id).tempVars = s.tempVars
           /\ Get(s, id).available = s.available
           /\ Keeps(s, Get(s, id))
           /\ id \in Live(s) => Get(s, id).cache.id = id
           /\ id \notin Live(s) => Get(s, id).cache = s.cache
<1> DEFINE t == Get(s, id)
<1>1. /\ t.vars = s.vars /\ t.tempVars = s.tempVars /\ t.available = s.available
      /\ t.cache \in {s.cache, [id |-> id, current |-> TRUE]}
      /\ t.cache # s.cache => id \in Live(s)
      /\ id \in Live(s) => t.cache.id = id
      /\ id \notin Live(s) => t.cache = s.cache
      /\ t.misled \in BOOLEAN
  <2>1. HeapRecord(s) /\ s.misled \in BOOLEAN /\ s.cache.current \in BOOLEAN /\ 0 \notin Live(s)
    BY DEF HeapOK, HeapType, AllIDs
  <2> QED
    BY <2>1 DEF Get, HeapRecord
<1>r. HeapRecord(t)
  <2>1. HeapRecord(s)
    BY DEF HeapOK, HeapType
  <2> QED
    BY <2>1 DEF Get, HeapRecord
<1> HIDE DEF t
<1>2. Live(t) = Live(s)
  BY <1>1 DEF Live
<1>3. HeapOK(t)
  <2>1. /\ IsMap(s.vars)
        /\ \A i \in Live(s) : IsArray(s.vars[i], IDs \cup Live(s))
        /\ Live(s) \subseteq AllIDs /\ s.available \subseteq AllIDs \cap IDs
        /\ s.cache \in [id : IDs \cup Live(s), current : BOOLEAN]
        /\ \E n \in Nat : Live(s) \subseteq 1 .. n
        /\ QueueOK(s) /\ s.available \cap Live(s) = {}
    BY DEF HeapOK, HeapType
  <2>2. t.cache \in [id : IDs \cup Live(s), current : BOOLEAN]
    <3>1. CASE t.cache = s.cache
      BY <2>1, <3>1
    <3>2. CASE t.cache = [id |-> id, current |-> TRUE] /\ id \in Live(s)
      BY <3>2
    <3> QED
      BY <1>1, <3>1, <3>2
  <2>3. HeapType(t)
    BY <1>1, <1>r, <1>2, <2>1, <2>2 DEF HeapType
  <2>4. QueueOK(t)
    BY <1>1, <1>2, <2>1 DEF QueueOK
  <2> QED
    BY <1>1, <1>2, <2>1, <2>3, <2>4 DEF HeapOK
<1>4. Same(s, t)
  BY <1>1, <1>2 DEF Same
<1>5. Grows(s, t)
  BY <1>1, SameArrays, GrowsReflexive DEF Grows, HeapOK
<1>6. GoodCache(s) => GoodCache(t)
  BY <1>1, <1>2 DEF GoodCache
<1> QED
  BY <1>1, <1>3, <1>4, <1>5, <1>6 DEF Keeps, t

-----------------------------------------------------------------------------
(* One array is changed.                                                   *)

\* The array h is now a, the queue q, what Get caches k.
WithArray(s, h, a, q) ==
    [vars |-> [s.vars EXCEPT ![h] = a], tempVars |-> q, available |-> s.available,
     cache |-> s.cache, misled |-> s.misled]

\* A heap with one array and its queue exchanged is a heap of the same arrays.
LEMMA WithArrayParts ==
    ASSUME NEW s, HeapType(s), NEW h \in Live(s), NEW a, IsArray(a, IDs \cup Live(s)), NEW q
    PROVE  LET t == WithArray(s, h, a, q) IN
           /\ HeapType(t) /\ Live(t) = Live(s)
           /\ t.available = s.available /\ t.cache = s.cache /\ t.tempVars = q
           /\ t.vars[h] = a
           /\ \A id \in Live(s) : id # h => t.vars[id] = s.vars[id]
<1> DEFINE t == WithArray(s, h, a, q)
<1>1. /\ t.vars = [s.vars EXCEPT ![h] = a] /\ t.tempVars = q
      /\ t.available = s.available /\ t.cache = s.cache /\ t.misled = s.misled
  BY DEF WithArray
<1>2. HeapRecord(t)
  BY DEF WithArray, HeapRecord
<1> HIDE DEF t
<1>3. IsMap(s.vars) /\ h \in DOMAIN s.vars
  BY DEF HeapType, Live
<1>4. DOMAIN t.vars = DOMAIN s.vars /\ IsMap(t.vars) /\ t.vars[h] = a
  BY <1>1, <1>3 DEF IsMap
<1>5. \A id \in DOMAIN s.vars : id # h => t.vars[id] = s.vars[id]
  BY <1>1, <1>3 DEF IsMap
<1>6. Live(t) = Live(s) /\ \A id \in Live(s) : id # h => t.vars[id] = s.vars[id]
  BY <1>4, <1>5 DEF Live
<1>7. /\ Live(s) \subseteq AllIDs /\ s.available \subseteq AllIDs
      /\ s.cache \in [id : IDs \cup Live(s), current : BOOLEAN]
      /\ s.misled \in BOOLEAN
      /\ \E n \in Nat : Live(s) \subseteq 1 .. n
      /\ \A id \in Live(s) : IsArray(s.vars[id], IDs \cup Live(s))
  BY DEF HeapType
<1>8. \A id \in Live(t) : IsArray(t.vars[id], IDs \cup Live(t))
  BY <1>4, <1>6, <1>7
<1>9. HeapType(t)
  BY <1>1, <1>2, <1>4, <1>6, <1>7, <1>8 DEF HeapType
<1> QED
  BY <1>1, <1>4, <1>6, <1>9 DEF t

\* An array with other references, or with other elements.
LEMMA ArrayWithRefs ==
    ASSUME NEW a, NEW N, IsArray(a, N), NEW r \in Seq(Owners)
    PROVE  LET b == [a EXCEPT !.refs = r] IN
           /\ IsArray(b, N) /\ b.owner = a.owner /\ b.packed = a.packed
           /\ b.refs = r /\ b.elems = a.elems
<1> DEFINE b == [a EXCEPT !.refs = r]
<1>1. a = [owner |-> a.owner, packed |-> a.packed, refs |-> a.refs, elems |-> a.elems]
  BY DEF IsArray, ArrayRecord
<1>2. /\ b = [owner |-> a.owner, packed |-> a.packed, refs |-> r, elems |-> a.elems]
  BY <1>1
<1> HIDE DEF b
<1>3. b.owner = a.owner /\ b.packed = a.packed /\ b.refs = r /\ b.elems = a.elems
  BY <1>2
<1>4. ArrayRecord(b)
  BY <1>2, <1>3 DEF ArrayRecord
<1>5. IsArray(b, N)
  BY <1>3, <1>4 DEF IsArray
<1> QED
  BY <1>3, <1>5 DEF b

\* An array with other elements is an array.
LEMMA ArrayWithElems ==
    ASSUME NEW a, NEW N, IsArray(a, N), NEW e, DOMAIN e \subseteq Keys,
           e \in [DOMAIN e -> N \cup {Other}]
    PROVE  LET b == [a EXCEPT !.elems = e] IN
           /\ IsArray(b, N) /\ b.owner = a.owner /\ b.packed = a.packed
           /\ b.refs = a.refs /\ b.elems = e
<1> DEFINE b == [a EXCEPT !.elems = e]
<1>1. a = [owner |-> a.owner, packed |-> a.packed, refs |-> a.refs, elems |-> a.elems]
  BY DEF IsArray, ArrayRecord
<1>2. /\ b = [owner |-> a.owner, packed |-> a.packed, refs |-> a.refs, elems |-> e]
  BY <1>1
<1> HIDE DEF b
<1>3. b.owner = a.owner /\ b.packed = a.packed /\ b.refs = a.refs /\ b.elems = e
  BY <1>2
<1>4. ArrayRecord(b)
  BY <1>2, <1>3 DEF ArrayRecord
<1>5. IsArray(b, N)
  BY <1>3, <1>4 DEF IsArray
<1> QED
  BY <1>3, <1>5 DEF b

\* The array h with the references r, queued for deletion if there are none.
WithRefs(s, h, r) ==
    WithArray(s, h, [s.vars[h] EXCEPT !.refs = r],
              IF r = <<>> THEN s.tempVars \cup {h} ELSE s.tempVars \ {h})

\* With other references an array names what it named, and only it is referred to
\* differently.
LEMMA WithRefsKeeps ==
    ASSUME NEW s, HeapOK(s), NEW h \in Live(s), NEW r \in Seq(Owners)
    PROVE  LET t == WithRefs(s, h, r) IN
           /\ HeapOK(t) /\ Same(s, t)
           /\ t.cache = s.cache /\ t.vars[h].refs = r
           /\ \A id \in Live(s) : Elements(t, id) = Elements(s, id)
           /\ \A id \in Live(s) : id # h => t.vars[id] = s.vars[id]
           /\ \A id, c : /\ Slots(t, id, c) = Slots(s, id, c)
                         /\ Refs(t, id, c) = IF id = h THEN Occurrences(r, c)
                                                       ELSE Refs(s, id, c)
<1> DEFINE a == s.vars[h]
           b == [a EXCEPT !.refs = r]
           q == IF r = <<>> THEN s.tempVars \cup {h} ELSE s.tempVars \ {h}
           t == WithArray(s, h, b, q)
<1>1. HeapType(s) /\ QueueOK(s) /\ s.available \cap Live(s) = {}
  BY DEF HeapOK
<1>2. IsArray(a, IDs \cup Live(s))
  BY <1>1 DEF HeapType
<1> HIDE DEF a
<1>3. /\ IsArray(b, IDs \cup Live(s)) /\ b.owner = a.owner /\ b.packed = a.packed
      /\ b.refs = r /\ b.elems = a.elems
  BY <1>2, ArrayWithRefs
<1> HIDE DEF b, q
<1>4. /\ HeapType(t) /\ Live(t) = Live(s)
      /\ t.available = s.available /\ t.cache = s.cache /\ t.tempVars = q
      /\ t.vars[h] = b
      /\ \A id \in Live(s) : id # h => t.vars[id] = s.vars[id]
  BY <1>1, <1>3, WithArrayParts
<1> HIDE DEF t
<1>5. QueueOK(t)
  BY <1>1, <1>3, <1>4 DEF QueueOK, q
<1>6. \A id \in Live(s) : /\ t.vars[id].owner = s.vars[id].owner
                          /\ t.vars[id].packed = s.vars[id].packed
                          /\ t.vars[id].elems = s.vars[id].elems
  BY <1>3, <1>4 DEF a
<1>7. Same(s, t)
  BY <1>4, <1>6 DEF Same
<1>8. \A id \in Live(s) : Elements(t, id) = Elements(s, id)
  BY <1>6 DEF Elements
<1>9. \A id, c : Slots(t, id, c) = Slots(s, id, c)
  BY <1>4, <1>6, <1>8 DEF Slots
<1>10. \A id, c : Refs(t, id, c) = IF id = h THEN Occurrences(r, c) ELSE Refs(s, id, c)
  BY <1>3, <1>4 DEF Refs
<1>11. HeapOK(t)
  BY <1>1, <1>4, <1>5 DEF HeapOK
<1>12. t = WithRefs(s, h, r)
  BY DEF WithRefs, t, b, q, a
<1>13. t.vars[h].refs = r
  BY <1>3, <1>4
<1> HIDE DEF Slots, Refs, Same, Elements
<1> QED
  BY <1>4, <1>7, <1>8, <1>9, <1>10, <1>11, <1>12, <1>13

\* MarkTemporary touches the queue only.
LEMMA MarkTemporaryIs ==
    ASSUME NEW s, HeapRecord(s), NEW h, NEW b \in BOOLEAN
    PROVE  LET t == MarkTemporary(s, h, b) IN
           /\ HeapRecord(t) /\ t.vars = s.vars /\ t.available = s.available
           /\ t.cache = s.cache /\ t.misled = s.misled
           /\ t.tempVars = IF b THEN s.tempVars \cup {h} ELSE s.tempVars \ {h}
<1> DEFINE q == IF b THEN s.tempVars \cup {h} ELSE s.tempVars \ {h}
           t == MarkTemporary(s, h, b)
<1>1. s = [vars |-> s.vars, tempVars |-> s.tempVars, available |-> s.available,
           cache |-> s.cache, misled |-> s.misled]
  BY DEF HeapRecord
<1>2. t = [s EXCEPT !.tempVars = q]
  BY <1>1 DEF MarkTemporary
<1> HIDE DEF t, q
<1>3. t = [vars |-> s.vars, tempVars |-> q, available |-> s.available,
           cache |-> s.cache, misled |-> s.misled]
  BY <1>1, <1>2
<1>4. HeapRecord(t)
  BY <1>3 DEF HeapRecord
<1> QED
  BY <1>3, <1>4 DEF t, q

\* The assignment to the references of one array.
LEMMA RefsExcept ==
    ASSUME NEW s, HeapRecord(s), NEW h, NEW r
    PROVE  [s EXCEPT !.vars[h].refs = r]
               = WithArray(s, h, [s.vars[h] EXCEPT !.refs = r], s.tempVars)
<1> DEFINE a == [s.vars[h] EXCEPT !.refs = r]
           v == [s.vars EXCEPT ![h] = a]
<1>1. s = [vars |-> s.vars, tempVars |-> s.tempVars, available |-> s.available,
           cache |-> s.cache, misled |-> s.misled]
  BY DEF HeapRecord
<1>2. [s EXCEPT !.vars[h].refs = r] = [s EXCEPT !.vars = v]
  OBVIOUS
<1> HIDE DEF v
<1>3. [s EXCEPT !.vars = v] =
          [vars |-> v, tempVars |-> s.tempVars, available |-> s.available,
           cache |-> s.cache, misled |-> s.misled]
  BY <1>1
<1> QED
  BY <1>2, <1>3 DEF WithArray, v, a

\* What RemoveReference writes: the queue and the references of one array.
LEMMA MarkedExcept ==
    ASSUME NEW s, HeapRecord(s), NEW h, NEW r
    PROVE  /\ r = <<>> => [MarkTemporary(s, h, TRUE) EXCEPT !.vars[h].refs = r] = WithRefs(s, h, r)
           /\ r # <<>> => [MarkTemporary(s, h, FALSE) EXCEPT !.vars[h].refs = r] = WithRefs(s, h, r)
<1> SUFFICES ASSUME NEW b \in BOOLEAN, b = (r = <<>>)
             PROVE  [MarkTemporary(s, h, b) EXCEPT !.vars[h].refs = r] = WithRefs(s, h, r)
  OBVIOUS
<1> DEFINE w == MarkTemporary(s, h, b)
           q == IF b THEN s.tempVars \cup {h} ELSE s.tempVars \ {h}
<1>1. /\ HeapRecord(w) /\ w.vars = s.vars /\ w.available = s.available
      /\ w.cache = s.cache /\ w.misled = s.misled /\ w.tempVars = q
  BY MarkTemporaryIs
<1> HIDE DEF w
<1>2. [w EXCEPT !.vars[h].refs = r] = WithArray(w, h, [w.vars[h] EXCEPT !.refs = r], w.tempVars)
  BY <1>1, RefsExcept
<1>3. WithArray(w, h, [w.vars[h] EXCEPT !.refs = r], w.tempVars)
          = WithArray(s, h, [s.vars[h] EXCEPT !.refs = r], q)
  BY <1>1 DEF WithArray
<1>4. q = IF r = <<>> THEN s.tempVars \cup {h} ELSE s.tempVars \ {h}
  OBVIOUS
<1> HIDE DEF q
<1> QED
  BY <1>2, <1>3, <1>4, Zenon DEF WithRefs, w

\* What RemoveReference does.
LEMMA RemoveReferenceIs ==
    ASSUME NEW s, HeapOK(s), NEW h \in Nat, NEW mod
    PROVE  RemoveReference(s, h, mod) =
               IF h \in Live(s)
               THEN WithRefs(Get(s, h), h, RemoveFirst(s.vars[h].refs, mod))
               ELSE Get(s, h)
<1> DEFINE g == Get(s, h)
           refs == RemoveFirst(s.vars[h].refs, mod)
<1>1. g.vars = s.vars /\ Live(g) = Live(s) /\ HeapOK(g)
  BY GetKeeps DEF Keeps, Same
<1>2. CASE h \notin Live(s)
  BY <1>1, <1>2 DEF RemoveReference
<1>3. CASE h \in Live(s)
  <2>2. HeapRecord(g)
    BY <1>1 DEF HeapOK, HeapType
  <2>3. refs # <<>> => g.tempVars \ {h} = g.tempVars
    <3>1. s.vars[h].refs \in Seq(Owners)
      BY <1>3, ArrayFacts DEF HeapOK
    <3>2. s.vars[h].refs = <<>> => refs = <<>>
      <4>1. RemoveFirst(<<>>, mod) = <<>>
        BY DEF RemoveFirst
      <4> QED
        BY <4>1
    <3>3. s.vars[h].refs # <<>> => h \notin g.tempVars
      BY <1>1 DEF HeapOK, QueueOK
    <3> QED
      BY <3>2, <3>3
  <2> DEFINE marked == MarkTemporary(g, h, TRUE)
  <2>4. CASE refs = <<>>
    <3>1. RemoveReference(s, h, mod) = [marked EXCEPT !.vars[h].refs = <<>>]
      BY <1>1, <1>3, <2>4 DEF RemoveReference
    <3>2. [marked EXCEPT !.vars[h].refs = <<>>] = WithRefs(g, h, <<>>)
      BY <2>2, MarkedExcept
    <3> HIDE DEF g, refs, marked
    <3>3. RemoveReference(s, h, mod) = WithRefs(g, h, refs)
      BY <3>1, <3>2, <2>4
    <3> QED
      BY <1>3, <3>3 DEF g, refs
  <2>5. CASE refs # <<>>
    <3>1. RemoveReference(s, h, mod) = [g EXCEPT !.vars[h].refs = refs]
      BY <1>1, <1>3, <2>5 DEF RemoveReference
    <3>2. [g EXCEPT !.vars[h].refs = refs]
              = WithArray(g, h, [g.vars[h] EXCEPT !.refs = refs], g.tempVars)
      BY <2>2, RefsExcept
    <3> HIDE DEF g, refs
    <3>3. RemoveReference(s, h, mod) = WithRefs(g, h, refs)
      BY <3>1, <3>2, <2>3, <2>5 DEF WithRefs
    <3> QED
      BY <1>3, <3>3 DEF g, refs
  <2> QED
    BY <2>4, <2>5
<1> QED
  BY <1>2, <1>3

\* What AddReference does to a reference that refers to nothing.
LEMMA AddReferenceIs ==
    ASSUME NEW s, HeapOK(s), NEW id \in Nat, NEW mod \in Owners
    PROVE  AddReference(s, 0, id, mod) =
               IF id \in Live(s)
               THEN WithRefs(Get(s, id), id, Append(s.vars[id].refs, mod))
               ELSE Get(s, id)
<1> DEFINE g == Get(s, id)
<1>1. g.vars = s.vars /\ Live(g) = Live(s) /\ HeapOK(g)
  BY GetKeeps DEF Keeps, Same
<1>2. CASE id = 0
  <2>1. id \notin Live(s) /\ g = s
    BY <1>2 DEF HeapOK, HeapType, AllIDs, Get
  <2> QED
    BY <1>2, <2>1 DEF AddReference
<1>3. CASE id # 0 /\ id \notin Live(s)
  BY <1>1, <1>3 DEF AddReference
<1>4. CASE id # 0 /\ id \in Live(s)
  <2>1. AddReference(s, 0, id, mod) =
            [MarkTemporary(g, id, FALSE) EXCEPT !.vars[id].refs = Append(s.vars[id].refs, mod)]
    <3>1. MarkTemporary(g, id, FALSE).vars = g.vars
      BY <1>1, MarkTemporaryIs DEF HeapOK, HeapType
    <3>2. AddReference(s, 0, id, mod) =
            [MarkTemporary(g, id, FALSE) EXCEPT !.vars[id].refs = Append(@, mod)]
      BY <1>1, <1>4 DEF AddReference
    <3> QED
      BY <1>1, <3>1, <3>2
  <2>2. HeapRecord(g)
    BY <1>1 DEF HeapOK, HeapType
  <2>3. Append(s.vars[id].refs, mod) # <<>>
    <3>1. s.vars[id].refs \in Seq(Owners)
      BY <1>4, ArrayFacts DEF HeapOK
    <3> QED
      BY <3>1
  <2> DEFINE r == Append(s.vars[id].refs, mod)
  <2>4. r # <<>>
    BY <2>3
  <2> HIDE DEF g, r
  <2>5. [MarkTemporary(g, id, FALSE) EXCEPT !.vars[id].refs = r] = WithRefs(g, id, r)
    BY <2>2, <2>4, MarkedExcept
  <2> QED
    BY <1>4, <2>1, <2>5 DEF g, r
<1> QED
  BY <1>2, <1>3, <1>4

-----------------------------------------------------------------------------
(* References.                                                             *)

\* t is s without one reference to h recorded for mod, if there was one.
Released(s, t, h, mod) ==
    /\ HeapOK(t) /\ Same(s, t) /\ (GoodCache(s) => GoodCache(t))
    /\ t.cache = s.cache \/ (h \in Live(s) /\ t.cache.id = h)
    /\ h \in Live(s) => t.cache.id = h
    /\ s.tempVars \subseteq t.tempVars
    /\ \A id \in Live(s) : Elements(t, id) = Elements(s, id)
    /\ \A id, c : Slots(t, id, c) = Slots(s, id, c)
    /\ \A id \in AllIDs, c \in SUBSET Owners :
          /\ Surplus(t, id, c) >= Surplus(s, id, c) - (IF id = h /\ mod \in c THEN 1 ELSE 0)
          /\ Refs(s, h, {mod}) >= 1 =>
                Surplus(t, id, c) = Surplus(s, id, c) - (IF id = h /\ mod \in c THEN 1 ELSE 0)

\* ArrayVar::RemoveReference takes one reference of the mod, if there is one.
LEMMA RemoveReferenceReleases ==
    ASSUME NEW s, HeapOK(s), NEW h \in Nat, NEW mod \in Owners
    PROVE  Released(s, RemoveReference(s, h, mod), h, mod)
<1> DEFINE g == Get(s, h)
           t == RemoveReference(s, h, mod)
<1>1. /\ g.vars = s.vars /\ g.tempVars = s.tempVars /\ Keeps(s, g)
      /\ h \in Live(s) => g.cache.id = h
      /\ h \notin Live(s) => g.cache = s.cache
  BY GetKeeps
<1>2. /\ Live(g) = Live(s) /\ \A id : Elements(g, id) = Elements(s, id)
      /\ \A id, c : /\ Refs(g, id, c) = Refs(s, id, c)
                    /\ Slots(g, id, c) = Slots(s, id, c)
                    /\ Surplus(g, id, c) = Surplus(s, id, c)
  BY <1>1, SameArrays
<1>3. HeapOK(g) /\ Same(s, g) /\ (GoodCache(s) => GoodCache(g)) /\ HeapType(s)
  BY <1>1 DEF Keeps, HeapOK
<1>4. \A id, c : Surplus(s, id, c) \in Int /\ Refs(s, id, c) \in Nat
  BY <1>3, SurplusType
<1>5. CASE h \notin Live(s)
  <2>1. t = g
    BY <1>5, RemoveReferenceIs
  <2>2. Refs(s, h, {mod}) = 0
    BY <1>5 DEF Refs
  <2>3. \A id \in AllIDs, c \in SUBSET Owners :
           Surplus(g, id, c) >= Surplus(s, id, c) - (IF id = h /\ mod \in c THEN 1 ELSE 0)
    BY <1>2, <1>4
  <2> HIDE DEF g, t
  <2>4. Released(s, g, h, mod)
    BY <1>1, <1>2, <1>3, <1>5, <2>2, <2>3 DEF Released
  <2> QED
    BY <2>1, <2>4 DEF t
<1>6. CASE h \in Live(s)
  <2> DEFINE old == s.vars[h].refs
             new == RemoveFirst(old, mod)
             w == WithRefs(g, h, new)
  <2>1. t = w
    BY <1>6, RemoveReferenceIs
  <2>2. old \in Seq(Owners)
    BY <1>3, <1>6, ArrayFacts
  <2>3. new \in Seq(Owners)
    BY <2>2, RemoveFirstType
  <2> HIDE DEF new, old
  <2>4. /\ HeapOK(w) /\ Same(g, w)
        /\ w.cache = g.cache /\ w.vars[h].refs = new
        /\ \A id \in Live(g) : Elements(w, id) = Elements(g, id)
        /\ \A id \in Live(g) : id # h => w.vars[id] = g.vars[id]
        /\ \A id, c : /\ Slots(w, id, c) = Slots(g, id, c)
                      /\ Refs(w, id, c) = IF id = h THEN Occurrences(new, c)
                                                    ELSE Refs(g, id, c)
    BY <1>2, <1>3, <1>6, <2>3, WithRefsKeeps
  <2> HIDE DEF w
  <2>5. Same(s, w) /\ Live(w) = Live(s)
    BY <1>3, <2>4 DEF Same
  <2>6. GoodCache(s) => GoodCache(w)
    BY <1>2, <1>3, <2>4, <2>5 DEF GoodCache
  <2>7. s.tempVars \subseteq w.tempVars
    <3>1. old = <<>> => new = <<>>
      <4>1. RemoveFirst(<<>>, mod) = <<>>
        BY DEF RemoveFirst
      <4> QED
        BY <4>1 DEF new
    <3>2. \A id \in Live(s) : s.vars[id].refs = <<>> => w.vars[id].refs = <<>>
      BY <1>1, <1>2, <2>4, <3>1 DEF old
    <3> QED
      BY <2>4, <2>5, <3>2 DEF HeapOK, QueueOK
  <2>8. \A c : Occurrences(old, c) = Refs(s, h, c) /\ Occurrences(old, c) \in Nat
    BY <1>4, <1>6 DEF Refs, old
  <2>9. \A c : Occurrences(new, c) = Occurrences(old, c)
                  - (IF mod \in c /\ \E i \in 1 .. Len(old) : old[i] = mod THEN 1 ELSE 0)
    BY <2>2, OccurrencesOfRemoveFirst DEF new
  <2>10. Refs(s, h, {mod}) >= 1 => \E i \in 1 .. Len(old) : old[i] = mod
    <3>1. Occurrences(old, {mod}) = 0 <=> \A i \in 1 .. Len(old) : old[i] \notin {mod}
      BY <2>2, OccurrencesType
    <3> QED
      BY <2>8, <3>1
  <2>11. ASSUME NEW id \in AllIDs, NEW c \in SUBSET Owners
         PROVE  /\ Surplus(w, id, c) >= Surplus(s, id, c) - (IF id = h /\ mod \in c THEN 1 ELSE 0)
                /\ Refs(s, h, {mod}) >= 1 =>
                      Surplus(w, id, c) = Surplus(s, id, c) - (IF id = h /\ mod \in c THEN 1 ELSE 0)
    <3> DEFINE card == Cardinality(Slots(s, id, c))
    <3>1. card \in Nat
      BY <1>3, SlotsAreFinite
    <3>2. Surplus(s, id, c) = Refs(s, id, c) - card
      BY DEF Surplus
    <3>3. Surplus(w, id, c) = Refs(w, id, c) - card
      BY <1>2, <2>4 DEF Surplus
    <3> HIDE DEF card
    <3>4. CASE id = h
      <4>1. Refs(w, id, c) = Occurrences(new, c) /\ Refs(s, id, c) = Occurrences(old, c)
        BY <2>4, <2>8, <3>4
      <4>2. Occurrences(old, c) \in Nat
        BY <2>8
      <4>3. Occurrences(new, c) = Occurrences(old, c)
                  - (IF mod \in c /\ \E i \in 1 .. Len(old) : old[i] = mod THEN 1 ELSE 0)
        BY <2>9
      <4> QED
        BY <2>10, <3>1, <3>2, <3>3, <3>4, <4>1, <4>2, <4>3
    <3>5. CASE id # h
      <4>1. Refs(w, id, c) = Refs(s, id, c) /\ Refs(s, id, c) \in Nat
        BY <1>2, <1>4, <2>4, <3>5
      <4> QED
        BY <3>1, <3>2, <3>3, <3>5, <4>1
    <3> QED
      BY <3>4, <3>5
  <2>12. \A id \in Live(s) : Elements(w, id) = Elements(s, id)
    BY <1>2, <2>4
  <2>13. \A id, c : Slots(w, id, c) = Slots(s, id, c)
    BY <1>2, <2>4
  <2>14. w.cache.id = h
    BY <1>1, <1>6, <2>4
  <2> HIDE DEF g, t
  <2>15. Released(s, w, h, mod)
    BY <1>6, <2>4, <2>5, <2>6, <2>7, <2>11, <2>12, <2>13, <2>14 DEF Released
  <2> QED
    BY <2>1, <2>15 DEF t
<1> QED
  BY <1>5, <1>6

\* t is s with one more reference to h, of mod, if h is there.
Acquired(s, t, h, mod) ==
    /\ HeapOK(t) /\ Same(s, t) /\ (GoodCache(s) => GoodCache(t))
    /\ \A id \in Live(s) : Elements(t, id) = Elements(s, id)
    /\ \A id, c : Slots(t, id, c) = Slots(s, id, c)
    /\ \A id \in AllIDs, c \in SUBSET Owners :
          Surplus(t, id, c) =
              Surplus(s, id, c) + (IF id = h /\ h \in Live(s) /\ mod \in c THEN 1 ELSE 0)

\* ArrayVarMap::AddReference adds one of the mod, if the array exists.
LEMMA AddReferenceAcquires ==
    ASSUME NEW s, HeapOK(s), NEW h \in Nat, NEW mod \in Owners
    PROVE  Acquired(s, AddReference(s, 0, h, mod), h, mod)
<1> DEFINE g == Get(s, h)
           t == AddReference(s, 0, h, mod)
<1>1. g.vars = s.vars /\ Keeps(s, g)
  BY GetKeeps
<1>2. /\ Live(g) = Live(s) /\ \A id : Elements(g, id) = Elements(s, id)
      /\ \A id, c : /\ Refs(g, id, c) = Refs(s, id, c)
                    /\ Slots(g, id, c) = Slots(s, id, c)
                    /\ Surplus(g, id, c) = Surplus(s, id, c)
  BY <1>1, SameArrays
<1>3. HeapOK(g) /\ Same(s, g) /\ (GoodCache(s) => GoodCache(g)) /\ HeapType(s)
  BY <1>1 DEF Keeps, HeapOK
<1>4. \A id, c : Surplus(s, id, c) \in Int /\ Refs(s, id, c) \in Nat
  BY <1>3, SurplusType
<1>5. CASE h \notin Live(s)
  <2>1. t = g
    BY <1>5, AddReferenceIs
  <2>3. \A id \in AllIDs, c \in SUBSET Owners :
           Surplus(g, id, c) = Surplus(s, id, c)
               + (IF id = h /\ h \in Live(s) /\ mod \in c THEN 1 ELSE 0)
    BY <1>2, <1>4, <1>5
  <2> HIDE DEF g, t
  <2>4. Acquired(s, g, h, mod)
    BY <1>2, <1>3, <2>3 DEF Acquired
  <2> QED
    BY <2>1, <2>4 DEF t
<1>6. CASE h \in Live(s)
  <2> DEFINE old == s.vars[h].refs
             new == Append(old, mod)
             w == WithRefs(g, h, new)
  <2>1. t = w
    BY <1>6, AddReferenceIs
  <2>2. old \in Seq(Owners)
    BY <1>3, <1>6, ArrayFacts
  <2>3. new \in Seq(Owners)
    BY <2>2
  <2> HIDE DEF new, old
  <2>4. /\ HeapOK(w) /\ Same(g, w)
        /\ w.cache = g.cache
        /\ \A id \in Live(g) : Elements(w, id) = Elements(g, id)
        /\ \A id, c : /\ Slots(w, id, c) = Slots(g, id, c)
                      /\ Refs(w, id, c) = IF id = h THEN Occurrences(new, c)
                                                    ELSE Refs(g, id, c)
    BY <1>2, <1>3, <1>6, <2>3, WithRefsKeeps
  <2> HIDE DEF w
  <2>5. Same(s, w) /\ Live(w) = Live(s)
    BY <1>3, <2>4 DEF Same
  <2>6. GoodCache(s) => GoodCache(w)
    BY <1>2, <1>3, <2>4, <2>5 DEF GoodCache
  <2>8. \A c : Occurrences(old, c) = Refs(s, h, c) /\ Occurrences(old, c) \in Nat
    BY <1>4, <1>6 DEF Refs, old
  <2>9. \A c : Occurrences(new, c) = Occurrences(old, c) + (IF mod \in c THEN 1 ELSE 0)
    BY <2>2, OccurrencesOfAppend DEF new
  <2>11. ASSUME NEW id \in AllIDs, NEW c \in SUBSET Owners
         PROVE  Surplus(w, id, c) = Surplus(s, id, c)
                    + (IF id = h /\ h \in Live(s) /\ mod \in c THEN 1 ELSE 0)
    <3> DEFINE card == Cardinality(Slots(s, id, c))
    <3>1. card \in Nat
      BY <1>3, SlotsAreFinite
    <3>2. Surplus(s, id, c) = Refs(s, id, c) - card
      BY DEF Surplus
    <3>3. Surplus(w, id, c) = Refs(w, id, c) - card
      BY <1>2, <2>4 DEF Surplus
    <3> HIDE DEF card
    <3>4. CASE id = h
      <4>1. Refs(w, id, c) = Occurrences(new, c) /\ Refs(s, id, c) = Occurrences(old, c)
        BY <2>4, <2>8, <3>4
      <4>2. Occurrences(old, c) \in Nat
            /\ Occurrences(new, c) = Occurrences(old, c) + (IF mod \in c THEN 1 ELSE 0)
        BY <2>8, <2>9
      <4> QED
        BY <1>6, <3>1, <3>2, <3>3, <3>4, <4>1, <4>2
    <3>5. CASE id # h
      <4>1. Refs(w, id, c) = Refs(s, id, c) /\ Refs(s, id, c) \in Nat
        BY <1>2, <1>4, <2>4, <3>5
      <4> QED
        BY <3>1, <3>2, <3>3, <3>5, <4>1
    <3> QED
      BY <3>4, <3>5
  <2>12. \A id \in Live(s) : Elements(w, id) = Elements(s, id)
    BY <1>2, <2>4
  <2>13. \A id, c : Slots(w, id, c) = Slots(s, id, c)
    BY <1>2, <2>4
  <2> HIDE DEF g, t
  <2>15. Acquired(s, w, h, mod)
    BY <2>4, <2>5, <2>6, <2>11, <2>12, <2>13 DEF Acquired
  <2> QED
    BY <2>1, <2>15 DEF t
<1> QED
  BY <1>5, <1>6

-----------------------------------------------------------------------------
(* Elements.                                                               *)

\* One, if the element under the key of h, of a mod of the class, names id.
Names(s, h, key, id, c) == IF <<h, key>> \in Slots(s, id, c) THEN 1 ELSE 0

\* The assignment to the elements of one array.
LEMMA ElemsExcept ==
    ASSUME NEW s, HeapRecord(s), NEW h, NEW e
    PROVE  [s EXCEPT !.vars[h].elems = e]
               = WithArray(s, h, [s.vars[h] EXCEPT !.elems = e], s.tempVars)
<1> DEFINE a == [s.vars[h] EXCEPT !.elems = e]
           v == [s.vars EXCEPT ![h] = a]
<1>1. s = [vars |-> s.vars, tempVars |-> s.tempVars, available |-> s.available,
           cache |-> s.cache, misled |-> s.misled]
  BY DEF HeapRecord
<1>2. [s EXCEPT !.vars[h].elems = e] = [s EXCEPT !.vars = v]
  OBVIOUS
<1> HIDE DEF v
<1>3. [s EXCEPT !.vars = v] =
          [vars |-> v, tempVars |-> s.tempVars, available |-> s.available,
           cache |-> s.cache, misled |-> s.misled]
  BY <1>1
<1> QED
  BY <1>2, <1>3 DEF WithArray, v, a

\* t is s with other elements in h.
WithElems(s, h, e) == WithArray(s, h, [s.vars[h] EXCEPT !.elems = e], s.tempVars)

\* With other elements an array is referred to as before.
LEMMA WithElemsKeeps ==
    ASSUME NEW s, HeapOK(s), NEW h \in Live(s), NEW e, DOMAIN e \subseteq Keys,
           e \in [DOMAIN e -> IDs \cup Live(s) \cup {Other}]
    PROVE  LET t == WithElems(s, h, e) IN
           /\ HeapOK(t) /\ Same(s, t)
           /\ t.cache = s.cache /\ t.tempVars = s.tempVars
           /\ Elements(t, h) = e
           /\ \A id \in Live(s) : id # h => Elements(t, id) = Elements(s, id)
           /\ \A id, c : Refs(t, id, c) = Refs(s, id, c)
<1> DEFINE a == s.vars[h]
           b == [a EXCEPT !.elems = e]
           q == s.tempVars
           t == WithArray(s, h, b, q)
<1>1. HeapType(s) /\ QueueOK(s) /\ s.available \cap Live(s) = {}
  BY DEF HeapOK
<1>2. IsArray(a, IDs \cup Live(s))
  BY <1>1 DEF HeapType
<1> HIDE DEF a
<1>3. /\ IsArray(b, IDs \cup Live(s)) /\ b.owner = a.owner /\ b.packed = a.packed
      /\ b.refs = a.refs /\ b.elems = e
  BY <1>2, ArrayWithElems
<1> HIDE DEF b, q
<1>4. /\ HeapType(t) /\ Live(t) = Live(s)
      /\ t.available = s.available /\ t.cache = s.cache /\ t.tempVars = q
      /\ t.vars[h] = b
      /\ \A id \in Live(s) : id # h => t.vars[id] = s.vars[id]
  BY <1>1, <1>3, WithArrayParts
<1> HIDE DEF t
<1>6. \A id \in Live(s) : /\ t.vars[id].owner = s.vars[id].owner
                          /\ t.vars[id].packed = s.vars[id].packed
                          /\ t.vars[id].refs = s.vars[id].refs
  BY <1>3, <1>4 DEF a
<1>5. QueueOK(t)
  BY <1>1, <1>4, <1>6 DEF QueueOK, q
<1>7. Same(s, t)
  BY <1>4, <1>6 DEF Same
<1>8. \A id \in Live(s) : id # h => Elements(t, id) = Elements(s, id)
  BY <1>4 DEF Elements
<1>9. Elements(t, h) = e
  BY <1>3, <1>4 DEF Elements
<1>10. \A id, c : Refs(t, id, c) = Refs(s, id, c)
  BY <1>4, <1>6 DEF Refs
<1>11. HeapOK(t)
  BY <1>1, <1>4, <1>5 DEF HeapOK
<1>12. t = WithElems(s, h, e)
  BY DEF WithElems, t, b, q, a
<1>13. t.tempVars = s.tempVars
  BY <1>4 DEF q
<1> HIDE DEF Slots, Refs, Same, Elements
<1> QED
  BY <1>4, <1>7, <1>8, <1>9, <1>10, <1>11, <1>12, <1>13

\* What an element that goes, or comes, changes in the counts.
LEMMA SlotTaken ==
    ASSUME NEW s, HeapType(s), NEW t, HeapType(t), NEW id, NEW c, NEW h, NEW key,
           Refs(t, id, c) = Refs(s, id, c),
           Slots(t, id, c) = Slots(s, id, c) \ {<<h, key>>}
    PROVE  Surplus(t, id, c) = Surplus(s, id, c) + Names(s, h, key, id, c)
<1> DEFINE S == Slots(s, id, c)
           T == Slots(t, id, c)
           p == <<h, key>>
<1>1. IsFiniteSet(S) /\ Cardinality(S) \in Nat /\ Refs(s, id, c) \in Nat
  BY SlotsAreFinite, SurplusType
<1>2. T = S \ {p}
  OBVIOUS
<1> HIDE DEF S, T, p
<1>3. Cardinality(T) = IF p \in S THEN Cardinality(S) - 1 ELSE Cardinality(S)
  BY <1>1, <1>2, FS_RemoveElement
<1>4. Surplus(s, id, c) = Refs(s, id, c) - Cardinality(S)
      /\ Surplus(t, id, c) = Refs(s, id, c) - Cardinality(T)
  BY DEF Surplus, S, T
<1>5. Names(s, h, key, id, c) = IF p \in S THEN 1 ELSE 0
  BY DEF Names, p, S
<1> QED
  BY <1>1, <1>3, <1>4, <1>5

\* An element that now names an array takes one reference from what is left over.
LEMMA SlotGiven ==
    ASSUME NEW s, HeapType(s), NEW t, HeapType(t), NEW id, NEW c, NEW h, NEW key,
           Refs(t, id, c) = Refs(s, id, c),
           Slots(t, id, c) = Slots(s, id, c) \cup {<<h, key>>}
    PROVE  Surplus(t, id, c) = Surplus(s, id, c) + Names(s, h, key, id, c) - 1
<1> DEFINE S == Slots(s, id, c)
           T == Slots(t, id, c)
           p == <<h, key>>
<1>1. IsFiniteSet(S) /\ Cardinality(S) \in Nat /\ Refs(s, id, c) \in Nat
  BY SlotsAreFinite, SurplusType
<1>2. T = S \cup {p}
  OBVIOUS
<1> HIDE DEF S, T, p
<1>3. Cardinality(T) = IF p \in S THEN Cardinality(S) ELSE Cardinality(S) + 1
  BY <1>1, <1>2, FS_AddElement
<1>4. Surplus(s, id, c) = Refs(s, id, c) - Cardinality(S)
      /\ Surplus(t, id, c) = Refs(s, id, c) - Cardinality(T)
  BY DEF Surplus, S, T
<1>5. Names(s, h, key, id, c) = IF p \in S THEN 1 ELSE 0
  BY DEF Names, p, S
<1> QED
  BY <1>1, <1>3, <1>4, <1>5

\* What Names counts: the one element, if it names the array.
LEMMA NamesMeans ==
    ASSUME NEW s, HeapType(s), NEW h \in Live(s), NEW key, NEW id, NEW c
    PROVE  Names(s, h, key, id, c) =
               IF key \in DOMAIN Elements(s, h) /\ Elements(s, h)[key] = id
                  /\ s.vars[h].owner \in c
               THEN 1 ELSE 0
<1>1. key \in DOMAIN Elements(s, h) => key \in Keys
  BY ArrayFacts
<1>2. <<h, key>> \in Slots(s, id, c) <=>
          key \in DOMAIN Elements(s, h) /\ Elements(s, h)[key] = id /\ s.vars[h].owner \in c
  BY <1>1 DEF Slots
<1> QED
  BY <1>2 DEF Names

\* The element is erased from the map.
LEMMA WithoutKeyTakes ==
    ASSUME NEW s, HeapOK(s), NEW h \in Live(s), NEW key
    PROVE  LET t == WithoutKey(s, h, key) IN
           /\ HeapOK(t) /\ Same(s, t)
           /\ t.cache = s.cache /\ t.tempVars = s.tempVars
           /\ Elements(t, h) = Restrict(Elements(s, h), DOMAIN Elements(s, h) \ {key})
           /\ \A id \in Live(s) : id # h => Elements(t, id) = Elements(s, id)
           /\ \A id, c : Surplus(t, id, c) = Surplus(s, id, c) + Names(s, h, key, id, c)
<1> DEFINE old == s.vars[h].elems
           e == Restrict(old, DOMAIN old \ {key})
           t == WithElems(s, h, e)
<1>1. HeapType(s) /\ HeapRecord(s)
  BY DEF HeapOK, HeapType
<1>2. WithoutKey(s, h, key) = t
  <2>1. WithoutKey(s, h, key) = [s EXCEPT !.vars[h].elems = e]
    BY DEF WithoutKey
  <2> HIDE DEF e
  <2> QED
    BY <1>1, <2>1, ElemsExcept DEF WithElems
<1>3. DOMAIN old \subseteq Keys /\ Elements(s, h) = old
      /\ \A k \in DOMAIN old : old[k] \in IDs \cup Live(s) \cup {Other}
  BY <1>1, ArrayFacts
<1> HIDE DEF old
<1>4. DOMAIN e = DOMAIN old \ {key} /\ \A k \in DOMAIN e : e[k] = old[k]
  BY DEF Restrict
<1>5. e \in [DOMAIN e -> IDs \cup Live(s) \cup {Other}]
  BY <1>3 DEF Restrict
<1>6. DOMAIN e \subseteq Keys
  BY <1>3, <1>4
<1>7. e = Restrict(Elements(s, h), DOMAIN Elements(s, h) \ {key})
  BY <1>3
<1> HIDE DEF e
<1>8. /\ HeapOK(t) /\ Same(s, t)
      /\ t.cache = s.cache /\ t.tempVars = s.tempVars
      /\ Elements(t, h) = e
      /\ \A id \in Live(s) : id # h => Elements(t, id) = Elements(s, id)
      /\ \A id, c : Refs(t, id, c) = Refs(s, id, c)
  BY <1>5, <1>6, WithElemsKeeps
<1> HIDE DEF t
<1>9. Live(t) = Live(s) /\ \A id \in Live(s) : t.vars[id].owner = s.vars[id].owner
  BY <1>8 DEF Same
<1>10. ASSUME NEW id, NEW c
       PROVE  Slots(t, id, c) = Slots(s, id, c) \ {<<h, key>>}
  <2>1. ASSUME NEW g \in Live(s), NEW k \in Keys
        PROVE  <<g, k>> \in Slots(t, id, c)
                   <=> <<g, k>> \in Slots(s, id, c) /\ <<g, k>> # <<h, key>>
    <3>1. CASE g = h
      <4>1. k \in DOMAIN e /\ e[k] = id <=> k \in DOMAIN old /\ old[k] = id /\ k # key
        BY <1>4
      <4>2. <<g, k>> \in Slots(t, id, c) <=>
                k \in DOMAIN e /\ e[k] = id /\ s.vars[h].owner \in c
        BY <1>8, <1>9, <3>1 DEF Slots
      <4>3. <<g, k>> \in Slots(s, id, c) <=>
                k \in DOMAIN old /\ old[k] = id /\ s.vars[h].owner \in c
        BY <1>3, <3>1 DEF Slots
      <4> QED
        BY <3>1, <4>1, <4>2, <4>3
    <3>2. CASE g # h
      BY <1>8, <1>9, <3>2 DEF Slots
    <3> QED
      BY <3>1, <3>2
  <2>2. Slots(t, id, c) \subseteq Live(s) \X Keys /\ Slots(s, id, c) \subseteq Live(s) \X Keys
    BY <1>9 DEF Slots
  <2> QED
    BY <2>1, <2>2
<1>11. \A id, c : Surplus(t, id, c) = Surplus(s, id, c) + Names(s, h, key, id, c)
  BY <1>1, <1>8, <1>10, SlotTaken DEF HeapOK
<1> QED
  BY <1>2, <1>7, <1>8, <1>11

\* t is s with the element x of h under the key.
KeyGiven(s, t, h, key, x) ==
    /\ HeapOK(t) /\ Same(s, t)
    /\ t.cache = s.cache /\ t.tempVars = s.tempVars
    /\ DOMAIN Elements(t, h) = DOMAIN Elements(s, h) \cup {key}
    /\ \A id \in Live(s) : id # h => Elements(t, id) = Elements(s, id)
    /\ \A id, c : Surplus(t, id, c) =
           Surplus(s, id, c) + Names(s, h, key, id, c)
               - (IF x = id /\ s.vars[h].owner \in c THEN 1 ELSE 0)

\* An element that is set to an array's id, or to none, accounts for one more.
LEMMA WithKeyGives ==
    ASSUME NEW s, HeapOK(s), NEW h \in Live(s), NEW key \in Keys,
           NEW x \in {0} \cup Live(s) \cup {Other}
    PROVE  KeyGiven(s, [s EXCEPT !.vars[h].elems = With(@, key, x)], h, key, x)
<1> DEFINE old == s.vars[h].elems
           e == With(old, key, x)
           t == WithElems(s, h, e)
<1>1. HeapType(s) /\ HeapRecord(s)
  BY DEF HeapOK, HeapType
<1>2. [s EXCEPT !.vars[h].elems = With(@, key, x)] = t
  <2>1. [s EXCEPT !.vars[h].elems = With(@, key, x)] = [s EXCEPT !.vars[h].elems = e]
    OBVIOUS
  <2> HIDE DEF e
  <2> QED
    BY <1>1, <2>1, ElemsExcept DEF WithElems
<1>3. DOMAIN old \subseteq Keys /\ Elements(s, h) = old
      /\ \A k \in DOMAIN old : old[k] \in IDs \cup Live(s) \cup {Other}
  BY <1>1, ArrayFacts
<1> HIDE DEF old
<1>4. DOMAIN e = DOMAIN old \cup {key}
      /\ \A k \in DOMAIN e : e[k] = IF k = key THEN x ELSE old[k]
  BY DEF With
<1>5. e \in [DOMAIN e -> IDs \cup Live(s) \cup {Other}]
  BY <1>3, IDsFacts DEF With
<1>6. DOMAIN e \subseteq Keys
  BY <1>3, <1>4
<1> HIDE DEF e
<1>8. /\ HeapOK(t) /\ Same(s, t)
      /\ t.cache = s.cache /\ t.tempVars = s.tempVars
      /\ Elements(t, h) = e
      /\ \A id \in Live(s) : id # h => Elements(t, id) = Elements(s, id)
      /\ \A id, c : Refs(t, id, c) = Refs(s, id, c)
  BY <1>5, <1>6, WithElemsKeeps
<1> HIDE DEF t
<1>9. Live(t) = Live(s) /\ \A id \in Live(s) : t.vars[id].owner = s.vars[id].owner
  BY <1>8 DEF Same
<1>10. ASSUME NEW id, NEW c
       PROVE  Slots(t, id, c) = IF x = id /\ s.vars[h].owner \in c
                                THEN Slots(s, id, c) \cup {<<h, key>>}
                                ELSE Slots(s, id, c) \ {<<h, key>>}
  <2>1. ASSUME NEW g \in Live(s), NEW k \in Keys
        PROVE  <<g, k>> \in Slots(t, id, c)
                   <=> IF <<g, k>> = <<h, key>> THEN x = id /\ s.vars[h].owner \in c
                                                ELSE <<g, k>> \in Slots(s, id, c)
    <3>1. CASE g = h
      <4>1. k \in DOMAIN e /\ e[k] = id <=>
                IF k = key THEN x = id ELSE k \in DOMAIN old /\ old[k] = id
        BY <1>4
      <4>2. <<g, k>> \in Slots(t, id, c) <=>
                k \in DOMAIN e /\ e[k] = id /\ s.vars[h].owner \in c
        BY <1>8, <1>9, <3>1 DEF Slots
      <4>3. <<g, k>> \in Slots(s, id, c) <=>
                k \in DOMAIN old /\ old[k] = id /\ s.vars[h].owner \in c
        BY <1>3, <3>1 DEF Slots
      <4> QED
        BY <3>1, <4>1, <4>2, <4>3
    <3>2. CASE g # h
      BY <1>8, <1>9, <3>2 DEF Slots
    <3> QED
      BY <3>1, <3>2
  <2>2. Slots(t, id, c) \subseteq Live(s) \X Keys /\ Slots(s, id, c) \subseteq Live(s) \X Keys
    BY <1>9 DEF Slots
  <2>3. <<h, key>> \in Live(s) \X Keys
    OBVIOUS
  <2>4. CASE x = id /\ s.vars[h].owner \in c
    BY <2>1, <2>2, <2>3, <2>4
  <2>5. CASE ~(x = id /\ s.vars[h].owner \in c)
    BY <2>1, <2>2, <2>3, <2>5
  <2> QED
    BY <2>4, <2>5
<1>11. ASSUME NEW id, NEW c
       PROVE  Surplus(t, id, c) = Surplus(s, id, c) + Names(s, h, key, id, c)
                      - (IF x = id /\ s.vars[h].owner \in c THEN 1 ELSE 0)
  <2>1. HeapType(t) /\ Refs(t, id, c) = Refs(s, id, c)
    BY <1>8 DEF HeapOK
  <2>2. Surplus(s, id, c) \in Int /\ Names(s, h, key, id, c) \in Int
    BY <1>1, SurplusType DEF Names
  <2>3. CASE x = id /\ s.vars[h].owner \in c
    <3>1. Slots(t, id, c) = Slots(s, id, c) \cup {<<h, key>>}
      BY <1>10, <2>3
    <3> QED
      BY <1>1, <2>1, <2>2, <2>3, <3>1, SlotGiven
  <2>4. CASE ~(x = id /\ s.vars[h].owner \in c)
    <3>1. Slots(t, id, c) = Slots(s, id, c) \ {<<h, key>>}
      BY <1>10, <2>4
    <3>2. Surplus(t, id, c) = Surplus(s, id, c) + Names(s, h, key, id, c)
      BY <1>1, <2>1, <3>1, SlotTaken
    <3> QED
      BY <2>2, <2>4, <3>2
  <2> QED
    BY <2>3, <2>4
<1>12. DOMAIN Elements(t, h) = DOMAIN Elements(s, h) \cup {key}
  BY <1>3, <1>4, <1>8
<1>13. KeyGiven(s, t, h, key, x)
  BY <1>8, <1>11, <1>12 DEF KeyGiven
<1> HIDE DEF t
<1> QED
  BY <1>2, <1>13

-----------------------------------------------------------------------------
(* Elements give up their references and get others.                       *)

\* u is s without the reference of the element under the key of h, which is
\* there still.
ElementReleased(s, u, h, key) ==
    /\ HeapOK(u) /\ Same(s, u) /\ (GoodCache(s) => GoodCache(u))
    /\ Elements(s, h)[key] = Other => u.cache = s.cache
    /\ Elements(s, h)[key] \in Live(s) => u.cache.id = Elements(s, h)[key]
    /\ s.tempVars \subseteq u.tempVars
    /\ \A id \in Live(s) : Elements(u, id) = Elements(s, id)
    /\ \A id, c : Slots(u, id, c) = Slots(s, id, c)
    /\ \A id \in AllIDs, c \in SUBSET Owners :
          /\ Surplus(u, id, c) >= Surplus(s, id, c) - Names(s, h, key, id, c)
          /\ NonNeg(s) => Surplus(u, id, c) = Surplus(s, id, c) - Names(s, h, key, id, c)

\* An element that names an array has a reference to it.
LEMMA NamedIsReferred ==
    ASSUME NEW s, HeapOK(s), NonNeg(s), NEW h \in Live(s), NEW key \in DOMAIN Elements(s, h),
           Elements(s, h)[key] \in AllIDs
    PROVE  Refs(s, Elements(s, h)[key], {s.vars[h].owner}) >= 1
<1> DEFINE v == Elements(s, h)[key]
           o == s.vars[h].owner
           S == Slots(s, v, {o})
<1>1. HeapType(s) /\ o \in Owners /\ key \in Keys
  BY ArrayFacts DEF HeapOK
<1>2. IsFiniteSet(S) /\ Cardinality(S) \in Nat /\ Refs(s, v, {o}) \in Nat
  BY <1>1, SlotsAreFinite, SurplusType
<1>3. <<h, key>> \in S
  BY <1>1 DEF Slots
<1>4. Cardinality(S) >= 1
  <2> HIDE DEF S
  <2>1. Cardinality(S) # 0
    BY <1>2, <1>3, FS_EmptySet
  <2> QED
    BY <1>2, <2>1
<1>5. Surplus(s, v, {o}) >= 0
  BY <1>1 DEF NonNeg
<1>6. Surplus(s, v, {o}) = Refs(s, v, {o}) - Cardinality(S)
  BY DEF Surplus
<1> HIDE DEF S, v, o
<1>7. Refs(s, v, {o}) >= 1
  BY <1>2, <1>4, <1>5, <1>6
<1> QED
  BY <1>7 DEF v, o

\* There is nothing to look up for id 0.
LEMMA GetOfNone == ASSUME NEW s PROVE Get(s, 0) = s
BY DEF Get

\* ArrayElement::Unset gives up the reference that the element accounted for.
LEMMA UnsetReleases ==
    ASSUME NEW s, HeapOK(s), NEW h \in Live(s), NEW key \in DOMAIN Elements(s, h)
    PROVE  ElementReleased(s, Unset(s, h, Elements(s, h)[key]), h, key)
<1> DEFINE v == Elements(s, h)[key]
           o == s.vars[h].owner
           g == Get(s, h)
           u == Unset(s, h, v)
<1>1. /\ HeapType(s) /\ o \in Owners /\ key \in Keys /\ h \in Nat
      /\ v \in IDs \cup Live(s) \cup {Other}
      /\ v # Other => v \in Nat
  BY ArrayFacts DEF HeapOK
<1>2. \A id, c : Surplus(s, id, c) \in Int
  BY <1>1, SurplusType
<1>3. \A id, c : Names(s, h, key, id, c) = IF v = id /\ o \in c THEN 1 ELSE 0
  BY <1>1, NamesMeans
<1>4. CASE v = Other
  <2>1. u = s
    BY <1>4 DEF Unset
  <2>2. \A id \in AllIDs : \A c : Names(s, h, key, id, c) = 0
    BY <1>3, <1>4, OtherAssumption DEF AllIDs
  <2>3. v \notin Live(s)
    BY <1>1, <1>4, OtherAssumption DEF HeapType, AllIDs
  <2>4. Same(s, s)
    BY DEF Same
  <2>5. \A id \in AllIDs, c \in SUBSET Owners :
          /\ Surplus(s, id, c) >= Surplus(s, id, c) - Names(s, h, key, id, c)
          /\ Surplus(s, id, c) = Surplus(s, id, c) - Names(s, h, key, id, c)
    BY <1>2, <2>2
  <2>6. ElementReleased(s, s, h, key)
    BY <2>3, <2>4, <2>5 DEF ElementReleased
  <2> QED
    BY <2>1, <2>6
<1>5. CASE v # Other
  <2> DEFINE w == RemoveReference(g, v, o)
  <2>1. u = w
    BY <1>5 DEF Unset, OwningModIndex
  <2>2. g.vars = s.vars /\ g.tempVars = s.tempVars /\ Keeps(s, g)
    BY <1>1, GetKeeps
  <2>3. /\ Live(g) = Live(s) /\ \A id : Elements(g, id) = Elements(s, id)
        /\ \A id, c : /\ Refs(g, id, c) = Refs(s, id, c)
                      /\ Slots(g, id, c) = Slots(s, id, c)
                      /\ Surplus(g, id, c) = Surplus(s, id, c)
    BY <2>2, SameArrays
  <2>4. HeapOK(g) /\ Same(s, g) /\ (GoodCache(s) => GoodCache(g))
    BY <2>2 DEF Keeps
  <2>5. Released(g, w, v, o)
    BY <1>1, <1>5, <2>4, RemoveReferenceReleases
  <2> HIDE DEF g, w, v, o
  <2>6. /\ HeapOK(w) /\ Same(g, w) /\ (GoodCache(g) => GoodCache(w))
        /\ v \in Live(g) => w.cache.id = v
        /\ g.tempVars \subseteq w.tempVars
        /\ \A id \in Live(g) : Elements(w, id) = Elements(g, id)
        /\ \A id, c : Slots(w, id, c) = Slots(g, id, c)
    BY <2>5 DEF Released
  <2>7. Same(s, w)
    BY <2>4, <2>6 DEF Same
  <2>8. ASSUME NEW id \in AllIDs, NEW c \in SUBSET Owners
        PROVE  /\ Surplus(w, id, c) >= Surplus(s, id, c) - Names(s, h, key, id, c)
               /\ NonNeg(s) => Surplus(w, id, c) = Surplus(s, id, c) - Names(s, h, key, id, c)
    <3>1. Names(s, h, key, id, c) = IF id = v /\ o \in c THEN 1 ELSE 0
      BY <1>3
    <3>2. Surplus(w, id, c) >= Surplus(s, id, c) - (IF id = v /\ o \in c THEN 1 ELSE 0)
      BY <2>3, <2>5 DEF Released
    <3>3. Refs(s, v, {o}) >= 1 =>
             Surplus(w, id, c) = Surplus(s, id, c) - (IF id = v /\ o \in c THEN 1 ELSE 0)
      BY <2>3, <2>5 DEF Released
    <3>4. NonNeg(s) /\ v \in AllIDs => Refs(s, v, {o}) >= 1
      BY NamedIsReferred DEF v, o
    <3>5. CASE v \in AllIDs
      BY <3>1, <3>2, <3>3, <3>4, <3>5
    <3>6. CASE v \notin AllIDs
      <4>1. v = 0 /\ v \notin Live(g)
        BY <1>1, <1>5, <2>3, <3>6 DEF AllIDs, HeapType
      <4>2. id # v
        BY <3>6
      <4>3. w = g
        <5>1. w = Get(g, v)
          BY <1>1, <1>5, <2>4, <4>1, RemoveReferenceIs DEF w
        <5> QED
          BY <4>1, <5>1, GetOfNone
      <4>4. Surplus(w, id, c) = Surplus(s, id, c)
        BY <2>3, <4>3
      <4> QED
        BY <1>2, <3>1, <4>2, <4>4
    <3> QED
      BY <3>5, <3>6
  <2>9. ElementReleased(s, w, h, key)
    BY <1>5, <2>2, <2>3, <2>4, <2>6, <2>7, <2>8 DEF ElementReleased, v
  <2> QED
    BY <2>1, <2>9 DEF v
<1> QED
  BY <1>4, <1>5

\* t is s without the element.
KeyUnset(s, t, h, key) ==
    /\ Keeps(s, t)
    /\ Elements(s, h)[key] = Other => t.cache = s.cache
    /\ Elements(s, h)[key] \in Live(s) => t.cache.id = Elements(s, h)[key]
    /\ s.tempVars \subseteq t.tempVars
    /\ Elements(t, h) = Restrict(Elements(s, h), DOMAIN Elements(s, h) \ {key})
    /\ \A id \in Live(s) : id # h => Elements(t, id) = Elements(s, id)

\* An element that is unset and erased accounts for nothing, and its reference is
\* gone.
LEMMA UnsetElementKeeps ==
    ASSUME NEW s, HeapOK(s), NEW h \in Live(s), NEW key \in DOMAIN Elements(s, h)
    PROVE  KeyUnset(s, UnsetElement(s, h, key), h, key)
<1> DEFINE u == Unset(s, h, Elements(s, h)[key])
           t == WithoutKey(u, h, key)
<1>1. ElementReleased(s, u, h, key)
  BY UnsetReleases
<1>2. UnsetElement(s, h, key) = t
  BY DEF UnsetElement
<1> HIDE DEF u
<1>3. /\ HeapOK(u) /\ Same(s, u) /\ (GoodCache(s) => GoodCache(u))
      /\ Elements(s, h)[key] = Other => u.cache = s.cache
      /\ Elements(s, h)[key] \in Live(s) => u.cache.id = Elements(s, h)[key]
      /\ s.tempVars \subseteq u.tempVars
      /\ \A id \in Live(s) : Elements(u, id) = Elements(s, id)
      /\ \A id, c : Slots(u, id, c) = Slots(s, id, c)
  BY <1>1 DEF ElementReleased
<1>4. Live(u) = Live(s)
  BY <1>3 DEF Same
<1>5. /\ HeapOK(t) /\ Same(u, t)
      /\ t.cache = u.cache /\ t.tempVars = u.tempVars
      /\ Elements(t, h) = Restrict(Elements(u, h), DOMAIN Elements(u, h) \ {key})
      /\ \A id \in Live(u) : id # h => Elements(t, id) = Elements(u, id)
      /\ \A id, c : Surplus(t, id, c) = Surplus(u, id, c) + Names(u, h, key, id, c)
  BY <1>3, <1>4, WithoutKeyTakes
<1> HIDE DEF t
<1>6. \A id, c : Names(u, h, key, id, c) = Names(s, h, key, id, c)
                 /\ Names(s, h, key, id, c) \in Int
  BY <1>3 DEF Names
<1>7. Same(s, t) /\ Live(t) = Live(s)
  BY <1>3, <1>5 DEF Same
<1>8. GoodCache(s) => GoodCache(t)
  BY <1>3, <1>4, <1>5, <1>7 DEF GoodCache
<1>9. ASSUME NEW id \in AllIDs, NEW c \in SUBSET Owners
      PROVE  /\ Surplus(t, id, c) >= Surplus(s, id, c)
             /\ NonNeg(s) => Surplus(t, id, c) = Surplus(s, id, c)
  <2>1. Surplus(u, id, c) \in Int /\ Surplus(s, id, c) \in Int
    BY <1>3, SurplusType DEF HeapOK
  <2>2. Names(s, h, key, id, c) \in Int /\ Names(u, h, key, id, c) = Names(s, h, key, id, c)
    BY <1>6
  <2>3. Surplus(t, id, c) = Surplus(u, id, c) + Names(u, h, key, id, c)
    BY <1>5
  <2>4. /\ Surplus(u, id, c) >= Surplus(s, id, c) - Names(s, h, key, id, c)
        /\ NonNeg(s) => Surplus(u, id, c) = Surplus(s, id, c) - Names(s, h, key, id, c)
    BY <1>1 DEF ElementReleased
  <2> QED
    BY <2>1, <2>2, <2>3, <2>4
<1>10. Grows(s, t)
  BY <1>9 DEF Grows
<1>11. Keeps(s, t)
  BY <1>5, <1>7, <1>8, <1>10 DEF Keeps
<1>12. KeyUnset(s, t, h, key)
  BY <1>3, <1>4, <1>5, <1>11 DEF KeyUnset
<1> QED
  BY <1>2, <1>12

\* t is s with another element, or one more, in h.
KeySet(s, t, h, key) ==
    /\ Keeps(s, t)
    /\ DOMAIN Elements(s, h) \subseteq DOMAIN Elements(t, h)
    /\ DOMAIN Elements(t, h) \subseteq DOMAIN Elements(s, h) \cup {key}
    /\ \A id \in Live(s) : id # h => Elements(t, id) = Elements(s, id)

\* The place of the element, whether there is one yet or not, has no reference.
Vacant(s, u, h, key) ==
    /\ HeapOK(u) /\ Same(s, u) /\ (GoodCache(s) => GoodCache(u))
    /\ \A id \in Live(s) : Elements(u, id) = Elements(s, id)
    /\ \A id, c : Slots(u, id, c) = Slots(s, id, c)
    /\ \A id \in AllIDs, c \in SUBSET Owners :
          /\ Surplus(u, id, c) >= Surplus(s, id, c) - Names(s, h, key, id, c)
          /\ NonNeg(s) => Surplus(u, id, c) = Surplus(s, id, c) - Names(s, h, key, id, c)

\* Before an element is set it is looked up and unset.
LEMMA VacantIs ==
    ASSUME NEW s, HeapOK(s), NEW h \in Live(s), NEW key
    PROVE  LET g == Get(s, h) IN
           Vacant(s, IF key \in DOMAIN Elements(s, h)
                     THEN Unset(g, h, Elements(s, h)[key]) ELSE g, h, key)
<1> DEFINE g == Get(s, h)
           u == Unset(g, h, Elements(g, h)[key])
<1>1. h \in Nat /\ HeapType(s)
  BY ArrayFacts DEF HeapOK
<1>2. g.vars = s.vars /\ Keeps(s, g)
  BY <1>1, GetKeeps
<1>3. /\ Live(g) = Live(s) /\ \A id : Elements(g, id) = Elements(s, id)
      /\ \A id, c : /\ Refs(g, id, c) = Refs(s, id, c)
                    /\ Slots(g, id, c) = Slots(s, id, c)
                    /\ Surplus(g, id, c) = Surplus(s, id, c)
  BY <1>2, SameArrays
<1>4. HeapOK(g) /\ Same(s, g) /\ (GoodCache(s) => GoodCache(g))
  BY <1>2 DEF Keeps
<1>5. \A id, c : Names(g, h, key, id, c) = Names(s, h, key, id, c)
  BY <1>3 DEF Names
<1>6. NonNeg(s) => NonNeg(g)
  BY <1>3 DEF NonNeg
<1>7. CASE key \in DOMAIN Elements(s, h)
  <2>1. ElementReleased(g, u, h, key)
    BY <1>3, <1>4, <1>7, UnsetReleases
  <2> HIDE DEF g, u
  <2>2. /\ HeapOK(u) /\ Same(g, u) /\ (GoodCache(g) => GoodCache(u))
        /\ \A id \in Live(g) : Elements(u, id) = Elements(g, id)
        /\ \A id, c : Slots(u, id, c) = Slots(g, id, c)
    BY <2>1 DEF ElementReleased
  <2>3. Same(s, u)
    BY <1>4, <2>2 DEF Same
  <2>4. \A id \in AllIDs, c \in SUBSET Owners :
          /\ Surplus(u, id, c) >= Surplus(s, id, c) - Names(s, h, key, id, c)
          /\ NonNeg(s) => Surplus(u, id, c) = Surplus(s, id, c) - Names(s, h, key, id, c)
    BY <1>3, <1>5, <1>6, <2>1 DEF ElementReleased
  <2>5. Vacant(s, u, h, key)
    BY <1>3, <1>4, <2>2, <2>3, <2>4 DEF Vacant
  <2>6. u = Unset(g, h, Elements(s, h)[key])
    BY <1>3 DEF u
  <2> QED
    BY <1>7, <2>5, <2>6 DEF g
<1>8. CASE key \notin DOMAIN Elements(s, h)
  <2> HIDE DEF g
  <2>1. \A id, c : Names(s, h, key, id, c) = 0
    BY <1>1, <1>8, NamesMeans
  <2>2. \A id, c : Surplus(s, id, c) \in Int
    BY <1>1, SurplusType
  <2>3. \A id \in AllIDs, c \in SUBSET Owners :
          /\ Surplus(g, id, c) >= Surplus(s, id, c) - Names(s, h, key, id, c)
          /\ NonNeg(s) => Surplus(g, id, c) = Surplus(s, id, c) - Names(s, h, key, id, c)
    BY <1>3, <2>1, <2>2
  <2>4. Vacant(s, g, h, key)
    BY <1>3, <1>4, <2>3 DEF Vacant
  <2> QED
    BY <1>8, <2>4 DEF g
<1> QED
  BY <1>7, <1>8

\* ArrayVar::SetElement leaves every reference accounted for as before, the one
\* it adds included.
LEMMA SetElementKeeps ==
    ASSUME NEW s, HeapOK(s), NEW h \in Live(s), NEW key \in Keys, NEW value \in Nat \cup {Other}
    PROVE  KeySet(s, SetElement(s, h, key, value), h, key)
<1> DEFINE may == s.vars[h].packed => key <= Cardinality(DOMAIN Elements(s, h))
           g == Get(s, h)
           old == IF key \in DOMAIN Elements(s, h)
                  THEN Unset(g, h, Elements(s, h)[key]) ELSE g
           o == s.vars[h].owner
           new == IF value = Other THEN old ELSE AddReference(old, 0, value, o)
           x == IF value = Other THEN Other ELSE Held(old, value)
           t == [new EXCEPT !.vars[h].elems = With(@, key, x)]
<1>1. /\ h \in Nat /\ HeapType(s) /\ o \in Owners
  BY ArrayFacts DEF HeapOK
<1>2. SetElement(s, h, key, value) = IF ~may THEN g ELSE t
  BY DEF SetElement
<1>3. Vacant(s, old, h, key)
  BY VacantIs
<1>4. CASE ~may
  <2>1. g.vars = s.vars /\ Keeps(s, g)
    BY <1>1, GetKeeps
  <2>2. \A id : Elements(g, id) = Elements(s, id)
    BY <2>1, SameArrays
  <2> HIDE DEF g
  <2>3. KeySet(s, g, h, key)
    BY <2>1, <2>2 DEF KeySet
  <2> QED
    BY <1>2, <1>4, <2>3
<1>5. CASE may
  <2> HIDE DEF old, o
  <2>1. /\ HeapOK(old) /\ Same(s, old) /\ (GoodCache(s) => GoodCache(old))
        /\ \A id \in Live(s) : Elements(old, id) = Elements(s, id)
        /\ \A id, c : Slots(old, id, c) = Slots(s, id, c)
    BY <1>3 DEF Vacant
  <2>2. Live(old) = Live(s) /\ HeapType(old)
    BY <2>1 DEF Same, HeapOK
  <2>3. /\ HeapOK(new) /\ Same(old, new) /\ (GoodCache(old) => GoodCache(new))
        /\ \A id \in Live(s) : Elements(new, id) = Elements(old, id)
        /\ \A id, c : Slots(new, id, c) = Slots(old, id, c)
        /\ \A id \in AllIDs, c \in SUBSET Owners :
              Surplus(new, id, c) = Surplus(old, id, c)
                  + (IF x = id /\ o \in c THEN 1 ELSE 0)
    <3>1. CASE value = Other
      <4>1. \A id \in AllIDs : x # id
        BY <3>1, OtherAssumption DEF AllIDs
      <4>2. new = old
        BY <3>1
      <4>3. \A id, c : Surplus(old, id, c) \in Int
        BY <2>2, SurplusType
      <4>4. Same(old, old)
        BY DEF Same
      <4> HIDE DEF new, x
      <4> QED
        BY <2>1, <2>2, <4>1, <4>2, <4>3, <4>4
    <3>2. CASE value # Other
      <4>1. new = AddReference(old, 0, value, o) /\ x = Held(old, value)
        BY <3>2
      <4>2. Acquired(old, new, value, o)
        BY <1>1, <2>1, <3>2, <4>1, AddReferenceAcquires
      <4>3. \A id \in AllIDs : x = id <=> id = value /\ value \in Live(old)
        BY <4>1 DEF Held, AllIDs
      <4> HIDE DEF new, x
      <4>4. ASSUME NEW id \in AllIDs, NEW c \in SUBSET Owners
            PROVE  Surplus(new, id, c) = Surplus(old, id, c)
                       + (IF x = id /\ o \in c THEN 1 ELSE 0)
        <5>1. Surplus(new, id, c) = Surplus(old, id, c)
                 + (IF id = value /\ value \in Live(old) /\ o \in c THEN 1 ELSE 0)
          BY <4>2 DEF Acquired
        <5> QED
          BY <4>3, <5>1
      <4> QED
        BY <2>2, <4>2, <4>4 DEF Acquired
    <3> QED
      BY <3>1, <3>2
  <2>4. x \in {0} \cup Live(s) \cup {Other}
    BY <2>2 DEF Held
  <2> HIDE DEF new, x
  <2>5. Same(s, new) /\ Live(new) = Live(s) /\ (GoodCache(s) => GoodCache(new))
    BY <2>1, <2>3 DEF Same
  <2>6. new.vars[h].owner = o
    BY <2>5 DEF Same, o
  <2>7. /\ HeapOK(t) /\ Same(new, t)
        /\ t.cache = new.cache /\ t.tempVars = new.tempVars
        /\ DOMAIN Elements(t, h) = DOMAIN Elements(new, h) \cup {key}
        /\ \A id \in Live(new) : id # h => Elements(t, id) = Elements(new, id)
        /\ \A id, c : Surplus(t, id, c) =
               Surplus(new, id, c) + Names(new, h, key, id, c)
                   - (IF x = id /\ new.vars[h].owner \in c THEN 1 ELSE 0)
    <3>1. KeyGiven(new, t, h, key, x)
      BY <2>3, <2>4, <2>5, WithKeyGives
    <3> HIDE DEF t
    <3> QED
      BY <3>1 DEF KeyGiven
  <2> HIDE DEF t
  <2>8. Same(s, t) /\ Live(t) = Live(s)
    BY <2>5, <2>7 DEF Same
  <2>9. GoodCache(s) => GoodCache(t)
    BY <2>5, <2>7, <2>8 DEF GoodCache
  <2>10. ASSUME NEW id \in AllIDs, NEW c \in SUBSET Owners
         PROVE  /\ Surplus(t, id, c) >= Surplus(s, id, c)
                /\ NonNeg(s) => Surplus(t, id, c) = Surplus(s, id, c)
    <3>1. Surplus(old, id, c) \in Int /\ Surplus(s, id, c) \in Int
      BY <1>1, <2>2, SurplusType
    <3>2. Names(new, h, key, id, c) = Names(s, h, key, id, c)
          /\ Names(s, h, key, id, c) \in Int
      BY <2>1, <2>3 DEF Names
    <3>3. Surplus(t, id, c) = Surplus(new, id, c) + Names(new, h, key, id, c)
                                  - (IF x = id /\ o \in c THEN 1 ELSE 0)
      BY <2>6, <2>7
    <3>4. Surplus(new, id, c) = Surplus(old, id, c) + (IF x = id /\ o \in c THEN 1 ELSE 0)
      BY <2>3
    <3>5. /\ Surplus(old, id, c) >= Surplus(s, id, c) - Names(s, h, key, id, c)
          /\ NonNeg(s) => Surplus(old, id, c) = Surplus(s, id, c) - Names(s, h, key, id, c)
      BY <1>3 DEF Vacant
    <3> QED
      BY <3>1, <3>2, <3>3, <3>4, <3>5
  <2>11. Grows(s, t)
    BY <2>10 DEF Grows
  <2>12. Keeps(s, t)
    BY <2>7, <2>8, <2>9, <2>11 DEF Keeps
  <2>13. Elements(new, h) = Elements(s, h)
         /\ \A id \in Live(s) : Elements(new, id) = Elements(s, id)
    BY <2>1, <2>3
  <2>14. KeySet(s, t, h, key)
    BY <2>5, <2>7, <2>12, <2>13 DEF KeySet
  <2> QED
    BY <1>2, <1>5, <2>14
<1> QED
  BY <1>4, <1>5

-----------------------------------------------------------------------------
(* New arrays, and their ids.                                              *)

\* t is s with a new array, that is queued for deletion.
Created(s, t, id) ==
    /\ HeapOK(t) /\ Live(t) = Live(s) \cup {id} /\ (GoodCache(s) => GoodCache(t))
    /\ \A i \in Live(s) : Elements(t, i) = Elements(s, i)
    /\ DOMAIN Elements(t, id) = {}
    /\ \A i, c : Surplus(t, i, c) = Surplus(s, i, c)

\* An array is made without references and elements.
LEMMA NewArrayIs ==
    ASSUME NEW mod \in Owners, NEW packed \in BOOLEAN, NEW N
    PROVE  /\ IsArray(NewArray(mod, packed), N)
           /\ NewArray(mod, packed).refs = <<>>
           /\ DOMAIN NewArray(mod, packed).elems = {}
<1> DEFINE a == NewArray(mod, packed)
           e == [k \in {} |-> 0]
<1>1. a = [owner |-> mod, packed |-> packed, refs |-> <<>>, elems |-> e]
  BY DEF NewArray
<1>2. DOMAIN e = {} /\ e \in [{} -> N \cup {Other}]
  OBVIOUS
<1> HIDE DEF a, e
<1>3. a.owner = mod /\ a.packed = packed /\ a.refs = <<>> /\ a.elems = e
  BY <1>1
<1>4. ArrayRecord(a)
  BY <1>1, <1>3 DEF ArrayRecord
<1>5. DOMAIN a.elems = {} /\ a.elems \in [DOMAIN a.elems -> N \cup {Other}]
  BY <1>2, <1>3
<1>6. <<>> \in Seq(Owners)
  OBVIOUS
<1>7. IsArray(a, N)
  BY <1>3, <1>4, <1>5, <1>6 DEF IsArray
<1> QED
  BY <1>3, <1>5, <1>7 DEF a

\* t is s with the variable a under the id, queued.
Inserted(s, t, id, a) ==
    /\ HeapRecord(t) /\ t.vars = With(s.vars, id, a)
    /\ t.tempVars = s.tempVars \cup {id} /\ t.available = s.available
    /\ t.cache = Outdated(s.cache, id) /\ t.misled = s.misled

\* What the insertion writes.
LEMMA InsertIs ==
    ASSUME NEW s, HeapRecord(s), NEW id, NEW a
    PROVE  Inserted(s, MarkTemporary(Insert(s, id, a), id, TRUE), id, a)
<1> DEFINE v == With(s.vars, id, a)
           k == Outdated(s.cache, id)
           i == Insert(s, id, a)
           t == MarkTemporary(i, id, TRUE)
<1>1. s = [vars |-> s.vars, tempVars |-> s.tempVars, available |-> s.available,
           cache |-> s.cache, misled |-> s.misled]
  BY DEF HeapRecord
<1>2. i = [s EXCEPT !.vars = v, !.cache = k]
  BY <1>1 DEF Insert
<1> HIDE DEF i, v, k
<1>3. i = [vars |-> v, tempVars |-> s.tempVars, available |-> s.available,
           cache |-> k, misled |-> s.misled]
  BY <1>1, <1>2
<1>4. HeapRecord(i)
  BY <1>3 DEF HeapRecord
<1>5. /\ HeapRecord(t) /\ t.vars = i.vars /\ t.available = i.available
      /\ t.cache = i.cache /\ t.misled = i.misled
      /\ t.tempVars = i.tempVars \cup {id}
  BY <1>4, MarkTemporaryIs
<1> HIDE DEF t
<1>6. /\ HeapRecord(t) /\ t.vars = v
      /\ t.tempVars = s.tempVars \cup {id} /\ t.available = s.available
      /\ t.cache = k /\ t.misled = s.misled
  BY <1>3, <1>5
<1>7. Inserted(s, t, id, a)
  BY <1>6 DEF Inserted, v, k
<1> QED
  BY <1>7 DEF t, i

\* An array that is inserted under a free id is new, and waits to be collected.
LEMMA InsertCreates ==
    ASSUME NEW s, HeapOK(s), NEW id \in AllIDs, id \notin Live(s), id \notin s.available,
           NEW mod \in Owners, NEW packed \in BOOLEAN
    PROVE  LET t == MarkTemporary(Insert(s, id, NewArray(mod, packed)), id, TRUE) IN
           Created(s, t, id) /\ t.available = s.available
<1> DEFINE a == NewArray(mod, packed)
           t == MarkTemporary(Insert(s, id, a), id, TRUE)
<1>1. /\ HeapRecord(s) /\ HeapType(s) /\ QueueOK(s) /\ s.available \cap Live(s) = {}
      /\ s.misled \in BOOLEAN
  BY DEF HeapOK, HeapType
<1>3. /\ \A N : IsArray(a, N)
      /\ a.refs = <<>> /\ DOMAIN a.elems = {}
  BY NewArrayIs
<1> HIDE DEF a
<1>2. /\ HeapRecord(t) /\ t.vars = With(s.vars, id, a)
      /\ t.tempVars = s.tempVars \cup {id} /\ t.available = s.available
      /\ t.cache = Outdated(s.cache, id) /\ t.misled = s.misled
  <2>1. Inserted(s, t, id, a)
    BY <1>1, InsertIs
  <2> HIDE DEF t
  <2> QED
    BY <2>1 DEF Inserted
<1> HIDE DEF t
<1>4. Live(t) = Live(s) \cup {id}
  BY <1>2 DEF Live, With
<1>5. \A i \in Live(s) : t.vars[i] = s.vars[i]
  BY <1>2 DEF Live, With
<1>6. t.vars[id] = a
  BY <1>2 DEF With
<1>7. IsMap(t.vars)
  BY <1>2 DEF With, IsMap
<1>8. t.cache \in [id : IDs \cup Live(t), current : BOOLEAN]
      /\ (GoodCache(s) => GoodCache(t))
  <2>1. s.cache \in [id : IDs \cup Live(s), current : BOOLEAN]
    BY <1>1 DEF HeapType
  <2>2. t.cache = [id |-> s.cache.id, current |-> s.cache.current /\ s.cache.id # id]
    BY <1>2, <2>1 DEF Outdated
  <2>3. GoodCache(s) => s.cache.id # id
    BY DEF GoodCache, AllIDs
  <2> QED
    BY <1>4, <2>1, <2>2, <2>3 DEF GoodCache
<1>9. \A i \in Live(t) : IsArray(t.vars[i], IDs \cup Live(t))
  <2>1. ASSUME NEW i \in Live(s) PROVE IsArray(t.vars[i], IDs \cup Live(t))
    <3> DEFINE b == s.vars[i]
    <3>1. IsArray(b, IDs \cup Live(s))
      BY <1>1 DEF HeapType
    <3> HIDE DEF b
    <3>2. IsArray(b, IDs \cup Live(t))
      BY <1>4, <3>1 DEF IsArray
    <3> QED
      BY <1>5, <3>2 DEF b
  <2> QED
    BY <1>3, <1>4, <1>6, <2>1
<1>10. \E n \in Nat : Live(t) \subseteq 1 .. n
  <2>1. PICK n \in Nat : Live(s) \subseteq 1 .. n
    BY <1>1 DEF HeapType
  <2>2. Live(t) \subseteq 1 .. (n + id)
    BY <1>4, <2>1 DEF AllIDs
  <2>3. n + id \in Nat
    BY DEF AllIDs
  <2> QED
    BY <2>2, <2>3
<1>11. HeapType(t)
  <2>1. Live(t) \subseteq AllIDs /\ t.available \subseteq AllIDs
    BY <1>1, <1>2, <1>4 DEF HeapType
  <2> QED
    BY <1>1, <1>2, <1>7, <1>8, <1>9, <1>10, <2>1 DEF HeapType
<1>12. QueueOK(t)
  BY <1>1, <1>2, <1>3, <1>4, <1>5, <1>6 DEF QueueOK
<1>13. HeapOK(t)
  BY <1>1, <1>2, <1>4, <1>11, <1>12 DEF HeapOK
<1>14. \A i \in Live(s) : Elements(t, i) = Elements(s, i)
  BY <1>5 DEF Elements
<1>15. DOMAIN Elements(t, id) = {}
  BY <1>3, <1>6 DEF Elements
<1>16. \A i, c : Refs(t, i, c) = Refs(s, i, c)
  BY <1>3, <1>4, <1>5, <1>6, OccurrencesOfEmpty DEF Refs
<1>17. \A i, c : Slots(t, i, c) = Slots(s, i, c)
  BY <1>4, <1>5, <1>14, <1>15 DEF Slots
<1>18. \A i, c : Surplus(t, i, c) = Surplus(s, i, c)
  BY <1>16, <1>17 DEF Surplus
<1>19. Created(s, t, id)
  BY <1>4, <1>8, <1>13, <1>14, <1>15, <1>18 DEF Created
<1> QED
  BY <1>2, <1>19 DEF t, a

\* VarMap::GetUnusedID finds the first id that was free again, or the one above all.
LEMMA UnusedIDIsFree ==
    ASSUME NEW s, HeapOK(s)
    PROVE  /\ UnusedID(s) \in AllIDs /\ UnusedID(s) \notin Live(s)
           /\ s.available # {} => UnusedID(s) \in s.available
           /\ s.available = {} => \A id \in Live(s) : id < UnusedID(s)
           /\ s.available = {} =>
                 \A n \in 1 .. UnusedID(s) - 1 : \E id \in Live(s) : n <= id
<1>1. /\ Live(s) \subseteq AllIDs /\ s.available \subseteq AllIDs
      /\ s.available \cap Live(s) = {}
      /\ \E n \in Nat : Live(s) \subseteq 1 .. n
  BY DEF HeapOK, HeapType
<1>2. CASE s.available # {}
  <2>1. Min(s.available) \in s.available
    BY <1>1, <1>2, MinOfSet DEF AllIDs
  <2> QED
    BY <1>1, <1>2, <2>1 DEF UnusedID
<1>3. CASE s.available = {} /\ Live(s) # {}
  <2>1. PICK b \in Nat : \A m \in Live(s) : m <= b
    BY <1>1
  <2>2. Max(Live(s)) \in Live(s) /\ \A m \in Live(s) : m <= Max(Live(s))
    BY <1>1, <1>3, <2>1, MaxOfSet DEF AllIDs
  <2>3. UnusedID(s) = Max(Live(s)) + 1
    BY <1>3 DEF UnusedID
  <2> QED
    BY <1>1, <1>3, <2>2, <2>3 DEF AllIDs
<1>4. CASE s.available = {} /\ Live(s) = {}
  <2>1. UnusedID(s) = 1
    BY <1>4 DEF UnusedID
  <2> QED
    BY <1>4, <2>1 DEF AllIDs
<1> QED
  BY <1>2, <1>3, <1>4

\* It takes it out of the free ones, and changes nothing else.
LEMMA TakeUnusedIDIs ==
    ASSUME NEW s, HeapOK(s)
    PROVE  LET t == TakeUnusedID(s) IN
           /\ HeapOK(t) /\ t.vars = s.vars /\ t.available = s.available \ {UnusedID(s)}
           /\ t.cache = s.cache /\ t.misled = s.misled
<1> DEFINE v == s.available \ {UnusedID(s)}
           t == TakeUnusedID(s)
<1>1. HeapRecord(s)
  BY DEF HeapOK, HeapType
<1>2. t = [s EXCEPT !.available = v]
  BY <1>1 DEF TakeUnusedID, HeapRecord
<1> HIDE DEF t, v
<1>3. /\ HeapRecord(t) /\ t.vars = s.vars /\ t.available = v
      /\ t.cache = s.cache /\ t.misled = s.misled /\ t.tempVars = s.tempVars
  BY <1>1, <1>2 DEF HeapRecord
<1>4. Live(t) = Live(s)
  BY <1>3 DEF Live
<1>5. HeapType(t)
  <2>1. v \subseteq AllIDs \cap IDs
    BY DEF HeapOK, HeapType, v
  <2> QED
    BY <1>3, <1>4, <2>1 DEF HeapOK, HeapType
<1>6. QueueOK(t) /\ t.available \cap Live(t) = {}
  BY <1>3, <1>4 DEF HeapOK, QueueOK, v
<1> QED
  BY <1>3, <1>5, <1>6 DEF HeapOK, t, v

\* ArrayVarMap::Create makes a new array under the id that is free.
LEMMA CreateCreates ==
    ASSUME NEW s, HeapOK(s), NEW mod \in Owners, NEW packed \in BOOLEAN
    PROVE  LET t == Create(s, packed, mod) IN
           Created(s, t, UnusedID(s)) /\ t.available = s.available \ {UnusedID(s)}
<1> DEFINE id == UnusedID(s)
           r == TakeUnusedID(s)
           t == MarkTemporary(Insert(r, id, NewArray(mod, packed)), id, TRUE)
<1>1. t = Create(s, packed, mod)
  BY DEF Create
<1>2. /\ HeapOK(r) /\ r.vars = s.vars /\ r.available = s.available \ {id}
      /\ r.cache = s.cache
  BY TakeUnusedIDIs
<1>3. id \in AllIDs /\ id \notin Live(s)
  BY UnusedIDIsFree
<1>4. /\ Live(r) = Live(s) /\ \A i : Elements(r, i) = Elements(s, i)
      /\ \A i, c : Surplus(r, i, c) = Surplus(s, i, c)
  BY <1>2, SameArrays
<1> HIDE DEF id, r
<1>5. Created(r, t, id) /\ t.available = r.available
  BY <1>2, <1>3, <1>4, InsertCreates
<1> HIDE DEF t
<1>6. Created(s, t, id)
  BY <1>2, <1>4, <1>5 DEF Created, GoodCache
<1> QED
  BY <1>1, <1>2, <1>5, <1>6 DEF id

\* What was given out stays so.
LEMMA CreateTakes ==
    ASSUME NEW s, HeapOK(s), NEW t, Created(s, t, UnusedID(s)),
           t.available = s.available \ {UnusedID(s)}, NEW w \in Nat, IdsOK(s, w)
    PROVE  IdsOK(t, w) \/ w \in Live(t)
<1> DEFINE id == UnusedID(s)
<1>1. /\ id \in AllIDs /\ id \notin Live(s)
      /\ s.available # {} => id \in s.available
      /\ s.available = {} => \A n \in 1 .. id - 1 : \E i \in Live(s) : n <= i
  BY UnusedIDIsFree
<1>2. Live(t) = Live(s) \cup {id}
  BY DEF Created
<1> HIDE DEF id
<1>3. SUFFICES ASSUME w # id PROVE IdsOK(t, w)
  BY <1>2
<1>4. Taken(t, w) = Taken(s, w) \cup {id}
  BY <1>2 DEF Taken, id
<1>5. Live(s) \subseteq Nat /\ id \in Nat
  BY <1>1 DEF HeapOK, HeapType, AllIDs
<1>6. \A i \in Taken(s, w) : \A n \in 1 .. i : n \in Taken(s, w)
  BY DEF IdsOK
<1>7. ASSUME NEW n \in 1 .. id, n # id PROVE n \in Taken(s, w)
  <2>1. CASE s.available # {}
    BY <1>1, <1>6, <2>1 DEF Taken
  <2>2. CASE s.available = {}
    <3>1. n \in 1 .. id - 1
      BY <1>5, <1>7
    <3>2. PICK i \in Live(s) : n <= i
      BY <1>1, <2>2, <3>1
    <3>3. n \in 1 .. i /\ i \in Taken(s, w)
      BY <1>5, <3>1, <3>2 DEF Taken
    <3> QED
      BY <1>6, <3>3
  <2> QED
    BY <2>1, <2>2
<1>8. t.available \cap (Live(t) \cup {w}) = {}
  BY <1>2, <1>3 DEF IdsOK, id
<1>9. \A i \in Taken(t, w) : \A n \in 1 .. i : n \in Taken(t, w)
  BY <1>4, <1>6, <1>7
<1> QED
  BY <1>8, <1>9 DEF IdsOK

\* t is s with more arrays, that nothing refers to yet, and the others' references
\* as they were or more.
Extends(s, t) ==
    /\ HeapOK(t) /\ Live(s) \subseteq Live(t) /\ Grows(s, t)
    /\ GoodCache(s) => GoodCache(t)
    /\ \A w \in Nat : IdsOK(s, w) => IdsOK(t, w) \/ w \in Live(t)

\* A heap of which the arrays are kept has none less.
LEMMA KeepsExtends ==
    ASSUME NEW s, HeapOK(s), NEW t, Keeps(s, t)
    PROVE  Extends(s, t)
<1>1. HeapOK(t) /\ Live(t) = Live(s) /\ t.available = s.available /\ Grows(s, t)
      /\ (GoodCache(s) => GoodCache(t))
  BY DEF Keeps, Same
<1>2. \A w : Taken(t, w) = Taken(s, w)
  BY <1>1 DEF Taken
<1>3. \A w : IdsOK(s, w) => IdsOK(t, w)
  BY <1>1, <1>2 DEF IdsOK
<1> QED
  BY <1>1, <1>3 DEF Extends

\* Neither has one with a new array.
LEMMA CreateExtends ==
    ASSUME NEW s, HeapOK(s), NEW mod \in Owners, NEW packed \in BOOLEAN
    PROVE  Extends(s, Create(s, packed, mod))
<1> DEFINE t == Create(s, packed, mod)
<1>1. Created(s, t, UnusedID(s)) /\ t.available = s.available \ {UnusedID(s)}
  BY CreateCreates
<1> HIDE DEF t
<1>2. \A w \in Nat : IdsOK(s, w) => IdsOK(t, w) \/ w \in Live(t)
  BY <1>1, CreateTakes
<1>3. \A i, c : Surplus(t, i, c) = Surplus(s, i, c) /\ Surplus(s, i, c) \in Int
  BY <1>1, SurplusType DEF Created, HeapOK
<1>4. Grows(s, t)
  BY <1>3 DEF Grows
<1>5. Extends(s, t)
  BY <1>1, <1>2, <1>4 DEF Created, Extends
<1> QED
  BY <1>5 DEF t

\* Two steps that lose no array lose none together.
LEMMA ExtendsTransitive ==
    ASSUME NEW r, NEW s, NEW t, HeapOK(r), Extends(r, s), Extends(s, t)
    PROVE  Extends(r, t)
<1>1. HeapOK(s) /\ HeapOK(t) /\ Grows(r, s) /\ Grows(s, t)
  BY DEF Extends
<1>2. Grows(r, t)
  BY <1>1, GrowsTransitive DEF HeapOK
<1>3. Live(r) \subseteq Live(t) /\ (GoodCache(r) => GoodCache(t))
  BY DEF Extends
<1>4. \A w \in Nat : IdsOK(r, w) => IdsOK(t, w) \/ w \in Live(t)
  BY DEF Extends
<1> QED
  BY <1>1, <1>2, <1>3, <1>4 DEF Extends

-----------------------------------------------------------------------------
(* What each loop over an array's elements, or over the queue, does in a round. *)

UnsetRound(t, n, id, keys) ==
    IF n - 1 \in keys \cap DOMAIN Elements(t, id) THEN UnsetElement(t, id, n - 1) ELSE t

PackRound(t, n, s, id) ==
    LET curIdx == Cardinality({k \in DOMAIN Elements(s, id) : k < n - 1})
    IN IF n - 1 \in DOMAIN Elements(s, id) \ {curIdx} THEN Moved(t, id, n - 1, curIdx) ELSE t

CleanRound(t, n) == IF t.tempVars = {} THEN t ELSE Delete(t, Min(t.tempVars))

FillRound(t, n, id, value) == SetElement(t, id, n - 1, value)

CopyRound(c, n, mod, deep) == CopyStep(c, mod, deep)

\* The recursive function of UnsetKeys is one: it has the values its definition says.
LEMMA UnsettingKeysUnfold ==
    ASSUME NEW s, NEW id, NEW keys, Cardinality(Keys) \in Nat
    PROVE  UnsettingKeys(s, id, keys) = [n \in 0 .. Cardinality(Keys) |->
               IF n = 0 THEN s ELSE UnsetRound(UnsettingKeys(s, id, keys)[n - 1], n, id, keys)]
<1> DEFINE Def(f, m) == [n \in 0 .. m |-> IF n = 0 THEN s ELSE UnsetRound(f[n - 1], n, id, keys)]
           T == {m \in Nat : \E f : f = Def(f, m)}
<1>1. 0 \in T
  <2> DEFINE f == [n \in 0 .. 0 |-> s]
  <2>1. f = Def(f, 0)
    OBVIOUS
  <2> QED
    BY <2>1
<1>2. ASSUME NEW m \in Nat, m \in T PROVE m + 1 \in T
  <2>1. PICK f : f = Def(f, m)
    BY <1>2
  <2> DEFINE g == [n \in 0 .. m + 1 |-> IF n <= m THEN f[n] ELSE UnsetRound(f[n - 1], n, id, keys)]
  <2>2. \A n \in 0 .. m : f[n] = IF n = 0 THEN s ELSE UnsetRound(f[n - 1], n, id, keys)
    BY <2>1
  <2>3. \A n \in 0 .. m + 1 : g[n] = IF n = 0 THEN s ELSE UnsetRound(g[n - 1], n, id, keys)
    BY <2>2
  <2>4. g = Def(g, m + 1)
    BY <2>3
  <2> HIDE DEF Def, g
  <2> QED
    BY <2>4
<1>3. T = Nat
  <2> HIDE DEF Def
  <2>1. T \in SUBSET Nat
    OBVIOUS
  <2> HIDE DEF T
  <2> QED
    BY <1>1, <1>2, <2>1, SetInduction
<1>4. \E f : f = Def(f, Cardinality(Keys))
  BY <1>3
<1> QED
  BY <1>4, Zenon DEF UnsettingKeys, UnsetRound

\* Of the elements that are unset in turn: the next.
LEMMA UnsettingKeysStep ==
    ASSUME NEW s, NEW id, NEW keys, Cardinality(Keys) \in Nat
    PROVE  /\ UnsettingKeys(s, id, keys)[0] = s
           /\ \A n \in 1 .. Cardinality(Keys) :
                 UnsettingKeys(s, id, keys)[n] = UnsetRound(UnsettingKeys(s, id, keys)[n - 1], n, id, keys)
<1> DEFINE F == UnsettingKeys(s, id, keys)
<1>1. F = [n \in 0 .. Cardinality(Keys) |-> IF n = 0 THEN s ELSE UnsetRound(F[n - 1], n, id, keys)]
  BY UnsettingKeysUnfold
<1> HIDE DEF F
<1>2. F[0] = s /\ \A n \in 1 .. Cardinality(Keys) : n \in 0 .. Cardinality(Keys) /\ n # 0
  BY <1>1
<1>3. \A n \in 0 .. Cardinality(Keys) : F[n] = IF n = 0 THEN s ELSE UnsetRound(F[n - 1], n, id, keys)
  BY <1>1
<1> QED
  BY <1>2, <1>3 DEF F

\* The recursive function of Pack is one: it has the values its definition says.
LEMMA PackingUnfold ==
    ASSUME NEW s, NEW id, Cardinality(Keys) \in Nat
    PROVE  Packing(s, id) = [n \in 0 .. Cardinality(Keys) |->
               IF n = 0 THEN s ELSE PackRound(Packing(s, id)[n - 1], n, s, id)]
<1> DEFINE Def(f, m) == [n \in 0 .. m |-> IF n = 0 THEN s ELSE PackRound(f[n - 1], n, s, id)]
           T == {m \in Nat : \E f : f = Def(f, m)}
<1>1. 0 \in T
  <2> DEFINE f == [n \in 0 .. 0 |-> s]
  <2>1. f = Def(f, 0)
    OBVIOUS
  <2> QED
    BY <2>1
<1>2. ASSUME NEW m \in Nat, m \in T PROVE m + 1 \in T
  <2>1. PICK f : f = Def(f, m)
    BY <1>2
  <2> DEFINE g == [n \in 0 .. m + 1 |-> IF n <= m THEN f[n] ELSE PackRound(f[n - 1], n, s, id)]
  <2>2. \A n \in 0 .. m : f[n] = IF n = 0 THEN s ELSE PackRound(f[n - 1], n, s, id)
    BY <2>1
  <2>3. \A n \in 0 .. m + 1 : g[n] = IF n = 0 THEN s ELSE PackRound(g[n - 1], n, s, id)
    BY <2>2
  <2>4. g = Def(g, m + 1)
    BY <2>3
  <2> HIDE DEF Def, g
  <2> QED
    BY <2>4
<1>3. T = Nat
  <2> HIDE DEF Def
  <2>1. T \in SUBSET Nat
    OBVIOUS
  <2> HIDE DEF T
  <2> QED
    BY <1>1, <1>2, <2>1, SetInduction
<1>4. \E f : f = Def(f, Cardinality(Keys))
  BY <1>3
<1> QED
  BY <1>4, Zenon DEF Packing, PackRound

\* Of the elements that are moved together in turn: the next.
LEMMA PackingStep ==
    ASSUME NEW s, NEW id, Cardinality(Keys) \in Nat
    PROVE  /\ Packing(s, id)[0] = s
           /\ \A n \in 1 .. Cardinality(Keys) :
                 Packing(s, id)[n] = PackRound(Packing(s, id)[n - 1], n, s, id)
<1> DEFINE F == Packing(s, id)
<1>1. F = [n \in 0 .. Cardinality(Keys) |-> IF n = 0 THEN s ELSE PackRound(F[n - 1], n, s, id)]
  BY PackingUnfold
<1> HIDE DEF F
<1>2. F[0] = s /\ \A n \in 1 .. Cardinality(Keys) : n \in 0 .. Cardinality(Keys) /\ n # 0
  BY <1>1
<1>3. \A n \in 0 .. Cardinality(Keys) : F[n] = IF n = 0 THEN s ELSE PackRound(F[n - 1], n, s, id)
  BY <1>1
<1> QED
  BY <1>2, <1>3 DEF F

\* The recursive function of Clean is one: it has the values its definition says.
LEMMA CleaningUnfold ==
    ASSUME NEW s, Cardinality(Live(s)) \in Nat
    PROVE  Cleaning(s) = [n \in 0 .. Cardinality(Live(s)) |->
               IF n = 0 THEN s ELSE CleanRound(Cleaning(s)[n - 1], n)]
<1> DEFINE Def(f, m) == [n \in 0 .. m |-> IF n = 0 THEN s ELSE CleanRound(f[n - 1], n)]
           T == {m \in Nat : \E f : f = Def(f, m)}
<1>1. 0 \in T
  <2> DEFINE f == [n \in 0 .. 0 |-> s]
  <2>1. f = Def(f, 0)
    OBVIOUS
  <2> QED
    BY <2>1
<1>2. ASSUME NEW m \in Nat, m \in T PROVE m + 1 \in T
  <2>1. PICK f : f = Def(f, m)
    BY <1>2
  <2> DEFINE g == [n \in 0 .. m + 1 |-> IF n <= m THEN f[n] ELSE CleanRound(f[n - 1], n)]
  <2>2. \A n \in 0 .. m : f[n] = IF n = 0 THEN s ELSE CleanRound(f[n - 1], n)
    BY <2>1
  <2>3. \A n \in 0 .. m + 1 : g[n] = IF n = 0 THEN s ELSE CleanRound(g[n - 1], n)
    BY <2>2
  <2>4. g = Def(g, m + 1)
    BY <2>3
  <2> HIDE DEF Def, g
  <2> QED
    BY <2>4
<1>3. T = Nat
  <2> HIDE DEF Def
  <2>1. T \in SUBSET Nat
    OBVIOUS
  <2> HIDE DEF T
  <2> QED
    BY <1>1, <1>2, <2>1, SetInduction
<1>4. \E f : f = Def(f, Cardinality(Live(s)))
  BY <1>3
<1> QED
  BY <1>4, Zenon DEF Cleaning, CleanRound

\* Of the arrays that are deleted in turn: the next.
LEMMA CleaningStep ==
    ASSUME NEW s, Cardinality(Live(s)) \in Nat
    PROVE  /\ Cleaning(s)[0] = s
           /\ \A n \in 1 .. Cardinality(Live(s)) :
                 Cleaning(s)[n] = CleanRound(Cleaning(s)[n - 1], n)
<1> DEFINE F == Cleaning(s)
<1>1. F = [n \in 0 .. Cardinality(Live(s)) |-> IF n = 0 THEN s ELSE CleanRound(F[n - 1], n)]
  BY CleaningUnfold
<1> HIDE DEF F
<1>2. F[0] = s /\ \A n \in 1 .. Cardinality(Live(s)) : n \in 0 .. Cardinality(Live(s)) /\ n # 0
  BY <1>1
<1>3. \A n \in 0 .. Cardinality(Live(s)) : F[n] = IF n = 0 THEN s ELSE CleanRound(F[n - 1], n)
  BY <1>1
<1> QED
  BY <1>2, <1>3 DEF F

\* The recursive function of Filled is one: it has the values its definition says.
LEMMA FillingUnfold ==
    ASSUME NEW s, NEW id, NEW value, Cardinality(Keys) \in Nat
    PROVE  Filling(s, id, value) = [n \in 0 .. Cardinality(Keys) |->
               IF n = 0 THEN s ELSE FillRound(Filling(s, id, value)[n - 1], n, id, value)]
<1> DEFINE Def(f, m) == [n \in 0 .. m |-> IF n = 0 THEN s ELSE FillRound(f[n - 1], n, id, value)]
           T == {m \in Nat : \E f : f = Def(f, m)}
<1>1. 0 \in T
  <2> DEFINE f == [n \in 0 .. 0 |-> s]
  <2>1. f = Def(f, 0)
    OBVIOUS
  <2> QED
    BY <2>1
<1>2. ASSUME NEW m \in Nat, m \in T PROVE m + 1 \in T
  <2>1. PICK f : f = Def(f, m)
    BY <1>2
  <2> DEFINE g == [n \in 0 .. m + 1 |-> IF n <= m THEN f[n] ELSE FillRound(f[n - 1], n, id, value)]
  <2>2. \A n \in 0 .. m : f[n] = IF n = 0 THEN s ELSE FillRound(f[n - 1], n, id, value)
    BY <2>1
  <2>3. \A n \in 0 .. m + 1 : g[n] = IF n = 0 THEN s ELSE FillRound(g[n - 1], n, id, value)
    BY <2>2
  <2>4. g = Def(g, m + 1)
    BY <2>3
  <2> HIDE DEF Def, g
  <2> QED
    BY <2>4
<1>3. T = Nat
  <2> HIDE DEF Def
  <2>1. T \in SUBSET Nat
    OBVIOUS
  <2> HIDE DEF T
  <2> QED
    BY <1>1, <1>2, <2>1, SetInduction
<1>4. \E f : f = Def(f, Cardinality(Keys))
  BY <1>3
<1> QED
  BY <1>4, Zenon DEF Filling, FillRound

\* Of the elements that are filled in turn: the next.
LEMMA FillingStep ==
    ASSUME NEW s, NEW id, NEW value, Cardinality(Keys) \in Nat
    PROVE  /\ Filling(s, id, value)[0] = s
           /\ \A n \in 1 .. Cardinality(Keys) :
                 Filling(s, id, value)[n] = FillRound(Filling(s, id, value)[n - 1], n, id, value)
<1> DEFINE F == Filling(s, id, value)
<1>1. F = [n \in 0 .. Cardinality(Keys) |-> IF n = 0 THEN s ELSE FillRound(F[n - 1], n, id, value)]
  BY FillingUnfold
<1> HIDE DEF F
<1>2. F[0] = s /\ \A n \in 1 .. Cardinality(Keys) : n \in 0 .. Cardinality(Keys) /\ n # 0
  BY <1>1
<1>3. \A n \in 0 .. Cardinality(Keys) : F[n] = IF n = 0 THEN s ELSE FillRound(F[n - 1], n, id, value)
  BY <1>1
<1> QED
  BY <1>2, <1>3 DEF F

\* The recursive function of Copy is one: it has the values its definition says.
LEMMA CopyingUnfold ==
    ASSUME NEW s, NEW from, NEW mod, NEW deep, CopySteps \in Nat
    PROVE  Copying(s, from, mod, deep) = [n \in 0 .. CopySteps |->
               IF n = 0 THEN Enters(s, <<>>, from, mod) ELSE CopyRound(Copying(s, from, mod, deep)[n - 1], n, mod, deep)]
<1> DEFINE Def(f, m) == [n \in 0 .. m |-> IF n = 0 THEN Enters(s, <<>>, from, mod) ELSE CopyRound(f[n - 1], n, mod, deep)]
           T == {m \in Nat : \E f : f = Def(f, m)}
<1>1. 0 \in T
  <2> DEFINE f == [n \in 0 .. 0 |-> Enters(s, <<>>, from, mod)]
  <2>1. f = Def(f, 0)
    OBVIOUS
  <2> QED
    BY <2>1
<1>2. ASSUME NEW m \in Nat, m \in T PROVE m + 1 \in T
  <2>1. PICK f : f = Def(f, m)
    BY <1>2
  <2> DEFINE g == [n \in 0 .. m + 1 |-> IF n <= m THEN f[n] ELSE CopyRound(f[n - 1], n, mod, deep)]
  <2>2. \A n \in 0 .. m : f[n] = IF n = 0 THEN Enters(s, <<>>, from, mod) ELSE CopyRound(f[n - 1], n, mod, deep)
    BY <2>1
  <2>3. \A n \in 0 .. m + 1 : g[n] = IF n = 0 THEN Enters(s, <<>>, from, mod) ELSE CopyRound(g[n - 1], n, mod, deep)
    BY <2>2
  <2>4. g = Def(g, m + 1)
    BY <2>3
  <2> HIDE DEF Def, g
  <2> QED
    BY <2>4
<1>3. T = Nat
  <2> HIDE DEF Def
  <2>1. T \in SUBSET Nat
    OBVIOUS
  <2> HIDE DEF T
  <2> QED
    BY <1>1, <1>2, <2>1, SetInduction
<1>4. \E f : f = Def(f, CopySteps)
  BY <1>3
<1> QED
  BY <1>4, Zenon DEF Copying, CopyRound

\* Of the steps of a copy: the next.
LEMMA CopyingStep ==
    ASSUME NEW s, NEW from, NEW mod, NEW deep, CopySteps \in Nat
    PROVE  /\ Copying(s, from, mod, deep)[0] = Enters(s, <<>>, from, mod)
           /\ \A n \in 1 .. CopySteps :
                 Copying(s, from, mod, deep)[n] = CopyRound(Copying(s, from, mod, deep)[n - 1], n, mod, deep)
<1> DEFINE F == Copying(s, from, mod, deep)
<1>1. F = [n \in 0 .. CopySteps |-> IF n = 0 THEN Enters(s, <<>>, from, mod) ELSE CopyRound(F[n - 1], n, mod, deep)]
  BY CopyingUnfold
<1> HIDE DEF F
<1>2. F[0] = Enters(s, <<>>, from, mod) /\ \A n \in 1 .. CopySteps : n \in 0 .. CopySteps /\ n # 0
  BY <1>1
<1>3. \A n \in 0 .. CopySteps : F[n] = IF n = 0 THEN Enters(s, <<>>, from, mod) ELSE CopyRound(F[n - 1], n, mod, deep)
  BY <1>1
<1> QED
  BY <1>2, <1>3 DEF F

-----------------------------------------------------------------------------
(* Whole arrays: elements are unset, moved together and filled.            *)

\* The elements of h name no array, or another that is there.
Sound(s, h) ==
    \A k \in DOMAIN Elements(s, h) : Elements(s, h)[k] \in {Other} \cup (Live(s) \ {h})

\* t is s without the elements of h under the keys K.
KeysUnset(s, t, h, K) ==
    /\ Keeps(s, t) /\ s.tempVars \subseteq t.tempVars
    /\ DOMAIN Elements(t, h) = DOMAIN Elements(s, h) \ K
    /\ \A k \in DOMAIN Elements(t, h) : Elements(t, h)[k] = Elements(s, h)[k]
    /\ \A i \in Live(s) : i # h => Elements(t, i) = Elements(s, i)
    /\ Sound(s, h) /\ s.cache.id # h => t.cache.id # h

\* After some keys, one more is unset.
LEMMA KeysUnsetOne ==
    ASSUME NEW s, HeapOK(s), NEW h \in Live(s), NEW t, NEW K, KeysUnset(s, t, h, K),
           NEW key \in DOMAIN Elements(t, h)
    PROVE  KeysUnset(s, UnsetElement(t, h, key), h, K \cup {key})
<1> DEFINE u == UnsetElement(t, h, key)
<1>1. HeapOK(t) /\ Keeps(s, t) /\ Live(t) = Live(s)
  BY DEF KeysUnset, Keeps, Same
<1>2. KeyUnset(t, u, h, key)
  BY <1>1, UnsetElementKeeps
<1> HIDE DEF u
<1>3. /\ Keeps(t, u) /\ t.tempVars \subseteq u.tempVars
      /\ Elements(u, h) = Restrict(Elements(t, h), DOMAIN Elements(t, h) \ {key})
      /\ \A i \in Live(s) : i # h => Elements(u, i) = Elements(t, i)
  BY <1>1, <1>2 DEF KeyUnset
<1>4. Keeps(s, u)
  BY <1>1, <1>3, KeepsTransitive
<1>5. /\ DOMAIN Elements(u, h) = DOMAIN Elements(t, h) \ {key}
      /\ \A k \in DOMAIN Elements(u, h) : Elements(u, h)[k] = Elements(t, h)[k]
  BY <1>3 DEF Restrict
<1>6. ASSUME Sound(s, h), s.cache.id # h
      PROVE  u.cache.id # h
  <2>1. t.cache.id # h
    BY <1>6 DEF KeysUnset
  <2>2. Elements(t, h)[key] \in {Other} \cup (Live(s) \ {h})
    BY <1>6 DEF Sound, KeysUnset
  <2>3. CASE Elements(t, h)[key] = Other
    BY <1>2, <2>1, <2>3 DEF KeyUnset
  <2>4. CASE Elements(t, h)[key] \in Live(s) \ {h}
    BY <1>1, <1>2, <2>4 DEF KeyUnset
  <2> QED
    BY <2>2, <2>3, <2>4
<1>7. /\ DOMAIN Elements(t, h) = DOMAIN Elements(s, h) \ K
      /\ \A k \in DOMAIN Elements(t, h) : Elements(t, h)[k] = Elements(s, h)[k]
      /\ \A i \in Live(s) : i # h => Elements(t, i) = Elements(s, i)
      /\ s.tempVars \subseteq t.tempVars
  BY DEF KeysUnset
<1>8. DOMAIN Elements(u, h) = DOMAIN Elements(s, h) \ (K \cup {key})
  BY <1>5, <1>7
<1>9. \A k \in DOMAIN Elements(u, h) : Elements(u, h)[k] = Elements(s, h)[k]
  BY <1>5, <1>7
<1>10. KeysUnset(s, u, h, K \cup {key})
  BY <1>3, <1>4, <1>6, <1>7, <1>8, <1>9 DEF KeysUnset
<1> QED
  BY <1>10 DEF u

\* Keys are unset in turn: each gives up its reference, and no array goes.
LEMMA UnsetKeysUnsets ==
    ASSUME NEW s, HeapOK(s), NEW h \in Live(s), NEW keys
    PROVE  KeysUnset(s, UnsetKeys(s, h, keys), h, keys)
<1> DEFINE N == Cardinality(Keys)
           F == UnsettingKeys(s, h, keys)
           B(n) == {k \in Keys : k < n} \cap keys
           T == {n \in Nat : n <= N => KeysUnset(s, F[n], h, B(n))}
<1>1. N \in Nat /\ Keys = 0 .. N - 1
  BY KeysFacts
<1>2. /\ F[0] = s
      /\ \A n \in 1 .. N : F[n] = UnsetRound(F[n - 1], n, h, keys)
  BY <1>1, UnsettingKeysStep
<1>3. HeapType(s) /\ DOMAIN Elements(s, h) \subseteq Keys
  BY ArrayFacts DEF HeapOK
<1> HIDE DEF F
<1>4. 0 \in T
  <2>1. B(0) = {}
    BY <1>1
  <2>2. Keeps(s, s)
    BY KeepsReflexive
  <2>3. KeysUnset(s, s, h, {})
    BY <2>2 DEF KeysUnset
  <2> QED
    BY <1>2, <2>1, <2>3
<1>5. ASSUME NEW n \in Nat, n \in T PROVE n + 1 \in T
  <2>1. SUFFICES ASSUME n + 1 <= N PROVE KeysUnset(s, F[n + 1], h, B(n + 1))
    OBVIOUS
  <2> DEFINE t == F[n]
  <2>2. KeysUnset(s, t, h, B(n))
    BY <1>1, <1>5, <2>1
  <2>3. n + 1 \in 1 .. N /\ (n + 1) - 1 = n /\ n \in Keys
    BY <1>1, <2>1
  <2>4. F[n + 1] = UnsetRound(t, n + 1, h, keys)
    BY <1>2, <2>3
  <2> HIDE DEF t
  <2>5. B(n + 1) = B(n) \cup ({n} \cap keys)
    BY <1>1, <2>3
  <2>6. DOMAIN Elements(t, h) = DOMAIN Elements(s, h) \ B(n)
    BY <2>2 DEF KeysUnset
  <2> HIDE DEF B
  <2>7. CASE n \in keys \cap DOMAIN Elements(t, h)
    <3>1. F[n + 1] = UnsetElement(t, h, n)
      BY <2>3, <2>4, <2>7 DEF UnsetRound
    <3>2. KeysUnset(s, UnsetElement(t, h, n), h, B(n) \cup {n})
      BY <2>2, <2>7, KeysUnsetOne
    <3>3. B(n + 1) = B(n) \cup {n}
      BY <2>5, <2>7
    <3> QED
      BY <3>1, <3>2, <3>3
  <2>8. CASE n \notin keys \cap DOMAIN Elements(t, h)
    <3>1. F[n + 1] = t
      BY <2>3, <2>4, <2>8 DEF UnsetRound
    <3>2. DOMAIN Elements(t, h) = DOMAIN Elements(s, h) \ B(n + 1)
      BY <2>5, <2>6, <2>8
    <3>3. KeysUnset(s, t, h, B(n + 1))
      BY <2>2, <3>2 DEF KeysUnset
    <3> QED
      BY <3>1, <3>3
  <2> QED
    BY <2>7, <2>8
<1>6. T = Nat
  <2>1. T \in SUBSET Nat
    OBVIOUS
  <2> HIDE DEF T
  <2> QED
    BY <1>4, <1>5, <2>1, SetInduction
<1>7. KeysUnset(s, F[N], h, B(N))
  <2>1. N \in T /\ N <= N
    BY <1>1, <1>6
  <2> QED
    BY <2>1
<1>8. B(N) = Keys \cap keys
  BY <1>1
<1>9. DOMAIN Elements(s, h) \ B(N) = DOMAIN Elements(s, h) \ keys
  BY <1>3, <1>8
<1>10. KeysUnset(s, F[N], h, keys)
  BY <1>7, <1>9 DEF KeysUnset
<1> QED
  BY <1>10 DEF UnsetKeys, F

\* What is packed keeps its references.
LEMMA PackKeeps ==
    ASSUME NEW s, HeapOK(s), NEW h \in Live(s)
    PROVE  Keeps(s, Pack(s, h))
<1> DEFINE N == Cardinality(Keys)
           F == Packing(s, h)
           D == DOMAIN Elements(s, h)
           P(n) == Keeps(s, F[n]) /\ \A k \in D : k >= n => k \in DOMAIN Elements(F[n], h)
           T == {n \in Nat : n <= N => P(n)}
<1>1. N \in Nat /\ Keys = 0 .. N - 1
  BY KeysFacts
<1>2. /\ F[0] = s
      /\ \A n \in 1 .. N : F[n] = PackRound(F[n - 1], n, s, h)
  BY <1>1, PackingStep
<1>3. HeapType(s) /\ D \subseteq Keys
  BY ArrayFacts DEF HeapOK
<1> HIDE DEF F
<1>4. 0 \in T
  BY <1>2, KeepsReflexive
<1>5. ASSUME NEW n \in Nat, n \in T PROVE n + 1 \in T
  <2>1. SUFFICES ASSUME n + 1 <= N PROVE P(n + 1)
    OBVIOUS
  <2> DEFINE t == F[n]
             S == {k \in D : k < n}
             to == Cardinality(S)
             v == Elements(t, h)[n]
             p == SetElement(t, h, to, v)
             u == UnsetElement(p, h, n)
  <2>2. n <= N /\ n + 1 \in 1 .. N /\ (n + 1) - 1 = n /\ n \in Keys
    BY <1>1, <2>1
  <2>3. Keeps(s, t) /\ \A k \in D : k >= n => k \in DOMAIN Elements(t, h)
    BY <1>5, <2>2
  <2>4. F[n + 1] = PackRound(t, n + 1, s, h)
    BY <1>2, <2>2
  <2>5. PackRound(t, n + 1, s, h) = IF n \in D \ {to} THEN u ELSE t
    BY <2>2 DEF PackRound, Moved
  <2>6. HeapOK(t) /\ Live(t) = Live(s) /\ HeapType(t)
    BY <2>3 DEF Keeps, Same, HeapOK
  <2>7. to \in Keys
    <3>1. S \in SUBSET (0 .. n - 1)
      BY <1>1, <1>3
    <3>2. IsFiniteSet(0 .. n - 1) /\ Cardinality(0 .. n - 1) = n
      BY FS_Interval
    <3> HIDE DEF S
    <3>3. IsFiniteSet(S) /\ Cardinality(S) <= n
      BY <3>1, <3>2, FS_Subset
    <3>4. Cardinality(S) \in Nat
      BY <3>3, FS_CardinalityType
    <3> QED
      BY <1>1, <2>2, <3>3, <3>4
  <2> HIDE DEF S, to
  <2>8. CASE n \in D \ {to}
    <3>1. n \in DOMAIN Elements(t, h)
      BY <2>3, <2>8
    <3>2. v \in Nat \cup {Other}
      BY <2>6, <3>1, ArrayFacts
    <3> HIDE DEF v, t
    <3>3. KeySet(t, p, h, to)
      BY <2>6, <2>7, <3>2, SetElementKeeps
    <3> HIDE DEF p
    <3>4. HeapOK(p) /\ Live(p) = Live(s) /\ Keeps(t, p)
      BY <2>6, <3>3 DEF KeySet, Keeps, Same
    <3>5. n \in DOMAIN Elements(p, h)
      BY <3>1, <3>3 DEF KeySet
    <3>6. KeyUnset(p, u, h, n)
      BY <3>4, <3>5, UnsetElementKeeps
    <3> HIDE DEF u
    <3>7. Keeps(s, u)
      <4>1. Keeps(s, p)
        BY <2>3, <3>4, KeepsTransitive
      <4>2. Keeps(p, u)
        BY <3>6 DEF KeyUnset
      <4> QED
        BY <4>1, <4>2, KeepsTransitive
    <3>8. ASSUME NEW k \in D, k >= n + 1 PROVE k \in DOMAIN Elements(u, h)
      <4>1. k # n /\ k >= n
        BY <1>1, <1>3, <3>8
      <4>2. k \in DOMAIN Elements(p, h)
        BY <2>3, <3>3, <4>1 DEF KeySet
      <4> QED
        BY <3>6, <4>1, <4>2 DEF KeyUnset, Restrict
    <3> QED
      BY <2>4, <2>5, <2>8, <3>7, <3>8
  <2>9. CASE n \notin D \ {to}
    <3>1. F[n + 1] = t
      BY <2>4, <2>5, <2>9
    <3>2. \A k \in D : k >= n + 1 => k >= n
      BY <1>1, <1>3
    <3> QED
      BY <2>3, <3>1, <3>2
  <2> QED
    BY <2>8, <2>9
<1>6. T = Nat
  <2>1. T \in SUBSET Nat
    OBVIOUS
  <2> HIDE DEF T
  <2> QED
    BY <1>4, <1>5, <2>1, SetInduction
<1>7. Keeps(s, F[N])
  <2>1. N \in T /\ N <= N
    BY <1>1, <1>6
  <2> QED
    BY <2>1
<1> QED
  BY <1>7 DEF Pack, F

\* ArrayVar::EraseElements keeps the counts, of a packed array too, of which the
\* elements behind move.
LEMMA EraseElementsKeeps ==
    ASSUME NEW s, HeapOK(s), NEW h \in Live(s), NEW lo, NEW hi
    PROVE  Keeps(s, EraseElements(s, h, lo, hi))
<1> DEFINE g == Get(s, h)
           rest == UnsetKeys(g, h, lo .. hi)
<1>1. Keeps(s, g) /\ HeapOK(g) /\ h \in Live(g)
  <2>1. h \in Nat
    BY ArrayFacts DEF HeapOK
  <2> QED
    BY <2>1, GetKeeps DEF Keeps, Same
<1> HIDE DEF g
<1>2. KeysUnset(g, rest, h, lo .. hi)
  BY <1>1, UnsetKeysUnsets
<1> HIDE DEF rest
<1>3. Keeps(g, rest) /\ HeapOK(rest) /\ h \in Live(rest)
  BY <1>1, <1>2 DEF KeysUnset, Keeps, Same
<1>4. Keeps(s, rest)
  BY <1>1, <1>3, KeepsTransitive
<1>5. Keeps(rest, Pack(rest, h))
  BY <1>3, PackKeeps
<1>6. Keeps(s, Pack(rest, h))
  BY <1>4, <1>5, KeepsTransitive
<1>7. EraseElements(s, h, lo, hi) = IF s.vars[h].packed THEN Pack(rest, h) ELSE rest
  BY DEF EraseElements, rest, g
<1> QED
  BY <1>4, <1>6, <1>7

\* ArrayVar::Fill keeps them as well.
LEMMA FilledKeeps ==
    ASSUME NEW s, HeapOK(s), NEW h \in Live(s), NEW value \in Nat \cup {Other}
    PROVE  Keeps(s, Filled(s, h, value))
<1> DEFINE N == Cardinality(Keys)
           F == Filling(s, h, value)
           T == {n \in Nat : n <= N => Keeps(s, F[n])}
<1>1. N \in Nat /\ Keys = 0 .. N - 1
  BY KeysFacts
<1>2. /\ F[0] = s
      /\ \A n \in 1 .. N : F[n] = FillRound(F[n - 1], n, h, value)
  BY <1>1, FillingStep
<1> HIDE DEF F
<1>3. 0 \in T
  BY <1>2, KeepsReflexive
<1>4. ASSUME NEW n \in Nat, n \in T PROVE n + 1 \in T
  <2>1. SUFFICES ASSUME n + 1 <= N PROVE Keeps(s, F[n + 1])
    OBVIOUS
  <2> DEFINE t == F[n]
  <2>2. n <= N /\ n + 1 \in 1 .. N /\ (n + 1) - 1 = n /\ n \in Keys
    BY <1>1, <2>1
  <2>3. Keeps(s, t)
    BY <1>4, <2>2
  <2>4. F[n + 1] = SetElement(t, h, n, value)
    BY <1>2, <2>2 DEF FillRound
  <2> HIDE DEF t
  <2>5. HeapOK(t) /\ h \in Live(t)
    BY <2>3 DEF Keeps, Same
  <2>6. Keeps(t, SetElement(t, h, n, value))
    BY <2>2, <2>5, SetElementKeeps DEF KeySet
  <2> QED
    BY <2>3, <2>4, <2>6, KeepsTransitive
<1>5. T = Nat
  <2>1. T \in SUBSET Nat
    OBVIOUS
  <2> HIDE DEF T
  <2> QED
    BY <1>3, <1>4, <2>1, SetInduction
<1>6. Keeps(s, F[N])
  <2>1. N \in T /\ N <= N
    BY <1>1, <1>5
  <2> QED
    BY <2>1
<1> QED
  BY <1>6 DEF Filled, F

-----------------------------------------------------------------------------
(* Arrays are deleted and collected.                                       *)

\* The map forgets an array that has no elements.
Forgotten(u, t, h) ==
    /\ HeapOK(t) /\ Live(t) = Live(u) \ {h} /\ t.available = u.available \cup {h}
    /\ t.tempVars = u.tempVars \ {h}
    /\ GoodCache(u) /\ u.cache.id # h => GoodCache(t)
    /\ \A i \in Live(t) : Elements(t, i) = Elements(u, i)
    /\ \A i, c : Slots(t, i, c) = Slots(u, i, c)
    /\ \A i, c : i # h => Surplus(t, i, c) = Surplus(u, i, c)
    /\ h \in u.tempVars => \A c : Surplus(t, h, c) = Surplus(u, h, c)

\* What ArrayVarMap::Delete does after the elements are unset: the array is
\* removed, and its id is free again.
LEMMA ForgetForgets ==
    ASSUME NEW u, HeapOK(u), NEW h \in Live(u), Live(u) \subseteq IDs, DOMAIN Elements(u, h) = {}
    PROVE  Forgotten(u, Forget(u, h), h)
<1> DEFINE v == Restrict(u.vars, DOMAIN u.vars \ {h})
           k == Outdated(u.cache, h)
           q == u.tempVars \ {h}
           f == u.available \cup {h}
           t == Forget(u, h)
<1>1. /\ HeapRecord(u) /\ HeapType(u) /\ QueueOK(u) /\ u.available \cap Live(u) = {}
      /\ u.misled \in BOOLEAN
  BY DEF HeapOK, HeapType
<1>2. t = [u EXCEPT !.vars = v, !.tempVars = q, !.available = f, !.cache = k]
  BY <1>1 DEF Forget, HeapRecord
<1> HIDE DEF t, v, k, q, f
<1>3. t = [vars |-> v, tempVars |-> q, available |-> f, cache |-> k, misled |-> u.misled]
  BY <1>1, <1>2 DEF HeapRecord
<1>4. /\ t.vars = v /\ t.tempVars = q /\ t.available = f /\ t.cache = k
      /\ t.misled = u.misled /\ HeapRecord(t)
  BY <1>3 DEF HeapRecord
<1>5. Live(t) = Live(u) \ {h} /\ \A i \in Live(t) : t.vars[i] = u.vars[i]
  BY <1>4 DEF Live, Restrict, v
<1>6. IsMap(t.vars)
  BY <1>4 DEF IsMap, Restrict, v
<1>7. t.cache \in [id : IDs \cup Live(t), current : BOOLEAN]
      /\ (GoodCache(u) /\ u.cache.id # h => GoodCache(t))
  <2>1. u.cache \in [id : IDs \cup Live(u), current : BOOLEAN]
    BY <1>1 DEF HeapType
  <2>2. t.cache = [id |-> u.cache.id, current |-> u.cache.current /\ u.cache.id # h]
    BY <1>4, <2>1 DEF Outdated, k
  <2> QED
    BY <1>5, <2>1, <2>2 DEF GoodCache
<1>8. \A i \in Live(t) : IsArray(t.vars[i], IDs \cup Live(t))
  <2>1. SUFFICES ASSUME NEW i \in Live(t) PROVE IsArray(u.vars[i], IDs \cup Live(t))
    BY <1>5
  <2>2. IsArray(u.vars[i], IDs \cup Live(u))
    BY <1>1, <1>5 DEF HeapType
  <2>3. IDs \cup Live(u) = IDs \cup Live(t)
    BY <1>5
  <2> QED
    BY <2>2, <2>3
<1>9. HeapType(t)
  <2>1. /\ Live(t) \subseteq AllIDs /\ f \subseteq AllIDs \cap IDs
        /\ \E n \in Nat : Live(t) \subseteq 1 .. n
    BY <1>1, <1>5 DEF HeapType, f
  <2> QED
    BY <1>1, <1>4, <1>6, <1>7, <1>8, <2>1 DEF HeapType
<1>10. QueueOK(t)
  BY <1>1, <1>4, <1>5 DEF QueueOK, q
<1>11. HeapOK(t)
  BY <1>1, <1>4, <1>5, <1>9, <1>10 DEF HeapOK, f
<1>12. \A i \in Live(t) : Elements(t, i) = Elements(u, i)
  BY <1>5 DEF Elements
<1>13. \A i, c : Slots(t, i, c) = Slots(u, i, c)
  <2>1. \A p \in Live(u) \X Keys : p[2] \in DOMAIN Elements(u, p[1]) => p[1] # h
    OBVIOUS
  <2> QED
    BY <1>5, <1>12, <2>1 DEF Slots
<1>14. \A i, c : i # h => Refs(t, i, c) = Refs(u, i, c)
  BY <1>5 DEF Refs
<1>15. \A i, c : i # h => Surplus(t, i, c) = Surplus(u, i, c)
  BY <1>13, <1>14 DEF Surplus
<1>16. h \in u.tempVars => \A c : Surplus(t, h, c) = Surplus(u, h, c)
  <2>1. SUFFICES ASSUME h \in u.tempVars PROVE \A c : Refs(t, h, c) = Refs(u, h, c)
    BY <1>13 DEF Surplus
  <2>2. u.vars[h].refs = <<>>
    BY <1>1, <2>1 DEF QueueOK
  <2>3. \A c : Refs(u, h, c) = 0
    BY <2>2, OccurrencesOfEmpty DEF Refs
  <2>4. \A c : Refs(t, h, c) = 0
    BY <1>5 DEF Refs
  <2> QED
    BY <2>3, <2>4
<1>17. Forgotten(u, t, h)
  BY <1>4, <1>5, <1>7, <1>11, <1>12, <1>13, <1>15, <1>16 DEF Forgotten, q, f
<1> QED
  BY <1>17 DEF t

\* t is s without the array h, whose elements gave up their references.
Deleted(s, t, h) ==
    /\ HeapOK(t) /\ Live(t) = Live(s) \ {h} /\ t.available = s.available \cup {h}
    /\ Sound(s, h) => GoodCache(t)
    /\ \A i \in Live(t) : Elements(t, i) = Elements(s, i)
    /\ \A i \in AllIDs, c \in SUBSET Owners : i # h =>
          /\ Surplus(t, i, c) >= Surplus(s, i, c)
          /\ NonNeg(s) => Surplus(t, i, c) = Surplus(s, i, c)
    /\ h \in s.tempVars => Grows(s, t)

\* ArrayVarMap::Delete removes one array, and the references its elements had.
LEMMA DeleteDeletes ==
    ASSUME NEW s, HeapOK(s), NEW h \in Live(s), Live(s) \subseteq IDs
    PROVE  Deleted(s, Delete(s, h), h)
<1> DEFINE g == Get(s, h)
           r == CacheRemove(g, h)
           u == UnsetKeys(r, h, Keys)
           t == Forget(u, h)
<1>1. t = Delete(s, h)
  BY DEF Delete
<1>2. HeapType(s) /\ h \in Nat /\ h # 0 /\ 0 \notin Live(s)
  BY ArrayFacts DEF HeapOK, HeapType, AllIDs
<1>3. /\ g.vars = s.vars /\ g.tempVars = s.tempVars /\ g.available = s.available
      /\ HeapOK(g) /\ g.cache.id = h
  BY <1>2, GetKeeps DEF Keeps
<1>4. /\ r.vars = s.vars /\ r.tempVars = s.tempVars /\ r.available = s.available
      /\ r.cache = NothingCached /\ r.misled = g.misled /\ HeapRecord(r)
  <2> HIDE DEF g
  <2>1. g = [vars |-> g.vars, tempVars |-> g.tempVars, available |-> g.available,
             cache |-> g.cache, misled |-> g.misled]
    BY <1>3 DEF HeapOK, HeapType, HeapRecord
  <2>2. r = [g EXCEPT !.cache = NothingCached]
    BY <1>3, <2>1 DEF CacheRemove
  <2> HIDE DEF r
  <2>3. r = [vars |-> g.vars, tempVars |-> g.tempVars, available |-> g.available,
             cache |-> NothingCached, misled |-> g.misled]
    BY <2>1, <2>2
  <2>4. HeapRecord(r)
    BY <2>3 DEF HeapRecord
  <2> QED
    BY <1>3, <2>3, <2>4
<1> HIDE DEF r
<1>5. /\ Live(r) = Live(s) /\ \A id : Elements(r, id) = Elements(s, id)
      /\ \A id, c : Surplus(r, id, c) = Surplus(s, id, c)
  BY <1>4, SameArrays
<1>6. HeapOK(r) /\ GoodCache(r) /\ r.cache.id # h
  <2>1. r.cache = [id |-> 0, current |-> TRUE]
    BY <1>4 DEF NothingCached
  <2>2. g.misled \in BOOLEAN
    BY <1>3 DEF HeapOK, HeapType
  <2>3. r.cache \in [id : IDs \cup Live(r), current : BOOLEAN]
    BY <2>1, IDsFacts
  <2>4. HeapType(r)
    BY <1>2, <1>4, <1>5, <2>2, <2>3 DEF HeapType
  <2>5. QueueOK(r) /\ r.available \cap Live(r) = {}
    BY <1>4, <1>5 DEF HeapOK, QueueOK
  <2> QED
    BY <1>2, <2>1, <2>4, <2>5 DEF HeapOK, GoodCache
<1>7. KeysUnset(r, u, h, Keys)
  BY <1>5, <1>6, UnsetKeysUnsets
<1> HIDE DEF u
<1>8. /\ HeapOK(u) /\ Live(u) = Live(s) /\ u.available = s.available
      /\ Grows(r, u) /\ GoodCache(u) /\ s.tempVars \subseteq u.tempVars
      /\ \A i \in Live(s) : i # h => Elements(u, i) = Elements(s, i)
  BY <1>4, <1>5, <1>6, <1>7 DEF KeysUnset, Keeps, Same
<1>9. DOMAIN Elements(u, h) = {}
  <2>1. DOMAIN Elements(s, h) \subseteq Keys
    BY <1>2, ArrayFacts
  <2> QED
    BY <1>5, <1>7, <2>1 DEF KeysUnset
<1>10. Sound(s, h) => u.cache.id # h
  <2>1. Sound(s, h) => Sound(r, h)
    BY <1>5 DEF Sound
  <2> QED
    BY <1>6, <1>7, <2>1 DEF KeysUnset
<1>11. Forgotten(u, t, h)
  BY <1>8, <1>9, ForgetForgets
<1> HIDE DEF t
<1>12. NonNeg(s) => NonNeg(r)
  BY <1>5 DEF NonNeg
<1>13. \A i \in AllIDs, c \in SUBSET Owners :
          /\ Surplus(u, i, c) >= Surplus(s, i, c)
          /\ NonNeg(s) => Surplus(u, i, c) = Surplus(s, i, c)
  BY <1>5, <1>8, <1>12 DEF Grows
<1>14. h \in s.tempVars => Grows(s, t)
  <2>1. SUFFICES ASSUME h \in s.tempVars PROVE Grows(s, t)
    OBVIOUS
  <2>2. \A i, c : Surplus(t, i, c) = Surplus(u, i, c)
    BY <1>8, <1>11, <2>1 DEF Forgotten
  <2> QED
    BY <1>13, <2>2 DEF Grows
<1>15. /\ HeapOK(t) /\ Live(t) = Live(s) \ {h} /\ t.available = s.available \cup {h}
       /\ Sound(s, h) => GoodCache(t)
  BY <1>8, <1>10, <1>11 DEF Forgotten
<1>16. \A i \in Live(t) : Elements(t, i) = Elements(s, i)
  BY <1>8, <1>11, <1>15 DEF Forgotten
<1>17. \A i \in AllIDs, c \in SUBSET Owners : i # h =>
          /\ Surplus(t, i, c) >= Surplus(s, i, c)
          /\ NonNeg(s) => Surplus(t, i, c) = Surplus(s, i, c)
  BY <1>11, <1>13 DEF Forgotten
<1>18. Deleted(s, t, h)
  BY <1>14, <1>15, <1>16, <1>17 DEF Deleted
<1> QED
  BY <1>1, <1>18

\* A free id stays one.
LEMMA DeletedIds ==
    ASSUME NEW s, NEW t, NEW h, h \in Live(s), Live(t) = Live(s) \ {h},
           t.available = s.available \cup {h}, NEW w, w \notin Live(s), IdsOK(s, w)
    PROVE  IdsOK(t, w) /\ w \notin Live(t)
<1>1. Taken(t, w) = Taken(s, w)
  BY DEF Taken
<1>2. t.available \cap (Live(t) \cup {w}) = {}
  BY DEF IdsOK
<1> QED
  BY <1>1, <1>2 DEF IdsOK

\* No more elements name an array than there are references to it.
Backed(s) == \A id \in AllIDs : Surplus(s, id, Owners) >= 0

\* What is queued, no element names.
LEMMA QueuedIsUnnamed ==
    ASSUME NEW s, HeapOK(s), Backed(s), NEW h \in s.tempVars,
           NEW g \in Live(s), NEW k \in DOMAIN Elements(s, g)
    PROVE  Elements(s, g)[k] # h
<1> DEFINE S == Slots(s, h, Owners)
<1>1. h \in Live(s) /\ s.vars[h].refs = <<>> /\ HeapType(s)
  BY DEF HeapOK, QueueOK
<1>2. Refs(s, h, Owners) = 0
  BY <1>1, OccurrencesOfEmpty DEF Refs
<1>3. IsFiniteSet(S) /\ Cardinality(S) \in Nat
  BY <1>1, SlotsAreFinite
<1>4. Surplus(s, h, Owners) >= 0
  BY <1>1, ArrayFacts DEF Backed
<1>5. Surplus(s, h, Owners) = 0 - Cardinality(S)
  BY <1>2 DEF Surplus
<1>6. S = {}
  <2> HIDE DEF S
  <2>1. Cardinality(S) = 0
    BY <1>3, <1>4, <1>5
  <2> QED
    BY <1>3, <2>1, FS_EmptySet
<1>7. k \in Keys /\ s.vars[g].owner \in Owners
  BY <1>1, ArrayFacts
<1>8. Elements(s, g)[k] = h => <<g, k>> \in S
  BY <1>7 DEF Slots
<1> QED
  BY <1>6, <1>8

\* Arrays each of which is referred to from outside, or by an element of one of
\* them.
Supported(s, S) ==
    /\ S \subseteq Live(s)
    /\ \A id \in S : \/ Surplus(s, id, Owners) >= 1
                     \/ \E h \in S : \E k \in DOMAIN Elements(s, h) : Elements(s, h)[k] = id

\* t is s without some arrays that nothing refers to.
Cleaned(s, t) ==
    /\ HeapOK(t) /\ Live(t) \subseteq Live(s) /\ Grows(s, t)
    /\ \A i \in Live(t) : Elements(t, i) = Elements(s, i)
    /\ \A w \in Nat : w \notin Live(s) /\ IdsOK(s, w) => IdsOK(t, w)
    /\ Backed(s) /\ GoodCache(s) /\ ~IsHollow(s) => GoodCache(t) /\ ~IsHollow(t)
    /\ Backed(s) => \A S : Supported(s, S) => S \subseteq Live(t)

\* Where every element is accounted for, a step that loses no reference leaves it so.
LEMMA BackedGrows ==
    ASSUME NEW s, NEW t, HeapType(s), HeapType(t), Grows(s, t), Backed(s)
    PROVE  Backed(t)
<1>1. ASSUME NEW id \in AllIDs PROVE Surplus(t, id, Owners) >= 0
  <2>1. Surplus(t, id, Owners) >= Surplus(s, id, Owners) /\ Surplus(s, id, Owners) >= 0
    BY DEF Grows, Backed
  <2>2. Surplus(t, id, Owners) \in Int /\ Surplus(s, id, Owners) \in Int
    BY SurplusType
  <2> QED
    BY <2>1, <2>2
<1> QED
  BY <1>1 DEF Backed

\* A collection that has done nothing yet.
LEMMA CleanedReflexive ==
    ASSUME NEW s, HeapOK(s)
    PROVE  Cleaned(s, s)
<1>1. Grows(s, s)
  BY GrowsReflexive DEF HeapOK
<1> QED
  BY <1>1 DEF Cleaned, Supported

\* In a heap whose elements all name other arrays, so do those of each.
LEMMA NotHollow ==
    ASSUME NEW s, HeapType(s), ~IsHollow(s), NEW h \in Live(s)
    PROVE  Sound(s, h)
<1>1. DOMAIN Elements(s, h) \subseteq Keys
  BY ArrayFacts
<1> QED
  BY <1>1 DEF IsHollow, Sound

\* The collection goes on with an array of the queue: what supports itself stays.
LEMMA CleanedOne ==
    ASSUME NEW s, HeapOK(s), Live(s) \subseteq IDs, NEW t, Cleaned(s, t), NEW h \in t.tempVars
    PROVE  /\ Cleaned(s, Delete(t, h))
           /\ Live(Delete(t, h)) = Live(t) \ {h}
<1> DEFINE u == Delete(t, h)
<1>1. /\ HeapOK(t) /\ HeapType(t) /\ Live(t) \subseteq Live(s) /\ Grows(s, t)
      /\ \A i \in Live(t) : Elements(t, i) = Elements(s, i)
      /\ Live(t) \subseteq IDs /\ HeapType(s)
  BY DEF Cleaned, HeapOK
<1>2. h \in Live(t) /\ t.vars[h].refs = <<>>
  BY <1>1 DEF HeapOK, QueueOK
<1>3. Deleted(t, u, h)
  BY <1>1, <1>2, DeleteDeletes
<1> HIDE DEF u
<1>4. /\ HeapOK(u) /\ HeapType(u) /\ Live(u) = Live(t) \ {h}
      /\ u.available = t.available \cup {h}
      /\ (Sound(t, h) => GoodCache(u)) /\ Grows(t, u)
      /\ \A i \in Live(u) : Elements(u, i) = Elements(t, i)
  BY <1>3 DEF Deleted, HeapOK
<1>5. Grows(s, u)
  BY <1>1, <1>4, GrowsTransitive
<1>6. Live(u) \subseteq Live(s) /\ \A i \in Live(u) : Elements(u, i) = Elements(s, i)
  BY <1>1, <1>4
<1>7. ASSUME NEW w \in Nat, w \notin Live(s), IdsOK(s, w) PROVE IdsOK(u, w)
  <2>1. IdsOK(t, w) /\ w \notin Live(t)
    BY <1>1, <1>7 DEF Cleaned
  <2> QED
    BY <1>2, <1>4, <2>1, DeletedIds
<1>8. Backed(s) => Backed(t)
  BY <1>1, BackedGrows
<1>9. ASSUME Backed(s), GoodCache(s), ~IsHollow(s)
      PROVE  GoodCache(u) /\ ~IsHollow(u)
  <2>1. GoodCache(t) /\ ~IsHollow(t) /\ Backed(t)
    BY <1>8, <1>9 DEF Cleaned
  <2>2. Sound(t, h)
    BY <1>1, <1>2, <2>1, NotHollow
  <2>3. ASSUME NEW id \in Live(u), NEW k \in DOMAIN Elements(u, id), Elements(u, id)[k] # Other
        PROVE  Elements(u, id)[k] \in Live(u) \ {id}
    <3>1. id \in Live(t) /\ Elements(u, id) = Elements(t, id)
      BY <1>4
    <3>2. Elements(t, id)[k] \in Live(t) \ {id}
      BY <1>1, <2>1, <2>3, <3>1, NotHollow DEF Sound
    <3>3. Elements(t, id)[k] # h
      BY <1>1, <2>1, <3>1, QueuedIsUnnamed
    <3> QED
      BY <1>4, <3>1, <3>2, <3>3
  <2>4. ~IsHollow(u)
    BY <2>3 DEF IsHollow
  <2> QED
    BY <1>4, <2>2, <2>4
<1>10. ASSUME Backed(s), NEW S, Supported(s, S) PROVE S \subseteq Live(u)
  <2>1. S \subseteq Live(t)
    BY <1>10 DEF Cleaned
  <2>2. SUFFICES ASSUME h \in S PROVE FALSE
    BY <1>4, <2>1
  <2>3. h \in AllIDs /\ Refs(t, h, Owners) = 0
    BY <1>1, <1>2, ArrayFacts, OccurrencesOfEmpty DEF Refs
  <2>4. CASE Surplus(s, h, Owners) >= 1
    <3>1. Surplus(t, h, Owners) >= Surplus(s, h, Owners)
      BY <1>1, <2>3 DEF Grows
    <3>2. /\ Surplus(t, h, Owners) <= Refs(t, h, Owners)
          /\ Surplus(t, h, Owners) \in Int /\ Surplus(s, h, Owners) \in Int
      BY <1>1, SurplusType
    <3> QED
      BY <2>3, <2>4, <3>1, <3>2
  <2>5. CASE \E g \in S : \E k \in DOMAIN Elements(s, g) : Elements(s, g)[k] = h
    <3>1. PICK g \in S : \E k \in DOMAIN Elements(s, g) : Elements(s, g)[k] = h
      BY <2>5
    <3>2. g \in Live(t) /\ Elements(t, g) = Elements(s, g)
      BY <1>1, <2>1
    <3>3. PICK k \in DOMAIN Elements(t, g) : Elements(t, g)[k] = h
      BY <3>1, <3>2
    <3> QED
      BY <1>1, <1>8, <1>10, <3>2, <3>3, QueuedIsUnnamed
  <2> QED
    BY <1>10, <2>2, <2>4, <2>5 DEF Supported
<1>11. Cleaned(s, u)
  BY <1>4, <1>5, <1>6, <1>7, <1>9, <1>10 DEF Cleaned
<1> QED
  BY <1>4, <1>11 DEF u

\* Clean deletes all that is queued, and nothing that is referred to.
LEMMA CleanCleans ==
    ASSUME NEW s, HeapOK(s), Live(s) \subseteq IDs
    PROVE  Cleaned(s, Clean(s)) /\ Clean(s).tempVars = {}
<1> DEFINE N == Cardinality(Live(s))
           F == Cleaning(s)
           P(n) == /\ Cleaned(s, F[n])
                   /\ F[n].tempVars = {} \/ Cardinality(Live(F[n])) <= N - n
           T == {n \in Nat : n <= N => P(n)}
<1>1. IsFiniteSet(Live(s)) /\ N \in Nat
  BY LiveIsFinite, FS_CardinalityType DEF HeapOK
<1>2. /\ F[0] = s
      /\ \A n \in 1 .. N : F[n] = CleanRound(F[n - 1], n)
  BY <1>1, CleaningStep
<1> HIDE DEF F
<1>3. 0 \in T
  <2>1. Cleaned(s, F[0])
    BY <1>2, CleanedReflexive
  <2>2. Cardinality(Live(F[0])) <= N - 0
    BY <1>1, <1>2
  <2> QED
    BY <2>1, <2>2
<1>4. ASSUME NEW n \in Nat, n \in T PROVE n + 1 \in T
  <2>1. SUFFICES ASSUME n + 1 <= N PROVE P(n + 1)
    OBVIOUS
  <2> DEFINE t == F[n]
             h == Min(t.tempVars)
             u == Delete(t, h)
  <2>2. n <= N /\ n + 1 \in 1 .. N /\ (n + 1) - 1 = n
    BY <1>1, <2>1
  <2>3. Cleaned(s, t) /\ (t.tempVars = {} \/ Cardinality(Live(t)) <= N - n)
    BY <1>4, <2>2
  <2>4. F[n + 1] = IF t.tempVars = {} THEN t ELSE u
    BY <1>2, <2>2 DEF CleanRound
  <2> HIDE DEF t
  <2>5. CASE t.tempVars = {}
    BY <2>3, <2>4, <2>5
  <2>6. CASE t.tempVars # {}
    <3>1. HeapOK(t) /\ HeapType(t)
      BY <2>3 DEF Cleaned, HeapOK
    <3>2. t.tempVars \subseteq Live(t) /\ Live(t) \subseteq Nat
      BY <3>1 DEF HeapOK, HeapType, QueueOK, AllIDs
    <3>3. h \in t.tempVars
      BY <2>6, <3>2, MinOfSet
    <3> HIDE DEF h
    <3>4. Cleaned(s, u) /\ Live(u) = Live(t) \ {h}
      BY <2>3, <3>3, CleanedOne
    <3> HIDE DEF u
    <3>5. IsFiniteSet(Live(t)) /\ Cardinality(Live(t)) \in Nat
      BY <3>1, LiveIsFinite, FS_CardinalityType
    <3>6. Cardinality(Live(u)) = Cardinality(Live(t)) - 1
      BY <3>2, <3>3, <3>4, <3>5, FS_RemoveElement
    <3>7. Cardinality(Live(u)) <= N - (n + 1)
      BY <1>1, <2>3, <2>6, <3>5, <3>6
    <3> QED
      BY <2>4, <2>6, <3>4, <3>7
  <2> QED
    BY <2>5, <2>6
<1>5. T = Nat
  <2>1. T \in SUBSET Nat
    OBVIOUS
  <2> HIDE DEF T
  <2> QED
    BY <1>3, <1>4, <2>1, SetInduction
<1>6. P(N)
  <2>1. N \in T /\ N <= N
    BY <1>1, <1>5
  <2> QED
    BY <2>1
<1> DEFINE t == F[N]
<1>7. Clean(s) = t
  BY DEF Clean, F
<1>8. Cleaned(s, t) /\ (t.tempVars = {} \/ Cardinality(Live(t)) <= 0)
  BY <1>1, <1>6
<1> HIDE DEF t
<1>9. t.tempVars = {}
  <2>1. HeapOK(t) /\ HeapType(t) /\ t.tempVars \subseteq Live(t)
    BY <1>8 DEF Cleaned, HeapOK, QueueOK
  <2>2. IsFiniteSet(Live(t)) /\ Cardinality(Live(t)) \in Nat
    BY <2>1, LiveIsFinite, FS_CardinalityType
  <2>3. Cardinality(Live(t)) <= 0 => Live(t) = {}
    BY <2>2, FS_EmptySet
  <2> QED
    BY <1>8, <2>1, <2>3
<1> QED
  BY <1>7, <1>8, <1>9

\* A collection with Erase first, of an array the hook made.
LEMMA EraseDeletes ==
    ASSUME NEW s, HeapOK(s), NEW h \in Live(s), Live(s) \subseteq IDs
    PROVE  Deleted(s, Erase(s, h), h) /\ (Sound(s, h) => GoodCache(Erase(s, h)))
<1> DEFINE g == Get(s, h)
           u == UnsetKeys(g, h, Keys)
           t == Delete(u, h)
<1>1. t = Erase(s, h)
  BY DEF Erase
<1>2. h \in Nat /\ HeapType(s)
  BY ArrayFacts DEF HeapOK
<1>3. Keeps(s, g) /\ HeapOK(g) /\ Live(g) = Live(s) /\ g.vars = s.vars /\ g.tempVars = s.tempVars
  BY <1>2, GetKeeps DEF Keeps, Same
<1>4. \A id : Elements(g, id) = Elements(s, id)
  BY <1>3, SameArrays
<1> HIDE DEF g
<1>5. KeysUnset(g, u, h, Keys)
  BY <1>3, UnsetKeysUnsets
<1> HIDE DEF u
<1>6. /\ Keeps(g, u) /\ HeapOK(u) /\ Live(u) = Live(s) /\ s.tempVars \subseteq u.tempVars
      /\ \A i \in Live(s) : i # h => Elements(u, i) = Elements(s, i)
  BY <1>3, <1>4, <1>5 DEF KeysUnset, Keeps, Same
<1>7. Keeps(s, u)
  BY <1>3, <1>6, KeepsTransitive
<1>8. DOMAIN Elements(u, h) = {}
  <2>1. DOMAIN Elements(s, h) \subseteq Keys
    BY <1>2, ArrayFacts
  <2> QED
    BY <1>4, <1>5, <2>1 DEF KeysUnset
<1>9. Sound(u, h)
  BY <1>8 DEF Sound
<1>10. Deleted(u, t, h)
  BY <1>6, DeleteDeletes
<1> HIDE DEF t
<1>11. u.available = s.available /\ HeapType(u)
  BY <1>6, <1>7 DEF Keeps, Same, HeapOK
<1>12. /\ HeapOK(t) /\ Live(t) = Live(s) \ {h} /\ t.available = s.available \cup {h}
       /\ GoodCache(t)
       /\ \A i \in Live(t) : Elements(t, i) = Elements(u, i)
  BY <1>6, <1>9, <1>10, <1>11 DEF Deleted
<1>13. \A i \in Live(t) : Elements(t, i) = Elements(s, i)
  BY <1>6, <1>12
<1>14. ASSUME NEW i \in AllIDs, NEW c \in SUBSET Owners, i # h
       PROVE  /\ Surplus(t, i, c) >= Surplus(s, i, c)
              /\ NonNeg(s) => Surplus(t, i, c) = Surplus(s, i, c)
  <2>1. /\ Surplus(u, i, c) >= Surplus(s, i, c)
        /\ NonNeg(s) => Surplus(u, i, c) = Surplus(s, i, c)
    BY <1>7 DEF Keeps, Grows
  <2>2. NonNeg(s) => NonNeg(u)
    BY <1>7 DEF Keeps, Grows, NonNeg
  <2>3. /\ Surplus(t, i, c) >= Surplus(u, i, c)
        /\ NonNeg(u) => Surplus(t, i, c) = Surplus(u, i, c)
    BY <1>10, <1>14 DEF Deleted
  <2>4. Surplus(s, i, c) \in Int /\ Surplus(u, i, c) \in Int /\ Surplus(t, i, c) \in Int
    BY <1>2, <1>11, <1>12, SurplusType DEF HeapOK
  <2> QED
    BY <2>1, <2>2, <2>3, <2>4
<1>15. h \in s.tempVars => Grows(s, t)
  <2>1. h \in s.tempVars => Grows(u, t)
    BY <1>6, <1>10 DEF Deleted
  <2> QED
    BY <1>2, <1>7, <1>11, <1>12, <2>1, GrowsTransitive DEF Keeps, HeapOK
<1>16. Deleted(s, t, h)
  BY <1>12, <1>13, <1>14, <1>15 DEF Deleted
<1> QED
  BY <1>1, <1>12, <1>16

-----------------------------------------------------------------------------
(* Arrays are copied.                                                      *)

\* The arrays are there still, with the keys they had.
Wider(s, t) ==
    /\ Live(s) \subseteq Live(t)
    /\ \A i \in Live(s) : DOMAIN Elements(s, i) \subseteq DOMAIN Elements(t, i)

\* The calls of Copy that run: on arrays that are there, whose elements they have
\* to copy yet.
CallsOK(s, calls) ==
    /\ calls \in Seq([copy : Live(s), from : Live(s), left : SUBSET Keys])
    /\ \A i \in 1 .. Len(calls) : calls[i].left \subseteq DOMAIN Elements(s, calls[i].from)

\* All but the last wait at an element.
WaitOnes(calls, n) == \A i \in 1 .. n : calls[i].left # {}

\* The copy's calls are still good when the heap has got arrays.
LEMMA CallsWiden ==
    ASSUME NEW s, NEW t, Wider(s, t), NEW calls, CallsOK(s, calls)
    PROVE  CallsOK(t, calls)
<1> DEFINE S == [copy : Live(s), from : Live(s), left : SUBSET Keys]
           T == [copy : Live(t), from : Live(t), left : SUBSET Keys]
<1>1. calls \in Seq(S) /\ S \subseteq T
  BY DEF CallsOK, Wider
<1> HIDE DEF S, T
<1>2. Len(calls) \in Nat /\ DOMAIN calls = 1 .. Len(calls) /\ \A i \in 1 .. Len(calls) : calls[i] \in S
  BY <1>1
<1> USE DEF S, T
<1>3. calls = [i \in 1 .. Len(calls) |-> calls[i]]
  BY <1>1
<1>4. calls \in Seq(T)
  <2> HIDE DEF S, T
  <2> QED
    BY <1>1, <1>2, <1>3
<1>5. \A i \in 1 .. Len(calls) : calls[i].left \subseteq DOMAIN Elements(t, calls[i].from)
  BY <1>2 DEF CallsOK, Wider
<1> QED
  BY <1>4, <1>5 DEF CallsOK

\* Two steps that only add arrays only add arrays together.
LEMMA WiderTransitive ==
    ASSUME NEW r, NEW s, NEW t, Wider(r, s), Wider(s, t)
    PROVE  Wider(r, t)
BY DEF Wider

\* A call more.
LEMMA EntersOK ==
    ASSUME NEW s, HeapOK(s), NEW calls, CallsOK(s, calls), WaitOnes(calls, Len(calls)),
           NEW from \in Live(s), NEW mod \in Owners
    PROVE  LET c == Enters(s, calls, from, mod) IN
           /\ c = [heap |-> c.heap, calls |-> c.calls]
           /\ Extends(s, c.heap) /\ CallsOK(c.heap, c.calls)
           /\ WaitOnes(c.calls, Len(c.calls) - 1)
<1> DEFINE c == Enters(s, calls, from, mod)
           g == Get(s, from)
           t == Create(g, s.vars[from].packed, mod)
           call == [copy |-> UnusedID(s), from |-> from, left |-> DOMAIN Elements(s, from)]
<1>1. c = [heap |-> t, calls |-> Append(calls, call)]
  BY DEF Enters
<1>2. from \in Nat /\ s.vars[from].packed \in BOOLEAN /\ DOMAIN Elements(s, from) \subseteq Keys
  BY ArrayFacts DEF HeapOK
<1>3. g.vars = s.vars /\ g.available = s.available /\ Keeps(s, g)
  BY <1>2, GetKeeps
<1> HIDE DEF g
<1>4. UnusedID(g) = UnusedID(s) /\ Live(g) = Live(s) /\ \A i : Elements(g, i) = Elements(s, i)
  BY <1>3, SameArrays DEF UnusedID
<1>5. HeapOK(g) /\ Extends(s, g)
  BY <1>3, KeepsExtends DEF Keeps
<1>6. Created(g, t, UnusedID(s)) /\ Extends(g, t)
  BY <1>2, <1>4, <1>5, CreateCreates, CreateExtends
<1> HIDE DEF t
<1>7. Extends(s, t)
  BY <1>5, <1>6, ExtendsTransitive
<1>8. Wider(s, t) /\ UnusedID(s) \in Live(t) /\ from \in Live(t)
      /\ Elements(t, from) = Elements(s, from)
  BY <1>4, <1>6 DEF Created, Wider
<1>9. CallsOK(t, calls)
  BY <1>8, CallsWiden
<1> DEFINE T == [copy : Live(t), from : Live(t), left : SUBSET Keys]
<1>10. call \in T
  BY <1>2, <1>8
<1>11. calls \in Seq(T)
  BY <1>9 DEF CallsOK
<1>12. call.from = from /\ call.left = DOMAIN Elements(t, from)
  BY <1>8
<1> HIDE DEF call, T
<1>13. /\ Append(calls, call) \in Seq(T) /\ Len(Append(calls, call)) = Len(calls) + 1
       /\ Len(calls) \in Nat
       /\ \A i \in 1 .. Len(calls) : Append(calls, call)[i] = calls[i]
       /\ Append(calls, call)[Len(calls) + 1] = call
  BY <1>10, <1>11
<1> DEFINE d == Append(calls, call)
<1> HIDE DEF d
<1>14. \A i \in 1 .. Len(d) : d[i].left \subseteq DOMAIN Elements(t, d[i].from)
  <2> TAKE i \in 1 .. Len(d)
  <2>1. CASE i = Len(calls) + 1
    BY <1>12, <1>13, <2>1 DEF d
  <2>2. CASE i \in 1 .. Len(calls)
    BY <1>9, <1>13, <2>2 DEF d, CallsOK
  <2> QED
    BY <1>13, <2>1, <2>2 DEF d
<1>15. CallsOK(t, d)
  BY <1>13, <1>14 DEF d, T, CallsOK
<1>16. WaitOnes(d, Len(d) - 1)
  BY <1>13 DEF d, WaitOnes
<1>17. c.heap = t /\ c.calls = d
  BY <1>1 DEF d
<1> HIDE DEF c
<1>18. c = [heap |-> c.heap, calls |-> c.calls]
  BY <1>1, <1>17 DEF d
<1> QED
  BY <1>7, <1>15, <1>16, <1>17, <1>18 DEF c

\* The last call copies an element.
LEMMA CopiesOK ==
    ASSUME NEW c, HeapOK(c.heap), CallsOK(c.heap, c.calls), c.calls # <<>>,
           WaitOnes(c.calls, Len(c.calls)), NEW value \in Nat \cup {Other}
    PROVE  LET d == Copies(c, value) IN
           /\ d = [heap |-> d.heap, calls |-> d.calls]
           /\ Extends(c.heap, d.heap) /\ CallsOK(d.heap, d.calls)
           /\ WaitOnes(d.calls, Len(d.calls) - 1)
<1> DEFINE d == Copies(c, value)
           s == c.heap
           calls == c.calls
           n == Len(calls)
           key == Min(calls[n].left)
           t == SetElement(s, calls[n].copy, key, value)
           e == [calls EXCEPT ![n].left = @ \ {key}]
           S == [copy : Live(s), from : Live(s), left : SUBSET Keys]
<1>1. d = [heap |-> t, calls |-> e]
  BY DEF Copies
<1>2. calls \in Seq(S) /\ n \in Nat /\ n >= 1
  BY DEF CallsOK
<1>3. calls[n] \in S /\ calls[n].left # {}
  <2>1. n \in 1 .. n
    BY <1>2
  <2>2. calls[n].left # {}
    BY <2>1 DEF WaitOnes
  <2> HIDE DEF S
  <2> QED
    BY <1>2, <2>1, <2>2
<1>4. key \in Keys
  <2>1. calls[n].left \subseteq Nat /\ calls[n].left \subseteq Keys
    BY <1>3, KeysFacts
  <2> HIDE DEF n, calls
  <2> QED
    BY <2>1, <1>3, MinOfSet
<1>5. KeySet(s, t, calls[n].copy, key)
  BY <1>3, <1>4, SetElementKeeps
<1> HIDE DEF t, key
<1>6. HeapOK(t) /\ Extends(s, t) /\ Live(t) = Live(s)
  BY <1>5, KeepsExtends DEF KeySet, Keeps, Same
<1>7. Wider(s, t)
  BY <1>3, <1>5, <1>6 DEF Wider, KeySet
<1>8. CallsOK(t, calls)
  BY <1>7, CallsWiden
<1>9. /\ e \in Seq(S) /\ Len(e) = n
      /\ \A i \in 1 .. n : i # n => e[i] = calls[i]
      /\ e[n].from = calls[n].from /\ e[n].left \subseteq calls[n].left
  <2>1. [calls[n] EXCEPT !.left = @ \ {key}] \in S
    BY <1>3
  <2>2. [calls[n] EXCEPT !.left = @ \ {key}].from = calls[n].from
        /\ [calls[n] EXCEPT !.left = @ \ {key}].left = calls[n].left \ {key}
    BY <1>3
  <2> HIDE DEF S, n
  <2>3. e = [calls EXCEPT ![n] = [calls[n] EXCEPT !.left = @ \ {key}]]
    BY <1>2 DEF n
  <2> QED
    BY <2>1, <2>2, <2>3, <1>2 DEF n
<1> HIDE DEF e
<1>10. CallsOK(t, e)
  <2>1. e \in Seq([copy : Live(t), from : Live(t), left : SUBSET Keys])
    BY <1>6, <1>9
  <2>2. \A i \in 1 .. n : e[i].left \subseteq DOMAIN Elements(t, e[i].from)
    BY <1>8, <1>9 DEF CallsOK
  <2> QED
    BY <1>9, <2>1, <2>2 DEF CallsOK
<1>11. WaitOnes(e, Len(e) - 1)
  BY <1>2, <1>9 DEF WaitOnes
<1>12. d.heap = t /\ d.calls = e /\ d = [heap |-> d.heap, calls |-> d.calls]
  BY <1>1
<1> HIDE DEF d
<1> QED
  BY <1>6, <1>10, <1>11, <1>12 DEF d

\* A state of the copying, of which s was the heap before.
CopyingFrom(s, c) ==
    /\ c = [heap |-> c.heap, calls |-> c.calls]
    /\ HeapOK(c.heap) /\ Extends(s, c.heap)
    /\ CallsOK(c.heap, c.calls) /\ WaitOnes(c.calls, Len(c.calls) - 1)

\* What the caller of the last call is left with.
LEMMA ReturnsOK ==
    ASSUME NEW s, NEW calls, CallsOK(s, calls), calls # <<>>, WaitOnes(calls, Len(calls) - 1)
    PROVE  /\ CallsOK(s, Front(calls)) /\ WaitOnes(Front(calls), Len(Front(calls)))
           /\ Last(calls) = calls[Len(calls)] /\ Len(calls) \in Nat /\ Len(calls) >= 1
           /\ Last(calls).copy \in Live(s) /\ Last(calls).from \in Live(s)
           /\ Last(calls).left \subseteq DOMAIN Elements(s, Last(calls).from)
<1> DEFINE S == [copy : Live(s), from : Live(s), left : SUBSET Keys]
<1>1. calls \in Seq(S)
  BY DEF CallsOK
<1>2. calls[Len(calls)] \in S
  <2> HIDE DEF S
  <2> QED
    BY <1>1
<1>3. calls[Len(calls)].copy \in Live(s) /\ calls[Len(calls)].from \in Live(s)
  BY <1>2
<1> HIDE DEF S
<1>4. /\ Len(calls) \in Nat /\ Len(calls) >= 1 /\ Last(calls) = calls[Len(calls)]
      /\ Front(calls) \in Seq(S) /\ Len(Front(calls)) = Len(calls) - 1
      /\ \A i \in 1 .. Len(calls) - 1 : Front(calls)[i] = calls[i]
  BY <1>1 DEF Front, Last
<1>5. \A i \in 1 .. Len(Front(calls)) :
         Front(calls)[i].left \subseteq DOMAIN Elements(s, Front(calls)[i].from)
  BY <1>4 DEF CallsOK
<1>6. CallsOK(s, Front(calls))
  BY <1>4, <1>5 DEF CallsOK, S
<1>7. WaitOnes(Front(calls), Len(Front(calls)))
  BY <1>4 DEF WaitOnes
<1>8. Last(calls).left \subseteq DOMAIN Elements(s, Last(calls).from)
  BY <1>4 DEF CallsOK
<1> QED
  BY <1>3, <1>4, <1>6, <1>7, <1>8

\* A step of a copy leaves the heap extended, and its calls good.
LEMMA CopyStepOK ==
    ASSUME NEW s, HeapOK(s), NEW c, CopyingFrom(s, c), NEW mod \in Owners, NEW deep \in BOOLEAN
    PROVE  CopyingFrom(s, CopyStep(c, mod, deep))
<1> DEFINE call == Last(c.calls)
           value == Elements(c.heap, call.from)[Min(call.left)]
           under == [c EXCEPT !.calls = Front(@)]
           given == IF deep /\ value # Other THEN 0 ELSE value
           d == CopyStep(c, mod, deep)
<1>1. /\ c = [heap |-> c.heap, calls |-> c.calls]
      /\ HeapOK(c.heap) /\ Extends(s, c.heap)
      /\ CallsOK(c.heap, c.calls) /\ WaitOnes(c.calls, Len(c.calls) - 1)
  BY DEF CopyingFrom
<1>2. CASE c.calls = <<>>
  <2>1. d = c
    BY <1>2 DEF CopyStep
  <2> QED
    BY <2>1
<1>3. SUFFICES ASSUME c.calls # <<>> PROVE CopyingFrom(s, d)
  BY <1>2
<1>4. /\ CallsOK(c.heap, Front(c.calls)) /\ WaitOnes(Front(c.calls), Len(Front(c.calls)))
      /\ call = c.calls[Len(c.calls)] /\ Len(c.calls) \in Nat /\ Len(c.calls) >= 1
      /\ call.copy \in Live(c.heap) /\ call.from \in Live(c.heap)
      /\ call.left \subseteq DOMAIN Elements(c.heap, call.from)
  BY <1>1, <1>3, ReturnsOK
<1>5. ASSUME NEW e, HeapOK(e.heap), Extends(s, e.heap), CallsOK(e.heap, e.calls), e.calls # <<>>,
             WaitOnes(e.calls, Len(e.calls)), NEW x \in Nat \cup {Other}
      PROVE  CopyingFrom(s, Copies(e, x))
  <2> DEFINE f == Copies(e, x)
  <2>1. /\ f = [heap |-> f.heap, calls |-> f.calls]
        /\ Extends(e.heap, f.heap) /\ CallsOK(f.heap, f.calls)
        /\ WaitOnes(f.calls, Len(f.calls) - 1)
    BY <1>5, CopiesOK
  <2> HIDE DEF f
  <2>2. HeapOK(f.heap) /\ Extends(s, f.heap)
    BY <1>5, <2>1, ExtendsTransitive DEF Extends
  <2>3. CopyingFrom(s, f)
    BY <2>1, <2>2 DEF CopyingFrom
  <2> QED
    BY <2>3 DEF f
<1>6. CASE call.left = {}
  <2>1. under = [heap |-> c.heap, calls |-> Front(c.calls)]
    BY <1>1
  <2>2. under.heap = c.heap /\ under.calls = Front(c.calls)
    BY <2>1
  <2>3. CASE under.calls = <<>>
    <3>1. d = under
      BY <1>3, <1>6, <2>3 DEF CopyStep
    <3> HIDE DEF under, d
    <3>2. CopyingFrom(s, under)
      <4>1. WaitOnes(under.calls, Len(under.calls) - 1)
        BY <2>3 DEF WaitOnes
      <4> QED
        BY <1>1, <1>4, <2>1, <2>2, <4>1 DEF CopyingFrom
    <3> QED
      BY <3>1, <3>2
  <2>4. CASE under.calls # <<>>
    <3>1. d = Copies(under, call.copy)
      BY <1>3, <1>6, <2>4 DEF CopyStep
    <3>2. call.copy \in Nat
      BY <1>1, <1>4, ArrayFacts DEF HeapOK
    <3> HIDE DEF under, d
    <3>3. CopyingFrom(s, Copies(under, call.copy))
      BY <1>1, <1>4, <1>5, <2>2, <2>4, <3>2
    <3> QED
      BY <3>1, <3>3
  <2> QED
    BY <2>3, <2>4
<1>7. CASE call.left # {}
  <2>1. WaitOnes(c.calls, Len(c.calls))
    <3>1. \A i \in 1 .. Len(c.calls) : c.calls[i].left # {}
      <4>1. \A i \in 1 .. Len(c.calls) - 1 : c.calls[i].left # {}
        BY <1>1 DEF WaitOnes
      <4>2. c.calls[Len(c.calls)].left # {}
        BY <1>4, <1>7
      <4> QED
        BY <1>4, <4>1, <4>2
    <3> QED
      BY <3>1 DEF WaitOnes
  <2>2. Min(call.left) \in DOMAIN Elements(c.heap, call.from)
    <3>1. call.left \subseteq Nat
      BY <1>1, <1>4, ArrayFacts, KeysFacts DEF HeapOK
    <3> HIDE DEF call
    <3> QED
      BY <1>4, <1>7, <3>1, MinOfSet
  <2>3. value \in Nat \cup {Other}
    BY <1>1, <1>4, <2>2, ArrayFacts DEF HeapOK
  <2>4. CASE deep /\ value \in Live(c.heap)
    <3>1. d = Enters(c.heap, c.calls, value, mod)
      BY <1>3, <1>7, <2>4 DEF CopyStep
    <3> HIDE DEF value
    <3>2. /\ d = [heap |-> d.heap, calls |-> d.calls]
          /\ Extends(c.heap, d.heap) /\ CallsOK(d.heap, d.calls)
          /\ WaitOnes(d.calls, Len(d.calls) - 1)
      BY <1>1, <2>1, <2>4, <3>1, EntersOK
    <3> HIDE DEF d
    <3>3. HeapOK(d.heap) /\ Extends(s, d.heap)
      BY <1>1, <3>2, ExtendsTransitive DEF Extends
    <3> QED
      BY <3>2, <3>3 DEF CopyingFrom
  <2>5. CASE ~(deep /\ value \in Live(c.heap))
    <3>1. d = Copies(c, given)
      BY <1>3, <1>7, <2>5 DEF CopyStep
    <3>2. given \in Nat \cup {Other}
      BY <2>3
    <3> HIDE DEF given, d
    <3>3. CopyingFrom(s, Copies(c, given))
      BY <1>1, <1>3, <1>5, <2>1, <3>2
    <3> QED
      BY <3>1, <3>3
  <2> QED
    BY <2>4, <2>5
<1> QED
  BY <1>6, <1>7

\* A copy, shallow or deep, adds arrays.
LEMMA CopyExtends ==
    ASSUME NEW s, HeapOK(s), NEW from \in Live(s), NEW mod \in Owners, NEW deep \in BOOLEAN
    PROVE  Extends(s, Copy(s, from, mod, deep).heap)
<1> DEFINE c == Copying(s, from, mod, deep)
           P(n) == CopyingFrom(s, c[n])
           T == {n \in Nat : n <= CopySteps => P(n)}
<1>1. CopySteps \in Nat
  BY IDsFacts, KeysFacts DEF CopySteps
<1>2. c[0] = Enters(s, <<>>, from, mod)
      /\ \A n \in 1 .. CopySteps : c[n] = CopyStep(c[n - 1], mod, deep)
  BY <1>1, CopyingStep DEF CopyRound
<1> HIDE DEF c
<1>3. P(0)
  <2>1. CallsOK(s, <<>>) /\ WaitOnes(<<>>, Len(<<>>))
    BY DEF CallsOK, WaitOnes
  <2> DEFINE d == Enters(s, <<>>, from, mod)
  <2>2. /\ d = [heap |-> d.heap, calls |-> d.calls]
        /\ Extends(s, d.heap) /\ CallsOK(d.heap, d.calls)
        /\ WaitOnes(d.calls, Len(d.calls) - 1)
    BY <2>1, EntersOK
  <2> HIDE DEF d
  <2>3. CopyingFrom(s, d)
    BY <2>2 DEF CopyingFrom, Extends
  <2> QED
    BY <1>2, <2>3 DEF d
<1>4. ASSUME NEW n \in Nat, n + 1 <= CopySteps, P(n) PROVE P(n + 1)
  <2>1. n + 1 \in 1 .. CopySteps /\ (n + 1) - 1 = n
    BY <1>1, <1>4
  <2>2. c[n + 1] = CopyStep(c[n], mod, deep)
    BY <1>2, <2>1
  <2>3. CopyingFrom(s, CopyStep(c[n], mod, deep))
    BY <1>4, CopyStepOK
  <2> QED
    BY <2>2, <2>3
<1> HIDE DEF P
<1>5. 0 \in T /\ \A n \in T : n + 1 \in T
  BY <1>1, <1>3, <1>4
<1>6. T = Nat
  <2>1. T \in SUBSET Nat
    OBVIOUS
  <2> HIDE DEF T
  <2> QED
    BY <1>5, <2>1, SetInduction
<1>7. P(CopySteps)
  BY <1>1, <1>6
<1>8. Copy(s, from, mod, deep) = c[CopySteps]
  BY DEF Copy, c
<1> QED
  BY <1>7, <1>8 DEF P, CopyingFrom

-----------------------------------------------------------------------------
(* Who refers to an array, and how a change of the holders changes the counts. *)

\* A sequence of at most one: it is empty or has its first.
LEMMA AtMostOne ==
    ASSUME NEW S, NEW s \in Seq(S), Len(s) <= 1
    PROVE  s = <<>> \/ (s # <<>> /\ s = <<s[1]>> /\ DOMAIN s = {1} /\ s[1] \in S)
<1>1. Len(s) \in Nat /\ DOMAIN s = 1 .. Len(s)
  OBVIOUS
<1>2. CASE Len(s) = 0
  BY <1>2
<1>3. CASE Len(s) = 1
  <2>1. s[1] \in S /\ DOMAIN s = {1} /\ s # <<>>
    BY <1>3
  <2>2. s = <<s[1]>>
    BY <1>3
  <2> QED
    BY <2>1, <2>2
<1> QED
  BY <1>1, <1>2, <1>3

\* The frames: there is none, or one.
LEMMA FramesAre ==
    ASSUME NEW f, IsFrames(f)
    PROVE  \/ f = <<>>
           \/ f # <<>> /\ f = <<f[1]>> /\ DOMAIN f = {1}
              /\ f[1].mod \in Mods /\ f[1].id \in IDs /\ f[1].of \in {"call", "event", "tile"}
<1> DEFINE S == [mod : Mods, id : IDs, of : {"call", "event", "tile"}]
<1>1. f \in Seq(S) /\ Len(f) <= 1
  BY DEF IsFrames
<1>2. f = <<>> \/ (f # <<>> /\ f = <<f[1]>> /\ DOMAIN f = {1} /\ f[1] \in S)
  <2> HIDE DEF S
  <2> QED
    BY <1>1, AtMostOne
<1>3. f[1] \in S => f[1].mod \in Mods /\ f[1].id \in IDs /\ f[1].of \in {"call", "event", "tile"}
  OBVIOUS
<1> QED
  BY <1>2, <1>3

\* The loops: there is none, or one.
LEMMA LoopsAre ==
    ASSUME NEW l, IsLoop(l)
    PROVE  \/ l = <<>>
           \/ l # <<>> /\ l = <<l[1]>> /\ DOMAIN l = {1}
              /\ l[1].mod \in Mods /\ l[1].var \in Vars /\ l[1].iter \in IDs
              /\ l[1].src \in IDs /\ l[1].key \in Keys
<1> DEFINE S == [mod : Mods, var : Vars, iter : IDs, src : IDs, key : Keys]
<1>1. l \in Seq(S) /\ Len(l) <= 1
  BY DEF IsLoop
<1>2. l = <<>> \/ (l # <<>> /\ l = <<l[1]>> /\ DOMAIN l = {1} /\ l[1] \in S)
  <2> HIDE DEF S
  <2> QED
    BY <1>1, AtMostOne
<1>3. l[1] \in S => /\ l[1].mod \in Mods /\ l[1].var \in Vars /\ l[1].iter \in IDs
                    /\ l[1].src \in IDs /\ l[1].key \in Keys
  OBVIOUS
<1> QED
  BY <1>2, <1>3

\* Where no function runs, no parameter refers.
LEMMA OnFramesOfNone ==
    ASSUME NEW id, NEW c
    PROVE  Cardinality(OnFrames(<<>>, id, c)) = 0
<1>1. OnFrames(<<>>, id, c) = {}
  BY DEF OnFrames
<1> QED
  BY <1>1, FS_EmptySet

\* Where one runs, one does.
LEMMA OnFramesOfOne ==
    ASSUME NEW g, NEW id, NEW c
    PROVE  Cardinality(OnFrames(<<g>>, id, c)) = IF g.id = id /\ g.mod \in c THEN 1 ELSE 0
<1>1. OnFrames(<<g>>, id, c) = IF g.id = id /\ g.mod \in c THEN {1} ELSE {}
  BY DEF OnFrames
<1> QED
  BY <1>1, FS_EmptySet, FS_Singleton

\* There are finitely many variables that hold an array.
LEMMA OnVarsFinite ==
    ASSUME NEW d, NEW l, NEW id, NEW c
    PROVE  IsFiniteSet(OnVars(d, l, id, c)) /\ Cardinality(OnVars(d, l, id, c)) \in Nat
<1>1. OnVars(d, l, id, c) \subseteq Vars
  BY DEF OnVars
<1> QED
  BY <1>1, VarsAssumption, FS_Subset, FS_CardinalityType

\* The references the scripts have can be counted.
LEMMA DemandType ==
    ASSUME NEW d, NEW l, NEW f, IsFrames(f), NEW id, NEW c
    PROVE  Demand(d, l, f, id, c) \in Nat
<1>1. Cardinality(OnFrames(f, id, c)) \in Nat
  <2>1. CASE f = <<>>
    BY <2>1, OnFramesOfNone
  <2>2. CASE f = <<f[1]>>
    <3> DEFINE g == f[1]
    <3> HIDE DEF g
    <3>1. f = <<g>>
      BY <2>2 DEF g
    <3> QED
      BY <3>1, OnFramesOfOne
  <2> QED
    BY <2>1, <2>2, FramesAre
<1> QED
  BY <1>1, OnVarsFinite DEF Demand

\* One, if the variable refers to id, under an index of the class c.
Wants(d, l, v, id, c) == IF d[v] = id /\ RefersAs(l, v) \in c THEN 1 ELSE 0

\* The demand of the variables, when that of v changes.
LEMMA DemandOfVar ==
    ASSUME NEW v \in Vars, NEW d, NEW l, NEW e, NEW m, NEW id, NEW c,
           \A w \in Vars : w # v => e[w] = d[w] /\ RefersAs(m, w) = RefersAs(l, w)
    PROVE  Cardinality(OnVars(e, m, id, c)) =
               Cardinality(OnVars(d, l, id, c)) - Wants(d, l, v, id, c) + Wants(e, m, v, id, c)
<1> DEFINE R == OnVars(d, l, id, c) \ {v}
<1>1. R = OnVars(e, m, id, c) \ {v}
  BY DEF OnVars
<1>2. IsFiniteSet(R) /\ Cardinality(R) \in Nat /\ v \notin R
  BY OnVarsFinite, FS_Subset, FS_CardinalityType
<1>3. ASSUME NEW x, NEW y, R = OnVars(x, y, id, c) \ {v}
      PROVE  Cardinality(OnVars(x, y, id, c)) = Cardinality(R) + Wants(x, y, v, id, c)
  <2>1. CASE x[v] = id /\ RefersAs(y, v) \in c
    <3>1. OnVars(x, y, id, c) = R \cup {v}
      BY <1>3, <2>1 DEF OnVars
    <3> QED
      BY <1>2, <2>1, <3>1, FS_AddElement DEF Wants
  <2>2. CASE ~(x[v] = id /\ RefersAs(y, v) \in c)
    <3>1. OnVars(x, y, id, c) = R
      BY <1>3, <2>2 DEF OnVars
    <3> QED
      BY <1>2, <2>2, <3>1 DEF Wants
  <2> QED
    BY <2>1, <2>2
<1>4. /\ Cardinality(OnVars(d, l, id, c)) = Cardinality(R) + Wants(d, l, v, id, c)
      /\ Cardinality(OnVars(e, m, id, c)) = Cardinality(R) + Wants(e, m, v, id, c)
  <2> HIDE DEF R
  <2> QED
    BY <1>1, <1>3 DEF R
<1> HIDE DEF R
<1>5. Wants(d, l, v, id, c) \in {0, 1} /\ Wants(e, m, v, id, c) \in {0, 1}
  BY DEF Wants
<1> QED
  BY <1>2, <1>4, <1>5

\* A variable that refers to an array is a demand for it.
LEMMA VarDemands ==
    ASSUME NEW v \in Vars, NEW d, NEW l, NEW f, IsFrames(f), NEW c, RefersAs(l, v) \in c
    PROVE  Demand(d, l, f, d[v], c) >= 1
<1> DEFINE S == OnVars(d, l, d[v], c)
<1>1. v \in S
  BY DEF OnVars
<1>2. IsFiniteSet(S) /\ Cardinality(S) \in Nat
  BY OnVarsFinite
<1>3. Cardinality(S) >= 1
  <2> HIDE DEF S
  <2>1. Cardinality(S) # 0
    BY <1>1, <1>2, FS_EmptySet
  <2> QED
    BY <1>2, <2>1
<1>4. Cardinality(OnFrames(f, d[v], c)) \in Nat
  <2>1. CASE f = <<>>
    BY <2>1, OnFramesOfNone
  <2>2. CASE f = <<f[1]>>
    <3> DEFINE g == f[1]
    <3> HIDE DEF g
    <3>1. f = <<g>>
      BY <2>2 DEF g
    <3> QED
      BY <3>1, OnFramesOfOne
  <2> QED
    BY <2>1, <2>2, FramesAre
<1> QED
  BY <1>2, <1>3, <1>4 DEF Demand

\* One, if it is a reference to id, under an index of the class c.
Is(h, m, id, c) == IF id = h /\ m \in c THEN 1 ELSE 0

\* In t, a reference to h recorded for m, if h is one, became one to x for n.
Passed(s, t, h, m, x, n) ==
    \A id \in AllIDs, c \in SUBSET Owners :
        /\ Surplus(t, id, c) >= Surplus(s, id, c) - Is(h, m, id, c) + Is(x, n, id, c)
        /\ (h # 0 => Refs(s, h, {m}) >= 1) =>
              Surplus(t, id, c) = Surplus(s, id, c) - Is(h, m, id, c) + Is(x, n, id, c)

\* Where references are counted exactly, no element is unaccounted for.
LEMMA ExactNonNeg ==
    ASSUME NEW s, NEW d, NEW l, NEW f, IsFrames(f), Exact(s, d, l, f)
    PROVE  NonNeg(s)
BY DemandType DEF Exact, NonNeg

\* Where every holder has its reference, every element has.
LEMMA CoveredBacked ==
    ASSUME NEW s, HeapType(s), NEW d, NEW l, NEW f, IsFrames(f), Covered(s, d, l, f)
    PROVE  Backed(s)
<1>1. ASSUME NEW id \in AllIDs PROVE Surplus(s, id, Owners) >= 0
  <2>1. Surplus(s, id, Owners) >= Demand(d, l, f, id, Owners)
    BY DEF Covered
  <2>2. Surplus(s, id, Owners) \in Int /\ Demand(d, l, f, id, Owners) \in Nat
    BY SurplusType, DemandType
  <2> QED
    BY <2>1, <2>2
<1> QED
  BY <1>1 DEF Backed

\* An array that the engine has a reference to exists.
LEMMA IteratorIsLive ==
    ASSUME NEW s, HeapType(s), NEW id, Surplus(s, id, {Engine}) >= 1
    PROVE  id \in Live(s) /\ id \in AllIDs
<1>1. Refs(s, id, {Engine}) >= 1
  BY SurplusType
<1>2. id \in Live(s)
  BY <1>1 DEF Refs
<1> QED
  BY <1>2, LiveIsFinite

\* Where no reference goes, the references stay enough.
LEMMA CountedGrows ==
    ASSUME NEW s, HeapType(s), NEW t, HeapType(t), Grows(s, t),
           NEW d, NEW l, NEW f, IsFrames(f), NEW k, Counted(s, d, l, f, k)
    PROVE  Counted(t, d, l, f, k)
<1>1. Covered(t, d, l, f)
  <2>1. ASSUME NEW id \in AllIDs
        PROVE  Surplus(t, id, Owners) >= Demand(d, l, f, id, Owners)
    <3>1. Surplus(t, id, Owners) >= Surplus(s, id, Owners)
      BY DEF Grows
    <3>2. Surplus(s, id, Owners) >= Demand(d, l, f, id, Owners)
      BY DEF Counted, Covered
    <3>3. /\ Surplus(s, id, Owners) \in Int /\ Surplus(t, id, Owners) \in Int
          /\ Demand(d, l, f, id, Owners) \in Nat
      BY SurplusType, DemandType
    <3> QED
      BY <3>1, <3>2, <3>3
  <2> QED
    BY <2>1 DEF Covered
<1>2. ASSUME ~k PROVE Exact(t, d, l, f)
  <2>1. Exact(s, d, l, f)
    BY <1>2 DEF Counted
  <2>2. NonNeg(s)
    BY <2>1, ExactNonNeg
  <2> QED
    BY <2>1, <2>2 DEF Exact, Grows
<1>3. ASSUME NEW i \in DOMAIN l PROVE Surplus(t, l[i].iter, {Engine}) >= 1
  <2>1. Surplus(s, l[i].iter, {Engine}) >= 1
    BY DEF Counted
  <2>2. l[i].iter \in AllIDs
    BY <2>1, IteratorIsLive
  <2>3. {Engine} \in SUBSET Owners
    BY DEF Owners
  <2>4. Surplus(t, l[i].iter, {Engine}) >= Surplus(s, l[i].iter, {Engine})
    BY <2>2, <2>3 DEF Grows
  <2>5. Surplus(s, l[i].iter, {Engine}) \in Int /\ Surplus(t, l[i].iter, {Engine}) \in Int
    BY SurplusType
  <2> QED
    BY <2>1, <2>4, <2>5
<1> QED
  BY <1>1, <1>2, <1>3 DEF Counted

\* The variables d and the loop l became e and j; only v refers to something else.
VarChanges(d, l, e, j, v) ==
    /\ v \in Vars /\ d \in [Vars -> IDs] /\ RefersAs(l, v) \in Owners
    /\ \A w \in Vars : w # v => e[w] = d[w] /\ RefersAs(j, w) = RefersAs(l, w)

\* A variable's reference goes to what it holds now.
LEMMA CountedVar ==
    ASSUME NEW s, HeapType(s), NEW t, HeapType(t), NEW f, IsFrames(f),
           NEW d, NEW l, NEW e, NEW j, NEW v, VarChanges(d, l, e, j, v),
           NEW k, Counted(s, d, l, f, k),
           NEW m \in Owners, NEW n \in Owners, Passed(s, t, d[v], m, e[v], n),
           NEW q \in BOOLEAN, ~q => ~k /\ m = RefersAs(l, v) /\ n = RefersAs(j, v),
           \A i \in DOMAIN j : Surplus(t, j[i].iter, {Engine}) >= 1
    PROVE  Counted(t, e, j, f, q)
<1> /\ v \in Vars /\ d \in [Vars -> IDs] /\ RefersAs(l, v) \in Owners
    /\ \A w \in Vars : w # v => e[w] = d[w] /\ RefersAs(j, w) = RefersAs(l, w)
  BY DEF VarChanges
<1>1. \A id, c : Demand(e, j, f, id, c) = Demand(d, l, f, id, c)
                    - Wants(d, l, v, id, c) + Wants(e, j, v, id, c)
  <2> TAKE id, c
  <2>1. Cardinality(OnVars(e, j, id, c)) = Cardinality(OnVars(d, l, id, c))
                    - Wants(d, l, v, id, c) + Wants(e, j, v, id, c)
    BY DemandOfVar
  <2>2. Cardinality(OnVars(e, j, id, c)) \in Nat /\ Cardinality(OnVars(d, l, id, c)) \in Nat
        /\ Wants(d, l, v, id, c) \in {0, 1} /\ Wants(e, j, v, id, c) \in {0, 1}
    BY OnVarsFinite DEF Wants
  <2>3. Demand(e, j, f, id, c) \in Nat /\ Demand(d, l, f, id, c) \in Nat
    BY DemandType
  <2>4. Cardinality(OnFrames(f, id, c)) \in Nat
    <3>1. CASE f = <<>>
      BY <3>1, OnFramesOfNone
    <3>2. CASE f = <<f[1]>>
      <4> DEFINE g == f[1]
      <4> HIDE DEF g
      <4>1. f = <<g>>
        BY <3>2 DEF g
      <4> QED
        BY <4>1, OnFramesOfOne
    <3> QED
      BY <3>1, <3>2, FramesAre
  <2> QED
    BY <2>1, <2>2, <2>4 DEF Demand
<1>2. \A id, c : /\ Surplus(s, id, c) \in Int /\ Surplus(t, id, c) \in Int
                 /\ Demand(e, j, f, id, c) \in Nat /\ Demand(d, l, f, id, c) \in Nat
                 /\ Wants(d, l, v, id, c) \in {0, 1} /\ Wants(e, j, v, id, c) \in {0, 1}
                 /\ Is(d[v], m, id, c) \in {0, 1} /\ Is(e[v], n, id, c) \in {0, 1}
  BY SurplusType, DemandType DEF Wants, Is
<1>3. Covered(t, e, j, f)
  <2>1. ASSUME NEW id \in AllIDs
        PROVE  Surplus(t, id, Owners) >= Demand(e, j, f, id, Owners)
    <3>1. Wants(d, l, v, id, Owners) = Is(d[v], m, id, Owners)
      BY DEF Wants, Is
    <3>2. Wants(e, j, v, id, Owners) <= Is(e[v], n, id, Owners)
      BY DEF Wants, Is
    <3>3. Surplus(t, id, Owners) >=
              Surplus(s, id, Owners) - Is(d[v], m, id, Owners) + Is(e[v], n, id, Owners)
      BY DEF Passed
    <3>4. Surplus(s, id, Owners) >= Demand(d, l, f, id, Owners)
      BY DEF Counted, Covered
    <3> HIDE DEF Wants, Is
    <3>5. Demand(e, j, f, id, Owners) = Demand(d, l, f, id, Owners)
                    - Wants(d, l, v, id, Owners) + Wants(e, j, v, id, Owners)
      BY <1>1
    <3>6. /\ Surplus(s, id, Owners) \in Int /\ Surplus(t, id, Owners) \in Int
          /\ Demand(e, j, f, id, Owners) \in Nat /\ Demand(d, l, f, id, Owners) \in Nat
          /\ Wants(d, l, v, id, Owners) \in Int /\ Wants(e, j, v, id, Owners) \in Int
          /\ Is(d[v], m, id, Owners) \in Int /\ Is(e[v], n, id, Owners) \in Int
      BY <1>2
    <3> QED
      BY <3>1, <3>2, <3>3, <3>4, <3>5, <3>6
  <2> QED
    BY <2>1 DEF Covered
<1>4. ASSUME ~q PROVE Exact(t, e, j, f)
  <2>1. Exact(s, d, l, f)
    BY <1>4 DEF Counted
  <2>2. m = RefersAs(l, v) /\ n = RefersAs(j, v)
    BY <1>4
  <2>3. d[v] # 0 => Refs(s, d[v], {m}) >= 1
    <3>1. SUFFICES ASSUME d[v] # 0 PROVE Refs(s, d[v], {m}) >= 1
      OBVIOUS
    <3>2. d[v] \in AllIDs /\ {m} \in SUBSET Owners
      BY <3>1, IDsFacts DEF AllIDs
    <3>3. Surplus(s, d[v], {m}) = Demand(d, l, f, d[v], {m})
      BY <2>1, <3>2 DEF Exact
    <3>4. Demand(d, l, f, d[v], {m}) >= 1
      BY <2>2, VarDemands
    <3>5. Surplus(s, d[v], {m}) <= Refs(s, d[v], {m}) /\ Refs(s, d[v], {m}) \in Nat
          /\ Surplus(s, d[v], {m}) \in Int
      BY SurplusType
    <3> QED
      BY <3>3, <3>4, <3>5
  <2>4. ASSUME NEW id \in AllIDs, NEW c \in SUBSET Owners
        PROVE  Surplus(t, id, c) = Demand(e, j, f, id, c)
    <3>1. Wants(d, l, v, id, c) = Is(d[v], m, id, c) /\ Wants(e, j, v, id, c) = Is(e[v], n, id, c)
      BY <2>2 DEF Wants, Is
    <3>2. Surplus(t, id, c) = Surplus(s, id, c) - Is(d[v], m, id, c) + Is(e[v], n, id, c)
      BY <2>3 DEF Passed
    <3>3. Surplus(s, id, c) = Demand(d, l, f, id, c)
      BY <2>1 DEF Exact
    <3>4. Demand(e, j, f, id, c) = Demand(d, l, f, id, c)
                    - Wants(d, l, v, id, c) + Wants(e, j, v, id, c)
      BY <1>1
    <3> QED
      BY <3>1, <3>2, <3>3, <3>4
  <2> QED
    BY <2>4 DEF Exact
<1> QED
  BY <1>3, <1>4 DEF Counted

-----------------------------------------------------------------------------
(* What the commands do to the counts.                                     *)

\* The reference of an iterator stays where only those of mods go.
LEMMA IteratorStays ==
    ASSUME NEW s, HeapType(s), NEW t, HeapType(t), NEW h, NEW m \in Mods, NEW x, NEW n,
           Passed(s, t, h, m, x, n), NEW id, Surplus(s, id, {Engine}) >= 1
    PROVE  Surplus(t, id, {Engine}) >= 1
<1>1. id \in AllIDs /\ {Engine} \in SUBSET Owners
  BY IteratorIsLive DEF Owners
<1>2. Surplus(t, id, {Engine}) >=
          Surplus(s, id, {Engine}) - Is(h, m, id, {Engine}) + Is(x, n, id, {Engine})
  BY <1>1 DEF Passed
<1>3. Is(h, m, id, {Engine}) = 0 /\ Is(x, n, id, {Engine}) \in {0, 1}
  BY ModsAssumption DEF Is
<1>4. Surplus(s, id, {Engine}) \in Int /\ Surplus(t, id, {Engine}) \in Int
  BY SurplusType
<1> QED
  BY <1>2, <1>3, <1>4

\* A call begins: its parameter has a reference of its own.
LEMMA CountedEnters ==
    ASSUME NEW s, HeapType(s), NEW t, HeapType(t), NEW d, NEW l, NEW k, Counted(s, d, l, <<>>, k),
           NEW g, g.mod \in Mods, Passed(s, t, 0, g.mod, g.id, g.mod)
    PROVE  Counted(t, d, l, <<g>>, k)
<1>1. \A id, c : Demand(d, l, <<g>>, id, c) =
                    Demand(d, l, <<>>, id, c) + Is(g.id, g.mod, id, c)
  <2> TAKE id, c
  <2>1. Cardinality(OnFrames(<<>>, id, c)) = 0
    BY OnFramesOfNone
  <2>2. Cardinality(OnFrames(<<g>>, id, c)) = Is(g.id, g.mod, id, c)
    BY OnFramesOfOne DEF Is
  <2>3. Cardinality(OnVars(d, l, id, c)) \in Nat /\ Is(g.id, g.mod, id, c) \in {0, 1}
    BY OnVarsFinite DEF Is
  <2> QED
    BY <2>1, <2>2, <2>3 DEF Demand
<1>2. \A id, c : /\ Surplus(s, id, c) \in Int /\ Surplus(t, id, c) \in Int
                 /\ Demand(d, l, <<>>, id, c) \in Nat
                 /\ Is(g.id, g.mod, id, c) \in {0, 1}
  <2>1. IsFrames(<<>>)
    BY DEF IsFrames
  <2> QED
    BY <2>1, SurplusType, DemandType DEF Is
<1>3. \A id \in AllIDs, c \in SUBSET Owners :
         Surplus(t, id, c) = Surplus(s, id, c) + Is(g.id, g.mod, id, c)
  <2> TAKE id \in AllIDs, c \in SUBSET Owners
  <2>1. Surplus(t, id, c) =
            Surplus(s, id, c) - Is(0, g.mod, id, c) + Is(g.id, g.mod, id, c)
    BY DEF Passed
  <2>2. Is(0, g.mod, id, c) = 0
    BY DEF Is, AllIDs
  <2> QED
    BY <1>2, <2>1, <2>2
<1>4. Covered(t, d, l, <<g>>)
  <2>1. ASSUME NEW id \in AllIDs
        PROVE  Surplus(t, id, Owners) >= Demand(d, l, <<g>>, id, Owners)
    <3>1. Surplus(s, id, Owners) >= Demand(d, l, <<>>, id, Owners)
      BY DEF Counted, Covered
    <3>2. Surplus(t, id, Owners) = Surplus(s, id, Owners) + Is(g.id, g.mod, id, Owners)
      BY <1>3
    <3> QED
      BY <1>1, <1>2, <3>1, <3>2
  <2> QED
    BY <2>1 DEF Covered
<1>5. ASSUME ~k PROVE Exact(t, d, l, <<g>>)
  <2>1. \A id \in AllIDs, c \in SUBSET Owners :
           Surplus(s, id, c) = Demand(d, l, <<>>, id, c)
    BY <1>5 DEF Counted, Exact
  <2> QED
    BY <1>1, <1>3, <2>1 DEF Exact
<1>6. ASSUME NEW i \in DOMAIN l PROVE Surplus(t, l[i].iter, {Engine}) >= 1
  <2>1. Surplus(s, l[i].iter, {Engine}) >= 1
    BY DEF Counted
  <2> QED
    BY <2>1, IteratorStays
<1> QED
  BY <1>4, <1>5, <1>6 DEF Counted

\* A reference more that is nobody's.
LEMMA CountedLeaks ==
    ASSUME NEW s, HeapType(s), NEW t, HeapType(t), NEW d, NEW l, NEW f, IsFrames(f), NEW k,
           Counted(s, d, l, f, k), NEW m \in Mods, NEW x, Passed(s, t, 0, m, x, m)
    PROVE  Counted(t, d, l, f, TRUE)
<1>1. ASSUME NEW id \in AllIDs
      PROVE  Surplus(t, id, Owners) >= Demand(d, l, f, id, Owners)
  <2>1. Surplus(s, id, Owners) >= Demand(d, l, f, id, Owners)
    BY DEF Counted, Covered
  <2>2. Surplus(t, id, Owners) >=
            Surplus(s, id, Owners) - Is(0, m, id, Owners) + Is(x, m, id, Owners)
    BY DEF Passed
  <2>3. Is(0, m, id, Owners) = 0 /\ Is(x, m, id, Owners) \in {0, 1}
    BY DEF Is, AllIDs
  <2>4. /\ Surplus(s, id, Owners) \in Int /\ Surplus(t, id, Owners) \in Int
        /\ Demand(d, l, f, id, Owners) \in Nat
    BY SurplusType, DemandType
  <2> QED
    BY <2>1, <2>2, <2>3, <2>4
<1>2. ASSUME NEW i \in DOMAIN l PROVE Surplus(t, l[i].iter, {Engine}) >= 1
  <2>1. Surplus(s, l[i].iter, {Engine}) >= 1
    BY DEF Counted
  <2> QED
    BY <2>1, IteratorStays
<1> QED
  BY <1>1, <1>2 DEF Counted, Covered

\* A call ends, and its parameter's reference goes.
LEMMA CountedLeaves ==
    ASSUME NEW s, HeapType(s), NEW t, HeapType(t), NEW d, NEW l, NEW k,
           NEW g, g.mod \in Mods, g.id \in Nat, Counted(s, d, l, <<g>>, k),
           NEW n, Passed(s, t, g.id, g.mod, 0, n)
    PROVE  Counted(t, d, l, <<>>, k)
<1>1. \A id, c : Demand(d, l, <<g>>, id, c) =
                    Demand(d, l, <<>>, id, c) + Is(g.id, g.mod, id, c)
  <2> TAKE id, c
  <2>1. Cardinality(OnFrames(<<>>, id, c)) = 0
    BY OnFramesOfNone
  <2>2. Cardinality(OnFrames(<<g>>, id, c)) = Is(g.id, g.mod, id, c)
    BY OnFramesOfOne DEF Is
  <2>3. Cardinality(OnVars(d, l, id, c)) \in Nat /\ Is(g.id, g.mod, id, c) \in {0, 1}
    BY OnVarsFinite DEF Is
  <2> QED
    BY <2>1, <2>2, <2>3 DEF Demand
<1>2. \A id, c : /\ Surplus(s, id, c) \in Int /\ Surplus(t, id, c) \in Int
                 /\ Demand(d, l, <<>>, id, c) \in Nat
                 /\ Is(g.id, g.mod, id, c) \in {0, 1}
  <2>1. IsFrames(<<>>)
    BY DEF IsFrames
  <2> QED
    BY <2>1, SurplusType, DemandType DEF Is
<1>3. \A id \in AllIDs, c \in SUBSET Owners : Is(0, n, id, c) = 0
  BY DEF Is, AllIDs
<1>4. Covered(t, d, l, <<>>)
  <2>1. ASSUME NEW id \in AllIDs
        PROVE  Surplus(t, id, Owners) >= Demand(d, l, <<>>, id, Owners)
    <3>1. Surplus(s, id, Owners) >= Demand(d, l, <<g>>, id, Owners)
      BY DEF Counted, Covered
    <3>2. Surplus(t, id, Owners) >=
              Surplus(s, id, Owners) - Is(g.id, g.mod, id, Owners) + Is(0, n, id, Owners)
      BY DEF Passed
    <3> QED
      BY <1>1, <1>2, <1>3, <3>1, <3>2
  <2> QED
    BY <2>1 DEF Covered
<1>5. ASSUME ~k PROVE Exact(t, d, l, <<>>)
  <2>1. \A id \in AllIDs, c \in SUBSET Owners :
           Surplus(s, id, c) = Demand(d, l, <<g>>, id, c)
    BY <1>5 DEF Counted, Exact
  <2>2. ASSUME g.id # 0 PROVE Refs(s, g.id, {g.mod}) >= 1
    <3>1. g.id \in AllIDs /\ {g.mod} \in SUBSET Owners
      BY <2>2 DEF AllIDs, Owners
    <3>2. Is(g.id, g.mod, g.id, {g.mod}) = 1
      BY DEF Is
    <3>3. Surplus(s, g.id, {g.mod}) = Demand(d, l, <<>>, g.id, {g.mod}) + 1
      BY <1>1, <2>1, <3>1, <3>2
    <3>4. Surplus(s, g.id, {g.mod}) <= Refs(s, g.id, {g.mod}) /\ Refs(s, g.id, {g.mod}) \in Nat
      BY SurplusType
    <3> QED
      BY <1>2, <3>3, <3>4
  <2>3. ASSUME NEW id \in AllIDs, NEW c \in SUBSET Owners
        PROVE  Surplus(t, id, c) = Demand(d, l, <<>>, id, c)
    <3>1. Surplus(t, id, c) = Surplus(s, id, c) - Is(g.id, g.mod, id, c) + Is(0, n, id, c)
      BY <2>2 DEF Passed
    <3>2. Surplus(s, id, c) = Demand(d, l, <<g>>, id, c)
      BY <2>1
    <3> QED
      BY <1>1, <1>2, <1>3, <3>1, <3>2
  <2> QED
    BY <2>3 DEF Exact
<1>6. ASSUME NEW i \in DOMAIN l PROVE Surplus(t, l[i].iter, {Engine}) >= 1
  <2>1. Surplus(s, l[i].iter, {Engine}) >= 1
    BY DEF Counted
  <2> QED
    BY <2>1, IteratorStays
<1> QED
  BY <1>4, <1>5, <1>6 DEF Counted

\* t comes after s: no array went, no id was lost, the cache is as good.
Follows(s, t) ==
    /\ HeapOK(t) /\ Live(s) \subseteq Live(t)
    /\ GoodCache(s) => GoodCache(t)
    /\ \A w \in Nat : IdsOK(s, w) => IdsOK(t, w) \/ w \in Live(t)

\* A heap that lost no array follows.
LEMMA ExtendsFollows ==
    ASSUME NEW s, NEW t, Extends(s, t)
    PROVE  Follows(s, t)
BY DEF Extends, Follows

\* So does one of the same arrays.
LEMMA SameFollows ==
    ASSUME NEW s, NEW t, HeapOK(t), Same(s, t), GoodCache(s) => GoodCache(t)
    PROVE  Follows(s, t)
<1>1. Live(t) = Live(s) /\ t.available = s.available
  BY DEF Same
<1>2. \A w : Taken(t, w) = Taken(s, w)
  BY <1>1 DEF Taken
<1>3. \A w : IdsOK(s, w) => IdsOK(t, w)
  BY <1>1, <1>2 DEF IdsOK
<1> QED
  BY <1>1, <1>3 DEF Follows

\* Two heaps that follow follow together.
LEMMA FollowsTransitive ==
    ASSUME NEW r, NEW s, NEW t, Follows(r, s), Follows(s, t)
    PROVE  Follows(r, t)
<1>1. ASSUME NEW w \in Nat, IdsOK(r, w) PROVE IdsOK(t, w) \/ w \in Live(t)
  BY <1>1 DEF Follows
<1> QED
  BY <1>1 DEF Follows

\* t is s with a reference to h, of m, passed on to x, of n.
Moves(s, t, h, m, x, n) ==
    /\ Follows(s, t) /\ Live(t) = Live(s) /\ Passed(s, t, h, m, x, n)
    /\ \A id \in Live(s) : Elements(t, id) = Elements(s, id)

\* There is no reference to take from id 0.
LEMMA RemoveReferenceOfNone ==
    ASSUME NEW s, HeapOK(s), NEW m
    PROVE  RemoveReference(s, 0, m) = s
<1>1. 0 \notin Live(s)
  BY LiveIsFinite DEF HeapOK, AllIDs
<1> QED
  BY <1>1, GetOfNone DEF RemoveReference

\* To take a reference moves it from the array to none.
LEMMA RemoveReferenceMoves ==
    ASSUME NEW s, HeapOK(s), NEW h \in Nat, NEW m \in Owners, NEW n
    PROVE  Moves(s, RemoveReference(s, h, m), h, m, 0, n)
<1> DEFINE t == RemoveReference(s, h, m)
<1>1. Released(s, t, h, m)
  BY RemoveReferenceReleases
<1>2. h = 0 => t = s
  BY RemoveReferenceOfNone
<1> HIDE DEF t
<1>3. HeapOK(t) /\ Same(s, t) /\ (GoodCache(s) => GoodCache(t)) /\ Live(t) = Live(s)
      /\ \A id \in Live(s) : Elements(t, id) = Elements(s, id)
  BY <1>1 DEF Released, Same
<1>4. Follows(s, t)
  BY <1>3, SameFollows
<1>5. ASSUME NEW id \in AllIDs, NEW c \in SUBSET Owners
      PROVE  /\ Surplus(t, id, c) >= Surplus(s, id, c) - Is(h, m, id, c) + Is(0, n, id, c)
             /\ (h # 0 => Refs(s, h, {m}) >= 1) =>
                   Surplus(t, id, c) = Surplus(s, id, c) - Is(h, m, id, c) + Is(0, n, id, c)
  <2>1. Is(0, n, id, c) = 0 /\ Is(h, m, id, c) = IF id = h /\ m \in c THEN 1 ELSE 0
    BY DEF Is, AllIDs
  <2>2. Surplus(s, id, c) \in Int /\ Surplus(t, id, c) \in Int
    BY <1>3, SurplusType DEF HeapOK
  <2>3. /\ Surplus(t, id, c) >= Surplus(s, id, c) - (IF id = h /\ m \in c THEN 1 ELSE 0)
        /\ Refs(s, h, {m}) >= 1 =>
              Surplus(t, id, c) = Surplus(s, id, c) - (IF id = h /\ m \in c THEN 1 ELSE 0)
    BY <1>1 DEF Released
  <2>4. CASE h = 0
    <3>1. t = s /\ Is(h, m, id, c) = 0
      BY <1>2, <2>4 DEF Is, AllIDs
    <3> QED
      BY <2>1, <2>2, <3>1
  <2>5. CASE h # 0
    BY <2>1, <2>2, <2>3, <2>5
  <2> QED
    BY <2>4, <2>5
<1>6. Passed(s, t, h, m, 0, n)
  BY <1>5 DEF Passed
<1>7. Moves(s, t, h, m, 0, n)
  BY <1>3, <1>4, <1>6 DEF Moves
<1> QED
  BY <1>7 DEF t

\* What a variable that is given an id then holds: that array, or none.
LEMMA HeldIsNat ==
    ASSUME NEW s, HeapOK(s), NEW id
    PROVE  Held(s, id) \in Nat /\ Held(s, id) \in {0} \cup Live(s)
BY LiveIsFinite DEF HeapOK, Held, AllIDs

\* To add one moves it from none to the array that is held.
LEMMA NewReferenceMoves ==
    ASSUME NEW s, HeapOK(s), NEW id \in Nat, NEW n \in Owners, NEW m
    PROVE  Moves(s, AddReference(s, 0, id, n), 0, m, Held(s, id), n)
<1> DEFINE t == AddReference(s, 0, id, n)
           x == Held(s, id)
<1>1. Acquired(s, t, id, n)
  BY AddReferenceAcquires
<1> HIDE DEF t
<1>2. HeapOK(t) /\ Same(s, t) /\ (GoodCache(s) => GoodCache(t)) /\ Live(t) = Live(s)
      /\ \A i \in Live(s) : Elements(t, i) = Elements(s, i)
  BY <1>1 DEF Acquired, Same
<1>3. Follows(s, t)
  BY <1>2, SameFollows
<1>4. ASSUME NEW i \in AllIDs, NEW c \in SUBSET Owners
      PROVE  Surplus(t, i, c) = Surplus(s, i, c) - Is(0, m, i, c) + Is(x, n, i, c)
  <2>1. Surplus(t, i, c) = Surplus(s, i, c) + (IF i = id /\ id \in Live(s) /\ n \in c THEN 1 ELSE 0)
    BY <1>1 DEF Acquired
  <2>2. Is(0, m, i, c) = 0
    BY DEF Is, AllIDs
  <2>3. Is(x, n, i, c) = IF i = id /\ id \in Live(s) /\ n \in c THEN 1 ELSE 0
    BY DEF Is, AllIDs, Held
  <2>4. Surplus(s, i, c) \in Int /\ Surplus(t, i, c) \in Int
    BY <1>2, SurplusType DEF HeapOK
  <2> QED
    BY <2>1, <2>2, <2>3, <2>4
<1>5. \A i \in AllIDs, c \in SUBSET Owners :
         Surplus(t, i, c) >= Surplus(s, i, c) - Is(0, m, i, c) + Is(x, n, i, c)
  <2> TAKE i \in AllIDs, c \in SUBSET Owners
  <2>1. Surplus(t, i, c) \in Int
    BY <1>2, SurplusType DEF HeapOK
  <2> HIDE DEF x
  <2> QED
    BY <1>4, <2>1
<1>6. Passed(s, t, 0, m, x, n)
  BY <1>4, <1>5 DEF Passed
<1>7. Moves(s, t, 0, m, x, n)
  BY <1>2, <1>3, <1>6 DEF Moves
<1> QED
  BY <1>7 DEF t

\* One reference goes, then another comes.
LEMMA MovesThen ==
    ASSUME NEW r, NEW s, NEW t, HeapOK(r), NEW h, NEW m, NEW x, NEW n,
           Moves(r, s, h, m, 0, n), Moves(s, t, 0, m, x, n)
    PROVE  Moves(r, t, h, m, x, n)
<1>1. HeapType(r) /\ HeapType(s) /\ HeapType(t) /\ Live(t) = Live(r) /\ Live(s) = Live(r)
      /\ \A id \in Live(r) : Elements(t, id) = Elements(r, id)
  BY DEF Moves, Follows, HeapOK
<1>2. Follows(r, t)
  BY FollowsTransitive DEF Moves
<1>3. ASSUME NEW id \in AllIDs, NEW c \in SUBSET Owners
      PROVE  /\ Surplus(t, id, c) >= Surplus(r, id, c) - Is(h, m, id, c) + Is(x, n, id, c)
             /\ (h # 0 => Refs(r, h, {m}) >= 1) =>
                   Surplus(t, id, c) = Surplus(r, id, c) - Is(h, m, id, c) + Is(x, n, id, c)
  <2>1. Is(0, n, id, c) = 0 /\ Is(0, m, id, c) = 0 /\ Is(h, m, id, c) \in {0, 1}
        /\ Is(x, n, id, c) \in {0, 1}
    BY DEF Is, AllIDs
  <2>2. /\ Surplus(s, id, c) >= Surplus(r, id, c) - Is(h, m, id, c) + Is(0, n, id, c)
        /\ (h # 0 => Refs(r, h, {m}) >= 1) =>
              Surplus(s, id, c) = Surplus(r, id, c) - Is(h, m, id, c) + Is(0, n, id, c)
    BY DEF Moves, Passed
  <2>3. Surplus(t, id, c) = Surplus(s, id, c) - Is(0, m, id, c) + Is(x, n, id, c)
    BY DEF Moves, Passed
  <2>4. Surplus(r, id, c) \in Int /\ Surplus(s, id, c) \in Int /\ Surplus(t, id, c) \in Int
    BY <1>1, SurplusType
  <2> QED
    BY <2>1, <2>2, <2>3, <2>4
<1>4. Passed(r, t, h, m, x, n)
  BY <1>3 DEF Passed
<1> QED
  BY <1>1, <1>2, <1>4 DEF Moves

\* The reference that a variable, which holds h, has to id from now on.
LEMMA AddReferenceMoves ==
    ASSUME NEW s, HeapOK(s), NEW h \in Nat, NEW id \in Nat, id # h, NEW m \in Owners
    PROVE  Moves(s, AddReference(s, h, id, m), h, m, Held(s, id), m)
<1> DEFINE r == IF h = 0 THEN s ELSE RemoveReference(s, h, m)
           t == AddReference(r, 0, id, m)
<1>1. r = RemoveReference(s, h, m)
  BY RemoveReferenceOfNone
<1>2. Moves(s, r, h, m, 0, m)
  BY <1>1, RemoveReferenceMoves
<1>3. HeapOK(r) /\ Live(r) = Live(s)
  BY <1>2 DEF Moves, Follows
<1>4. AddReference(s, h, id, m) = t
  <2> HIDE DEF r
  <2>1. 0 \notin Live(r) /\ Get(r, 0) = r
    BY <1>3, LiveIsFinite, GetOfNone DEF HeapOK, AllIDs
  <2> DEFINE w == IF id \notin Live(Get(r, id)) THEN Get(r, id)
                  ELSE [MarkTemporary(Get(r, id), id, FALSE)
                           EXCEPT !.vars[id].refs = Append(@, m)]
  <2>2. AddReference(s, h, id, m) = w
    BY DEF AddReference, r
  <2>3. t = IF 0 = id THEN r ELSE w
    BY DEF AddReference
  <2> HIDE DEF t
  <2>4. CASE id = 0
    <3>1. Get(r, id) = r /\ id \notin Live(Get(r, id))
      BY <2>1, <2>4
    <3>2. w = r
      BY <3>1
    <3> HIDE DEF w
    <3> QED
      BY <2>2, <2>3, <2>4, <3>2
  <2>5. CASE id # 0
    <3> HIDE DEF w
    <3> QED
      BY <2>2, <2>3, <2>5
  <2> QED
    BY <2>4, <2>5
<1> HIDE DEF r
<1>5. Held(r, id) = Held(s, id)
  BY <1>3 DEF Held
<1>6. Moves(r, t, 0, m, Held(s, id), m)
  BY <1>3, <1>5, NewReferenceMoves
<1> HIDE DEF t
<1>7. Moves(s, t, h, m, Held(s, id), m)
  BY <1>2, <1>6, MovesThen
<1> QED
  BY <1>4, <1>7

\* t comes after s, and its references are those of the variables d, the loop l and
\* the call f, unless k.
Result(s, t, d, l, f, k) == Follows(s, t) /\ Counted(t, d, l, f, k)

\* The engine is of no mod, and every variable's mod may refer.
LEMMA OwnersAre ==
    /\ Engine \in Owners /\ Engine \notin Mods
    /\ \A v \in Vars : ModOf[v] \in Mods
    /\ \A m \in Mods : m \in Owners
BY ModsAssumption DEF Owners

\* Whoever a variable refers as may refer.
LEMMA RefersToOwner ==
    ASSUME NEW l, NEW v \in Vars
    PROVE  RefersAs(l, v) \in Owners
BY OwnersAre DEF RefersAs

\* What Extends says of the counts.
LEMMA ExtendsResult ==
    ASSUME NEW s, HeapOK(s), NEW t, Extends(s, t), NEW d, NEW l, NEW f, IsFrames(f), NEW k,
           Counted(s, d, l, f, k)
    PROVE  Result(s, t, d, l, f, k) /\ HeapOK(t)
<1>1. Follows(s, t) /\ Grows(s, t) /\ HeapOK(t)
  BY ExtendsFollows DEF Extends
<1>2. Counted(t, d, l, f, k)
  BY <1>1, CountedGrows DEF HeapOK
<1> QED
  BY <1>1, <1>2 DEF Result

\* What AssignTo makes of the variables, and whether it leaks.
Assigned(s, d, v, id) == [d EXCEPT ![v] = IF id = @ THEN id ELSE Held(s, id)]

Leaks(k, d, l, v, m, id) ==
    k \/ (id # d[v] /\ (m # ModOf[v] \/ \E i \in DOMAIN l : l[i].var = v))

\* An assignment to a variable moves its reference; one to another mod's script, or
\* to the variable of a loop, may leave it to nobody.
LEMMA AssignResult ==
    ASSUME NEW r, HeapOK(r), NEW s, Extends(r, s), NEW d \in [Vars -> IDs], NEW l,
           NEW f, IsFrames(f), NEW k \in BOOLEAN, Counted(r, d, l, f, k),
           NEW v \in Vars, NEW id \in Nat, NEW m \in Mods
    PROVE  Result(r, AddReference(s, d[v], id, m), Assigned(s, d, v, id), l, f,
                  Leaks(k, d, l, v, m, id))
<1> DEFINE t == AddReference(s, d[v], id, m)
           e == Assigned(s, d, v, id)
           q == Leaks(k, d, l, v, m, id)
<1>1. Follows(r, s) /\ Counted(s, d, l, f, k) /\ HeapOK(s)
  BY ExtendsResult DEF Result
<1>2. d[v] \in Nat /\ m \in Owners
  BY IDsFacts, OwnersAre
<1>3. CASE id = d[v]
  <2>1. t = s
    BY <1>3 DEF AddReference
  <2>2. e = d /\ q = k
    BY <1>3 DEF Assigned, Leaks
  <2> HIDE DEF t, e, q
  <2>3. Result(r, t, e, l, f, q)
    BY <1>1, <2>1, <2>2 DEF Result
  <2> QED
    BY <2>3 DEF t, e, q
<1>4. CASE id # d[v]
  <2>1. Moves(s, t, d[v], m, Held(s, id), m)
    BY <1>1, <1>2, <1>4, AddReferenceMoves
  <2>2. e[v] = Held(s, id) /\ \A w \in Vars : w # v => e[w] = d[w]
    BY <1>4 DEF Assigned
  <2>3. q \in BOOLEAN
    BY DEF Leaks
  <2>4. ~q => ~k /\ m = RefersAs(l, v)
    BY <1>4 DEF RefersAs, Leaks
  <2>5. RefersAs(l, v) \in Owners
    BY RefersToOwner
  <2> HIDE DEF t, e, q
  <2>11. VarChanges(d, l, e, l, v)
    BY <2>2, <2>5 DEF VarChanges
  <2>6. HeapType(t) /\ HeapType(s) /\ Passed(s, t, d[v], m, e[v], m)
    BY <1>1, <2>1, <2>2 DEF Moves, Follows, HeapOK
  <2>7. \A i \in DOMAIN l : Surplus(t, l[i].iter, {Engine}) >= 1
    <3> TAKE i \in DOMAIN l
    <3>1. Surplus(s, l[i].iter, {Engine}) >= 1
      BY <1>1 DEF Counted
    <3> QED
      BY <2>6, <3>1, IteratorStays
  <2>8. Counted(t, e, l, f, q)
    BY <1>1, <1>2, <2>3, <2>4, <2>6, <2>7, <2>11, CountedVar
  <2>9. Follows(r, t)
    BY <1>1, <2>1, FollowsTransitive DEF Moves
  <2>10. Result(r, t, e, l, f, q)
    BY <2>8, <2>9 DEF Result
  <2> QED
    BY <2>10 DEF t, e, q
<1> QED
  BY <1>3, <1>4

\* A call with a parameter that is an array.
LEMMA EnterResult ==
    ASSUME NEW r, HeapOK(r), NEW s, Extends(r, s), NEW d, NEW l,
           NEW k, Counted(r, d, l, <<>>, k), NEW id \in Nat, NEW m \in Mods, NEW of
    PROVE  LET t == AddReference(s, 0, id, m) IN
           /\ Result(r, t, d, l, <<[mod |-> m, id |-> Held(s, id), of |-> of]>>, k)
           /\ Result(r, t, d, l, <<>>, TRUE) /\ Live(t) = Live(s)
<1> DEFINE t == AddReference(s, 0, id, m)
           g == [mod |-> m, id |-> Held(s, id), of |-> of]
<1>1. IsFrames(<<>>)
  BY DEF IsFrames
<1>2. Follows(r, s) /\ Counted(s, d, l, <<>>, k) /\ HeapOK(s)
  BY <1>1, ExtendsResult DEF Result
<1>3. Moves(s, t, 0, m, Held(s, id), m)
  BY <1>2, OwnersAre, NewReferenceMoves
<1> HIDE DEF t
<1>4. HeapType(t) /\ HeapType(s) /\ Passed(s, t, 0, m, Held(s, id), m) /\ Live(t) = Live(s)
  BY <1>2, <1>3 DEF Moves, Follows, HeapOK
<1>5. Follows(r, t)
  BY <1>2, <1>3, FollowsTransitive DEF Moves
<1>6. g.mod = m /\ g.id = Held(s, id)
  OBVIOUS
<1> HIDE DEF g
<1>7. Counted(t, d, l, <<g>>, k)
  BY <1>2, <1>4, <1>6, CountedEnters
<1>8. Counted(t, d, l, <<>>, TRUE)
  BY <1>1, <1>2, <1>4, CountedLeaks
<1> QED
  BY <1>4, <1>5, <1>7, <1>8 DEF Result, t, g

\* A loop ends: the engine's reference goes, and its variable holds nothing.
Ended(s, d, v) == RemoveReference(s, d[v], Engine)
Cleared(d, v) == [d EXCEPT ![v] = 0]

\* The end of a loop moves the engine's references off the iterator and gives the
\* variable back, with nothing in it.
LEMMA EndLoopResult ==
    ASSUME NEW r, NEW s, HeapOK(s), Follows(r, s), NEW d \in [Vars -> IDs], NEW at, NEW v \in Vars,
           at.var = v, NEW k \in BOOLEAN, NEW l, l = <<at>>, NEW f, f = <<>>, Counted(s, d, l, f, k)
    PROVE  Result(r, Ended(s, d, v), Cleared(d, v), f, f, k) /\ Live(Ended(s, d, v)) = Live(s)
<1> DEFINE t == Ended(s, d, v)
           e == Cleared(d, v)
           m == ModOf[v]
<1>1. IsFrames(<<>>)
  BY DEF IsFrames
<1>2. Moves(s, t, d[v], Engine, 0, m)
  BY IDsFacts, OwnersAre, RemoveReferenceMoves DEF Ended
<1>3. e[v] = 0 /\ \A w \in Vars : w # v => e[w] = d[w]
  BY DEF Cleared
<1>4. RefersAs(<<at>>, v) = Engine /\ RefersAs(<<>>, v) = m
      /\ \A w \in Vars : w # v => RefersAs(<<>>, w) = RefersAs(<<at>>, w)
  BY DEF RefersAs
<1>5. m \in Owners /\ Engine \in Owners
  BY OwnersAre
<1> HIDE DEF t, e, m
<1>6. HeapType(t) /\ HeapType(s) /\ Passed(s, t, d[v], Engine, e[v], m) /\ Live(t) = Live(s)
  BY <1>2, <1>3 DEF Moves, Follows, HeapOK
<1>7. Counted(t, e, <<>>, <<>>, k)
  <2> DEFINE j == <<>>
  <2>1. \A i \in DOMAIN j : Surplus(t, j[i].iter, {Engine}) >= 1
    OBVIOUS
  <2>2. /\ RefersAs(l, v) = Engine /\ RefersAs(j, v) = m /\ RefersAs(l, v) \in Owners
        /\ \A w \in Vars : w # v => e[w] = d[w] /\ RefersAs(j, w) = RefersAs(l, w)
        /\ Counted(s, d, l, j, k) /\ IsFrames(j) /\ v \in Vars
    BY <1>1, <1>3, <1>4, <1>5
  <2> HIDE DEF j
  <2>3. Counted(t, e, j, j, k)
    <3> DEFINE q == k
    <3>1. q \in BOOLEAN /\ (~q => ~k /\ Engine = RefersAs(l, v) /\ m = RefersAs(j, v))
      BY <2>2
    <3>6. q = k
      OBVIOUS
    <3> HIDE DEF q
    <3>2. Passed(s, t, d[v], Engine, e[v], m) /\ HeapType(s) /\ HeapType(t)
      BY <1>6
    <3>3. Engine \in Owners /\ m \in Owners
      BY <1>5
    <3>4. v \in Vars /\ RefersAs(l, v) \in Owners /\ Counted(s, d, l, j, k) /\ IsFrames(j)
      BY <2>2
    <3>5. VarChanges(d, l, e, j, v)
      BY <2>2 DEF VarChanges
    <3>7. Counted(t, e, j, j, q)
      BY <2>1, <3>1, <3>2, <3>3, <3>4, <3>5, CountedVar
    <3> QED
      BY <3>6, <3>7
  <2> QED
    BY <2>3 DEF j
<1>8. Follows(r, t)
  BY <1>2, FollowsTransitive DEF Moves
<1> QED
  BY <1>6, <1>7, <1>8 DEF Result, t, e

\* A loop begins: its variable, which held h, holds the iterator.
Begun(r, h, m, src) ==
    Get(AddReference(RemoveReference(Create(r, FALSE, m), h, m), 0, UnusedID(r), Engine), src)

LoopBegun(r, t, d, v, at, f, k) ==
    /\ Result(r, t, [d EXCEPT ![v] = UnusedID(r)], <<at>>, f, k) /\ HeapOK(t)
    /\ Live(t) = Live(r) \cup {UnusedID(r)}
    /\ \A id \in Live(r) : Elements(t, id) = Elements(r, id)

\* Its begin moves the variable's reference away and the engine's onto the iterator.
LEMMA BeginLoopResult ==
    ASSUME NEW r, HeapOK(r), NEW d \in [Vars -> IDs], NEW k \in BOOLEAN,
           NEW f, f = <<>>, Counted(r, d, f, f, k), NEW v \in Vars, NEW src \in Nat,
           NEW at, at.var = v, at.iter = UnusedID(r), NEW m, m = ModOf[v]
    PROVE  LoopBegun(r, Begun(r, d[v], m, src), d, v, at, f, k)
<1> DEFINE iter == UnusedID(r)
           s == Create(r, FALSE, m)
           cleared == RemoveReference(s, d[v], m)
           begun == AddReference(cleared, 0, iter, Engine)
           t == Get(begun, src)
           e == [d EXCEPT ![v] = iter]
           j == <<at>>
           l == <<>>
<1>1. IsFrames(<<>>)
  BY DEF IsFrames
<1>2. m \in Mods /\ m \in Owners /\ Engine \in Owners /\ m # Engine /\ d[v] \in Nat
  BY OwnersAre, IDsFacts
<1>3. iter \in AllIDs /\ iter \notin Live(r)
  BY UnusedIDIsFree
<1> HIDE DEF e, j, l
<1>4. Created(r, s, iter) /\ Extends(r, s)
  BY <1>2, CreateCreates, CreateExtends
<1> HIDE DEF s, iter
<1>5. /\ HeapOK(s) /\ Live(s) = Live(r) \cup {iter}
      /\ \A id \in Live(r) : Elements(s, id) = Elements(r, id)
      /\ Surplus(s, iter, {Engine}) = Surplus(r, iter, {Engine})
  BY <1>4 DEF Created
<1>6. Follows(r, s) /\ Counted(s, d, <<>>, <<>>, k)
  BY <1>1, <1>4, ExtendsResult DEF Result
<1>7. Moves(s, cleared, d[v], m, 0, Engine)
  BY <1>2, <1>5, RemoveReferenceMoves
<1> HIDE DEF cleared
<1>8. HeapOK(cleared) /\ Live(cleared) = Live(s)
  BY <1>7 DEF Moves, Follows
<1>9. Held(cleared, iter) = iter
  BY <1>5, <1>8 DEF Held
<1>10. Moves(cleared, begun, 0, m, iter, Engine)
  BY <1>2, <1>3, <1>8, <1>9, NewReferenceMoves DEF AllIDs
<1> HIDE DEF begun
<1>11. Moves(s, begun, d[v], m, iter, Engine)
  BY <1>5, <1>7, <1>10, MovesThen
<1>12. /\ HeapType(s) /\ HeapType(begun) /\ HeapOK(begun) /\ Live(begun) = Live(s)
       /\ Passed(s, begun, d[v], m, iter, Engine) /\ Follows(r, begun)
       /\ \A id \in Live(s) : Elements(begun, id) = Elements(s, id)
  BY <1>5, <1>6, <1>11, FollowsTransitive DEF Moves, Follows, HeapOK
<1>13. Surplus(begun, iter, {Engine}) >= 1
  <2>1. Surplus(r, iter, Owners) >= 0
    BY <1>1, <1>3, CoveredBacked DEF HeapOK, Counted, Backed
  <2>2. Refs(r, iter, Owners) = 0 /\ Refs(r, iter, {Engine}) = 0
    BY <1>3 DEF Refs
  <2>3. Cardinality(Slots(r, iter, Owners)) = 0 /\ IsFiniteSet(Slots(r, iter, Owners))
    <3>1. IsFiniteSet(Slots(r, iter, Owners)) /\ Cardinality(Slots(r, iter, Owners)) \in Nat
      BY SlotsAreFinite DEF HeapOK
    <3> QED
      BY <2>1, <2>2, <3>1 DEF Surplus
  <2>4. Slots(r, iter, {Engine}) \subseteq Slots(r, iter, Owners)
    BY <1>2 DEF Slots
  <2>5. Slots(r, iter, Owners) = {}
    BY <2>3, FS_EmptySet
  <2>6. Cardinality(Slots(r, iter, {Engine})) = 0
    BY <2>4, <2>5, FS_EmptySet
  <2>7. Surplus(r, iter, {Engine}) = 0
    BY <2>2, <2>6 DEF Surplus
  <2>8. {Engine} \in SUBSET Owners
    BY <1>2
  <2>9. Surplus(begun, iter, {Engine}) >=
            Surplus(s, iter, {Engine}) - Is(d[v], m, iter, {Engine}) + Is(iter, Engine, iter, {Engine})
    BY <1>3, <1>12, <2>8 DEF Passed
  <2>10. Is(d[v], m, iter, {Engine}) = 0 /\ Is(iter, Engine, iter, {Engine}) = 1
    BY <1>2 DEF Is
  <2>11. Surplus(begun, iter, {Engine}) \in Int
    BY <1>12, SurplusType
  <2> QED
    BY <1>5, <2>7, <2>9, <2>10, <2>11
<1>14. VarChanges(d, l, e, j, v) /\ e[v] = iter /\ RefersAs(l, v) = m /\ RefersAs(j, v) = Engine
  <2>1. e[v] = iter /\ \A w \in Vars : w # v => e[w] = d[w]
    BY DEF e
  <2>2. RefersAs(l, v) = m /\ \A w : RefersAs(l, w) = ModOf[w]
    BY DEF RefersAs, l
  <2>3. RefersAs(j, v) = Engine /\ \A w : w # v => RefersAs(j, w) = ModOf[w]
    BY DEF RefersAs, j
  <2> QED
    BY <1>2, <2>1, <2>2, <2>3 DEF VarChanges
<1>15. \A i \in DOMAIN j : Surplus(begun, j[i].iter, {Engine}) >= 1
  BY <1>13 DEF j, iter
<1>16. Counted(s, d, l, l, k) /\ IsFrames(l)
  BY <1>1, <1>6 DEF l
<1>17. Counted(begun, e, j, l, k)
  <2> DEFINE q == k
  <2>1. q \in BOOLEAN /\ (~q => ~k /\ m = RefersAs(l, v) /\ Engine = RefersAs(j, v))
    BY <1>14
  <2>2. q = k
    OBVIOUS
  <2> HIDE DEF q
  <2>3. Counted(begun, e, j, l, q)
    BY <1>2, <1>12, <1>14, <1>15, <1>16, <2>1, CountedVar
  <2> QED
    BY <2>2, <2>3
<1>18. /\ Keeps(begun, t) /\ Live(t) = Live(begun)
       /\ \A id : Elements(t, id) = Elements(begun, id)
  BY <1>12, GetKeeps, SameArrays
<1> HIDE DEF t
<1>19. Extends(begun, t)
  BY <1>12, <1>18, KeepsExtends
<1>20. Result(begun, t, e, j, l, k) /\ HeapOK(t)
  BY <1>12, <1>16, <1>17, <1>19, ExtendsResult
<1>21. Result(r, t, e, j, l, k)
  BY <1>12, <1>20, FollowsTransitive DEF Result
<1> QED
  BY <1>5, <1>12, <1>18, <1>20, <1>21 DEF LoopBegun, Begun, t, begun, cleared, s, e, j, l, iter

\* The iterator's elements are set to those the loop is at.
LEMMA UpdateIteratorKeeps ==
    ASSUME NEW s, HeapOK(s), NEW iter \in Live(s), NEW value \in Nat \cup {Other}
    PROVE  Keeps(s, UpdateIterator(s, iter, value))
<1> DEFINE u == SetElement(s, iter, ValueKey, value)
<1>1. ValueKey \in Keys
  BY KeysFacts, MinOfSet DEF ValueKey
<1>2. KeySet(s, u, iter, ValueKey)
  BY <1>1, SetElementKeeps
<1> HIDE DEF u
<1>3. Keeps(s, u) /\ HeapOK(u)
  BY <1>2 DEF KeySet, Keeps
<1>4. iter \in Nat
  BY LiveIsFinite DEF HeapOK, AllIDs
<1>5. Keeps(u, Get(u, iter))
  BY <1>3, <1>4, GetKeeps
<1>6. Keeps(s, Get(u, iter))
  BY <1>3, <1>5, KeepsTransitive
<1> QED
  BY <1>6 DEF UpdateIterator, u

-----------------------------------------------------------------------------
(* The steps of scripts keep the invariant.                                *)

\* What an action leaves alone is Live(s) \subseteq IDs and the order of faults.
LEMMA BecomesMeans ==
    ASSUME NEW s, HeapType(s), NEW w \in Faults, BecomesOr(s, w)
    PROVE  /\ state' = s /\ Live(s) \subseteq IDs /\ fault' \in Faults
           /\ hollow' = (hollow \/ IsHollow(s))
           /\ fault' = "none" => worker \notin Live(s) /\ w = "none"
<1>1. s.misled \in BOOLEAN
  BY DEF HeapType
<1>2. /\ state' = s /\ Live(s) \subseteq IDs /\ hollow' = (hollow \/ IsHollow(s))
      /\ fault' = CASE s.misled                                -> "cache"
                    [] ~s.misled /\ worker \in Live(s)        -> "id"
                    [] ~s.misled /\ worker \notin Live(s)     -> w
  BY DEF BecomesOr
<1>3. CASE s.misled
  <2>1. fault' = "cache"
    BY <1>2, <1>3
  <2> QED
    BY <1>2, <2>1 DEF Faults
<1>4. CASE ~s.misled /\ worker \in Live(s)
  <2>1. fault' = "id"
    BY <1>2, <1>4
  <2> QED
    BY <1>2, <2>1 DEF Faults
<1>5. CASE ~s.misled /\ worker \notin Live(s)
  <2>1. fault' = w
    BY <1>2, <1>5
  <2> QED
    BY <1>2, <1>5, <2>1 DEF Faults
<1> QED
  BY <1>1, <1>3, <1>4, <1>5

\* The parts of the invariant, while no fault has happened and no game loads.
LEMMA InvMeans ==
    ASSUME Inv, fault = "none"
    PROVE  /\ HeapOK(state) /\ HeapType(state) /\ Live(state) \subseteq IDs
           /\ data \in [Vars -> IDs] /\ IsLoop(loop) /\ IsFrames(frames) /\ IsDeferred(deferred)
           /\ worker \in IDs /\ worker \in Nat /\ worker \notin Live(state) /\ IdsOK(state, worker)
           /\ phase # "loading" => Counted(state, data, loop, frames, leaked)
           /\ ~hollow => CacheOK(state) /\ GoodCache(state)
           /\ leaked \in BOOLEAN /\ hollow \in BOOLEAN /\ phase \in Phases
BY IDsFacts DEF Inv, Types, Ids, Counts, Heap, Caches, HeapOK, CacheOK, GoodCache

\* A step that touches neither the games nor the other thread.
LEMMA PlayStep ==
    ASSUME Inv, fault = "none", phase # "loading", phase' = phase,
           UNCHANGED <<backup, save, absent, worker>>,
           NEW s, NEW w \in Faults, BecomesOr(s, w), HeapOK(s),
           \* the heap
           worker \notin Live(s) => IdsOK(s, worker),
           w = "none" => Counted(s, data', loop', frames', leaked'),
           ~hollow => GoodCache(s),
           \* the scripts
           data' \in [Vars -> IDs], IsLoop(loop'), IsFrames(frames'), leaked' \in BOOLEAN,
           loop' # <<>> => phase = "scripts",
           frames' # <<>> => phase \in {"scripts", "tick"},
           \* the events
           IsDeferred(deferred'),
           \A i \in DOMAIN deferred' : ~deferred'[i].spoiled =>
               /\ deferred'[i].id \in Live(s) /\ phase # "clean"
               /\ \A j \in DOMAIN frames' :
                      frames'[j].of = "tile" => frames'[j].id # deferred'[i].id,
           \A j \in DOMAIN frames' :
               frames'[j].of = "tile" => frames'[j].id \in Live(s) /\ loop' = <<>>
    PROVE  Inv'
<1>1. /\ state' = s /\ Live(s) \subseteq IDs /\ fault' \in Faults
      /\ hollow' = (hollow \/ IsHollow(s))
      /\ fault' = "none" => worker \notin Live(s) /\ w = "none"
  BY BecomesMeans DEF HeapOK
<1>2. Types'
  <2>1. hollow' \in BOOLEAN
    BY <1>1, InvMeans
  <2>2. backup' = <<>> /\ worker' \in IDs /\ absent' \subseteq Mods /\ phase' \in Phases
        /\ (save' = <<>> \/ save' = <<save'[1]>>)
    BY DEF Inv, Types
  <2> QED
    BY <1>1, <2>1, <2>2 DEF Types
<1>3. (save # <<>> => SaveOK(save[1]))'
  BY DEF Inv
<1>4. ASSUME fault' = "none" PROVE (Order /\ Ids /\ Waiting /\ Counts /\ Caches)'
  <2>1. Order'
    BY <1>4 DEF Inv, Order
  <2>2. Ids'
    BY <1>1, <1>4 DEF Ids
  <2>3. Waiting'
    BY <1>1 DEF Waiting
  <2>4. Counts'
    BY <1>1, <1>4 DEF Counts, Heap
  <2>5. Caches'
    BY <1>1 DEF Caches, CacheOK, GoodCache
  <2> QED
    BY <2>1, <2>2, <2>3, <2>4, <2>5
<1> QED
  BY <1>2, <1>3, <1>4 DEF Inv

\* A step of a script or of a handler, on the heap.
LEMMA ScriptStep ==
    ASSUME Inv, fault = "none", phase \in {"scripts", "tick"}, phase' = phase,
           UNCHANGED <<backup, save, absent, worker>>,
           NEW s, Becomes(s), Result(state, s, data', loop', frames', leaked'),
           data' \in [Vars -> IDs], IsLoop(loop'), IsFrames(frames'), leaked' \in BOOLEAN,
           loop' # <<>> => phase = "scripts",
           deferred' = deferred \/ (deferred # <<>> /\ deferred' = Tail(deferred)),
           \A j \in DOMAIN frames' : frames'[j].of = "tile" =>
               /\ loop' = <<>>
               /\ frames' = frames \/ frames'[j].id \in Live(s) \ Live(state)
    PROVE  Inv'
<1>1. BecomesOr(s, "none") /\ "none" \in Faults
  BY DEF Becomes, Faults
<1>2. Follows(state, s) /\ Counted(s, data', loop', frames', leaked') /\ HeapOK(s)
      /\ Live(state) \subseteq Live(s)
  BY DEF Result, Follows
<1>3. worker \notin Live(s) => IdsOK(s, worker)
  BY <1>2, InvMeans DEF Follows
<1>4. ~hollow => GoodCache(s)
  BY <1>2, InvMeans DEF Follows
<1>5. \A i \in DOMAIN deferred' : \E k \in DOMAIN deferred : deferred'[i] = deferred[k]
  <2>1. CASE deferred' = deferred
    BY <2>1
  <2>2. CASE deferred # <<>> /\ deferred' = Tail(deferred)
    <3> DEFINE S == [id : IDs, spoiled : BOOLEAN]
    <3>1. deferred \in Seq(S)
      BY InvMeans DEF IsDeferred
    <3> HIDE DEF S
    <3>2. \A i \in DOMAIN deferred' : i + 1 \in DOMAIN deferred /\ deferred'[i] = deferred[i + 1]
      BY <2>2, <3>1
    <3> QED
      BY <3>2
  <2> QED
    BY <2>1, <2>2
<1>6. IsDeferred(deferred')
  <2> DEFINE S == [id : IDs, spoiled : BOOLEAN]
  <2>1. deferred \in Seq(S)
    BY InvMeans DEF IsDeferred
  <2> HIDE DEF S
  <2>2. deferred' \in Seq(S)
    BY <2>1
  <2> QED
    BY <2>2 DEF S, IsDeferred
<1>7. /\ \A i \in DOMAIN deferred : ~deferred[i].spoiled =>
            /\ deferred[i].id \in Live(state)
            /\ \A j \in DOMAIN frames : frames[j].of = "tile" => frames[j].id # deferred[i].id
      /\ \A j \in DOMAIN frames : frames[j].of = "tile" => frames[j].id \in Live(state)
      /\ frames # <<>> => phase \in {"scripts", "tick"}
  BY DEF Inv, Waiting, Order
<1>8. \A i \in DOMAIN deferred' : ~deferred'[i].spoiled =>
         /\ deferred'[i].id \in Live(s) /\ phase # "clean"
         /\ \A j \in DOMAIN frames' :
                frames'[j].of = "tile" => frames'[j].id # deferred'[i].id
  BY <1>2, <1>5, <1>7
<1>9. \A j \in DOMAIN frames' :
         frames'[j].of = "tile" => frames'[j].id \in Live(s) /\ loop' = <<>>
  BY <1>2, <1>7
<1>10. phase # "loading"
  OBVIOUS
<1> QED
  BY <1>1, <1>2, <1>3, <1>4, <1>6, <1>8, <1>9, <1>10, PlayStep

\* What holds when a command runs.
LEMMA CommandMeans ==
    ASSUME Inv, NEW m, Command(m)
    PROVE  /\ m \in Mods /\ m \in Owners /\ fault = "none" /\ phase \in {"scripts", "tick"}
           /\ HeapOK(state) /\ Counted(state, data, loop, frames, leaked)
           /\ IsLoop(loop) /\ IsFrames(frames) /\ data \in [Vars -> IDs] /\ leaked \in BOOLEAN
           /\ loop # <<>> => phase = "scripts"
           /\ \A j \in DOMAIN frames : frames[j].of = "tile" => loop = <<>>
<1>1. m \in Mods /\ fault = "none"
  BY DEF Command, Uses
<1>2. (CASE frames # <<>> -> m = frames[1].mod
         [] frames = <<>> /\ loop # <<>> -> m = loop[1].mod
         [] frames = <<>> /\ loop = <<>> -> phase = "scripts")
  BY DEF Command
<1>3. Order
  BY <1>1 DEF Inv
<1>4. phase \in {"scripts", "tick"}
  <2>1. CASE frames # <<>>
    BY <1>3, <2>1 DEF Order
  <2>2. CASE frames = <<>> /\ loop # <<>>
    BY <1>3, <2>2 DEF Order
  <2>3. CASE frames = <<>> /\ loop = <<>>
    BY <1>2, <2>3
  <2> QED
    BY <2>1, <2>2, <2>3
<1> QED
  BY <1>1, <1>3, <1>4, InvMeans, OwnersAre DEF Order

\* A command that assigns what it made keeps the invariant.
LEMMA AssignToStep ==
    ASSUME Inv, NEW m, Command(m), NEW v \in Vars, NEW s, Extends(state, s), NEW id \in Nat,
           AssignTo(m, v, s, id)
    PROVE  Inv'
<1> DEFINE t == AddReference(s, data[v], id, m)
           q == Leaks(leaked, data, loop, v, m, id)
           e == Assigned(s, data, v, id)
<1>1. /\ m \in Mods /\ fault = "none" /\ phase \in {"scripts", "tick"}
      /\ HeapOK(state) /\ Counted(state, data, loop, frames, leaked)
      /\ IsLoop(loop) /\ IsFrames(frames) /\ data \in [Vars -> IDs] /\ leaked \in BOOLEAN
      /\ loop # <<>> => phase = "scripts"
      /\ \A j \in DOMAIN frames : frames[j].of = "tile" => loop = <<>>
  BY CommandMeans
<1>2. /\ Becomes(t) /\ data' = e /\ leaked' = q
      /\ UNCHANGED <<loop, frames, backup, phase, save, absent, worker, deferred>>
  BY DEF AssignTo, Assigned, Leaks, engine, events
<1>3. Result(state, t, e, loop, frames, q)
  BY <1>1, AssignResult
<1>4. e \in [Vars -> IDs]
  <2>1. HeapOK(s)
    BY DEF Extends
  <2>2. CASE id = data[v]
    BY <1>1, <2>2 DEF Assigned
  <2>3. CASE id # data[v]
    <3>1. t = AddReference(s, data[v], id, m) /\ data[v] \in Nat /\ m \in Owners
      BY <1>1, IDsFacts, OwnersAre
    <3>2. Moves(s, t, data[v], m, Held(s, id), m)
      BY <2>1, <2>3, <3>1, AddReferenceMoves
    <3> HIDE DEF t
    <3>3. Live(t) = Live(s) /\ Live(t) \subseteq IDs
      BY <1>2, <3>2 DEF Moves, Becomes, BecomesOr
    <3>4. Held(s, id) \in IDs
      BY <2>1, <3>3, HeldIsNat, IDsFacts
    <3> QED
      BY <1>1, <2>3, <3>4 DEF Assigned
  <2> QED
    BY <2>2, <2>3
<1>5. q \in BOOLEAN
  BY DEF Leaks
<1> HIDE DEF t, q, e
<1>6. Result(state, t, data', loop', frames', leaked')
  BY <1>2, <1>3
<1> QED
  BY <1>1, <1>2, <1>4, <1>5, <1>6, ScriptStep

\* So does one that changes the heap only, without losing an array.
LEMMA OnHeapStep ==
    ASSUME Inv, NEW m, Command(m), NEW s, Extends(state, s), OnHeap(s)
    PROVE  Inv'
<1>1. /\ m \in Mods /\ fault = "none" /\ phase \in {"scripts", "tick"}
      /\ HeapOK(state) /\ Counted(state, data, loop, frames, leaked)
      /\ IsLoop(loop) /\ IsFrames(frames) /\ data \in [Vars -> IDs] /\ leaked \in BOOLEAN
      /\ loop # <<>> => phase = "scripts"
      /\ \A j \in DOMAIN frames : frames[j].of = "tile" => loop = <<>>
  BY CommandMeans
<1>2. /\ Becomes(s)
      /\ UNCHANGED <<data, leaked, loop, frames, backup, phase, save, absent, worker, deferred>>
  BY DEF OnHeap, engine, events, script
<1>3. Result(state, s, data, loop, frames, leaked)
  BY <1>1, ExtendsResult
<1>4. Result(state, s, data', loop', frames', leaked')
  BY <1>2, <1>3
<1> QED
  BY <1>1, <1>2, <1>4, ScriptStep

\* What a command can name are numbers, of arrays that exist.
LEMMA NamesAreNumbers ==
    ASSUME Inv, fault = "none"
    PROVE  /\ Named \subseteq Nat /\ Arrays \subseteq Live(state) /\ Live(state) \subseteq Nat
           /\ UnusedID(state) \in Nat
<1>1. HeapOK(state) /\ data \in [Vars -> IDs] /\ IsFrames(frames)
  BY InvMeans
<1>2. \A i \in DOMAIN frames : frames[i].id \in IDs
  BY <1>1, FramesAre
<1>3. Named \subseteq Nat
  BY <1>1, <1>2, IDsFacts DEF Named
<1>4. UnusedID(state) \in Nat /\ Live(state) \subseteq Nat
  BY <1>1, UnusedIDIsFree, LiveIsFinite DEF AllIDs, HeapOK
<1> QED
  BY <1>3, <1>4 DEF Arrays

\* A new array that is not queued for long.
LEMMA CreatedIs ==
    ASSUME NEW s, HeapOK(s), NEW m \in Owners, NEW packed \in BOOLEAN
    PROVE  /\ Extends(s, Create(s, packed, m)) /\ HeapOK(Create(s, packed, m))
           /\ Live(Create(s, packed, m)) = Live(s) \cup {UnusedID(s)}
BY CreateExtends, CreateCreates DEF Created

\* A heap that lost no array, and then keeps its arrays, lost none.
LEMMA KeepsAfter ==
    ASSUME NEW r, HeapOK(r), NEW s, Extends(r, s), NEW t, Keeps(s, t)
    PROVE  Extends(r, t)
<1>1. HeapOK(s)
  BY DEF Extends
<1> QED
  BY <1>1, KeepsExtends, ExtendsTransitive

\* An array that a script makes: ar_Construct.
LEMMA ConstructStep ==
    ASSUME Inv, NEW m, NEW v \in Vars, Construct(m, v)
    PROVE  Inv'
<1>1. Command(m) /\ AssignTo(m, v, Create(state, FALSE, m), UnusedID(state))
  BY DEF Construct
<1>2. m \in Owners /\ HeapOK(state) /\ fault = "none"
  BY <1>1, CommandMeans
<1>3. Extends(state, Create(state, FALSE, m))
  BY <1>2, CreatedIs
<1> QED
  BY <1>1, <1>2, <1>3, NamesAreNumbers, AssignToStep

\* ar_List and the others that fill a new array.
LEMMA AssignListStep ==
    ASSUME Inv, NEW m, NEW v \in Vars, NEW value \in Arrays \cup {Other}, AssignList(m, v, value)
    PROVE  Inv'
<1> DEFINE id == UnusedID(state)
           s == Create(state, TRUE, m)
           t == Filled(s, id, value)
<1>1. Command(m) /\ AssignTo(m, v, t, id)
  BY DEF AssignList
<1>2. m \in Owners /\ HeapOK(state) /\ fault = "none"
  BY <1>1, CommandMeans
<1>3. id \in Nat /\ value \in Nat \cup {Other}
  BY <1>2, NamesAreNumbers
<1>4. Extends(state, s) /\ HeapOK(s) /\ id \in Live(s)
  BY <1>2, CreatedIs
<1> HIDE DEF s, id
<1>5. Keeps(s, t)
  BY <1>3, <1>4, FilledKeeps
<1> HIDE DEF t
<1>6. Extends(state, t)
  BY <1>2, <1>4, <1>5, KeepsAfter
<1> QED
  BY <1>1, <1>3, <1>6, AssignToStep

\* let of a variable or a parameter.
LEMMA AssignStep ==
    ASSUME Inv, NEW m, NEW v \in Vars, NEW id \in Named, Assign(m, v, id)
    PROVE  Inv'
<1>1. Command(m) /\ AssignTo(m, v, state, id)
  BY DEF Assign
<1>2. HeapOK(state) /\ fault = "none"
  BY <1>1, CommandMeans
<1>3. Extends(state, state)
  BY <1>2, KeepsReflexive, KeepsExtends
<1> QED
  BY <1>1, <1>2, <1>3, NamesAreNumbers, AssignToStep

\* let of an element.
LEMMA AssignElementStep ==
    ASSUME Inv, NEW m, NEW v \in Vars, NEW from \in Arrays, NEW key, AssignElement(m, v, from, key)
    PROVE  Inv'
<1> DEFINE value == Elements(state, from)[key]
           g == Get(state, from)
           t == Get(g, value)
<1>1. Command(m) /\ value \in {0} \cup Live(state) /\ AssignTo(m, v, t, value)
  BY DEF AssignElement
<1>2. HeapOK(state) /\ fault = "none"
  BY <1>1, CommandMeans
<1>3. from \in Nat /\ value \in Nat
  BY <1>1, <1>2, NamesAreNumbers
<1> HIDE DEF value
<1>4. Keeps(state, g)
  BY <1>2, <1>3, GetKeeps
<1>5. HeapOK(g)
  BY <1>4 DEF Keeps
<1> HIDE DEF g
<1>6. Keeps(g, t)
  BY <1>3, <1>5, GetKeeps
<1> HIDE DEF t
<1>7. Extends(state, t)
  BY <1>2, <1>4, <1>6, KeepsExtends, KeepsAfter
<1> QED
  BY <1>1, <1>3, <1>7, AssignToStep

\* ar_Copy and ar_DeepCopy.
LEMMA AssignCopyStep ==
    ASSUME Inv, NEW m, NEW v \in Vars, NEW from \in Arrays, NEW deep \in BOOLEAN,
           AssignCopy(m, v, from, deep)
    PROVE  Inv'
<1> DEFINE t == Copy(state, from, m, deep).heap
<1>1. Command(m) /\ AssignTo(m, v, t, UnusedID(state))
  BY DEF AssignCopy
<1>2. m \in Owners /\ HeapOK(state) /\ fault = "none"
  BY <1>1, CommandMeans
<1>3. from \in Live(state) /\ UnusedID(state) \in Nat
  BY <1>2, NamesAreNumbers
<1>4. Extends(state, t)
  BY <1>2, <1>3, CopyExtends
<1> HIDE DEF t
<1> QED
  BY <1>1, <1>3, <1>4, AssignToStep

\* let to an element.
LEMMA SetElementToStep ==
    ASSUME Inv, NEW m, NEW id \in Arrays, NEW key \in Keys, NEW value \in Named \cup {Other},
           SetElementTo(m, id, key, value)
    PROVE  Inv'
<1> DEFINE t == SetElement(state, id, key, value)
<1>1. Command(m) /\ OnHeap(t)
  BY DEF SetElementTo
<1>2. HeapOK(state) /\ fault = "none"
  BY <1>1, CommandMeans
<1>3. id \in Live(state) /\ value \in Nat \cup {Other}
  BY <1>2, NamesAreNumbers
<1>4. KeySet(state, t, id, key)
  BY <1>2, <1>3, SetElementKeeps
<1> HIDE DEF t
<1>5. Extends(state, t)
  BY <1>2, <1>4, KeepsExtends DEF KeySet
<1> QED
  BY <1>1, <1>5, OnHeapStep

\* let to an element, of an array that was just made.
LEMMA SetElementToNewStep ==
    ASSUME Inv, NEW m, NEW id \in Arrays, NEW key \in Keys, SetElementToNew(m, id, key)
    PROVE  Inv'
<1> DEFINE s == Create(state, FALSE, m)
           t == SetElement(s, id, key, UnusedID(state))
<1>1. Command(m) /\ OnHeap(t)
  BY DEF SetElementToNew
<1>2. m \in Owners /\ HeapOK(state) /\ fault = "none"
  BY <1>1, CommandMeans
<1>3. id \in Live(state) /\ UnusedID(state) \in Nat
  BY <1>2, NamesAreNumbers
<1>4. Extends(state, s) /\ HeapOK(s) /\ id \in Live(s)
  BY <1>2, <1>3, CreatedIs
<1> HIDE DEF s
<1>5. KeySet(s, t, id, key)
  BY <1>3, <1>4, SetElementKeeps
<1> HIDE DEF t
<1>6. Extends(state, t)
  BY <1>2, <1>4, <1>5, KeepsAfter DEF KeySet
<1> QED
  BY <1>1, <1>6, OnHeapStep

\* ar_Erase of a range.
LEMMA EraseRangeStep ==
    ASSUME Inv, NEW m, NEW id \in Arrays, NEW lo, NEW hi, EraseRange(m, id, lo, hi)
    PROVE  Inv'
<1> DEFINE t == EraseElements(state, id, lo, hi)
<1>1. Command(m) /\ OnHeap(t)
  BY DEF EraseRange
<1>2. HeapOK(state) /\ fault = "none"
  BY <1>1, CommandMeans
<1>3. id \in Live(state)
  BY <1>2, NamesAreNumbers
<1>4. Keeps(state, t)
  BY <1>2, <1>3, EraseElementsKeeps
<1> HIDE DEF t
<1>5. Extends(state, t)
  BY <1>2, <1>4, KeepsExtends
<1> QED
  BY <1>1, <1>5, OnHeapStep

-----------------------------------------------------------------------------
(* The steps of loops do.                                                  *)

\* No function and no loop runs.
LEMMA NoFrames == IsFrames(<<>>) /\ IsLoop(<<>>)
BY DEF IsFrames, IsLoop

\* One function runs.
LEMMA OneFrame ==
    ASSUME NEW m \in Mods, NEW id \in IDs, NEW of \in {"call", "event", "tile"}
    PROVE  IsFrames(<<[mod |-> m, id |-> id, of |-> of]>>)
<1> DEFINE S == [mod : Mods, id : IDs, of : {"call", "event", "tile"}]
           g == [mod |-> m, id |-> id, of |-> of]
<1>1. g \in S
  OBVIOUS
<1> HIDE DEF S, g
<1>2. <<g>> \in Seq(S) /\ Len(<<g>>) <= 1
  BY <1>1
<1> QED
  BY <1>2 DEF S, g, IsFrames

\* One loop runs.
LEMMA OneLoop ==
    ASSUME NEW at \in [mod : Mods, var : Vars, iter : IDs, src : IDs, key : Keys]
    PROVE  IsLoop(<<at>>)
<1> DEFINE S == [mod : Mods, var : Vars, iter : IDs, src : IDs, key : Keys]
<1>1. at \in S
  OBVIOUS
<1> HIDE DEF S
<1>2. <<at>> \in Seq(S) /\ Len(<<at>>) <= 1
  BY <1>1
<1> QED
  BY <1>2 DEF S, IsLoop

\* foreach begins: the variable's reference becomes the engine's.
LEMMA ForEachStep ==
    ASSUME Inv, NEW m, NEW v \in Vars, ModOf[v] = m, NEW src \in Arrays, ForEach(m, v, src)
    PROVE  Inv'
<1> DEFINE iter == UnusedID(state)
           begun == Begun(state, data[v], m, src)
           keys == IF src \in Live(state) THEN DOMAIN Elements(state, src) ELSE {}
           d == [data EXCEPT ![v] = iter]
           at == [mod |-> m, var |-> v, iter |-> iter, src |-> src, key |-> Min(keys)]
           l == <<at>>
<1>1. Command(m) /\ frames = <<>> /\ loop = <<>>
  BY DEF ForEach
<1>2. /\ IF keys = {} THEN EndLoop(begun, d, v)
         ELSE /\ Becomes(UpdateIterator(begun, iter, Elements(begun, src)[Min(keys)]))
              /\ data' = d /\ loop' = l
      /\ UNCHANGED <<frames, leaked, backup, phase, save, absent, worker, deferred>>
  BY DEF ForEach, engine, events, Begun
<1>3. /\ m \in Mods /\ fault = "none" /\ phase \in {"scripts", "tick"}
      /\ HeapOK(state) /\ Counted(state, data, frames, frames, leaked)
      /\ data \in [Vars -> IDs] /\ leaked \in BOOLEAN
  BY <1>1, CommandMeans
<1>4. phase = "scripts"
  BY <1>1 DEF Command
<1>5. src \in Live(state) /\ src \in Nat /\ iter \in Nat
  BY <1>3, NamesAreNumbers
<1>6. at.var = v /\ at.iter = iter
  OBVIOUS
<1> HIDE DEF at
<1>7. /\ Result(state, begun, d, l, frames, leaked) /\ HeapOK(begun)
      /\ Live(begun) = Live(state) \cup {iter}
      /\ \A id \in Live(state) : Elements(begun, id) = Elements(state, id)
  <2>1. LoopBegun(state, begun, data, v, at, frames, leaked)
    <3> HIDE DEF keys, l, d
    <3> QED
      BY <1>1, <1>3, <1>5, <1>6, BeginLoopResult
  <2> HIDE DEF begun, keys
  <2> QED
    BY <2>1 DEF LoopBegun
<1>8. d[v] = iter /\ (iter \in IDs => d \in [Vars -> IDs])
  BY <1>3
<1> HIDE DEF begun, iter, l
<1>9. Follows(state, begun) /\ Counted(begun, d, l, frames, leaked)
  BY <1>7 DEF Result
<1>10. frames' = frames /\ leaked' = leaked /\ IsFrames(frames) /\ frames = <<>>
  BY <1>1, <1>2, NoFrames
<1>11. CASE keys = {}
  <2> DEFINE t == Ended(begun, d, v)
             e == Cleared(d, v)
  <2>1. Becomes(t) /\ data' = e /\ loop' = <<>>
    BY <1>2, <1>11 DEF EndLoop, Ended, Cleared
  <2>2. Moves(begun, t, iter, Engine, 0, Engine)
    BY <1>5, <1>7, <1>8, OwnersAre, RemoveReferenceMoves DEF Ended
  <2>3. Live(t) = Live(begun) /\ Live(t) \subseteq IDs
    BY <2>1, <2>2 DEF Moves, Becomes, BecomesOr
  <2>4. d \in [Vars -> IDs] /\ e \in [Vars -> IDs]
    BY <1>7, <1>8, <2>3, IDsFacts DEF Cleared
  <2> HIDE DEF d
  <2>5. Result(state, t, e, frames, frames, leaked)
    <3>1. l = <<at>>
      BY DEF l
    <3> QED
      BY <1>3, <1>6, <1>7, <1>9, <1>10, <2>4, <3>1, EndLoopResult
  <2> HIDE DEF t, e
  <2>6. Result(state, t, data', loop', frames', leaked')
    BY <1>10, <2>1, <2>5
  <2>7. IsLoop(loop') /\ IsFrames(frames') /\ \A j \in DOMAIN frames' : FALSE
    BY <1>10, <2>1, NoFrames
  <2> QED
    BY <1>2, <1>3, <1>4, <1>10, <2>1, <2>4, <2>6, <2>7, ScriptStep
<1>12. CASE keys # {}
  <2> DEFINE value == Elements(begun, src)[Min(keys)]
             t == UpdateIterator(begun, iter, value)
  <2>1. Becomes(t) /\ data' = d /\ loop' = l
    BY <1>2, <1>12
  <2>2. Min(keys) \in DOMAIN Elements(begun, src) /\ keys \subseteq Keys
    <3>1. keys = DOMAIN Elements(state, src)
      BY <1>5
    <3>2. keys \subseteq Nat /\ keys \subseteq Keys
      BY <1>3, <1>5, <3>1, ArrayFacts, KeysFacts DEF HeapOK
    <3>3. Min(keys) \in keys
      BY <1>12, <3>2, MinOfSet
    <3> QED
      BY <1>5, <1>7, <3>1, <3>2, <3>3
  <2>3. value \in Nat \cup {Other}
    BY <1>5, <1>7, <2>2, ArrayFacts DEF HeapOK
  <2>4. Min(keys) \in Keys
    BY <1>5, <1>7, <2>2, ArrayFacts DEF HeapOK
  <2> HIDE DEF value, keys
  <2>5. Keeps(begun, t)
    BY <1>7, <2>3, UpdateIteratorKeeps
  <2> HIDE DEF t
  <2>6. Live(t) = Live(begun) /\ Live(t) \subseteq IDs /\ Extends(begun, t)
    BY <1>7, <2>1, <2>5, KeepsExtends DEF Keeps, Same, Becomes, BecomesOr
  <2>7. d \in [Vars -> IDs] /\ iter \in IDs /\ src \in IDs
    BY <1>5, <1>7, <1>8, <2>6
  <2>8. IsLoop(l)
    BY <1>3, <2>4, <2>7, OneLoop DEF at, l
  <2> HIDE DEF d
  <2>9. Result(begun, t, d, l, frames, leaked)
    BY <1>7, <1>9, <1>10, <2>6, ExtendsResult
  <2>10. Result(state, t, d, l, frames, leaked)
    BY <1>9, <2>9, FollowsTransitive DEF Result
  <2>11. Result(state, t, data', loop', frames', leaked')
    BY <1>10, <2>1, <2>10
  <2>12. IsLoop(loop') /\ IsFrames(frames') /\ data' \in [Vars -> IDs]
         /\ \A j \in DOMAIN frames' : FALSE
    BY <1>10, <2>1, <2>7, <2>8
  <2> QED
    BY <1>2, <1>3, <1>4, <1>10, <2>1, <2>11, <2>12, ScriptStep
<1> QED
  BY <1>11, <1>12

\* break and the end of a foreach.
LEMMA BreakStep ==
    ASSUME Inv, Break
    PROVE  Inv'
<1> DEFINE at == loop[1]
           v == at.var
           t == Ended(state, data, v)
           e == Cleared(data, v)
<1>1. /\ fault = "none" /\ frames = <<>> /\ loop # <<>>
      /\ Becomes(t) /\ data' = e /\ loop' = <<>>
      /\ UNCHANGED <<frames, leaked, backup, phase, save, absent, worker, deferred>>
  BY DEF Break, EndLoop, engine, events, Ended, Cleared
<1>2. phase = "scripts"
  BY <1>1 DEF Inv, Order
<1>3. /\ HeapOK(state) /\ Counted(state, data, loop, frames, leaked) /\ IsLoop(loop)
      /\ data \in [Vars -> IDs] /\ leaked \in BOOLEAN
  BY <1>1, <1>2, InvMeans
<1>4. loop = <<at>> /\ v \in Vars
  BY <1>1, <1>3, LoopsAre
<1>5. e \in [Vars -> IDs]
  BY <1>3, IDsFacts DEF Cleared
<1>6. Follows(state, state)
  BY <1>3, KeepsReflexive, KeepsExtends, ExtendsFollows
<1>7. Result(state, t, e, frames, frames, leaked)
  <2>1. Counted(state, data, loop, frames, leaked)
    BY <1>3
  <2> HIDE DEF at
  <2> QED
    BY <1>1, <1>3, <1>4, <1>6, <2>1, EndLoopResult
<1> HIDE DEF t, e
<1>8. frames' = <<>> /\ leaked' = leaked /\ IsFrames(frames') /\ leaked' \in BOOLEAN
  BY <1>1, <1>3, NoFrames
<1>9. Result(state, t, data', loop', frames', leaked')
  BY <1>1, <1>7, <1>8
<1>10. IsLoop(loop') /\ \A j \in DOMAIN frames' : FALSE
  BY <1>1, <1>8, NoFrames
<1> QED
  BY <1>1, <1>2, <1>5, <1>8, <1>9, <1>10, ScriptStep

\* The next turn of a foreach, or its end.
LEMMA ContinueStep ==
    ASSUME Inv, Continue
    PROVE  Inv'
<1> DEFINE at == loop[1]
           keys == IF at.src \in Live(state) THEN DOMAIN Elements(state, at.src) ELSE {}
           later == IF at.key \in keys THEN {k \in keys : k > at.key} ELSE {}
           value == Elements(state, at.src)[Min(later)]
           g == Get(state, at.src)
           t == UpdateIterator(g, at.iter, value)
           next == [at EXCEPT !.key = Min(later)]
<1>1. /\ loop # <<>> /\ Command(at.mod) /\ frames = <<>> /\ later # {}
      /\ Becomes(t) /\ loop' = <<next>>
      /\ UNCHANGED <<data, frames, leaked, backup, phase, save, absent, worker, deferred>>
  BY DEF Continue, engine, events
<1>2. /\ fault = "none" /\ phase \in {"scripts", "tick"} /\ phase = "scripts"
      /\ HeapOK(state) /\ Counted(state, data, loop, frames, leaked) /\ IsLoop(loop)
      /\ data \in [Vars -> IDs] /\ leaked \in BOOLEAN
  BY <1>1, CommandMeans
<1>3. /\ loop = <<at>> /\ at.mod \in Mods /\ at.var \in Vars /\ at.iter \in IDs
      /\ at.src \in IDs /\ at.key \in Keys /\ DOMAIN loop = {1}
  BY <1>1, <1>2, LoopsAre
<1>4. /\ later \subseteq keys /\ later # {} /\ at.src \in Live(state)
      /\ keys = DOMAIN Elements(state, at.src)
  BY <1>1
<1>5. Min(later) \in DOMAIN Elements(state, at.src) /\ Min(later) \in Keys
  <2>1. keys \subseteq Keys /\ keys \subseteq Nat
    BY <1>2, <1>4, ArrayFacts, KeysFacts DEF HeapOK
  <2> HIDE DEF later, keys
  <2>2. Min(later) \in later
    BY <1>4, <2>1, MinOfSet
  <2> QED
    BY <1>4, <2>1, <2>2
<1>6. value \in Nat \cup {Other}
  BY <1>2, <1>4, <1>5, ArrayFacts DEF HeapOK
<1>7. at.iter \in Live(state) /\ at.src \in Nat
  <2>1. Surplus(state, at.iter, {Engine}) >= 1
    BY <1>2, <1>3 DEF Counted
  <2> QED
    BY <1>2, <1>3, <2>1, IteratorIsLive, IDsFacts DEF HeapOK
<1>8. next \in [mod : Mods, var : Vars, iter : IDs, src : IDs, key : Keys]
      /\ next.var = at.var /\ next.iter = at.iter
  <2> DEFINE S == [mod : Mods, var : Vars, iter : IDs, src : IDs, key : Keys]
  <2>1. at \in S
    <3>1. loop \in Seq(S)
      BY <1>2 DEF IsLoop
    <3> HIDE DEF S
    <3> QED
      BY <1>1, <3>1
  <2> HIDE DEF later, at
  <2> QED
    BY <1>5, <2>1
<1> HIDE DEF value, next, later, keys
<1>9. Keeps(state, g)
  BY <1>2, <1>7, GetKeeps
<1>10. HeapOK(g) /\ Live(g) = Live(state)
  BY <1>9 DEF Keeps, Same
<1> HIDE DEF g
<1>11. Keeps(g, t)
  BY <1>6, <1>7, <1>10, UpdateIteratorKeeps
<1> HIDE DEF t
<1>12. Extends(state, t)
  BY <1>2, <1>9, <1>11, KeepsExtends, KeepsAfter
<1>13. Result(state, t, data, loop, <<>>, leaked)
  BY <1>1, <1>2, <1>12, NoFrames, ExtendsResult
<1> HIDE DEF at
<1>14. Result(state, t, data, <<next>>, <<>>, leaked)
  <2>1. \A w : RefersAs(<<next>>, w) = RefersAs(<<at>>, w)
    BY <1>8 DEF RefersAs
  <2>2. \A id, c : OnVars(data, <<next>>, id, c) = OnVars(data, <<at>>, id, c)
    BY <2>1 DEF OnVars
  <2>3. \A id, c : Demand(data, <<next>>, <<>>, id, c) = Demand(data, <<at>>, <<>>, id, c)
    BY <2>2 DEF Demand
  <2>4. Counted(t, data, <<at>>, <<>>, leaked)
    BY <1>3, <1>13 DEF Result
  <2>5. Covered(t, data, <<next>>, <<>>) /\ (~leaked => Exact(t, data, <<next>>, <<>>))
    BY <2>3, <2>4 DEF Counted, Covered, Exact
  <2>6. Surplus(t, at.iter, {Engine}) >= 1
    BY <2>4 DEF Counted
  <2>7. \A i \in DOMAIN <<next>> : Surplus(t, <<next>>[i].iter, {Engine}) >= 1
    BY <1>8, <2>6
  <2> QED
    BY <1>13, <2>5, <2>7 DEF Result, Counted
<1>15. frames' = <<>> /\ leaked' = leaked /\ IsFrames(frames') /\ leaked' \in BOOLEAN
       /\ data' = data /\ loop' = <<next>> /\ IsLoop(loop')
  BY <1>1, <1>2, <1>8, NoFrames, OneLoop
<1>16. Result(state, t, data', loop', frames', leaked')
  BY <1>14, <1>15
<1> QED
  BY <1>1, <1>2, <1>15, <1>16, ScriptStep

-----------------------------------------------------------------------------
(* The steps of functions and events do.                                   *)

\* A function that is entered refers to its argument.
LEMMA EnterStep ==
    ASSUME Inv, fault = "none", frames = <<>>, phase \in {"scripts", "tick"}, phase' = phase,
           UNCHANGED <<backup, save, absent, worker, data, loop, leaked>>,
           deferred' = deferred \/ (deferred # <<>> /\ deferred' = Tail(deferred)),
           NEW m \in Mods, NEW s, Extends(state, s), NEW id \in Nat,
           NEW of \in {"call", "event", "tile"}, Enter(s, m, id, of),
           of = "tile" => loop = <<>> /\ Held(s, id) \in Live(s) \ Live(state)
    PROVE  Inv'
<1> DEFINE t == AddReference(s, 0, id, m)
           g == [mod |-> m, id |-> Held(s, id), of |-> of]
           f == <<g>>
<1>1. Becomes(t) /\ frames' = f
  BY DEF Enter
<1>2. /\ HeapOK(state) /\ Counted(state, data, loop, frames, leaked) /\ IsLoop(loop)
      /\ data \in [Vars -> IDs] /\ leaked \in BOOLEAN
  BY InvMeans
<1>3. loop # <<>> => phase = "scripts"
  BY DEF Inv, Order
<1>4. Counted(state, data, loop, <<>>, leaked)
  BY <1>2
<1>5. Result(state, t, data, loop, f, leaked) /\ Live(t) = Live(s)
  BY <1>2, <1>4, EnterResult
<1>6. HeapOK(s)
  BY DEF Extends
<1> HIDE DEF t
<1>7. Held(s, id) \in IDs
  BY <1>1, <1>5, <1>6, HeldIsNat, IDsFacts DEF Becomes, BecomesOr
<1>8. IsFrames(f)
  BY <1>7, OneFrame
<1>9. \A j \in DOMAIN f : f[j].of = "tile" => loop = <<>> /\ f[j].id \in Live(t) \ Live(state)
  BY <1>5
<1> HIDE DEF f
<1>10. Result(state, t, data', loop', frames', leaked')
  BY <1>1, <1>5
<1>11. \A j \in DOMAIN frames' : frames'[j].of = "tile" =>
           loop' = <<>> /\ (frames' = frames \/ frames'[j].id \in Live(t) \ Live(state))
  BY <1>1, <1>9
<1>12. IsLoop(loop') /\ IsFrames(frames') /\ data' \in [Vars -> IDs] /\ leaked' \in BOOLEAN
       /\ (loop' # <<>> => phase = "scripts")
  BY <1>1, <1>2, <1>3, <1>8
<1> QED
  BY <1>1, <1>10, <1>11, <1>12, ScriptStep

\* A script calls a function.
LEMMA CallStep ==
    ASSUME Inv, NEW m, NEW f \in Callees \ absent, NEW id \in Arrays, Call(m, f, id)
    PROVE  Inv'
<1>1. /\ Command(m) /\ frames = <<>> /\ Enter(state, f, id, "call")
      /\ UNCHANGED <<data, loop, leaked, backup, phase, save, absent, worker, deferred>>
  BY DEF Call, engine, events
<1>2. fault = "none" /\ phase \in {"scripts", "tick"} /\ HeapOK(state)
  BY <1>1, CommandMeans
<1>3. Extends(state, state) /\ id \in Nat /\ f \in Mods
  BY <1>2, KeepsReflexive, KeepsExtends, NamesAreNumbers, ModsAssumption
<1> QED
  BY <1>1, <1>2, <1>3, EnterStep

\* A call that fails keeps the reference to its argument.
LEMMA CallFailsStep ==
    ASSUME Inv, NEW m, NEW f \in Callees \ absent, NEW id \in Arrays, CallFails(m, f, id)
    PROVE  Inv'
<1> DEFINE t == AddReference(state, 0, id, f)
<1>1. /\ Command(m) /\ frames = <<>> /\ Becomes(t) /\ leaked' = TRUE
      /\ UNCHANGED <<data, loop, frames, backup, phase, save, absent, worker, deferred>>
  BY DEF CallFails, engine, events
<1>2. /\ fault = "none" /\ phase \in {"scripts", "tick"} /\ HeapOK(state)
      /\ Counted(state, data, loop, frames, leaked) /\ IsLoop(loop)
      /\ data \in [Vars -> IDs] /\ (loop # <<>> => phase = "scripts")
  BY <1>1, CommandMeans
<1>3. Extends(state, state) /\ id \in Nat /\ f \in Mods
  BY <1>2, KeepsReflexive, KeepsExtends, NamesAreNumbers, ModsAssumption
<1>4. Counted(state, data, loop, <<>>, leaked)
  BY <1>1, <1>2
<1>5. Result(state, t, data, loop, <<>>, TRUE)
  BY <1>2, <1>3, <1>4, EnterResult
<1> HIDE DEF t
<1>6. Result(state, t, data', loop', frames', leaked')
  <2>1. frames' = <<>> /\ data' = data /\ loop' = loop
    BY <1>1
  <2>2. leaked' = TRUE
    BY <1>1
  <2> QED
    BY <1>5, <2>1, <2>2
<1>7. IsLoop(loop') /\ IsFrames(frames') /\ data' \in [Vars -> IDs] /\ leaked' \in BOOLEAN
      /\ (loop' # <<>> => phase = "scripts") /\ \A j \in DOMAIN frames' : FALSE
  BY <1>1, <1>2, NoFrames
<1> QED
  BY <1>1, <1>2, <1>6, <1>7, ScriptStep

\* An event of the scripts' own thread runs its handler at once.
LEMMA DispatchStep ==
    ASSUME Inv, NEW m, NEW h \in Callees \ absent, Dispatch(m, h)
    PROVE  Inv'
<1> DEFINE s == Create(state, FALSE, m)
           id == UnusedID(state)
<1>1. /\ Command(m) /\ frames = <<>> /\ Enter(s, h, id, "event")
      /\ UNCHANGED <<data, loop, leaked, backup, phase, save, absent, worker, deferred>>
  BY DEF Dispatch, engine, events
<1>2. m \in Owners /\ fault = "none" /\ phase \in {"scripts", "tick"} /\ HeapOK(state)
  BY <1>1, CommandMeans
<1>3. Extends(state, s) /\ id \in Nat /\ h \in Mods
  BY <1>2, CreatedIs, NamesAreNumbers, ModsAssumption
<1> HIDE DEF s, id
<1> QED
  BY <1>1, <1>2, <1>3, EnterStep

\* The hook of dialog text makes an array and runs a handler on it.
LEMMA TileTextStep ==
    ASSUME Inv, NEW h \in Callees \ absent, TileText(h)
    PROVE  Inv'
<1> DEFINE s == Create(state, FALSE, Engine)
           id == UnusedID(state)
<1>1. /\ fault = "none" /\ phase = "scripts" /\ frames = <<>> /\ loop = <<>>
      /\ Enter(s, h, id, "tile")
      /\ UNCHANGED <<data, loop, leaked, backup, phase, save, absent, worker, deferred>>
  BY DEF TileText, Uses, engine, events
<1>2. HeapOK(state)
  BY <1>1, InvMeans
<1>3. /\ Extends(state, s) /\ id \in Nat /\ h \in Mods /\ Live(s) = Live(state) \cup {id}
      /\ id \notin Live(state)
  BY <1>1, <1>2, OwnersAre, CreatedIs, NamesAreNumbers, ModsAssumption, UnusedIDIsFree
<1> HIDE DEF s, id
<1>4. Held(s, id) \in Live(s) \ Live(state)
  BY <1>3 DEF Held
<1> QED
  BY <1>1, <1>3, <1>4, EnterStep

\* An event that waited runs its handler in Tick.
LEMMA DeliverStep ==
    ASSUME Inv, NEW h \in Callees \ absent, Deliver(h)
    PROVE  Inv'
<1> DEFINE id == Head(deferred).id
<1>1. /\ phase = "tick" /\ fault = "none" /\ frames = <<>> /\ deferred # <<>>
      /\ Enter(state, h, id, "event") /\ deferred' = Tail(deferred)
      /\ UNCHANGED <<data, loop, leaked, backup, phase, save, absent, worker>>
  BY DEF Deliver, engine
<1>2. HeapOK(state) /\ IsDeferred(deferred)
  BY <1>1, InvMeans
<1>3. id \in Nat
  <2> DEFINE S == [id : IDs, spoiled : BOOLEAN]
  <2>1. deferred \in Seq(S)
    BY <1>2 DEF IsDeferred
  <2>2. Head(deferred) \in S
    <3> HIDE DEF S
    <3> QED
      BY <1>1, <2>1
  <2> QED
    BY <2>2, IDsFacts
<1>4. Extends(state, state) /\ h \in Mods
  BY <1>1, <1>2, KeepsReflexive, KeepsExtends, ModsAssumption
<1> HIDE DEF id
<1> QED
  BY <1>1, <1>3, <1>4, EnterStep

\* What nothing names has no references to count.
LEMMA UnnamedCounts ==
    ASSUME NEW s, HeapType(s), NEW d, ~Dangling(s, d, <<>>), NEW h \in AllIDs, h \notin Live(s), NEW c
    PROVE  Surplus(s, h, c) = 0 /\ Demand(d, <<>>, <<>>, h, c) = 0
<1>1. /\ \A v \in Vars : d[v] \in {0} \cup Live(s)
      /\ \A id \in Live(s) : \A k \in ArrayElements(s, id) : Elements(s, id)[k] \in Live(s)
  BY DEF Dangling
<1>2. h # 0 /\ h # Other
  BY OtherAssumption DEF AllIDs
<1>3. Slots(s, h, c) = {}
  BY <1>1, <1>2 DEF Slots, ArrayElements
<1>4. Refs(s, h, c) = 0
  BY DEF Refs
<1>5. OnVars(d, <<>>, h, c) = {}
  BY <1>1, <1>2 DEF OnVars
<1> QED
  BY <1>3, <1>4, <1>5, FS_EmptySet, OnFramesOfNone DEF Surplus, Demand

\* An array that nobody refers to can be deleted without a count changing.
LEMMA CountedDeleted ==
    ASSUME NEW s, HeapType(s), NEW t, NEW h \in AllIDs, h \in Live(s), Deleted(s, t, h), NEW d,
           NEW l, l = <<>>, NEW k, Counted(s, d, l, l, k), ~Dangling(t, d, l)
    PROVE  Counted(t, d, l, l, k)
<1>1. HeapType(t) /\ h \notin Live(t)
  BY DEF Deleted, HeapOK
<1>2. \A c : Surplus(t, h, c) = 0 /\ Demand(d, l, l, h, c) = 0
  BY <1>1, UnnamedCounts
<1>3. \A id, c : /\ Surplus(s, id, c) \in Int /\ Surplus(t, id, c) \in Int
                 /\ Demand(d, l, l, id, c) \in Nat
  BY <1>1, NoFrames, SurplusType, DemandType
<1>4. Covered(t, d, l, l)
  <2>1. ASSUME NEW id \in AllIDs
        PROVE  Surplus(t, id, Owners) >= Demand(d, l, l, id, Owners)
    <3>1. CASE id = h
      BY <1>2, <3>1
    <3>2. CASE id # h
      <4>1. Surplus(t, id, Owners) >= Surplus(s, id, Owners)
        BY <3>2 DEF Deleted
      <4>2. Surplus(s, id, Owners) >= Demand(d, l, l, id, Owners)
        BY DEF Counted, Covered
      <4> QED
        BY <1>3, <4>1, <4>2
    <3> QED
      BY <3>1, <3>2
  <2> QED
    BY <2>1 DEF Covered
<1>5. ASSUME ~k PROVE Exact(t, d, l, l)
  <2>1. Exact(s, d, l, l)
    BY <1>5 DEF Counted
  <2>2. NonNeg(s)
    BY <2>1, NoFrames, ExactNonNeg
  <2>3. ASSUME NEW id \in AllIDs, NEW c \in SUBSET Owners
        PROVE  Surplus(t, id, c) = Demand(d, l, l, id, c)
    <3>1. CASE id = h
      BY <1>2, <3>1
    <3>2. CASE id # h
      BY <2>1, <2>2, <3>2 DEF Deleted, Exact
    <3> QED
      BY <3>1, <3>2
  <2> QED
    BY <2>3 DEF Exact
<1> QED
  BY <1>4, <1>5 DEF Counted

\* A function returns and gives up its argument; the hooks erase theirs.
LEMMA ReturnStep ==
    ASSUME Inv, Return
    PROVE  Inv'
<1> DEFINE g == frames[1]
           h == g.id
           cleaned == RemoveReference(state, h, g.mod)
           after == IF g.of = "tile" THEN Erase(cleaned, h) ELSE cleaned
           w == IF Dangling(after, data, <<>>) THEN "erase" ELSE "none"
<1>1. /\ fault = "none" /\ frames # <<>> /\ BecomesOr(after, w) /\ frames' = <<>>
      /\ UNCHANGED <<data, loop, leaked, backup, phase, save, absent, worker, deferred>>
  BY DEF Return, engine, events
<1>2. /\ phase \in {"scripts", "tick"} /\ (loop # <<>> => phase = "scripts")
      /\ \A i \in DOMAIN frames : frames[i].of = "tile" => loop = <<>> /\ frames[i].id \in Live(state)
      /\ \A i \in DOMAIN deferred : ~deferred[i].spoiled =>
            /\ deferred[i].id \in Live(state) /\ phase # "clean"
            /\ \A j \in DOMAIN frames : frames[j].of = "tile" => frames[j].id # deferred[i].id
  BY <1>1 DEF Inv, Order, Waiting
<1>3. /\ HeapOK(state) /\ HeapType(state) /\ Live(state) \subseteq IDs
      /\ data \in [Vars -> IDs] /\ IsLoop(loop) /\ IsFrames(frames) /\ IsDeferred(deferred)
      /\ worker \in Nat /\ worker \notin Live(state) /\ IdsOK(state, worker)
      /\ Counted(state, data, loop, frames, leaked)
      /\ ~hollow => CacheOK(state) /\ GoodCache(state)
      /\ leaked \in BOOLEAN
  BY <1>1, <1>2, InvMeans
<1>4. /\ frames = <<g>> /\ DOMAIN frames = {1} /\ g.mod \in Mods /\ h \in IDs /\ h \in Nat
      /\ g.mod \in Owners
  BY <1>1, <1>3, FramesAre, IDsFacts, OwnersAre
<1>5. Moves(state, cleaned, h, g.mod, 0, g.mod)
  BY <1>3, <1>4, RemoveReferenceMoves
<1> HIDE DEF cleaned
<1>6. /\ HeapOK(cleaned) /\ HeapType(cleaned) /\ Live(cleaned) = Live(state)
      /\ Follows(state, cleaned) /\ Passed(state, cleaned, h, g.mod, 0, g.mod)
      /\ \A id \in Live(state) : Elements(cleaned, id) = Elements(state, id)
  BY <1>5 DEF Moves, Follows, HeapOK
<1>7. Counted(cleaned, data, loop, <<>>, leaked)
  <2>1. Counted(state, data, loop, <<g>>, leaked)
    BY <1>3, <1>4
  <2> HIDE DEF g
  <2> QED
    BY <1>3, <1>4, <1>6, <2>1, CountedLeaves
<1>8. w \in Faults /\ (w = "none" => ~Dangling(after, data, <<>>))
  BY DEF Faults
<1>9. IsFrames(frames') /\ frames' = <<>> /\ \A j \in DOMAIN frames' : FALSE
  BY <1>1, NoFrames
<1>10. /\ HeapOK(after)
       /\ worker \notin Live(after) => IdsOK(after, worker)
       /\ w = "none" => Counted(after, data, loop, <<>>, leaked)
       /\ ~hollow => GoodCache(after)
       /\ \A i \in DOMAIN deferred : ~deferred[i].spoiled => deferred[i].id \in Live(after)
  <2>1. CASE g.of # "tile"
    <3>1. after = cleaned
      BY <2>1
    <3>2. worker \notin Live(cleaned) => IdsOK(cleaned, worker)
      BY <1>3, <1>6 DEF Follows
    <3>3. ~hollow => GoodCache(cleaned)
      BY <1>3, <1>6 DEF Follows
    <3> QED
      BY <1>2, <1>6, <1>7, <3>1, <3>2, <3>3
  <2>2. CASE g.of = "tile"
    <3>1. after = Erase(cleaned, h)
      BY <2>2
    <3>2. loop = <<>> /\ h \in Live(state)
      BY <1>2, <1>4, <2>2
    <3>3. h \in Live(cleaned) /\ Live(cleaned) \subseteq IDs /\ h \in AllIDs
      BY <1>3, <1>6, <3>2, LiveIsFinite
    <3> HIDE DEF after, g, w
    <3>4. Deleted(cleaned, after, h) /\ (Sound(cleaned, h) => GoodCache(after))
      BY <1>6, <3>1, <3>3, EraseDeletes
    <3>5. HeapOK(after) /\ Live(after) = Live(cleaned) \ {h}
          /\ after.available = cleaned.available \cup {h}
      BY <3>4 DEF Deleted
    <3>6. IdsOK(after, worker)
      <4>1. IdsOK(cleaned, worker) /\ worker \notin Live(cleaned)
        BY <1>3, <1>6 DEF Follows
      <4> QED
        BY <3>3, <3>5, <4>1, DeletedIds
    <3>7. ASSUME w = "none" PROVE Counted(after, data, loop, <<>>, leaked)
      <4>1. ~Dangling(after, data, loop) /\ Counted(cleaned, data, loop, loop, leaked)
        BY <1>7, <1>8, <3>2, <3>7
      <4>2. Counted(after, data, loop, loop, leaked)
        BY <1>6, <3>2, <3>3, <3>4, <4>1, CountedDeleted
      <4> QED
        BY <3>2, <4>2
    <3>8. ASSUME ~hollow PROVE GoodCache(after)
      <4>1. Sound(state, h)
        BY <1>3, <3>2, <3>8, NotHollow DEF CacheOK
      <4>2. Sound(cleaned, h)
        BY <1>6, <3>2, <4>1 DEF Sound
      <4> QED
        BY <3>4, <4>2
    <3>9. \A i \in DOMAIN deferred : ~deferred[i].spoiled => deferred[i].id # h
      BY <1>2, <1>4, <2>2 DEF g
    <3> QED
      BY <1>2, <1>6, <3>5, <3>6, <3>7, <3>8, <3>9
  <2> QED
    BY <2>1, <2>2
<1> HIDE DEF after, w
<1>11. w = "none" => Counted(after, data', loop', frames', leaked')
  <2>1. Counted(after, data, loop, <<>>, leaked) => Counted(after, data', loop', frames', leaked')
    BY <1>1
  <2> QED
    BY <1>10, <2>1
<1>12. \A i \in DOMAIN deferred' : ~deferred'[i].spoiled =>
           /\ deferred'[i].id \in Live(after) /\ phase # "clean"
           /\ \A j \in DOMAIN frames' :
                  frames'[j].of = "tile" => frames'[j].id # deferred'[i].id
  BY <1>1, <1>2, <1>9, <1>10
<1>13. /\ data' \in [Vars -> IDs] /\ IsLoop(loop') /\ leaked' \in BOOLEAN /\ IsDeferred(deferred')
       /\ (loop' # <<>> => phase = "scripts") /\ phase # "loading"
       /\ (frames' # <<>> => phase \in {"scripts", "tick"})
  BY <1>1, <1>2, <1>3, <1>9
<1> QED
  BY <1>1, <1>8, <1>9, <1>10, <1>11, <1>12, <1>13, PlayStep

-----------------------------------------------------------------------------
(* The steps of a frame do.                                                *)

\* A step between frames of which no call and no loop is left.
LEMMA QuietStep ==
    ASSUME Inv, fault = "none",
           UNCHANGED <<absent, worker>>, backup' = <<>>, loop' = <<>>, frames' = <<>>,
           NEW s, NEW w \in Faults, BecomesOr(s, w), HeapOK(s),
           phase' \in Phases \ {"loading"}, worker # 0 => phase' \in {"scripts", "clean"},
           \* the heap
           worker \notin Live(s) => IdsOK(s, worker),
           w = "none" => Counted(s, data', loop', frames', leaked'),
           ~hollow => GoodCache(s),
           data' \in [Vars -> IDs], leaked' \in BOOLEAN,
           \* the events
           IsDeferred(deferred'),
           \A i \in DOMAIN deferred' : ~deferred'[i].spoiled =>
               deferred'[i].id \in Live(s) /\ phase' # "clean",
           \* the game saved last
           save' = <<>> \/ save' = <<save'[1]>>,
           save' # <<>> => SaveOK(save'[1])
    PROVE  Inv'
<1>1. /\ state' = s /\ Live(s) \subseteq IDs /\ fault' \in Faults
      /\ hollow' = (hollow \/ IsHollow(s))
      /\ fault' = "none" => worker \notin Live(s) /\ w = "none"
  BY BecomesMeans DEF HeapOK
<1>2. Types'
  <2>1. hollow' \in BOOLEAN
    BY <1>1, InvMeans
  <2>2. worker' \in IDs /\ absent' \subseteq Mods /\ phase' # "loading"
    BY DEF Inv, Types
  <2>3. IsFrames(frames') /\ IsLoop(loop')
    BY NoFrames
  <2> QED
    BY <1>1, <2>1, <2>2, <2>3 DEF Types
<1>3. (save # <<>> => SaveOK(save[1]))'
  OBVIOUS
<1>4. ASSUME fault' = "none" PROVE (Order /\ Ids /\ Waiting /\ Counts /\ Caches)'
  <2>0. DOMAIN frames' = {}
    OBVIOUS
  <2>1. Order'
    BY <1>4, <2>0 DEF Inv, Order
  <2>2. Ids'
    BY <1>1, <1>4 DEF Ids
  <2>3. Waiting'
    BY <1>1, <2>0 DEF Waiting
  <2>4. Counts'
    BY <1>1, <1>4 DEF Counts, Heap
  <2>5. Caches'
    BY <1>1 DEF Caches, CacheOK, GoodCache
  <2> QED
    BY <2>1, <2>2, <2>3, <2>4, <2>5
<1> QED
  BY <1>2, <1>3, <1>4 DEF Inv

\* What the invariant says of the game saved last.
LEMMA SaveMeans ==
    ASSUME Inv
    PROVE  /\ save = <<>> \/ save = <<save[1]>>
           /\ save # <<>> => SaveOK(save[1])
           /\ phase # "loading" => backup = <<>>
           /\ absent \subseteq Mods
BY DEF Inv, Types

\* After a collection or a load, every event that waits has lost its array.
LEMMA SpoiledAre ==
    ASSUME IsDeferred(deferred)
    PROVE  /\ IsDeferred(Spoiled)
           /\ \A i \in DOMAIN Spoiled : Spoiled[i].spoiled
<1> DEFINE S == [id : IDs, spoiled : BOOLEAN]
<1>1. deferred \in Seq(S)
  BY DEF IsDeferred
<1>2. Spoiled = [i \in 1 .. Len(deferred) |-> [deferred[i] EXCEPT !.spoiled = TRUE]]
      /\ Len(deferred) \in Nat
  <2> HIDE DEF S
  <2> QED
    BY <1>1 DEF Spoiled
<1>3. ASSUME NEW i \in 1 .. Len(deferred)
      PROVE  [deferred[i] EXCEPT !.spoiled = TRUE] \in S /\ [deferred[i] EXCEPT !.spoiled = TRUE].spoiled
  <2>1. deferred[i] \in S
    <3> HIDE DEF S
    <3> QED
      BY <1>1
  <2> QED
    BY <2>1
<1>4. Spoiled \in Seq(S)
  <2> HIDE DEF S
  <2> QED
    BY <1>2, <1>3
<1> QED
  BY <1>2, <1>3, <1>4 DEF IsDeferred

\* The scripts of the frame are done.
LEMMA EndScriptsStep ==
    ASSUME Inv, EndScripts
    PROVE  Inv'
<1>1. /\ fault = "none" /\ frames = <<>> /\ loop = <<>> /\ phase = "scripts" /\ worker = 0
      /\ BecomesOr(state, "none") /\ phase' = "tick"
      /\ UNCHANGED <<data, loop, frames, leaked, backup, save, absent, worker, deferred>>
  BY DEF EndScripts, PhaseEnds, PhaseAfter, Becomes, script, events
<1>2. \A i \in DOMAIN deferred : ~deferred[i].spoiled => deferred[i].id \in Live(state)
  BY <1>1 DEF Inv, Waiting
<1>3. "none" \in Faults /\ phase' \in Phases
  BY <1>1 DEF Faults, Phases
<1>4. Counted(state, data', loop', frames', leaked')
  BY <1>1, InvMeans
<1> QED
  BY <1>1, <1>2, <1>3, <1>4, InvMeans, SaveMeans, QuietStep

\* So are the events that waited.
LEMMA EndTickStep ==
    ASSUME Inv, EndTick
    PROVE  Inv'
<1>1. /\ fault = "none" /\ frames = <<>> /\ loop = <<>> /\ phase = "tick" /\ deferred = <<>>
      /\ BecomesOr(state, "none") /\ phase' = "clean"
      /\ UNCHANGED <<data, loop, frames, leaked, backup, save, absent, worker, deferred>>
  BY DEF EndTick, PhaseEnds, PhaseAfter, Becomes, script, events
<1>3. "none" \in Faults /\ phase' \in Phases /\ DOMAIN deferred' = {}
  BY <1>1 DEF Faults, Phases
<1>4. Counted(state, data', loop', frames', leaked')
  BY <1>1, InvMeans
<1> QED
  BY <1>1, <1>3, <1>4, InvMeans, SaveMeans, QuietStep

\* What a collection leaves of a heap whose references are counted.
LEMMA CleanResult ==
    ASSUME Inv, fault = "none", phase # "loading", frames = <<>>, loop = <<>>
    PROVE  LET t == Clean(state) IN
           /\ Cleaned(state, t) /\ t.tempVars = {} /\ HeapOK(t) /\ HeapType(t)
           /\ Live(t) \subseteq IDs
           /\ IdsOK(t, worker)
           /\ Counted(t, data, loop, frames, leaked)
           /\ ~hollow => GoodCache(t)
           /\ Backed(state)
<1> DEFINE t == Clean(state)
<1>1. /\ HeapOK(state) /\ HeapType(state) /\ Live(state) \subseteq IDs /\ IsFrames(frames)
      /\ Counted(state, data, loop, frames, leaked) /\ worker \in Nat /\ worker \notin Live(state)
      /\ IdsOK(state, worker)
      /\ ~hollow => CacheOK(state) /\ GoodCache(state)
  BY InvMeans
<1>2. Cleaned(state, t) /\ t.tempVars = {}
  BY <1>1, CleanCleans
<1> HIDE DEF t
<1>3. HeapOK(t) /\ HeapType(t) /\ Live(t) \subseteq IDs /\ Grows(state, t)
  BY <1>1, <1>2 DEF Cleaned, HeapOK
<1>4. IdsOK(t, worker)
  BY <1>1, <1>2 DEF Cleaned
<1>5. Counted(t, data, loop, frames, leaked)
  BY <1>1, <1>3, CountedGrows
<1>6. Backed(state)
  BY <1>1, CoveredBacked DEF Counted
<1>7. ~hollow => GoodCache(t)
  BY <1>1, <1>2, <1>6 DEF Cleaned, CacheOK
<1> QED
  BY <1>2, <1>3, <1>4, <1>5, <1>6, <1>7 DEF t

\* ArrayVarMap::Clean deletes what waits in the queue.
LEMMA CleanUpStep ==
    ASSUME Inv, CleanUp
    PROVE  Inv'
<1> DEFINE t == Clean(state)
<1>1. /\ fault = "none" /\ frames = <<>> /\ loop = <<>> /\ phase = "clean"
      /\ BecomesOr(t, "none") /\ phase' = "scripts"
      /\ UNCHANGED <<data, loop, frames, leaked, backup, save, absent, worker, deferred>>
  BY DEF CleanUp, PhaseEnds, PhaseAfter, Becomes, script, events
<1>2. /\ HeapOK(t) /\ IdsOK(t, worker) /\ Counted(t, data, loop, frames, leaked)
      /\ ~hollow => GoodCache(t)
  BY <1>1, CleanResult
<1> HIDE DEF t
<1>3. \A i \in DOMAIN deferred : deferred[i].spoiled
  BY <1>1 DEF Inv, Waiting
<1>4. "none" \in Faults /\ phase' \in Phases
  BY <1>1 DEF Faults, Phases
<1>5. Counted(t, data', loop', frames', leaked')
  BY <1>1, <1>2
<1> QED
  BY <1>1, <1>2, <1>3, <1>4, <1>5, InvMeans, SaveMeans, QuietStep

-----------------------------------------------------------------------------
(* The steps of the other thread do.                                       *)

\* A step of the other thread: it makes at most a new array.
LEMMA ThreadStep ==
    ASSUME Inv, fault = "none", worker' \in IDs, phase \in {"scripts", "clean"} \/ worker = 0,
           worker' # 0 => phase \in {"scripts", "clean"}, phase # "loading",
           UNCHANGED <<script, engine, fault, hollow>>,
           NEW s, state' = s, HeapOK(s), Live(state) \subseteq Live(s), Live(s) \subseteq IDs,
           IdsOK(s, worker'), worker' \notin Live(s),
           \A id, c : Surplus(s, id, c) = Surplus(state, id, c),
           GoodCache(state) => GoodCache(s), ~IsHollow(state) => ~IsHollow(s),
           IsDeferred(deferred'),
           \A i \in DOMAIN deferred' : ~deferred'[i].spoiled =>
               \/ \E j \in DOMAIN deferred : deferred'[i] = deferred[j]
               \/ phase # "clean" /\ deferred'[i].id \in Live(s) \ Live(state)
    PROVE  Inv'
<1>1. UNCHANGED <<data, loop, frames, leaked, backup, phase, save, absent>>
  BY DEF script, engine
<1>2. /\ HeapType(state) /\ HeapType(s) /\ IsFrames(frames)
      /\ Counted(state, data, loop, frames, leaked)
      /\ ~hollow => CacheOK(state) /\ GoodCache(state)
  BY InvMeans DEF HeapOK
<1>3. Types'
  BY <1>1 DEF Inv, Types
<1>4. (save # <<>> => SaveOK(save[1]))'
  BY <1>1 DEF Inv
<1>5. Order'
  BY <1>1 DEF Inv, Order
<1>6. Ids'
  BY <1>1 DEF Ids
<1>7. Waiting'
  <2>1. \A j \in DOMAIN frames : frames[j].of = "tile" => frames[j].id \in Live(state)
    BY DEF Inv, Waiting
  <2>2. \A i \in DOMAIN deferred : ~deferred[i].spoiled =>
            /\ deferred[i].id \in Live(state) /\ phase # "clean"
            /\ \A j \in DOMAIN frames : frames[j].of = "tile" => frames[j].id # deferred[i].id
    BY DEF Inv, Waiting
  <2>3. ASSUME NEW i \in DOMAIN deferred', ~deferred'[i].spoiled
        PROVE  /\ deferred'[i].id \in Live(s) /\ phase # "clean"
               /\ \A j \in DOMAIN frames : frames[j].of = "tile" => frames[j].id # deferred'[i].id
    <3>1. CASE \E j \in DOMAIN deferred : deferred'[i] = deferred[j]
      BY <2>2, <2>3, <3>1
    <3>2. CASE phase # "clean" /\ deferred'[i].id \in Live(s) \ Live(state)
      BY <2>1, <3>2
    <3> QED
      BY <2>3, <3>1, <3>2
  <2> QED
    BY <1>1, <2>1, <2>3 DEF Waiting
<1>8. Counts'
  <2>1. Grows(state, s)
    <3>1. \A id, c : Surplus(state, id, c) \in Int
      BY <1>2, SurplusType
    <3> QED
      BY <3>1 DEF Grows
  <2>2. Counted(s, data, loop, frames, leaked)
    BY <1>2, <2>1, CountedGrows
  <2> QED
    BY <1>1, <2>2 DEF Counts, Heap
<1>9. Caches'
  BY <1>1, <1>2 DEF Caches, CacheOK, GoodCache
<1> QED
  BY <1>3, <1>4, <1>5, <1>6, <1>7, <1>8, <1>9 DEF Inv

\* The ids that were given out stay without a gap, with the one just taken.
LEMMA TakenIds ==
    ASSUME NEW s, HeapOK(s), IdsOK(s, 0)
    PROVE  IdsOK(TakeUnusedID(s), UnusedID(s))
<1> DEFINE t == TakeUnusedID(s)
           u == UnusedID(s)
<1>1. t.vars = s.vars /\ t.available = s.available \ {u}
  BY TakeUnusedIDIs
<1>2. /\ u \in AllIDs /\ u \notin Live(s)
      /\ s.available # {} => u \in s.available
      /\ s.available = {} => \A n \in 1 .. u - 1 : \E id \in Live(s) : n <= id
  BY UnusedIDIsFree
<1> HIDE DEF t, u
<1>3. Live(t) = Live(s)
  BY <1>1, SameArrays
<1>4. /\ s.available \cap (Live(s) \cup {0}) = {}
      /\ \A id \in Taken(s, 0) : \A n \in 1 .. id : n \in Taken(s, 0)
  BY DEF IdsOK
<1>5. Live(s) \subseteq Nat /\ s.available \subseteq Nat /\ u \in Nat
  BY <1>2 DEF HeapOK, HeapType, AllIDs
<1>6. ASSUME NEW id \in Taken(t, u), NEW n \in 1 .. id PROVE n \in Taken(t, u)
  <2>1. n \in Taken(s, 0) \/ n = u
    <3>1. CASE id \in Taken(s, 0)
      BY <1>4, <3>1
    <3>2. CASE id = u /\ s.available # {}
      BY <1>2, <1>4, <3>2 DEF Taken
    <3>3. CASE id = u /\ s.available = {} /\ n # u
      <4>1. n \in 1 .. u - 1
        BY <1>5, <3>3
      <4>2. PICK i \in Live(s) : n <= i
        BY <1>2, <3>3, <4>1
      <4>3. n \in 1 .. i
        BY <1>5, <4>1, <4>2
      <4> QED
        BY <1>4, <4>3 DEF Taken
    <3> QED
      BY <1>1, <1>3, <3>1, <3>2, <3>3 DEF Taken
  <2>2. n # 0
    BY <1>1, <1>3, <1>5 DEF Taken
  <2> QED
    BY <1>1, <1>3, <2>1, <2>2 DEF Taken
<1> QED
  BY <1>1, <1>2, <1>3, <1>4, <1>6 DEF IdsOK, t, u

\* The other thread takes an id before it inserts under it.
LEMMA TakeIDStep ==
    ASSUME Inv, TakeID
    PROVE  Inv'
<1> DEFINE t == TakeUnusedID(state)
           u == UnusedID(state)
<1>1. /\ fault = "none" /\ phase \in {"scripts", "clean"} /\ worker = 0 /\ u \in IDs
      /\ state' = t /\ worker' = u
      /\ UNCHANGED <<script, engine, deferred, fault, hollow>>
  BY DEF TakeID, LockIsFree, Uses
<1>2. HeapOK(state) /\ Live(state) \subseteq IDs /\ IdsOK(state, 0) /\ IsDeferred(deferred)
  BY <1>1, InvMeans
<1>3. HeapOK(t) /\ t.vars = state.vars /\ t.cache = state.cache
  BY <1>2, TakeUnusedIDIs
<1>4. u \notin Live(state)
  BY <1>2, UnusedIDIsFree
<1>5. IdsOK(t, u)
  BY <1>2, TakenIds
<1> HIDE DEF t, u
<1>6. Live(t) = Live(state) /\ \A id, c : Surplus(t, id, c) = Surplus(state, id, c)
  BY <1>3, SameArrays
<1>7. (GoodCache(state) => GoodCache(t)) /\ (~IsHollow(state) => ~IsHollow(t))
  <2>1. \A id : Elements(t, id) = Elements(state, id)
    BY <1>3, SameArrays
  <2> QED
    BY <1>3, <1>6, <2>1 DEF GoodCache, IsHollow
<1> QED
  BY <1>1, <1>2, <1>3, <1>4, <1>5, <1>6, <1>7, ThreadStep

\* The other thread inserts the array of an event and puts it in the queue.
LEMMA PostStep ==
    ASSUME Inv, NEW mod \in Mods \ absent, Post(mod)
    PROVE  Inv'
<1> DEFINE t == MarkTemporary(Insert(state, worker, NewArray(mod, FALSE)), worker, TRUE)
           g == Get(t, worker)
           posted == [id |-> worker, spoiled |-> phase = "clean"]
<1>1. /\ fault = "none" /\ worker # 0 /\ state' = g /\ worker' = 0
      /\ deferred' = Append(deferred, posted)
      /\ UNCHANGED <<script, engine, fault, hollow>>
  BY DEF Post
<1>2. /\ HeapOK(state) /\ Live(state) \subseteq IDs /\ IdsOK(state, worker)
      /\ worker \in IDs /\ worker \in Nat /\ worker \notin Live(state) /\ IsDeferred(deferred)
  BY <1>1, InvMeans
<1>3. phase \in {"scripts", "clean"}
  BY <1>1 DEF Inv, Order
<1>4. worker \in AllIDs /\ worker \notin state.available
  BY <1>1, <1>2 DEF AllIDs, IdsOK
<1>5. Created(state, t, worker) /\ t.available = state.available
  BY <1>2, <1>4, InsertCreates, OwnersAre
<1> HIDE DEF t
<1>6. /\ HeapOK(t) /\ Live(t) = Live(state) \cup {worker} /\ (GoodCache(state) => GoodCache(t))
      /\ \A i \in Live(state) : Elements(t, i) = Elements(state, i)
      /\ DOMAIN Elements(t, worker) = {}
      /\ \A i, c : Surplus(t, i, c) = Surplus(state, i, c)
  BY <1>5 DEF Created
<1>7. Keeps(t, g) /\ g.vars = t.vars /\ g.available = t.available
  BY <1>2, <1>6, GetKeeps
<1> HIDE DEF g
<1>8. /\ HeapOK(g) /\ Live(g) = Live(state) \cup {worker}
      /\ (GoodCache(state) => GoodCache(g)) /\ g.available = state.available
      /\ \A i \in Live(state) : Elements(g, i) = Elements(state, i)
      /\ DOMAIN Elements(g, worker) = {}
      /\ \A i, c : Surplus(g, i, c) = Surplus(state, i, c)
  BY <1>5, <1>6, <1>7, SameArrays DEF Keeps
<1>9. ~IsHollow(state) => ~IsHollow(g)
  BY <1>8 DEF IsHollow
<1>10. IdsOK(g, 0) /\ 0 \notin Live(g)
  <2>1. Taken(g, 0) = Taken(state, worker) \cup {0}
    BY <1>8 DEF Taken
  <2>2. /\ state.available \cap (Live(state) \cup {worker}) = {}
        /\ \A id \in Taken(state, worker) : \A n \in 1 .. id : n \in Taken(state, worker)
    BY <1>2 DEF IdsOK
  <2>3. 0 \notin state.available /\ 0 \notin Live(state)
    BY <1>2 DEF HeapOK, HeapType, AllIDs
  <2>4. \A n \in 1 .. 0 : FALSE
    OBVIOUS
  <2> QED
    BY <1>1, <1>8, <2>1, <2>2, <2>3, <2>4 DEF IdsOK
<1>11. IsDeferred(deferred') /\ \A i \in DOMAIN deferred' : ~deferred'[i].spoiled =>
               \/ \E j \in DOMAIN deferred : deferred'[i] = deferred[j]
               \/ phase # "clean" /\ deferred'[i].id \in Live(g) \ Live(state)
  <2> DEFINE S == [id : IDs, spoiled : BOOLEAN]
  <2>1. posted \in S /\ posted.id = worker /\ (posted.spoiled <=> phase = "clean")
    BY <1>2
  <2>2. deferred \in Seq(S)
    BY <1>2 DEF IsDeferred
  <2> HIDE DEF S, posted
  <2>3. /\ deferred' \in Seq(S) /\ DOMAIN deferred' = 1 .. Len(deferred) + 1
        /\ DOMAIN deferred = 1 .. Len(deferred) /\ Len(deferred) \in Nat
        /\ \A i \in 1 .. Len(deferred) : deferred'[i] = deferred[i]
        /\ deferred'[Len(deferred) + 1] = posted
    BY <1>1, <2>1, <2>2
  <2>4. \A i \in DOMAIN deferred' : i \in DOMAIN deferred \/ i = Len(deferred) + 1
    BY <2>3
  <2> QED
    BY <1>2, <1>8, <2>1, <2>3, <2>4 DEF IsDeferred, S
<1>12. Live(state) \subseteq Live(g) /\ Live(g) \subseteq IDs /\ worker' \in IDs /\ phase # "loading"
  BY <1>1, <1>2, <1>3, <1>8, IDsFacts
<1> QED
  BY <1>1, <1>3, <1>8, <1>9, <1>10, <1>11, <1>12, ThreadStep

-----------------------------------------------------------------------------
(* The steps of saving and loading do.                                     *)

\* A co-save as a heap.
LEMMA SavedHeapIs ==
    ASSUME NEW a
    PROVE  SavedHeap(a) = [vars |-> a, tempVars |-> {}, available |-> {},
                           cache |-> NothingCached, misled |-> FALSE]
<1> DEFINE e == [id \in {} |-> 0]
<1>1. NewState = [vars |-> e, tempVars |-> {}, available |-> {},
                  cache |-> NothingCached, misled |-> FALSE]
  BY DEF NewState
<1> HIDE DEF e
<1>2. SavedHeap(a) = [NewState EXCEPT !.vars = a]
  BY DEF SavedHeap
<1> QED
  BY <1>1, <1>2

\* The arrays of a heap, saved, are the arrays of a heap.
LEMMA SavedHeapType ==
    ASSUME NEW s, HeapType(s)
    PROVE  LET h == SavedHeap(s.vars) IN
           HeapType(h) /\ h.vars = s.vars
<1> DEFINE h == SavedHeap(s.vars)
<1>1. /\ h.vars = s.vars /\ h.tempVars = {} /\ h.available = {}
      /\ h.cache = NothingCached /\ h.misled = FALSE /\ HeapRecord(h)
  BY SavedHeapIs DEF HeapRecord
<1> HIDE DEF h
<1>2. Live(h) = Live(s)
  BY <1>1, SameArrays
<1>3. NothingCached \in [id : IDs \cup Live(h), current : BOOLEAN]
  BY IDsFacts DEF NothingCached
<1>4. HeapType(h)
  BY <1>1, <1>2, <1>3 DEF HeapType
<1> QED
  BY <1>1, <1>4 DEF h

\* A collected heap is one that may be saved.
LEMMA CollectedIsSaved ==
    ASSUME NEW s, HeapOK(s), s.tempVars = {}, Live(s) \subseteq IDs,
           NEW d \in [Vars -> IDs], NEW k \in BOOLEAN, NEW f, f = <<>>, Counted(s, d, f, f, k)
    PROVE  SaveOK([arrays |-> s.vars, data |-> d, leaked |-> k])
<1> DEFINE g == [arrays |-> s.vars, data |-> d, leaked |-> k]
           h == SavedHeap(s.vars)
<1>1. HeapType(h) /\ h.vars = s.vars /\ HeapType(s) /\ QueueOK(s)
  BY SavedHeapType DEF HeapOK
<1>2. g.arrays = s.vars /\ g.data = d /\ g.leaked = k
  OBVIOUS
<1> HIDE DEF h, g
<1>3. Live(h) = Live(s) /\ \A id, c : Surplus(h, id, c) = Surplus(s, id, c)
  BY <1>1, SameArrays
<1>4. ASSUME NEW id \in DOMAIN s.vars PROVE s.vars[id].refs # <<>>
  <2>1. id \in Live(s)
    BY <1>4 DEF Live
  <2> QED
    BY <1>1, <2>1 DEF QueueOK
<1>5. Covered(h, d, <<>>, <<>>) /\ (~k => Exact(h, d, <<>>, <<>>))
  BY <1>3 DEF Counted, Covered, Exact
<1>6. SavedHeap(g.arrays) = h
  BY <1>2 DEF h
<1> QED
  BY <1>1, <1>2, <1>3, <1>4, <1>5, <1>6 DEF SaveOK, g

\* A save writes the arrays that are referred to.
LEMMA SaveGameStep ==
    ASSUME Inv, SaveGame
    PROVE  Inv'
<1> DEFINE t == Clean(state)
           game == [arrays |-> t.vars, data |-> data, leaked |-> leaked]
<1>1. /\ fault = "none" /\ frames = <<>> /\ loop = <<>> /\ phase = "scripts"
      /\ BecomesOr(t, "none")
      /\ save' = <<[arrays |-> state'.vars, data |-> data, leaked |-> leaked]>>
      /\ deferred' = Spoiled
      /\ UNCHANGED <<data, loop, frames, leaked, backup, phase, absent, worker>>
  BY DEF SaveGame, Between, Uses, Becomes, script
<1>2. /\ HeapOK(t) /\ HeapType(t) /\ IdsOK(t, worker) /\ Counted(t, data, loop, frames, leaked)
      /\ (~hollow => GoodCache(t)) /\ t.tempVars = {} /\ Live(t) \subseteq IDs
  BY <1>1, CleanResult
<1>3. data \in [Vars -> IDs] /\ leaked \in BOOLEAN /\ IsDeferred(deferred)
  BY <1>1, InvMeans
<1> HIDE DEF t
<1>4. SaveOK(game)
  <2>1. Counted(t, data, frames, frames, leaked)
    BY <1>1, <1>2
  <2> QED
    BY <1>1, <1>2, <1>3, <2>1, CollectedIsSaved
<1>5. "none" \in Faults /\ phase' \in Phases /\ phase' # "loading"
  BY <1>1 DEF Faults, Phases
<1>6. state' = t
  BY <1>2, <1>5, <1>1, BecomesMeans
<1>7. save' = <<game>>
  BY <1>1, <1>6
<1> HIDE DEF game
<1>8. save' = <<save'[1]>> /\ SaveOK(save'[1])
  BY <1>4, <1>7
<1>9. IsDeferred(deferred') /\ \A i \in DOMAIN deferred' : deferred'[i].spoiled
  BY <1>1, <1>3, SpoiledAre
<1>10. Counted(t, data', loop', frames', leaked')
  BY <1>1, <1>2
<1> QED
  BY <1>1, <1>2, <1>3, <1>5, <1>8, <1>9, <1>10, SaveMeans, QuietStep

\* A heap without arrays.
LEMMA NewHeapOK ==
    /\ HeapOK(NewState) /\ Live(NewState) = {} /\ \A w \in {0} : IdsOK(NewState, w)
    /\ GoodCache(NewState) /\ ~IsHollow(NewState)
    /\ \A id, c : Surplus(NewState, id, c) = 0
<1> DEFINE s == NewState
<1>1. /\ s.vars = [id \in {} |-> 0] /\ s.tempVars = {} /\ s.available = {}
      /\ s.cache = NothingCached /\ s.misled = FALSE /\ HeapRecord(s)
  BY DEF NewState, HeapRecord
<1> HIDE DEF s
<1>2. Live(s) = {} /\ IsMap(s.vars)
  BY <1>1 DEF Live, IsMap
<1>3. NothingCached \in [id : IDs \cup Live(s), current : BOOLEAN] /\ NothingCached.current
      /\ NothingCached.id = 0
  BY IDsFacts DEF NothingCached
<1>4. HeapType(s)
  <2>1. Live(s) \subseteq 1 .. 0
    BY <1>2
  <2> QED
    BY <1>1, <1>2, <1>3, <2>1 DEF HeapType
<1>5. HeapOK(s)
  BY <1>1, <1>2, <1>4 DEF HeapOK, QueueOK
<1>6. IdsOK(s, 0)
  BY <1>1, <1>2 DEF IdsOK, Taken
<1>7. ASSUME NEW id, NEW c PROVE Surplus(s, id, c) = 0
  <2>1. Refs(s, id, c) = 0 /\ Slots(s, id, c) = {}
    BY <1>2 DEF Refs, Slots
  <2> QED
    BY <2>1, FS_EmptySet DEF Surplus
<1> QED
  BY <1>1, <1>2, <1>3, <1>5, <1>6, <1>7 DEF GoodCache, IsHollow, s

\* Variables none of which holds an array.
NoData == [v \in Vars |-> 0]

\* Where no variable holds an array, none is demanded.
LEMMA NothingDemanded ==
    ASSUME NEW id \in AllIDs, NEW c
    PROVE  Demand(NoData, <<>>, <<>>, id, c) = 0
<1>1. OnVars(NoData, <<>>, id, c) = {}
  BY DEF OnVars, NoData, AllIDs
<1>2. Cardinality(OnVars(NoData, <<>>, id, c)) = 0
  BY <1>1, FS_EmptySet
<1>3. Cardinality(OnFrames(<<>>, id, c)) = 0
  BY OnFramesOfNone
<1> QED
  BY <1>2, <1>3 DEF Demand

\* A heap of which nothing is held has no more references than elements.
LEMMA NothingCounted ==
    ASSUME NEW s, HeapType(s), Backed(s), NEW k,
           ~k => \A id \in AllIDs, c \in SUBSET Owners : Surplus(s, id, c) = 0
    PROVE  Counted(s, NoData, <<>>, <<>>, k)
<1>1. Covered(s, NoData, <<>>, <<>>)
  BY NothingDemanded DEF Backed, Covered
<1>2. ~k => Exact(s, NoData, <<>>, <<>>)
  BY NothingDemanded DEF Exact
<1> QED
  BY <1>1, <1>2 DEF Counted

\* What Load reads: the arrays that are kept, and the ids between them that are
\* free.
KeptIds(arrays) == {id \in DOMAIN arrays : IsLoaded(LoadedArray(arrays[id]).owner)}
Gaps(K) == {id \in IDs \ ({0} \cup K) : \E later \in K : id < later}

LoadedParts(t, arrays) ==
    /\ HeapRecord(t) /\ IsMap(t.vars) /\ Live(t) = KeptIds(arrays)
    /\ \A id \in Live(t) : t.vars[id] = LoadedArray(arrays[id])
    /\ t.tempVars = {id \in Live(t) : t.vars[id].refs = <<>>}
    /\ t.available = Gaps(Live(t))
    /\ t.cache = [id |-> t.cache.id, current |-> TRUE] /\ t.cache.id \in {0} \cup Live(t)
    /\ t.misled = FALSE

LoadedRecord(v, q, x, S) ==
    [vars |-> v, tempVars |-> q, available |-> S,
     cache |-> [id |-> x, current |-> TRUE], misled |-> FALSE]

\* What Load writes.
LEMMA LoadedRecordIs ==
    ASSUME NEW v, NEW q, NEW x, NEW S
    PROVE  SetIDAvailable([NewState EXCEPT !.vars = v, !.tempVars = q,
                                           !.cache = [@ EXCEPT !.id = x]], S)
               = LoadedRecord(v, q, x, S)
<1> DEFINE s == NewState
           c == [s.cache EXCEPT !.id = x]
           t == [s EXCEPT !.vars = v, !.tempVars = q, !.cache = c]
           u == SetIDAvailable(t, S)
<1>1. HeapRecord(s) /\ s.available = {} /\ s.cache = NothingCached /\ s.misled = FALSE
  BY DEF NewState, HeapRecord
<1>0. t = [s EXCEPT !.vars = v, !.tempVars = q, !.cache = c]
  OBVIOUS
<1> HIDE DEF s, c, t
<1>2. t = [vars |-> v, tempVars |-> q, available |-> s.available, cache |-> c, misled |-> s.misled]
  BY <1>0, <1>1 DEF HeapRecord
<1>3. u = [t EXCEPT !.available = t.available \cup S]
  BY DEF SetIDAvailable
<1>4. t.available \cup S = S
  BY <1>1, <1>2
<1>5. u = [vars |-> v, tempVars |-> q, available |-> S, cache |-> c, misled |-> s.misled]
  BY <1>2, <1>3, <1>4
<1>6. c = [id |-> x, current |-> TRUE]
  <2> DEFINE b == TRUE
  <2>1. NothingCached = [id |-> 0, current |-> b]
    BY DEF NothingCached
  <2> HIDE DEF b
  <2>2. c = [id |-> x, current |-> b]
    BY <1>1, <2>1 DEF c
  <2> QED
    BY <2>2 DEF b
<1> HIDE DEF u
<1>7. u = LoadedRecord(v, q, x, S)
  BY <1>1, <1>5, <1>6 DEF LoadedRecord
<1> QED
  BY <1>7 DEF u, t, c, s

\* Load reads the arrays that are kept, and the free ids between them.
LEMMA LoadedStateIs ==
    ASSUME NEW arrays, NEW n \in Nat, DOMAIN arrays \subseteq 1 .. n
    PROVE  LoadedParts(LoadedState(arrays), arrays)
<1> DEFINE K == KeptIds(arrays)
           loaded == [id \in DOMAIN arrays |-> LoadedArray(arrays[id])]
           kept == {id \in DOMAIN arrays : IsLoaded(loaded[id].owner)}
           set == {id \in K : Other \in {arrays[id].elems[k] : k \in DOMAIN arrays[id].elems}}
           v == Restrict(loaded, K)
           q == {id \in K : loaded[id].refs = <<>>}
           x == IF set = {} THEN 0 ELSE Max(set)
           t == LoadedState(arrays)
<1>1. kept = K
  BY DEF KeptIds
<1>2. LoadedState(arrays) =
          SetIDAvailable([NewState EXCEPT !.vars = Restrict(loaded, kept),
                                          !.tempVars = {id \in kept : loaded[id].refs = <<>>},
                                          !.cache = [@ EXCEPT !.id = IF {id \in kept : Other \in {arrays[id].elems[k] : k \in DOMAIN arrays[id].elems}} = {} THEN 0
                                                       ELSE Max({id \in kept : Other \in {arrays[id].elems[k] : k \in DOMAIN arrays[id].elems}})]],
                         {id \in IDs \ ({0} \cup kept) : \E later \in kept : id < later})
  BY DEF LoadedState
<1>3. t = SetIDAvailable([NewState EXCEPT !.vars = v, !.tempVars = q, !.cache = [@ EXCEPT !.id = x]], Gaps(K))
  <2> HIDE DEF K
  <2> QED
    BY <1>1, <1>2 DEF Gaps
<1>4. x \in {0} \cup K
  <2>1. set \subseteq Nat /\ \A m \in set : m <= n
    BY DEF KeptIds
  <2>2. set # {} => Max(set) \in set
    <3> HIDE DEF set
    <3> QED
      BY <2>1, MaxOfSet
  <2> QED
    BY <2>2
<1>5. /\ DOMAIN v = K /\ IsMap(v)
      /\ \A id \in K : v[id] = LoadedArray(arrays[id])
      /\ q = {id \in K : v[id].refs = <<>>}
  BY DEF Restrict, IsMap, KeptIds
<1> HIDE DEF K, v, q, x, t, loaded, kept, set
<1>7. t = LoadedRecord(v, q, x, Gaps(K))
  <2> DEFINE S == Gaps(K)
  <2> HIDE DEF S
  <2>1. t = SetIDAvailable([NewState EXCEPT !.vars = v, !.tempVars = q, !.cache = [@ EXCEPT !.id = x]], S)
    BY <1>3 DEF S
  <2> QED
    BY <2>1, LoadedRecordIs DEF S
<1>9. /\ t.vars = v /\ t.tempVars = q /\ t.available = Gaps(K)
      /\ t.cache = [id |-> t.cache.id, current |-> TRUE] /\ t.cache.id = x
      /\ t.misled = FALSE /\ HeapRecord(t)
  BY <1>7 DEF LoadedRecord, HeapRecord
<1> QED
  BY <1>4, <1>5, <1>9 DEF LoadedParts, Live, K, t

\* What an array becomes that is loaded without some mods.
LEMMA LoadedArrayIs ==
    ASSUME NEW a, NEW N, IsArray(a, N)
    PROVE  LET b == LoadedArray(a) IN
           /\ IsArray(b, N)
           /\ b.refs = Kept(a.refs, Owners \ absent)
           /\ b.owner = IF IsLoaded(a.owner) \/ b.refs = <<>> THEN a.owner ELSE Head(b.refs)
           /\ b.elems = a.elems /\ b.packed = a.packed
<1> DEFINE r == Kept(a.refs, Owners \ absent)
           o == IF IsLoaded(a.owner) \/ r = <<>> THEN a.owner ELSE Head(r)
<1>1. r \in Seq(Owners)
  BY KeptSelects DEF IsArray
<1>2. LoadedArray(a) = [a EXCEPT !.refs = r, !.owner = o]
  BY DEF LoadedArray
<1> HIDE DEF r
<1>3. o \in Owners
  BY <1>1 DEF IsArray
<1> HIDE DEF o
<1>4. a = [owner |-> a.owner, packed |-> a.packed, refs |-> a.refs, elems |-> a.elems]
  BY DEF IsArray, ArrayRecord
<1>5. LoadedArray(a) = [owner |-> o, packed |-> a.packed, refs |-> r, elems |-> a.elems]
  BY <1>2, <1>4
<1> QED
  BY <1>1, <1>3, <1>5 DEF IsArray, ArrayRecord, r, o

\* A saved game's arrays, and what its heap becomes without some mods.
SavedArrays(game) == SavedHeap(game.arrays)

\* What holds of a saved game.
LEMMA SavedMeans ==
    ASSUME NEW game, SaveOK(game)
    PROVE  LET h == SavedArrays(game) IN
           /\ HeapType(h) /\ h.vars = game.arrays /\ Live(h) = DOMAIN game.arrays
           /\ Live(h) \subseteq IDs
           /\ \A id \in Live(h) : game.arrays[id].refs # <<>>
           /\ game.data \in [Vars -> IDs] /\ game.leaked \in BOOLEAN
           /\ Counted(h, game.data, <<>>, <<>>, game.leaked)
<1> DEFINE h == SavedArrays(game)
<1>1. h.vars = game.arrays
  BY SavedHeapIs DEF SavedArrays
<1>2. Live(h) = DOMAIN game.arrays
  BY <1>1 DEF Live
<1> QED
  BY <1>1, <1>2 DEF SaveOK, SavedArrays, Counted

\* Each loaded array is as it was saved, without the references of missing mods.
LEMMA LoadedMeans ==
    ASSUME NEW game, SaveOK(game)
    PROVE  LET h == SavedArrays(game)
               t == LoadedState(game.arrays) IN
           /\ LoadedParts(t, game.arrays)
           /\ \A id \in Live(t) :
                 /\ id \in Live(h)
                 /\ t.vars[id].refs = Kept(h.vars[id].refs, Owners \ absent)
                 /\ t.vars[id].owner = IF IsLoaded(h.vars[id].owner) \/ t.vars[id].refs = <<>>
                                       THEN h.vars[id].owner ELSE Head(t.vars[id].refs)
                 /\ t.vars[id].packed = h.vars[id].packed
                 /\ IsArray(t.vars[id], IDs \cup Live(h))
                 /\ Elements(t, id) = Elements(h, id)
<1> DEFINE h == SavedArrays(game)
           t == LoadedState(game.arrays)
<1>1. HeapType(h) /\ h.vars = game.arrays /\ Live(h) = DOMAIN game.arrays
  BY SavedMeans
<1>2. LoadedParts(t, game.arrays)
  <2>1. PICK n \in Nat : Live(h) \subseteq 1 .. n
    BY <1>1 DEF HeapType
  <2>2. DOMAIN game.arrays \subseteq 1 .. n
    BY <1>1, <2>1
  <2> QED
    BY <2>2, LoadedStateIs
<1> HIDE DEF h, t
<1>3. ASSUME NEW id \in Live(t)
      PROVE  /\ id \in Live(h)
             /\ t.vars[id].refs = Kept(h.vars[id].refs, Owners \ absent)
             /\ t.vars[id].owner = IF IsLoaded(h.vars[id].owner) \/ t.vars[id].refs = <<>>
                                   THEN h.vars[id].owner ELSE Head(t.vars[id].refs)
             /\ t.vars[id].packed = h.vars[id].packed
             /\ IsArray(t.vars[id], IDs \cup Live(h))
             /\ Elements(t, id) = Elements(h, id)
  <2>1. id \in Live(h)
    BY <1>1, <1>2, <1>3 DEF LoadedParts, KeptIds
  <2>2. t.vars[id] = LoadedArray(h.vars[id])
    BY <1>1, <1>2, <1>3 DEF LoadedParts
  <2>3. IsArray(h.vars[id], IDs \cup Live(h))
    BY <1>1, <2>1 DEF HeapType
  <2> DEFINE a == h.vars[id]
             b == LoadedArray(a)
  <2>4. /\ IsArray(b, IDs \cup Live(h))
        /\ b.refs = Kept(a.refs, Owners \ absent)
        /\ b.owner = IF IsLoaded(a.owner) \/ b.refs = <<>> THEN a.owner ELSE Head(b.refs)
        /\ b.elems = a.elems /\ b.packed = a.packed
    BY <2>3, LoadedArrayIs
  <2> HIDE DEF b
  <2> QED
    BY <2>1, <2>2, <2>4 DEF b, Elements
<1> QED
  BY <1>2, <1>3 DEF h, t

\* The arrays Load reads are a heap, with the cache and the ids in order.
LEMMA LoadedHeapOK ==
    ASSUME NEW game, SaveOK(game)
    PROVE  LET t == LoadedState(game.arrays) IN
           HeapOK(t) /\ Live(t) \subseteq IDs /\ IdsOK(t, 0) /\ GoodCache(t)
<1> DEFINE h == SavedArrays(game)
           t == LoadedState(game.arrays)
<1>1. HeapType(h) /\ Live(h) \subseteq IDs
  BY SavedMeans
<1>2. /\ LoadedParts(t, game.arrays)
      /\ \A id \in Live(t) : id \in Live(h) /\ IsArray(t.vars[id], IDs \cup Live(h))
  BY LoadedMeans
<1> HIDE DEF h, t
<1>3. /\ HeapRecord(t) /\ IsMap(t.vars)
      /\ t.tempVars = {id \in Live(t) : t.vars[id].refs = <<>>}
      /\ t.available = Gaps(Live(t))
      /\ t.cache = [id |-> t.cache.id, current |-> TRUE] /\ t.cache.id \in {0} \cup Live(t)
      /\ t.misled = FALSE
  BY <1>2 DEF LoadedParts
<1>4. Live(t) \subseteq Live(h) /\ Live(t) \subseteq IDs /\ Live(t) \subseteq AllIDs
      /\ 0 \notin Live(t)
  BY <1>1, <1>2 DEF HeapType, AllIDs
<1>5. MaxID \in Nat /\ IDs = 0 .. MaxID
  BY IDsFacts DEF IDs
<1>6. Gaps(Live(t)) \subseteq IDs \ ({0} \cup Live(t))
  BY DEF Gaps
<1>7. \A id \in Live(t) : IsArray(t.vars[id], IDs \cup Live(t))
  <2>1. IDs \cup Live(h) = IDs /\ IDs \cup Live(t) = IDs
    BY <1>1, <1>4
  <2> QED
    BY <1>2, <2>1
<1>8. HeapType(t)
  <2>1. PICK n \in Nat : Live(h) \subseteq 1 .. n
    BY <1>1 DEF HeapType
  <2>2. t.available \subseteq AllIDs \cap IDs
    BY <1>3, <1>5, <1>6 DEF AllIDs
  <2>3. t.cache \in [id : IDs \cup Live(t), current : BOOLEAN]
    <3> DEFINE b == TRUE
    <3>1. b \in BOOLEAN /\ t.cache = [id |-> t.cache.id, current |-> b]
      BY <1>3
    <3>2. t.cache.id \in IDs \cup Live(t)
      BY <1>3, IDsFacts
    <3> HIDE DEF b
    <3> QED
      BY <3>1, <3>2
  <2>4. \E n_1 \in Nat : Live(t) \subseteq 1 .. n_1
    BY <1>4, <2>1
  <2> QED
    BY <1>3, <1>4, <1>7, <2>2, <2>3, <2>4 DEF HeapType
<1>9. HeapOK(t)
  BY <1>3, <1>6, <1>8 DEF HeapOK, QueueOK
<1>10. IdsOK(t, 0)
  <2>1. ASSUME NEW id \in Taken(t, 0), NEW n \in 1 .. id PROVE n \in Taken(t, 0)
    <3>1. id \in Live(t) \cup Gaps(Live(t))
      <4>1. id # 0
        BY <2>1
      <4> QED
        BY <1>3, <4>1 DEF Taken
    <3>2. id \in Nat /\ id <= MaxID
      BY <1>4, <1>5, <1>6, <3>1
    <3>3. n \in IDs /\ n # 0 /\ n <= id /\ n \in Nat
      BY <1>5, <2>1, <3>2
    <3>4. CASE n \in Live(t)
      BY <3>4 DEF Taken
    <3>5. CASE n \notin Live(t)
      <4>1. \E later \in Live(t) : n < later
        <5>1. CASE id \in Live(t)
          BY <3>2, <3>3, <3>5, <5>1
        <5>2. CASE id \in Gaps(Live(t))
          <6>1. PICK later \in Live(t) : id < later
            BY <5>2 DEF Gaps
          <6>2. later \in Nat
            BY <1>4, <1>5
          <6> QED
            BY <3>2, <3>3, <6>1, <6>2
        <5> QED
          BY <3>1, <5>1, <5>2
      <4>2. n \in Gaps(Live(t))
        BY <3>3, <3>5, <4>1 DEF Gaps
      <4> QED
        BY <1>3, <4>2 DEF Taken
    <3> QED
      BY <3>4, <3>5
  <2>2. t.available \cap (Live(t) \cup {0}) = {}
    BY <1>3, <1>6
  <2> QED
    BY <2>1, <2>2 DEF IdsOK
<1>11. GoodCache(t)
  BY <1>3 DEF GoodCache
<1> QED
  BY <1>4, <1>9, <1>10, <1>11 DEF t

\* Of a mod that is loaded, and refers, the loaded array would be kept.
LEMMA LoadedIsOf ==
    ASSUME NEW game, SaveOK(game)
    PROVE  LoadedOf(LoadedState(game.arrays), game.arrays, absent)
<1> DEFINE h == SavedArrays(game)
           t == LoadedState(game.arrays)
           K == Owners \ absent
<1>1. HeapType(h) /\ h.vars = game.arrays /\ Live(h) = DOMAIN game.arrays
  BY SavedMeans
<1>2. /\ LoadedParts(t, game.arrays)
      /\ \A id \in Live(t) :
            /\ id \in Live(h)
            /\ t.vars[id].refs = Kept(h.vars[id].refs, K)
            /\ t.vars[id].owner = IF IsLoaded(h.vars[id].owner) \/ t.vars[id].refs = <<>>
                                  THEN h.vars[id].owner ELSE Head(t.vars[id].refs)
            /\ Elements(t, id) = Elements(h, id)
  BY LoadedMeans
<1> HIDE DEF h, t
<1>3. ASSUME NEW id \in Live(t)
      PROVE  /\ id \in DOMAIN game.arrays
             /\ t.vars[id].refs = Kept(game.arrays[id].refs, K)
             /\ t.vars[id].owner = IF game.arrays[id].owner \notin absent \/ t.vars[id].refs = <<>>
                                   THEN game.arrays[id].owner ELSE Head(t.vars[id].refs)
             /\ t.vars[id].owner \notin absent
             /\ Elements(t, id) = game.arrays[id].elems
  <2>1. id \in KeptIds(game.arrays) /\ t.vars[id] = LoadedArray(game.arrays[id])
    BY <1>2 DEF LoadedParts
  <2>2. t.vars[id].owner \notin absent
    BY <2>1 DEF KeptIds, IsLoaded
  <2>3. Elements(h, id) = game.arrays[id].elems
    BY <1>1 DEF Elements
  <2> QED
    BY <1>1, <1>2, <2>2, <2>3 DEF IsLoaded
<1>4. ASSUME NEW id \in DOMAIN game.arrays \ Live(t)
      PROVE  game.arrays[id].owner \in absent /\ Kept(game.arrays[id].refs, K) = <<>>
  <2> DEFINE a == game.arrays[id]
             b == LoadedArray(a)
             r == Kept(a.refs, K)
  <2>1. b.owner \in absent
    BY <1>2, <1>4 DEF LoadedParts, KeptIds, IsLoaded
  <2>2. IsArray(a, IDs \cup Live(h))
    BY <1>1, <1>4 DEF HeapType
  <2>3. b.refs = r /\ b.owner = IF IsLoaded(a.owner) \/ b.refs = <<>> THEN a.owner ELSE Head(b.refs)
    BY <2>2, LoadedArrayIs
  <2>4. a.refs \in Seq(Owners)
    BY <2>2 DEF IsArray
  <2> HIDE DEF a, b
  <2>5. r \in Seq(Owners) /\ ToSet(r) = ToSet(a.refs) \cap K
    BY <2>4, KeptSelects, KeptElements
  <2> HIDE DEF r
  <2>6. r # <<>> => Head(r) \notin absent
    <3>1. SUFFICES ASSUME r # <<>> PROVE Head(r) \in ToSet(r)
      BY <2>5
    <3>2. Head(r) = r[1] /\ 1 \in DOMAIN r
      BY <2>5, <3>1
    <3> QED
      BY <3>2 DEF ToSet
  <2>7. a.owner \in absent /\ r = <<>>
    BY <2>1, <2>3, <2>6 DEF IsLoaded
  <2> QED
    BY <2>7 DEF a, r
<1> QED
  BY <1>3, <1>4 DEF LoadedOf, t

\* PreLoad keeps the old heap aside and reads the new one.
LEMMA PreLoadStep ==
    ASSUME Inv, PreLoad
    PROVE  Inv'
<1> DEFINE t == LoadedState(save[1].arrays)
<1>1. /\ fault = "none" /\ phase \in {"menu", "scripts"} /\ frames = <<>> /\ loop = <<>>
      /\ worker = 0 /\ save # <<>> /\ backup' = <<[state |-> state, phase |-> phase]>>
      /\ BecomesOr(t, "none") /\ phase' = "loading" /\ deferred' = Spoiled
      /\ UNCHANGED <<data, loop, frames, leaked, save, absent, worker>>
  BY DEF PreLoad, Between, Uses, Becomes, script
<1>2. /\ HeapOK(state) /\ Live(state) \subseteq IDs /\ IdsOK(state, 0)
      /\ data \in [Vars -> IDs] /\ IsLoop(loop) /\ IsFrames(frames) /\ IsDeferred(deferred)
      /\ leaked \in BOOLEAN /\ hollow \in BOOLEAN
      /\ Counted(state, data, loop, frames, leaked)
      /\ ~hollow => CacheOK(state)
  BY <1>1, InvMeans
<1>3. SaveOK(save[1]) /\ save = <<save[1]>> /\ absent \subseteq Mods
  BY <1>1, SaveMeans
<1>4. HeapOK(t) /\ HeapType(t) /\ IdsOK(t, 0) /\ GoodCache(t) /\ Live(t) \subseteq IDs
  BY <1>3, LoadedHeapOK DEF HeapOK
<1> HIDE DEF t
<1>5. "none" \in Faults
  BY DEF Faults
<1>6. /\ state' = t /\ fault' \in Faults /\ hollow' = (hollow \/ IsHollow(t))
  BY <1>1, <1>4, <1>5, BecomesMeans
<1>7. IsDeferred(deferred') /\ \A i \in DOMAIN deferred' : deferred'[i].spoiled
  BY <1>1, <1>2, SpoiledAre
<1>8. backup' = <<backup'[1]>> /\ backup'[1].state = state /\ backup'[1].phase = phase
  BY <1>1
<1>9. Types'
  <2>1. hollow' \in BOOLEAN /\ phase' \in Phases /\ worker' \in IDs
    BY <1>1, <1>2, <1>6, IDsFacts DEF Phases
  <2> QED
    BY <1>1, <1>2, <1>3, <1>4, <1>6, <1>7, <1>8, <2>1 DEF Types
<1>10. (save # <<>> => SaveOK(save[1]))'
  BY <1>1, <1>3
<1>11. Order'
  <2>1. LoadedOf(t, save[1].arrays, absent)
    BY <1>3, LoadedIsOf DEF t
  <2> QED
    BY <1>1, <1>6, <2>1 DEF Order
<1>12. Ids'
  BY <1>1, <1>2, <1>4, <1>6, <1>8 DEF Ids, HeapType, AllIDs
<1>13. Waiting'
  <2>1. DOMAIN frames' = {}
    BY <1>1
  <2> QED
    BY <1>7, <2>1 DEF Waiting
<1>14. Counts'
  BY <1>1, <1>2, <1>8 DEF Counts, Heap
<1>15. Caches'
  BY <1>1, <1>2, <1>4, <1>6, <1>8 DEF Caches, CacheOK, GoodCache
<1> QED
  BY <1>9, <1>10, <1>11, <1>12, <1>13, <1>14, <1>15 DEF Inv

\* A heap t loaded without the mods of D, in which no array that was theirs
\* names another.
LoadedWithout(t, game, D) ==
    /\ HeapType(t) /\ LoadedOf(t, game.arrays, D)
    /\ \A g \in Live(t) : game.arrays[g].owner \in D => ArrayElements(t, g) = {}

\* Of loaded references, there are those of the mods that are there.
LEMMA LoadedRefs ==
    ASSUME NEW game, SaveOK(game), NEW t, NEW D, LoadedWithout(t, game, D),
           NEW id \in AllIDs, NEW c \in SUBSET Owners
    PROVE  Refs(t, id, c) = Refs(SavedArrays(game), id, c \ D)
<1> DEFINE h == SavedArrays(game)
<1>1. HeapType(h) /\ h.vars = game.arrays /\ Live(h) = DOMAIN game.arrays
  BY SavedMeans
<1> HIDE DEF h
<1>2. ASSUME id \in Live(h)
      PROVE  /\ game.arrays[id].refs \in Seq(Owners)
             /\ Occurrences(Kept(game.arrays[id].refs, Owners \ D), c)
                    = Occurrences(game.arrays[id].refs, c \ D)
  <2>1. game.arrays[id].refs \in Seq(Owners)
    BY <1>1, <1>2, ArrayFacts
  <2>2. c \cap (Owners \ D) = c \ D
    OBVIOUS
  <2> QED
    BY <2>1, <2>2, OccurrencesOfKept
<1>3. CASE id \in Live(t)
  <2>1. id \in Live(h) /\ t.vars[id].refs = Kept(game.arrays[id].refs, Owners \ D)
    BY <1>1, <1>3 DEF LoadedWithout, LoadedOf
  <2> QED
    BY <1>1, <1>2, <1>3, <2>1 DEF Refs, h
<1>4. CASE id \in Live(h) \ Live(t)
  <2>1. Kept(game.arrays[id].refs, Owners \ D) = <<>>
    BY <1>1, <1>4 DEF LoadedWithout, LoadedOf
  <2>2. Occurrences(game.arrays[id].refs, c \ D) = 0
    BY <1>2, <1>4, <2>1, OccurrencesOfEmpty
  <2> QED
    BY <1>1, <1>4, <2>2 DEF Refs, h
<1>5. CASE id \notin Live(h)
  <2>1. id \notin Live(t)
    BY <1>1, <1>5 DEF LoadedWithout, LoadedOf
  <2> QED
    BY <1>5, <2>1 DEF Refs, h
<1> QED
  BY <1>3, <1>4, <1>5

\* Of elements, those of arrays whose mods are there.
LEMMA LoadedSlots ==
    ASSUME NEW game, SaveOK(game), NEW t, NEW D, LoadedWithout(t, game, D),
           NEW id \in AllIDs, NEW c \in SUBSET Owners
    PROVE  Slots(t, id, c) = Slots(SavedArrays(game), id, c \ D)
<1> DEFINE h == SavedArrays(game)
<1>1. HeapType(h) /\ h.vars = game.arrays /\ Live(h) = DOMAIN game.arrays
  BY SavedMeans
<1> HIDE DEF h
<1>2. id # 0 /\ id # Other
  BY OtherAssumption DEF AllIDs
<1>3. ASSUME NEW g \in Live(t), NEW k \in Keys, k \in DOMAIN Elements(t, g), Elements(t, g)[k] = id
      PROVE  /\ g \in Live(h) /\ Elements(t, g) = Elements(h, g)
             /\ t.vars[g].owner = h.vars[g].owner /\ h.vars[g].owner \notin D
  <2>1. ArrayElements(t, g) # {}
    BY <1>2, <1>3 DEF ArrayElements
  <2>2. game.arrays[g].owner \notin D
    BY <2>1 DEF LoadedWithout
  <2>3. g \in Live(h) /\ t.vars[g].owner = game.arrays[g].owner /\ Elements(t, g) = game.arrays[g].elems
    BY <1>1, <2>2 DEF LoadedWithout, LoadedOf
  <2> QED
    BY <1>1, <2>2, <2>3 DEF Elements
<1>4. ASSUME NEW g \in Live(h), h.vars[g].owner \notin D
      PROVE  /\ g \in Live(t) /\ Elements(t, g) = Elements(h, g)
             /\ t.vars[g].owner = h.vars[g].owner
  <2>1. g \in Live(t)
    BY <1>1, <1>4 DEF LoadedWithout, LoadedOf
  <2>2. t.vars[g].owner = game.arrays[g].owner /\ Elements(t, g) = game.arrays[g].elems
    BY <1>1, <1>4, <2>1 DEF LoadedWithout, LoadedOf
  <2> QED
    BY <1>1, <2>1, <2>2 DEF Elements
<1>5. ASSUME NEW slot, slot \in Slots(t, id, c)
      PROVE  slot \in Slots(h, id, c \ D)
  <2>1. /\ slot \in Live(t) \X Keys /\ slot[1] \in Live(t) /\ slot[2] \in Keys
        /\ slot[2] \in DOMAIN Elements(t, slot[1]) /\ Elements(t, slot[1])[slot[2]] = id
        /\ t.vars[slot[1]].owner \in c
    BY <1>5 DEF Slots
  <2>2. /\ slot[1] \in Live(h) /\ Elements(t, slot[1]) = Elements(h, slot[1])
        /\ t.vars[slot[1]].owner = h.vars[slot[1]].owner /\ h.vars[slot[1]].owner \notin D
    BY <1>3, <2>1
  <2>3. slot \in Live(h) \X Keys
    BY <2>1, <2>2
  <2> QED
    BY <2>1, <2>2, <2>3 DEF Slots
<1>6. ASSUME NEW slot, slot \in Slots(h, id, c \ D)
      PROVE  slot \in Slots(t, id, c)
  <2>1. /\ slot \in Live(h) \X Keys /\ slot[1] \in Live(h) /\ slot[2] \in Keys
        /\ slot[2] \in DOMAIN Elements(h, slot[1]) /\ Elements(h, slot[1])[slot[2]] = id
        /\ h.vars[slot[1]].owner \in c /\ h.vars[slot[1]].owner \notin D
    BY <1>6 DEF Slots
  <2>2. /\ slot[1] \in Live(t) /\ Elements(t, slot[1]) = Elements(h, slot[1])
        /\ t.vars[slot[1]].owner = h.vars[slot[1]].owner
    BY <1>4, <2>1
  <2>3. slot \in Live(t) \X Keys
    BY <2>1, <2>2
  <2> QED
    BY <2>1, <2>2, <2>3 DEF Slots
<1> QED
  BY <1>5, <1>6 DEF h

\* What the variables hold then.
DataWithout(game, D) == [v \in Vars |-> IF ModOf[v] \notin D THEN game.data[v] ELSE 0]

\* Of variables, those of scripts whose mods are there.
LEMMA LoadedDemand ==
    ASSUME NEW game, NEW D, NEW id \in AllIDs, NEW c, NEW f, f = <<>>
    PROVE  Demand(DataWithout(game, D), f, f, id, c) = Demand(game.data, f, f, id, c \ D)
<1>1. \A v : RefersAs(f, v) = ModOf[v]
  BY DEF RefersAs
<1>2. OnVars(DataWithout(game, D), f, id, c) = OnVars(game.data, f, id, c \ D)
  <2>1. id # 0
    BY DEF AllIDs
  <2>2. \A v \in Vars : DataWithout(game, D)[v] = IF ModOf[v] \notin D THEN game.data[v] ELSE 0
    BY DEF DataWithout
  <2> QED
    BY <1>1, <2>1, <2>2 DEF OnVars
<1>3. OnFrames(f, id, c) = {} /\ OnFrames(f, id, c \ D) = {}
  BY DEF OnFrames
<1> QED
  BY <1>2, <1>3 DEF Demand

\* So the counts that were right in the save are right after the load.
LEMMA LoadedCounts ==
    ASSUME NEW game, SaveOK(game), NEW t, NEW D, LoadedWithout(t, game, D),
           game.leaked => D = {}, NEW f, f = <<>>
    PROVE  Counted(t, DataWithout(game, D), f, f, game.leaked)
<1> DEFINE h == SavedArrays(game)
           d == DataWithout(game, D)
           k == game.leaked
<1>0. \A i \in DOMAIN f : FALSE
  OBVIOUS
<1>1. Counted(h, game.data, f, f, k)
  BY SavedMeans
<1> HIDE DEF h, d
<1>2. ASSUME NEW id \in AllIDs, NEW c \in SUBSET Owners
      PROVE  /\ Surplus(t, id, c) = Surplus(h, id, c \ D)
             /\ Demand(d, f, f, id, c) = Demand(game.data, f, f, id, c \ D)
             /\ c \ D \in SUBSET Owners
  <2>1. Refs(t, id, c) = Refs(h, id, c \ D)
    BY LoadedRefs DEF h
  <2>3. Slots(t, id, c) = Slots(h, id, c \ D)
    BY LoadedSlots DEF h
  <2>2. Demand(d, f, f, id, c) = Demand(game.data, f, f, id, c \ D)
    BY LoadedDemand DEF d
  <2> QED
    BY <2>1, <2>2, <2>3 DEF Surplus
<1>3. Owners \in SUBSET Owners
  OBVIOUS
<1>4. ASSUME ~k PROVE Exact(t, d, f, f) /\ Covered(t, d, f, f)
  <2>1. Exact(h, game.data, f, f)
    BY <1>1, <1>4 DEF Counted
  <2>2. Exact(t, d, f, f)
    <3>1. ASSUME NEW id \in AllIDs, NEW c \in SUBSET Owners
          PROVE  Surplus(t, id, c) = Demand(d, f, f, id, c)
      <4> DEFINE e == c \ D
      <4>1. /\ Surplus(t, id, c) = Surplus(h, id, e) /\ e \in SUBSET Owners
            /\ Demand(d, f, f, id, c) = Demand(game.data, f, f, id, e)
        BY <1>2
      <4> HIDE DEF e
      <4> QED
        BY <2>1, <4>1 DEF Exact
    <3> QED
      BY <3>1 DEF Exact
  <2>3. \A id \in AllIDs : Demand(d, f, f, id, Owners) \in Nat
    BY DemandType, NoFrames DEF IsFrames
  <2> QED
    BY <1>3, <2>2, <2>3 DEF Exact, Covered
<1>5. ASSUME k PROVE Covered(t, d, f, f)
  <2>1. Owners \ D = Owners
    BY <1>5
  <2>2. Covered(h, game.data, f, f)
    BY <1>1 DEF Counted
  <2>3. \A id \in AllIDs : /\ Surplus(t, id, Owners) = Surplus(h, id, Owners)
                           /\ Demand(d, f, f, id, Owners) = Demand(game.data, f, f, id, Owners)
    BY <1>2, <1>3, <2>1
  <2> QED
    BY <2>2, <2>3 DEF Covered
<1> QED
  BY <1>0, <1>4, <1>5 DEF Counted, d

\* PostLoad(true) forgets the old heap.
LEMMA LoadSucceedsStep ==
    ASSUME Inv, LoadSucceeds
    PROVE  Inv'
<1> DEFINE w == IF Unloads THEN "unload" ELSE "none"
           game == save[1]
<1>1. /\ fault = "none" /\ phase = "loading"
      /\ BecomesOr(state, w)
      /\ data' = LoadedData /\ leaked' = game.leaked
      /\ backup' = <<>> /\ phase' = "scripts"
      /\ UNCHANGED <<loop, frames, save, absent, worker, deferred>>
  BY DEF LoadSucceeds, AfterLoad, events
<1>2. /\ loop = <<>> /\ frames = <<>> /\ save # <<>> /\ worker = 0
      /\ LoadedOf(state, game.arrays, absent)
      /\ \A i \in DOMAIN deferred : deferred[i].spoiled
  BY <1>1 DEF Inv, Order, Waiting
<1>3. SaveOK(game) /\ save = <<save[1]>>
  BY <1>2, SaveMeans
<1>4. /\ HeapOK(state) /\ HeapType(state) /\ IdsOK(state, worker) /\ IsDeferred(deferred)
      /\ ~hollow => GoodCache(state)
  BY <1>1, InvMeans
<1>5. LoadedData = DataWithout(game, absent)
  BY DEF LoadedData, DataWithout, IsLoaded
<1>6. data' \in [Vars -> IDs] /\ leaked' \in BOOLEAN
  <2>1. game.data \in [Vars -> IDs] /\ game.leaked \in BOOLEAN /\ 0 \in IDs
    BY <1>3, IDsFacts DEF SaveOK
  <2> QED
    BY <1>1, <1>5, <2>1 DEF DataWithout
<1>7. w = "none" => Counted(state, data', loop', frames', leaked')
  <2>1. SUFFICES ASSUME ~Unloads PROVE Counted(state, data', loop', frames', leaked')
    OBVIOUS
  <2>2. LoadedWithout(state, game, absent)
    BY <1>2, <1>4, <2>1 DEF Unloads, IsLoaded, LoadedWithout, LoadedOf
  <2>3. game.leaked => absent = {}
    BY <2>1 DEF Unloads
  <2> HIDE DEF game
  <2>4. Counted(state, DataWithout(game, absent), frames, frames, game.leaked)
    BY <1>2, <1>3, <2>2, <2>3, LoadedCounts
  <2> QED
    BY <1>1, <1>2, <1>5, <2>4
<1>8. w \in Faults /\ "scripts" \in Phases
  BY DEF Faults, Phases
<1> HIDE DEF w, game
<1> QED
  BY <1>1, <1>2, <1>3, <1>4, <1>6, <1>7, <1>8, SaveMeans, QuietStep

\* PostLoad(false) puts it back.
LEMMA LoadFailsStep ==
    ASSUME Inv, LoadFails
    PROVE  Inv'
<1> DEFINE s == backup[1].state
<1>1. /\ fault = "none" /\ phase = "loading" /\ BecomesOr(s, "none")
      /\ backup' = <<>> /\ phase' = backup[1].phase
      /\ UNCHANGED <<data, loop, frames, leaked, save, absent, worker, deferred>>
  BY DEF LoadFails, Becomes, script, events
<1>2. /\ loop = <<>> /\ frames = <<>> /\ worker = 0
      /\ \A i \in DOMAIN deferred : deferred[i].spoiled
  BY <1>1 DEF Inv, Order, Waiting
<1>3. /\ HeapOK(s) /\ backup[1].phase \in {"menu", "scripts"}
  BY <1>1 DEF Inv, Types
<1>4. IdsOK(s, worker)
  BY <1>1, <1>2 DEF Inv, Ids
<1>5. Counted(s, data', loop', frames', leaked')
  BY <1>1 DEF Inv, Counts, Heap
<1>6. ~hollow => GoodCache(s)
  BY <1>1 DEF Inv, Caches, CacheOK, GoodCache
<1>7. data \in [Vars -> IDs] /\ leaked \in BOOLEAN /\ IsDeferred(deferred)
  BY <1>1, InvMeans
<1>8. "none" \in Faults /\ phase' \in Phases \ {"loading"}
  BY <1>1, <1>3 DEF Faults, Phases
<1> HIDE DEF s
<1> QED
  BY <1>1, <1>2, <1>3, <1>4, <1>5, <1>6, <1>7, <1>8, SaveMeans, QuietStep

\* A new game has no arrays.
LEMMA NewGameStep ==
    ASSUME Inv, NewGame
    PROVE  Inv'
<1> DEFINE t == Clean(state)
<1>1. /\ fault = "none" /\ phase \in {"menu", "scripts"} /\ frames = <<>> /\ loop = <<>>
      /\ BecomesOr(t, "none") /\ data' = NoData /\ leaked' = Referred(state')
      /\ phase' = "scripts" /\ deferred' = Spoiled
      /\ UNCHANGED <<loop, frames, backup, save, absent, worker>>
  BY DEF NewGame, Between, Uses, Becomes, NoData
<1>2. /\ HeapOK(t) /\ HeapType(t) /\ IdsOK(t, worker) /\ Counted(t, data, loop, frames, leaked)
      /\ (~hollow => GoodCache(t)) /\ t.tempVars = {}
  BY <1>1, CleanResult
<1> HIDE DEF t
<1>3. data \in [Vars -> IDs] /\ IsDeferred(deferred) /\ IsFrames(frames)
  BY <1>1, InvMeans
<1>4. "none" \in Faults /\ phase' \in Phases \ {"loading"} /\ phase # "loading"
  BY <1>1 DEF Faults, Phases
<1>5. state' = t
  BY <1>1, <1>2, <1>4, BecomesMeans
<1>6. Counted(t, data', loop', frames', leaked')
  <2>1. Backed(t)
    BY <1>2, <1>3, CoveredBacked DEF Counted
  <2>2. ASSUME ~Referred(t), NEW id, NEW c PROVE Surplus(t, id, c) = 0
    <3>1. Live(t) = {}
      BY <1>2, <2>2 DEF Referred, HeapOK, QueueOK
    <3>2. Refs(t, id, c) = 0 /\ Slots(t, id, c) = {}
      BY <3>1 DEF Refs, Slots
    <3> QED
      BY <3>2, FS_EmptySet DEF Surplus
  <2>3. leaked' = Referred(t)
    BY <1>1, <1>5
  <2>4. Counted(t, NoData, <<>>, <<>>, Referred(t))
    BY <1>2, <2>1, <2>2, NothingCounted
  <2> QED
    BY <1>1, <2>3, <2>4
<1>7. data' \in [Vars -> IDs] /\ leaked' \in BOOLEAN
  BY <1>1, IDsFacts DEF NoData, Referred
<1>8. IsDeferred(deferred') /\ \A i \in DOMAIN deferred' : deferred'[i].spoiled
  BY <1>1, <1>3, SpoiledAre
<1>9. backup' = <<>>
  BY <1>1, <1>4, SaveMeans
<1> QED
  BY <1>1, <1>2, <1>4, <1>6, <1>7, <1>8, <1>9, SaveMeans, QuietStep

\* A load without a co-save that fails has dropped the arrays.
LEMMA BareLoadFailsStep ==
    ASSUME Inv, BareLoadFails
    PROVE  Inv'
<1> DEFINE w == IF Dangling(NewState, data, <<>>) THEN "lost" ELSE "none"
<1>1. /\ fault = "none" /\ phase \in {"menu", "scripts"} /\ frames = <<>> /\ loop = <<>>
      /\ worker = 0 /\ BecomesOr(NewState, w) /\ deferred' = Spoiled
      /\ UNCHANGED <<data, loop, frames, leaked, backup, phase, save, absent, worker>>
  BY DEF BareLoadFails, Between, Uses, script, engine
<1>2. /\ data \in [Vars -> IDs] /\ IsDeferred(deferred) /\ leaked \in BOOLEAN
  BY <1>1, InvMeans
<1>3. HeapOK(NewState) /\ HeapType(NewState) /\ IdsOK(NewState, worker) /\ GoodCache(NewState)
  BY <1>1, NewHeapOK DEF HeapOK
<1>4. w \in Faults /\ phase' \in Phases \ {"loading"} /\ phase # "loading"
  BY <1>1 DEF Faults, Phases
<1>5. w = "none" => Counted(NewState, data', loop', frames', leaked')
  <2>1. SUFFICES ASSUME ~Dangling(NewState, data, <<>>)
                 PROVE  Counted(NewState, data', loop', frames', leaked')
    OBVIOUS
  <2>2. data = NoData
    BY <1>2, <2>1, NewHeapOK DEF Dangling, NoData
  <2>3. Backed(NewState)
    BY NewHeapOK DEF Backed
  <2>4. Counted(NewState, NoData, <<>>, <<>>, leaked)
    BY <1>3, <2>3, NewHeapOK, NothingCounted
  <2> QED
    BY <1>1, <2>2, <2>4
<1>6. IsDeferred(deferred') /\ \A i \in DOMAIN deferred' : deferred'[i].spoiled
  BY <1>1, <1>2, SpoiledAre
<1>7. backup' = <<>>
  BY <1>1, <1>4, SaveMeans
<1> HIDE DEF w
<1> QED
  BY <1>1, <1>2, <1>3, <1>4, <1>5, <1>6, <1>7, SaveMeans, QuietStep

\* A process that has just started.
Started ==
    /\ state = NewState /\ backup = <<>> /\ data = NoData /\ loop = <<>> /\ frames = <<>>
    /\ phase = "menu" /\ worker = 0 /\ deferred = <<>> /\ absent \subseteq Mods
    /\ fault = "none" /\ leaked = FALSE /\ hollow = FALSE
    /\ save = <<>> \/ save = <<save[1]>>
    /\ save # <<>> => SaveOK(save[1])

\* The invariant holds when the program starts.
LEMMA StartedInv == Started => Inv
<1> SUFFICES ASSUME Started PROVE Inv
  OBVIOUS
<1>1. /\ HeapOK(state) /\ HeapType(state) /\ Live(state) = {} /\ IdsOK(state, 0)
      /\ GoodCache(state) /\ ~IsHollow(state)
      /\ \A id, c : Surplus(state, id, c) = 0
  BY NewHeapOK DEF Started, HeapOK
<1>2. /\ 0 \in IDs /\ IsLoop(loop) /\ IsFrames(frames) /\ IsDeferred(deferred)
      /\ DOMAIN frames = {} /\ DOMAIN deferred = {}
  BY NoFrames, IDsFacts DEF Started, IsDeferred
<1>3. Types
  BY <1>1, <1>2 DEF Started, Types, NoData, Phases, Faults
<1>4. Order /\ Ids /\ Waiting
  BY <1>1, <1>2 DEF Started, Order, Ids, Waiting
<1>5. Counts
  <2>1. Backed(state)
    BY <1>1 DEF Backed
  <2>2. Counted(state, NoData, <<>>, <<>>, leaked)
    BY <1>1, <2>1, NothingCounted
  <2> QED
    BY <2>2 DEF Started, Counts, Heap
<1>6. Caches
  BY <1>1 DEF Started, Caches, CacheOK, GoodCache
<1> QED
  BY <1>3, <1>4, <1>5, <1>6 DEF Started, Inv

\* So it holds at first.
LEMMA InitInv == Init => Inv
<1>1. Init => Started
  BY DEF Init, Started, NoData
<1> QED
  BY <1>1, StartedInv

\* And after a restart, with the game that is saved.
LEMMA RestartStep ==
    ASSUME Inv, NEW gone \in SUBSET Removable, Restart(gone)
    PROVE  Inv'
<1>1. gone \subseteq Mods
  BY ModsAssumption
<1>2. Started'
  BY <1>1, SaveMeans DEF Restart, Started, NoData
<1>3. (Started => Inv)'
  BY StartedInv, PTL
<1> QED
  BY <1>2, <1>3

-----------------------------------------------------------------------------
(* Every step does.                                                        *)

\* Each statement of a script keeps it.
LEMMA StatementsStep ==
    ASSUME Inv, NEW m \in Mods, Statements(m)
    PROVE  Inv'
<1>1. ASSUME NEW v \in Vars, Construct(m, v) PROVE Inv'
  BY <1>1, ConstructStep
<1>2. ASSUME NEW v \in Vars, NEW id \in Named, Assign(m, v, id) PROVE Inv'
  BY <1>2, AssignStep
<1>3. ASSUME NEW v \in Vars, NEW value \in Arrays \cup {Other}, AssignList(m, v, value) PROVE Inv'
  BY <1>3, AssignListStep
<1>4. ASSUME NEW v \in Vars, ModOf[v] = m, NEW src \in Arrays, ForEach(m, v, src) PROVE Inv'
  BY <1>4, ForEachStep
<1>5. ASSUME NEW v \in Vars, NEW from \in Arrays, NEW key \in Keys, AssignElement(m, v, from, key)
      PROVE  Inv'
  BY <1>5, AssignElementStep
<1>6. ASSUME NEW v \in Vars, NEW from \in Arrays, NEW deep \in BOOLEAN, AssignCopy(m, v, from, deep)
      PROVE  Inv'
  BY <1>6, AssignCopyStep
<1>7. ASSUME NEW id \in Arrays, NEW key \in Keys, NEW value \in Named \cup {Other},
             SetElementTo(m, id, key, value)
      PROVE  Inv'
  BY <1>7, SetElementToStep
<1>8. ASSUME NEW id \in Arrays, NEW key \in Keys, SetElementToNew(m, id, key) PROVE Inv'
  BY <1>8, SetElementToNewStep
<1>9. ASSUME NEW id \in Arrays, NEW lo \in Keys, NEW hi \in Keys, EraseRange(m, id, lo, hi)
      PROVE  Inv'
  BY <1>9, EraseRangeStep
<1> QED
  BY <1>1, <1>2, <1>3, <1>4, <1>5, <1>6, <1>7, <1>8, <1>9 DEF Statements

\* Each command does.
LEMMA CommandsStep ==
    ASSUME Inv, Commands
    PROVE  Inv'
<1>1. ASSUME NEW m \in Mods, NEW f \in Callees \ absent, Calls(m, f) PROVE Inv'
  <2>1. ASSUME NEW id \in Arrays, Call(m, f, id) PROVE Inv'
    BY <2>1, CallStep
  <2>2. ASSUME NEW id \in Arrays, CallFails(m, f, id) PROVE Inv'
    BY <2>2, CallFailsStep
  <2>3. ASSUME Dispatch(m, f) PROVE Inv'
    BY <2>3, DispatchStep
  <2> QED
    BY <1>1, <2>1, <2>2, <2>3 DEF Calls
<1> QED
  BY <1>1, StatementsStep, ContinueStep, BreakStep, ReturnStep DEF Commands

\* Each hook does.
LEMMA HooksStep ==
    ASSUME Inv, Hooks
    PROVE  Inv'
<1>1. ASSUME NEW h \in Callees \ absent, TileText(h) \/ Deliver(h) PROVE Inv'
  BY <1>1, TileTextStep, DeliverStep
<1> QED
  BY <1>1, EndScriptsStep, EndTickStep, CleanUpStep DEF Hooks

\* Each save, load and new game does.
LEMMA GamesStep ==
    ASSUME Inv, Games
    PROVE  Inv'
<1>1. ASSUME NEW gone \in SUBSET Removable, Restart(gone) PROVE Inv'
  BY <1>1, RestartStep
<1> QED
  BY <1>1, SaveGameStep, PreLoadStep, LoadSucceedsStep, LoadFailsStep, NewGameStep,
     BareLoadFailsStep DEF Games

\* So does a step that changes nothing.
LEMMA Unchanged ==
    ASSUME Inv, UNCHANGED vars
    PROVE  Inv'
<1>1. UNCHANGED <<state, fault, hollow, data, loop, frames, leaked, backup, phase, save,
                  absent, worker, deferred>>
  BY DEF vars, heap, script, engine, events
<1>2. Types' /\ (save # <<>> => SaveOK(save[1]))'
  BY <1>1 DEF Inv, Types
<1>3. fault = "none" => (Order /\ Ids /\ Waiting /\ Caches)'
  BY <1>1 DEF Inv, Order, Ids, Waiting, Caches
<1>4. fault = "none" => Counts'
  BY <1>1 DEF Inv, Counts, Heap
<1> QED
  BY <1>1, <1>2, <1>3, <1>4 DEF Inv

\* The invariant is kept by every step.
LEMMA InvNext ==
    ASSUME Inv, [Next]_vars
    PROVE  Inv'
<1>1. CASE OtherThread
  <2>1. ASSUME NEW mod \in Mods \ absent, Post(mod) PROVE Inv'
    BY <2>1, PostStep
  <2> QED
    BY <1>1, <2>1, TakeIDStep DEF OtherThread
<1> QED
  BY <1>1, CommandsStep, HooksStep, GamesStep, Unchanged DEF Next

\* Of an array, every holder has its reference, and unless a script left one to
\* nobody there is none besides; the ids are without gaps, the events that wait
\* have their arrays, and the cache names what exists.
THEOREM Invariance == Spec => []Inv
<1>1. Inv /\ [Next]_vars => Inv'
  BY InvNext
<1> QED
  BY InitInv, <1>1, PTL DEF Spec

-----------------------------------------------------------------------------
(* The properties.                                                         *)

\* A heap has the type that is checked.
LEMMA HeapTypes ==
    ASSUME NEW s, HeapOK(s), Live(s) \subseteq IDs
    PROVE  StateOK(s)
<1>1. HeapType(s) /\ QueueOK(s)
  BY DEF HeapOK
<1>2. ASSUME NEW id \in Live(s) PROVE ArrayOK(s.vars[id])
  <2>1. IDs \cup Live(s) = IDs
    OBVIOUS
  <2>2. IsArray(s.vars[id], IDs)
    BY <1>1, <2>1 DEF HeapType
  <2> DEFINE a == s.vars[id]
  <2> HIDE DEF a
  <2>3. /\ a.owner \in Owners /\ a.packed \in BOOLEAN /\ a.refs \in Seq(Owners)
        /\ DOMAIN a.elems \subseteq Keys /\ a.elems \in [DOMAIN a.elems -> IDs \cup {Other}]
    BY <2>2 DEF IsArray, a
  <2>4. \A i \in DOMAIN a.refs : a.refs[i] \in Owners
    BY <2>3
  <2> QED
    BY <2>3, <2>4 DEF ArrayOK, a
<1>3. s.cache.id \in IDs /\ s.cache.current \in BOOLEAN
  BY <1>1 DEF HeapType
<1> QED
  BY <1>1, <1>2, <1>3 DEF StateOK, HeapType, AllIDs, QueueOK

\* The heap, what names its arrays and the backup of a load have their types,
\* whatever went wrong before.
THEOREM TypesCorrect == Spec => []TypeOK
<1>1. Inv => TypeOK
  <2> SUFFICES ASSUME Inv PROVE TypeOK
    OBVIOUS
  <2>1. Types
    BY DEF Inv
  <2>2. StateOK(state)
    BY <2>1, HeapTypes DEF Types
  <2>3. (\A i \in DOMAIN backup : StateOK(backup[i].state))
        /\ Len(backup) = IF phase = "loading" THEN 1 ELSE 0
    <3>1. CASE phase = "loading"
      <4>1. backup = <<backup[1]>> /\ StateOK(backup[1].state)
        BY <2>1, <3>1, HeapTypes DEF Types
      <4>2. DOMAIN backup = {1} /\ Len(backup) = 1
        BY <4>1
      <4> QED
        BY <3>1, <4>1, <4>2
    <3>2. CASE phase # "loading"
      <4>1. backup = <<>>
        BY <2>1, <3>2 DEF Types
      <4> QED
        BY <3>2, <4>1
    <3> QED
      BY <3>1, <3>2
  <2>4. Len(loop) <= 1 /\ Len(frames) <= 1
    BY <2>1 DEF Types, IsLoop, IsFrames
  <2>5. \A i \in DOMAIN frames : frames[i].id \in IDs /\ frames[i].mod \in Mods
    BY <2>1, FramesAre DEF Types
  <2>6. \A i \in DOMAIN deferred : deferred[i].id \in IDs
    <3> DEFINE S == [id : IDs, spoiled : BOOLEAN]
    <3>1. deferred \in Seq(S)
      BY <2>1 DEF Types, IsDeferred
    <3>2. \A x \in S : x.id \in IDs
      OBVIOUS
    <3> HIDE DEF S
    <3> QED
      BY <3>1, <3>2
  <2> QED
    BY <2>1, <2>2, <2>3, <2>4, <2>5, <2>6 DEF Types, TypeOK
<1> QED
  BY Invariance, <1>1, PTL

\* The heap the scripts refer to.
LEMMA HeapMeans ==
    ASSUME Inv, fault = "none"
    PROVE  /\ HeapOK(Heap) /\ HeapType(Heap) /\ QueueOK(Heap)
           /\ Counted(Heap, data, loop, frames, leaked) /\ IsFrames(frames) /\ IsLoop(loop)
           /\ Backed(Heap)
<1>1. HeapOK(Heap) /\ IsFrames(frames) /\ IsLoop(loop)
  BY DEF Inv, Types, Heap
<1>2. Counted(Heap, data, loop, frames, leaked)
  BY DEF Inv, Counts
<1>3. HeapType(Heap) /\ QueueOK(Heap)
  BY <1>1 DEF HeapOK
<1>4. Backed(Heap)
  BY <1>1, <1>2, <1>3, CoveredBacked DEF Counted
<1> QED
  BY <1>1, <1>2, <1>3, <1>4

\* What has a reference too many is there, and not queued.
LEMMA ReferredIsKept ==
    ASSUME NEW s, HeapType(s), QueueOK(s), NEW id, NEW c, Refs(s, id, c) >= 1
    PROVE  id \in Live(s) \ s.tempVars
<1>1. id \in Live(s)
  BY DEF Refs
<1>2. s.vars[id].refs # <<>>
  BY <1>1, OccurrencesOfEmpty DEF Refs
<1> QED
  BY <1>1, <1>2 DEF QueueOK

\* So is what an array names.
LEMMA NamedIsKept ==
    ASSUME NEW s, HeapType(s), QueueOK(s), Backed(s), NEW g \in Live(s), NEW k \in ArrayElements(s, g)
    PROVE  Elements(s, g)[k] \in Live(s) \ s.tempVars
<1> DEFINE x == Elements(s, g)[k]
           S == Slots(s, x, Owners)
<1>1. k \in DOMAIN Elements(s, g) /\ x # Other /\ x # 0
  BY DEF ArrayElements
<1>2. k \in Keys /\ x \in AllIDs /\ s.vars[g].owner \in Owners
  BY <1>1, ArrayFacts DEF AllIDs
<1>3. <<g, k>> \in S
  BY <1>1, <1>2 DEF Slots
<1>4. IsFiniteSet(S) /\ Cardinality(S) \in Nat
  BY SlotsAreFinite
<1>5. Surplus(s, x, Owners) >= 0 /\ Surplus(s, x, Owners) = Refs(s, x, Owners) - Cardinality(S)
      /\ Refs(s, x, Owners) \in Nat
  BY <1>2, SurplusType DEF Backed, Surplus
<1> HIDE DEF S, x
<1>6. Cardinality(S) # 0
  BY <1>3, <1>4, FS_EmptySet
<1>7. Refs(s, x, Owners) >= 1
  BY <1>4, <1>5, <1>6
<1> QED
  BY <1>7, ReferredIsKept DEF x

\* What a parameter holds is demanded.
LEMMA FrameDemands ==
    ASSUME NEW d, NEW l, NEW f, IsFrames(f), NEW i \in DOMAIN f
    PROVE  Demand(d, l, f, f[i].id, Owners) >= 1
<1> DEFINE g == f[1]
<1>1. f = <<g>> /\ i = 1 /\ g.mod \in Mods
  BY FramesAre
<1> HIDE DEF g
<1>2. Cardinality(OnFrames(f, g.id, Owners)) = 1
  BY <1>1, OwnersAre, OnFramesOfOne
<1>3. Cardinality(OnVars(d, l, g.id, Owners)) \in Nat
  BY OnVarsFinite
<1>4. Demand(d, l, f, g.id, Owners) >= 1
  BY <1>2, <1>3 DEF Demand
<1> QED
  BY <1>1, <1>4 DEF g

\* What is asked for is kept.
LEMMA DemandedIsKept ==
    ASSUME Inv, fault = "none", NEW id \in AllIDs, Demand(data, loop, frames, id, Owners) >= 1
    PROVE  id \in Live(Heap) \ Heap.tempVars
<1> DEFINE h == Heap
<1>1. HeapType(h) /\ QueueOK(h) /\ Counted(h, data, loop, frames, leaked) /\ IsFrames(frames)
  BY HeapMeans
<1> HIDE DEF h
<1>2. Surplus(h, id, Owners) >= Demand(data, loop, frames, id, Owners)
  BY <1>1 DEF Counted, Covered
<1>3. /\ Surplus(h, id, Owners) \in Int /\ Surplus(h, id, Owners) <= Refs(h, id, Owners)
      /\ Refs(h, id, Owners) \in Nat /\ Demand(data, loop, frames, id, Owners) \in Nat
  BY <1>1, SurplusType, DemandType
<1>4. Refs(h, id, Owners) >= 1
  BY <1>2, <1>3
<1> QED
  BY <1>1, <1>4, ReferredIsKept DEF h

\* What a variable, a parameter, a loop or an element holds exists
\* (ArrayVarMap::Delete).
THEOREM HeldArraysStay == Spec => []HeldArraysLive
<1>1. Inv => HeldArraysLive
  <2> SUFFICES ASSUME Inv, fault = "none"
               PROVE  LET kept == {0} \cup (Live(Heap) \ Heap.tempVars)
                      IN /\ \A v \in Vars : data[v] \in kept
                         /\ \A i \in DOMAIN frames : frames[i].id \in kept
                         /\ \A i \in DOMAIN loop : loop[i].iter \in kept
                         /\ \A id \in Live(Heap) : \A k \in ArrayElements(Heap, id) :
                                Elements(Heap, id)[k] \in kept
    BY DEF HeldArraysLive
  <2>1. /\ HeapType(Heap) /\ QueueOK(Heap) /\ Backed(Heap)
        /\ Counted(Heap, data, loop, frames, leaked) /\ IsFrames(frames)
    BY HeapMeans
  <2>2. data \in [Vars -> IDs] /\ IDs \subseteq Nat
    BY InvMeans, IDsFacts
  <2>3. ASSUME NEW v \in Vars, data[v] # 0 PROVE data[v] \in Live(Heap) \ Heap.tempVars
    <3>1. Demand(data, loop, frames, data[v], Owners) >= 1
      BY <2>1, VarDemands, RefersToOwner
    <3>2. data[v] \in AllIDs
      BY <2>2, <2>3 DEF AllIDs
    <3> QED
      BY <3>1, <3>2, DemandedIsKept
  <2>4. ASSUME NEW i \in DOMAIN frames, frames[i].id # 0
        PROVE  frames[i].id \in Live(Heap) \ Heap.tempVars
    <3>1. Demand(data, loop, frames, frames[i].id, Owners) >= 1
      BY <2>1, FrameDemands
    <3>2. frames[i].id \in AllIDs
      <4>1. frames[i].id \in IDs
        BY <2>1, FramesAre
      <4> QED
        BY <2>2, <2>4, <4>1 DEF AllIDs
    <3> QED
      BY <3>1, <3>2, DemandedIsKept
  <2>5. ASSUME NEW i \in DOMAIN loop PROVE loop[i].iter \in Live(Heap) \ Heap.tempVars
    <3> DEFINE x == loop[i].iter
    <3>1. Surplus(Heap, x, {Engine}) >= 1
      BY <2>1 DEF Counted
    <3> HIDE DEF x
    <3>2. Refs(Heap, x, {Engine}) >= 1
      BY <2>1, <3>1, SurplusType
    <3> QED
      BY <2>1, <3>2, ReferredIsKept DEF x
  <2>6. \A id \in Live(Heap) : \A k \in ArrayElements(Heap, id) :
            Elements(Heap, id)[k] \in Live(Heap) \ Heap.tempVars
    BY <2>1, NamedIsKept
  <2> QED
    BY <2>3, <2>4, <2>5, <2>6
<1> QED
  BY Invariance, <1>1, PTL

\* The holders the property counts are those of the invariant.
LEMMA HoldersAreCounted ==
    ASSUME Inv, fault = "none", NEW id \in AllIDs, NEW mod \in Owners
    PROVE  /\ ByVars(id, mod) = OnVars(data, loop, id, {mod})
           /\ ByElements(id, mod) = Slots(Heap, id, {mod})
           /\ ByFrames(id, mod) = OnFrames(frames, id, {mod})
           /\ id \in Live(Heap) => RefsOf(id, mod) = PlacesOf(Heap.vars[id].refs, {mod})
<1>1. HeapType(Heap)
  BY HeapMeans
<1>2. ByVars(id, mod) = OnVars(data, loop, id, {mod})
  BY DEF ByVars, OnVars, RefersAs
<1>3. ByFrames(id, mod) = OnFrames(frames, id, {mod})
  BY DEF ByFrames, OnFrames
<1>4. RefsOf(id, mod) = PlacesOf(Heap.vars[id].refs, {mod})
  BY DEF RefsOf, PlacesOf
<1>5. id # 0 /\ id # Other
  BY OtherAssumption DEF AllIDs
<1> DEFINE h == Heap
<1>6. ByElements(id, mod) =
          UNION {{<<g, k>> : k \in {e \in ArrayElements(h, g) : Elements(h, g)[e] = id}} :
                 g \in {x \in Live(h) : h.vars[x].owner = mod}}
  BY DEF ByElements
<1>7. \A slot : slot \in ByElements(id, mod) <=>
          \E g \in Live(h) : /\ h.vars[g].owner = mod
                             /\ \E k \in ArrayElements(h, g) :
                                   Elements(h, g)[k] = id /\ slot = <<g, k>>
  <2> HIDE DEF h
  <2> QED
    BY <1>6
<1>8. \A slot : slot \in Slots(h, id, {mod}) <=>
          \E g \in Live(h), k \in Keys :
              /\ slot = <<g, k>> /\ k \in DOMAIN Elements(h, g)
              /\ Elements(h, g)[k] = id /\ h.vars[g].owner = mod
  <2> HIDE DEF h
  <2> QED
    BY DEF Slots
<1>9. ASSUME NEW g \in Live(h), NEW k, k \in ArrayElements(h, g)
      PROVE  k \in DOMAIN Elements(h, g) /\ k \in Keys
  BY <1>1, <1>9, ArrayFacts DEF ArrayElements
<1>10. ASSUME NEW g \in Live(h), NEW k \in DOMAIN Elements(h, g), Elements(h, g)[k] = id
       PROVE  k \in ArrayElements(h, g)
  BY <1>5, <1>10 DEF ArrayElements
<1> HIDE DEF h
<1>11. \A slot : slot \in ByElements(id, mod) <=> slot \in Slots(h, id, {mod})
  BY <1>7, <1>8, <1>9, <1>10
<1>12. ByElements(id, mod) = Slots(h, id, {mod})
  BY <1>11
<1> QED
  BY <1>2, <1>3, <1>4, <1>12 DEF h

\* The references recorded are, mod by mod, the holders there are
\* (ArrayVar::m_refs).
THEOREM CountsExact == Spec => []RefsCountHolders
<1>1. Inv => RefsCountHolders
  <2> SUFFICES ASSUME Inv, fault = "none", ~leaked, NEW id \in Live(Heap)
               PROVE  /\ \A mod \in Owners :
                            Cardinality(RefsOf(id, mod)) =
                                Cardinality(ByVars(id, mod)) + Cardinality(ByElements(id, mod))
                                    + Cardinality(ByFrames(id, mod))
                      /\ (id \in Heap.tempVars) <=> (Heap.vars[id].refs = <<>>)
    BY DEF RefsCountHolders
  <2> DEFINE h == Heap
  <2>1. /\ HeapType(h) /\ QueueOK(h) /\ Exact(h, data, loop, frames) /\ IsFrames(frames)
        /\ id \in AllIDs
    BY HeapMeans, ArrayFacts DEF Counted
  <2>2. ASSUME NEW mod \in Owners
        PROVE  Cardinality(RefsOf(id, mod)) =
                   Cardinality(ByVars(id, mod)) + Cardinality(ByElements(id, mod))
                       + Cardinality(ByFrames(id, mod))
    <3> DEFINE c == {mod}
               r == Refs(h, id, c)
               v == Cardinality(OnVars(data, loop, id, c))
               e == Cardinality(Slots(h, id, c))
               f == Cardinality(OnFrames(frames, id, c))
    <3>1. c \in SUBSET Owners
      OBVIOUS
    <3>2. r - e = v + f
      BY <2>1, <3>1 DEF Exact, Surplus, Demand
    <3>3. r \in Nat /\ e \in Nat /\ v \in Nat
      BY <2>1, SurplusType, SlotsAreFinite, OnVarsFinite
    <3>4. f \in Nat
      <4>1. v + f \in Nat
        BY <2>1, DemandType DEF Demand
      <4>2. f = 0 \/ f = 1
        <5>1. CASE frames = <<>>
          BY <5>1, OnFramesOfNone
        <5>2. CASE frames = <<frames[1]>>
          <6> DEFINE g == frames[1]
          <6> HIDE DEF g
          <6>1. frames = <<g>>
            BY <5>2 DEF g
          <6> QED
            BY <6>1, OnFramesOfOne
        <5> QED
          BY <2>1, <5>1, <5>2, FramesAre
      <4> QED
        BY <4>2
    <3>5. /\ Cardinality(ByVars(id, mod)) = v /\ Cardinality(ByElements(id, mod)) = e
          /\ Cardinality(ByFrames(id, mod)) = f /\ Cardinality(RefsOf(id, mod)) = r
      BY <2>1, HoldersAreCounted DEF Refs, Occurrences
    <3> HIDE DEF r, v, e, f
    <3>6. r = v + e + f
      BY <3>2, <3>3, <3>4
    <3> QED
      BY <3>5, <3>6
  <2>3. (id \in Heap.tempVars) <=> (Heap.vars[id].refs = <<>>)
    BY <2>1 DEF QueueOK
  <2> QED
    BY <2>2, <2>3
<1> QED
  BY Invariance, <1>1, PTL

\* No id below the highest is lost, and none is given out twice
\* (VarMap::GetUnusedID).
THEOREM IdsStay == Spec => []IdsNeitherLostNorTwice
<1>1. Inv => IdsNeitherLostNorTwice
  BY DEF Inv, Ids, IdsOK, Taken, IdsNeitherLostNorTwice
<1> QED
  BY Invariance, <1>1, PTL

\* The array of an event that waits exists until its handler runs, unless a
\* collection or a load came between.
THEOREM EventArgsStay == Spec => []EventArgsWait
<1>1. Inv => EventArgsWait
  BY DEF Inv, Waiting, Heap, EventArgsWait
<1> QED
  BY Invariance, <1>1, PTL

\* The cache of VarMap names an array that exists, or none (VarMap::Get).
THEOREM CacheStaysCurrent == Spec => []CacheIsCurrent
<1>1. Inv => CacheIsCurrent
  BY DEF Inv, Caches, CacheOK, CacheIsCurrent
<1> QED
  BY Invariance, <1>1, PTL

\* The steps that change what the main thread is at.
LEMMA PhaseChanges ==
    ASSUME Next
    PROVE  \/ phase' = phase
           \/ EndScripts \/ EndTick \/ CleanUp
           \/ PreLoad \/ LoadSucceeds \/ LoadFails \/ NewGame
           \/ \E gone \in SUBSET Removable : Restart(gone)
<1>1. ASSUME UNCHANGED engine PROVE phase' = phase
  BY <1>1 DEF engine
<1>2. ASSUME NEW m, Statements(m) PROVE UNCHANGED engine
  BY <1>2 DEF Statements, Construct, Assign, AssignList, ForEach, AssignElement, AssignCopy,
     SetElementTo, SetElementToNew, EraseRange, AssignTo, OnHeap
<1>3. ASSUME NEW m, NEW f, Calls(m, f) PROVE UNCHANGED engine
  BY <1>3 DEF Calls, Call, CallFails, Dispatch
<1>4. ASSUME Continue \/ Break \/ Return PROVE UNCHANGED engine
  BY <1>4 DEF Continue, Break, Return
<1>5. ASSUME NEW h, TileText(h) \/ Deliver(h) PROVE UNCHANGED engine
  BY <1>5 DEF TileText, Deliver
<1>6. ASSUME OtherThread PROVE UNCHANGED engine
  BY <1>6 DEF OtherThread, TakeID, Post
<1>7. ASSUME SaveGame \/ BareLoadFails PROVE phase' = phase
  BY <1>7, <1>1 DEF SaveGame, BareLoadFails
<1> QED
  BY <1>1, <1>2, <1>3, <1>4, <1>5, <1>6, <1>7 DEF Next, Commands, Hooks, Games

\* Only the collection leads from its phase to the scripts.
LEMMA CleanUpOnly ==
    ASSUME [Next]_vars, phase = "clean", phase' = "scripts"
    PROVE  CleanUp
<1>1. phase' # phase
  OBVIOUS
<1>2. Next
  BY <1>1 DEF vars, engine
<1>3. ~EndScripts /\ ~EndTick /\ ~PreLoad /\ ~LoadSucceeds /\ ~LoadFails /\ ~NewGame
  BY DEF EndScripts, EndTick, PreLoad, LoadSucceeds, LoadFails, NewGame, Between
<1>4. \A gone : ~Restart(gone)
  BY DEF Restart
<1> QED
  BY <1>1, <1>2, <1>3, <1>4, PhaseChanges

\* Only PreLoad begins a load.
LEMMA PreLoadOnly ==
    ASSUME Inv, [Next]_vars, phase # "loading", phase' = "loading"
    PROVE  PreLoad
<1>1. phase' # phase
  OBVIOUS
<1>2. Next
  BY <1>1 DEF vars, engine
<1>3. ~EndScripts /\ ~EndTick /\ ~CleanUp /\ ~LoadSucceeds /\ ~LoadFails /\ ~NewGame
  BY DEF EndScripts, EndTick, CleanUp, PhaseEnds, PhaseAfter, LoadSucceeds, LoadFails, NewGame
<1>4. \A gone : ~Restart(gone)
  BY DEF Restart
<1> QED
  BY <1>1, <1>2, <1>3, <1>4, PhaseChanges

-----------------------------------------------------------------------------
(* What a collection leaves.                                               *)

\* The sets of arrays of which each is named by a root, or by one of the set.
Closed(s, roots, S) == S \subseteq Live(s) /\ \A id \in S : id \in roots \cup InArrays(s, S)

\* The largest of the sets that are closed is their union.
LEMMA InUseIs ==
    ASSUME NEW s, NEW roots, NEW L, Closed(s, roots, L),
           \A S : Closed(s, roots, S) => S \subseteq L
    PROVE  InUse(s, roots) = L
<1>1. InUse(s, roots) = UNION {S \in SUBSET Live(s) : \A id \in S : id \in roots \cup InArrays(s, S)}
  BY DEF InUse
<1>2. {S \in SUBSET Live(s) : \A id \in S : id \in roots \cup InArrays(s, S)}
          = {S \in SUBSET Live(s) : Closed(s, roots, S)}
  BY DEF Closed
<1>3. L \in SUBSET Live(s)
  BY DEF Closed
<1> QED
  BY <1>1, <1>2, <1>3

\* What the elements of some arrays name.
LEMMA InArraysMeans ==
    ASSUME NEW s, HeapType(s), NEW S, S \subseteq Live(s), NEW id
    PROVE  id \in InArrays(s, S) <=>
               id \in Live(s) /\ \E h \in S : \E k \in DOMAIN Elements(s, h) : Elements(s, h)[k] = id
<1>1. id \in InArrays(s, S) <=>
          id \in Live(s) /\ \E h \in S : \E k \in ArrayElements(s, h) : Elements(s, h)[k] = id
  <2> DEFINE P(h) == {Elements(s, h)[k] : k \in ArrayElements(s, h)}
             E == UNION {P(h) : h \in S}
  <2>1. InArrays(s, S) = Live(s) \cap E
    BY Zenon DEF InArrays
  <2>2. \A h : id \in P(h) <=> \E k \in ArrayElements(s, h) : Elements(s, h)[k] = id
    OBVIOUS
  <2>3. id \in E <=> \E h \in S : id \in P(h)
    <3> HIDE DEF P
    <3> QED
      OBVIOUS
  <2> HIDE DEF E, P
  <2> QED
    BY <2>1, <2>2, <2>3
<1>2. id \in Live(s) => id # 0 /\ id # Other
  BY OtherAssumption, LiveIsFinite DEF AllIDs
<1>3. ASSUME NEW h \in S, NEW k, id \in Live(s)
      PROVE  (k \in ArrayElements(s, h) /\ Elements(s, h)[k] = id)
                 <=> (k \in DOMAIN Elements(s, h) /\ Elements(s, h)[k] = id)
  BY <1>2, <1>3 DEF ArrayElements
<1> QED
  BY <1>1, <1>3

\* What the collection leaves is what is in use.
LEMMA CollectionIs ==
    ASSUME Inv, fault = "none", phase = "clean", frames = <<>>, loop = <<>>, ~leaked,
           NEW t, t = Clean(state)
    PROVE  Live(t) = InUse(state, {data[v] : v \in Vars})
<1> DEFINE s == state
           roots == {data[v] : v \in Vars}
<1>1. /\ Cleaned(s, t) /\ t.tempVars = {} /\ HeapOK(t) /\ HeapType(t)
      /\ Counted(t, data, loop, frames, leaked) /\ Backed(s)
  BY CleanResult
<1>2. /\ HeapType(s) /\ Counted(s, data, loop, frames, leaked) /\ IsFrames(frames)
  BY InvMeans
<1> HIDE DEF s, roots
<1>3. /\ Live(t) \subseteq Live(s) /\ \A i \in Live(t) : Elements(t, i) = Elements(s, i)
      /\ \A S : Supported(s, S) => S \subseteq Live(t)
  BY <1>1 DEF Cleaned
<1>4. ASSUME NEW S, Closed(s, roots, S) PROVE S \subseteq Live(t)
  <2>1. S \subseteq Live(s)
    BY <1>4 DEF Closed
  <2>2. ASSUME NEW id \in S
        PROVE  \/ Surplus(s, id, Owners) >= 1
               \/ \E h \in S : \E k \in DOMAIN Elements(s, h) : Elements(s, h)[k] = id
    <3>1. CASE id \in roots
      <4>1. PICK v \in Vars : data[v] = id
        BY <3>1 DEF roots
      <4>2. Demand(data, loop, frames, id, Owners) >= 1
        BY <1>2, <4>1, VarDemands, RefersToOwner
      <4>3. id \in AllIDs
        BY <1>2, <2>1, LiveIsFinite
      <4>4. Surplus(s, id, Owners) >= Demand(data, loop, frames, id, Owners)
        BY <1>2, <4>3 DEF Counted, Covered
      <4>5. Surplus(s, id, Owners) \in Int /\ Demand(data, loop, frames, id, Owners) \in Nat
        BY <1>2, SurplusType, DemandType
      <4> QED
        BY <4>2, <4>4, <4>5
    <3>2. CASE id \in InArrays(s, S)
      BY <1>2, <2>1, <3>2, InArraysMeans
    <3> QED
      BY <1>4, <3>1, <3>2 DEF Closed
  <2>3. Supported(s, S)
    BY <2>1, <2>2 DEF Supported
  <2> QED
    BY <1>3, <2>3
<1>5. ASSUME NEW id \in Live(t) PROVE id \in roots \cup InArrays(s, Live(t))
  <2>1. id \in AllIDs /\ t.vars[id].refs # <<>> /\ t.vars[id].refs \in Seq(Owners)
    BY <1>1, ArrayFacts DEF HeapOK, QueueOK
  <2>2. Refs(t, id, Owners) >= 1
    <3> DEFINE r == t.vars[id].refs
    <3> HIDE DEF r
    <3>1. r \in Seq(Owners) /\ r # <<>>
      BY <2>1 DEF r
    <3>2. 1 \in 1 .. Len(r) /\ r[1] \in Owners
      BY <3>1
    <3>3. Occurrences(r, Owners) # 0 /\ Occurrences(r, Owners) \in Nat
      BY <3>1, <3>2, OccurrencesType
    <3> QED
      BY <3>3 DEF Refs, r
  <2>3. Surplus(t, id, Owners) = Demand(data, loop, frames, id, Owners)
    <3>1. Owners \in SUBSET Owners
      OBVIOUS
    <3> QED
      BY <1>1, <2>1, <3>1 DEF Counted, Exact
  <2> DEFINE V == OnVars(data, loop, id, Owners)
             W == Slots(t, id, Owners)
  <2>4. Cardinality(OnFrames(frames, id, Owners)) = 0
    BY OnFramesOfNone
  <2>5. /\ IsFiniteSet(V) /\ Cardinality(V) \in Nat /\ IsFiniteSet(W) /\ Cardinality(W) \in Nat
        /\ Refs(t, id, Owners) \in Nat
    BY <1>1, OnVarsFinite, SlotsAreFinite, SurplusType
  <2>6. Refs(t, id, Owners) - Cardinality(W) = Cardinality(V) + 0
    BY <2>3, <2>4 DEF Surplus, Demand
  <2>7. V # {} \/ W # {}
    <3> HIDE DEF V, W
    <3>1. Cardinality(V) # 0 \/ Cardinality(W) # 0
      BY <2>2, <2>5, <2>6
    <3> QED
      BY <3>1, FS_EmptySet
  <2>8. CASE V # {}
    BY <2>8 DEF OnVars, roots
  <2>9. CASE W # {}
    <3>1. PICK g \in Live(t), k \in Keys : k \in DOMAIN Elements(t, g) /\ Elements(t, g)[k] = id
      BY <2>9 DEF Slots
    <3>2. k \in DOMAIN Elements(s, g) /\ Elements(s, g)[k] = id
      BY <1>3, <3>1
    <3>3. id \in Live(s)
      BY <1>3
    <3> QED
      BY <1>2, <1>3, <3>1, <3>2, <3>3, InArraysMeans
  <2> QED
    BY <2>7, <2>8, <2>9
<1>6. Closed(s, roots, Live(t))
  BY <1>3, <1>5 DEF Closed
<1>7. InUse(s, roots) = Live(t)
  BY <1>4, <1>6, InUseIs
<1> QED
  BY <1>7 DEF s, roots

\* A collection deletes every array that nothing refers to, those it contained
\* included, and no other (ArrayVarMap::Clean).
THEOREM GarbageIsCollected == Spec => CollectsGarbage
<1>1. ASSUME Inv, [Next]_vars
      PROVE  [phase = "clean" /\ phase' = "scripts" /\ ~leaked /\ fault' = "none" =>
                 Live(state') = InUse(state, {data[v] : v \in Vars})]_vars
  <2> SUFFICES ASSUME phase = "clean", phase' = "scripts", ~leaked, fault' = "none"
               PROVE  Live(state') = InUse(state, {data[v] : v \in Vars})
    OBVIOUS
  <2>1. CleanUp
    BY <1>1, CleanUpOnly
  <2>2. /\ fault = "none" /\ frames = <<>> /\ loop = <<>> /\ state' = Clean(state)
    BY <2>1 DEF CleanUp, PhaseEnds, Becomes, BecomesOr
  <2> QED
    BY <1>1, <2>2, CollectionIs
<1> QED
  BY Invariance, <1>1, PTL DEF Spec, CollectsGarbage

-----------------------------------------------------------------------------
(* What a load brings back.                                                *)

\* With no mod missing, each array is what was saved.
LEMMA WholeLoad ==
    ASSUME NEW game, SaveOK(game), absent = {}
    PROVE  LET t == LoadedState(game.arrays) IN t.vars = game.arrays /\ t.tempVars = {}
<1> DEFINE h == SavedArrays(game)
           t == LoadedState(game.arrays)
<1>1. /\ HeapType(h) /\ h.vars = game.arrays /\ Live(h) = DOMAIN game.arrays
      /\ \A id \in Live(h) : h.vars[id].refs # <<>>
  BY SavedMeans
<1>2. /\ LoadedParts(t, game.arrays)
      /\ \A id \in Live(t) :
            /\ id \in Live(h)
            /\ t.vars[id].refs = Kept(h.vars[id].refs, Owners \ absent)
            /\ t.vars[id].owner = IF IsLoaded(h.vars[id].owner) \/ t.vars[id].refs = <<>>
                                  THEN h.vars[id].owner ELSE Head(t.vars[id].refs)
            /\ t.vars[id].packed = h.vars[id].packed
            /\ IsArray(t.vars[id], IDs \cup Live(h))
            /\ Elements(t, id) = Elements(h, id)
  BY LoadedMeans
<1> HIDE DEF h, t
<1>3. /\ HeapRecord(t) /\ IsMap(t.vars) /\ Live(t) = KeptIds(game.arrays)
      /\ t.tempVars = {id \in Live(t) : t.vars[id].refs = <<>>}
  BY <1>2 DEF LoadedParts
<1>4. Live(t) = Live(h)
  BY <1>1, <1>3 DEF KeptIds, IsLoaded
<1>5. ASSUME NEW id \in Live(t)
      PROVE  t.vars[id] = h.vars[id] /\ t.vars[id].refs # <<>>
  <2> DEFINE a == h.vars[id]
             b == t.vars[id]
  <2>1. IsArray(a, IDs \cup Live(h)) /\ a.refs # <<>>
    BY <1>1, <1>4 DEF HeapType
  <2>2. /\ b.refs = Kept(a.refs, Owners) /\ b.owner = a.owner /\ b.packed = a.packed
        /\ ArrayRecord(b) /\ b.elems = a.elems
    BY <1>2 DEF IsLoaded, IsArray, Elements
  <2> HIDE DEF a, b
  <2>3. Kept(a.refs, Owners) = a.refs
    BY <2>1, KeptWhole DEF IsArray
  <2> QED
    BY <2>1, <2>2, <2>3 DEF IsArray, ArrayRecord, a, b
<1>6. t.vars = h.vars
  <2>1. IsMap(h.vars) /\ DOMAIN h.vars = DOMAIN t.vars
    BY <1>1, <1>4 DEF HeapType, Live
  <2> QED
    BY <1>3, <1>5, <2>1 DEF IsMap, Live
<1>7. t.tempVars = {}
  BY <1>3, <1>5
<1> QED
  BY <1>1, <1>6, <1>7 DEF t

\* What a variable holds was saved with a reference of its mod, and has it again.
LEMMA VarsLoad ==
    ASSUME NEW game, SaveOK(game), ~game.leaked, NEW v \in Vars, ModOf[v] \notin absent,
           game.data[v] # 0
    PROVE  LET t == LoadedState(game.arrays) IN
           /\ game.data[v] \in Live(t) \ t.tempVars
           /\ Elements(t, game.data[v]) = game.arrays[game.data[v]].elems
<1> DEFINE h == SavedArrays(game)
           t == LoadedState(game.arrays)
           id == game.data[v]
           c == {ModOf[v]}
<1>1. /\ HeapType(h) /\ h.vars = game.arrays /\ Live(h) = DOMAIN game.arrays
      /\ game.data \in [Vars -> IDs]
      /\ Counted(h, game.data, <<>>, <<>>, game.leaked)
  BY SavedMeans
<1>2. LoadedOf(t, game.arrays, absent) /\ LoadedParts(t, game.arrays)
  BY LoadedIsOf, LoadedMeans
<1> HIDE DEF h, t
<1>3. id \in AllIDs /\ c \in SUBSET Owners
  <2>1. id \in Nat /\ id # 0
    BY <1>1, IDsFacts
  <2> QED
    BY <2>1, ModsAssumption DEF AllIDs, Owners
<1>4. Demand(game.data, <<>>, <<>>, id, c) >= 1
  <2> DEFINE l == <<>>
             f == <<>>
  <2>1. IsFrames(f) /\ DOMAIN l = {}
    BY DEF IsFrames
  <2> HIDE DEF l, f
  <2>2. RefersAs(l, v) \in c
    BY <2>1 DEF RefersAs
  <2>3. Demand(game.data, l, f, id, c) >= 1
    BY <2>1, <2>2, VarDemands
  <2> QED
    BY <2>3 DEF l, f
<1>5. Surplus(h, id, c) = Demand(game.data, <<>>, <<>>, id, c)
  BY <1>1, <1>3 DEF Counted, Exact
<1>6. Refs(h, id, c) \in Nat /\ IsFiniteSet(Slots(h, id, c)) /\ Surplus(h, id, c) \in Int
  BY <1>1, SurplusType, SlotsAreFinite
<1>7. Refs(h, id, c) >= 1
  <2>1. Cardinality(Slots(h, id, c)) \in Nat
    BY <1>6, FS_CardinalityType
  <2>2. Surplus(h, id, c) >= 1 /\ Surplus(h, id, c) = Refs(h, id, c) - Cardinality(Slots(h, id, c))
    BY <1>4, <1>5 DEF Surplus
  <2> QED
    BY <1>6, <2>1, <2>2
<1> DEFINE r == game.arrays[id].refs
           k == Kept(r, Owners \ absent)
<1>8. id \in Live(h) /\ Occurrences(r, c) >= 1 /\ r \in Seq(Owners)
  <2>1. id \in Live(h)
    BY <1>7 DEF Refs
  <2>2. r \in Seq(Owners)
    BY <1>1, <2>1, ArrayFacts
  <2> QED
    BY <1>1, <1>7, <2>1, <2>2 DEF Refs
<1> HIDE DEF id, c
<1>9. k # <<>>
  <2>1. c \cap (Owners \ absent) = c
    BY <1>3 DEF c
  <2>2. Occurrences(k, c) = Occurrences(r, c)
    <3> HIDE DEF r
    <3> QED
      BY <1>8, <2>1, OccurrencesOfKept
  <2> HIDE DEF k
  <2>3. k = <<>> => Occurrences(k, c) = 0
    BY OccurrencesOfEmpty
  <2> QED
    BY <1>8, <2>2, <2>3
<1>10. id \in Live(t) /\ t.vars[id].refs = k /\ Elements(t, id) = game.arrays[id].elems
  BY <1>1, <1>2, <1>8, <1>9 DEF LoadedOf
<1>11. id \notin t.tempVars
  <2> HIDE DEF k
  <2> QED
    BY <1>2, <1>9, <1>10 DEF LoadedParts
<1> QED
  BY <1>10, <1>11 DEF t, id

\* No array is left to a mod that is missing, and none refers.
LEMMA NoneOfMissing ==
    ASSUME NEW game, SaveOK(game)
    PROVE  LET t == LoadedState(game.arrays) IN
           \A id \in Live(t) :
              /\ IsLoaded(t.vars[id].owner)
              /\ \A i \in DOMAIN t.vars[id].refs : IsLoaded(t.vars[id].refs[i])
<1> DEFINE h == SavedArrays(game)
           t == LoadedState(game.arrays)
           K == Owners \ absent
<1>1. HeapType(h) /\ h.vars = game.arrays /\ Live(h) = DOMAIN game.arrays
  BY SavedMeans
<1>2. LoadedOf(t, game.arrays, absent)
  BY LoadedIsOf
<1> HIDE DEF h, t
<1>3. ASSUME NEW id \in Live(t)
      PROVE  /\ IsLoaded(t.vars[id].owner)
             /\ \A i \in DOMAIN t.vars[id].refs : IsLoaded(t.vars[id].refs[i])
  <2> DEFINE r == game.arrays[id].refs
             k == t.vars[id].refs
  <2>1. id \in Live(h) /\ k = Kept(r, K) /\ t.vars[id].owner \notin absent
    BY <1>1, <1>2 DEF LoadedOf
  <2>2. r \in Seq(Owners)
    BY <1>1, <2>1, ArrayFacts
  <2> HIDE DEF r, k
  <2>3. ToSet(k) = ToSet(r) \cap K
    BY <2>1, <2>2, KeptElements
  <2>4. \A i \in DOMAIN k : k[i] \in K
    BY <2>3 DEF ToSet
  <2> QED
    BY <2>1, <2>4 DEF IsLoaded, k
<1> QED
  BY <1>3 DEF t

\* A load brings back what was saved: with the same mods all of it, and otherwise
\* what the variables of the scripts that are there hold; no reference to a mod
\* that is missing stays (ArrayVarMap::Load).
THEOREM LoadsWhatWasSaved == Spec => LoadedAsSaved
<1>1. ASSUME Inv, [Next]_vars
      PROVE  [phase # "loading" /\ phase' = "loading" =>
                /\ absent = {} => state'.vars = save[1].arrays /\ state'.tempVars = {}
                /\ ~save[1].leaked =>
                       \A v \in Vars : LoadedData[v] # 0 =>
                          /\ LoadedData[v] \in Live(state') \ state'.tempVars
                          /\ Elements(state', LoadedData[v]) = save[1].arrays[LoadedData[v]].elems
                /\ \A id \in Live(state') :
                       /\ IsLoaded(state'.vars[id].owner)
                       /\ \A i \in DOMAIN state'.vars[id].refs :
                             IsLoaded(state'.vars[id].refs[i])]_vars
  <2> DEFINE game == save[1]
             t == LoadedState(game.arrays)
  <2> SUFFICES ASSUME phase # "loading", phase' = "loading"
               PROVE  /\ absent = {} => state'.vars = game.arrays /\ state'.tempVars = {}
                      /\ ~game.leaked =>
                             \A v \in Vars : LoadedData[v] # 0 =>
                                /\ LoadedData[v] \in Live(state') \ state'.tempVars
                                /\ Elements(state', LoadedData[v]) = game.arrays[LoadedData[v]].elems
                      /\ \A id \in Live(state') :
                             /\ IsLoaded(state'.vars[id].owner)
                             /\ \A i \in DOMAIN state'.vars[id].refs :
                                   IsLoaded(state'.vars[id].refs[i])
    OBVIOUS
  <2>1. PreLoad
    BY <1>1, PreLoadOnly
  <2>2. save # <<>> /\ state' = t
    BY <2>1 DEF PreLoad, Becomes, BecomesOr
  <2>3. SaveOK(game)
    BY <1>1, <2>2, SaveMeans
  <2> HIDE DEF t, game
  <2>4. absent = {} => t.vars = game.arrays /\ t.tempVars = {}
    BY <2>3, WholeLoad DEF t
  <2>5. ASSUME ~game.leaked, NEW v \in Vars, LoadedData[v] # 0
        PROVE  /\ LoadedData[v] \in Live(t) \ t.tempVars
               /\ Elements(t, LoadedData[v]) = game.arrays[LoadedData[v]].elems
    <3>1. LoadedData[v] = game.data[v] /\ ModOf[v] \notin absent
      BY <2>5 DEF LoadedData, IsLoaded, game
    <3> QED
      BY <2>3, <2>5, <3>1, VarsLoad DEF t
  <2>6. \A id \in Live(t) :
           /\ IsLoaded(t.vars[id].owner)
           /\ \A i \in DOMAIN t.vars[id].refs : IsLoaded(t.vars[id].refs[i])
    BY <2>3, NoneOfMissing DEF t
  <2> QED
    BY <2>2, <2>4, <2>5, <2>6
<1> QED
  BY Invariance, <1>1, PTL DEF Spec, LoadedAsSaved

-----------------------------------------------------------------------------
(* Packed arrays: any number of elements of any values.  What a loop of a  *)
(* command has done is a recursive function of its rounds, so a fact about *)
(* the loop is one about every round, by induction over them: what is      *)
(* moved already is where it is to be, and the rest is where it was.       *)

PackedRound(t, n) ==
    LET curIdx == n - 1
        key == Packed!Min({k \in DOMAIN t : k >= curIdx})
    IN IF key = curIdx THEN t
       ELSE Packed!WithoutKey(Packed!SetElement(t, curIdx, t[key]), key)

PaddedRound(t, n, e, padWith) == Packed!SetElement(t, Packed!Size(e) + n - 1, padWith)

RaisedRound(t, n, e) ==
    LET i == Packed!Size(e) - (n - 1)
    IN Packed!SetElement(t, i, IF i > 0 THEN t[i - 1] ELSE Nothing)

ShiftedRound(t, n, e, delta) ==
    Packed!SetToElement(t, Packed!Size(e) - n, Packed!Size(e) - n - delta)

PutRound(t, n, atIndex, range, isSelf) ==
    IF isSelf THEN Packed!SetToElement(t, atIndex + n - 1, n - 1)
    ELSE Packed!SetElement(t, atIndex + n - 1, range[n - 1])

SlicedRound(done, n, e) ==
    LET key == Packed!Min(done.left)
    IN [left |-> done.left \ {key}, e |-> Packed!SetElement(done.e, n - 1, e[key])]

\* The keys of a slice.
Within(e, lo, hi) == {k \in DOMAIN e : lo <= k /\ k <= hi}

\* The recursive function of Pack is one: it has the values its definition says.
LEMMA PackUnfold ==
    ASSUME NEW e, Packed!Size(e) \in Nat
    PROVE  Packed!Packing(e) = [n \in 0 .. Packed!Size(e) |->
               IF n = 0 THEN e ELSE PackedRound(Packed!Packing(e)[n - 1], n)]
<1> DEFINE Def(f, m) == [n \in 0 .. m |-> IF n = 0 THEN e ELSE PackedRound(f[n - 1], n)]
           T == {m \in Nat : \E f : f = Def(f, m)}
<1>1. 0 \in T
  <2> DEFINE f == [n \in 0 .. 0 |-> e]
  <2>1. f = Def(f, 0)
    OBVIOUS
  <2> QED
    BY <2>1
<1>2. ASSUME NEW m \in Nat, m \in T PROVE m + 1 \in T
  <2>1. PICK f : f = Def(f, m)
    BY <1>2
  <2> DEFINE g == [n \in 0 .. m + 1 |-> IF n <= m THEN f[n] ELSE PackedRound(f[n - 1], n)]
  <2>2. \A n \in 0 .. m : f[n] = IF n = 0 THEN e ELSE PackedRound(f[n - 1], n)
    BY <2>1
  <2>3. \A n \in 0 .. m + 1 : g[n] = IF n = 0 THEN e ELSE PackedRound(g[n - 1], n)
    BY <2>2
  <2>4. g = Def(g, m + 1)
    BY <2>3
  <2> HIDE DEF Def, g
  <2> QED
    BY <2>4
<1>3. T = Nat
  <2> HIDE DEF Def
  <2>1. T \in SUBSET Nat
    OBVIOUS
  <2> HIDE DEF T
  <2> QED
    BY <1>1, <1>2, <2>1, SetInduction
<1>4. \E f : f = Def(f, Packed!Size(e))
  BY <1>3
<1> QED
  BY <1>4, Zenon DEF Packed!Packing, PackedRound

\* Of the elements that are moved together in turn: the next.
LEMMA PackStep ==
    ASSUME NEW e, Packed!Size(e) \in Nat
    PROVE  /\ Packed!Packing(e)[0] = e
           /\ \A n \in 1 .. Packed!Size(e) :
                 Packed!Packing(e)[n] = PackedRound(Packed!Packing(e)[n - 1], n)
<1> DEFINE F == Packed!Packing(e)
<1>1. F = [n \in 0 .. Packed!Size(e) |-> IF n = 0 THEN e ELSE PackedRound(F[n - 1], n)]
  BY PackUnfold
<1> HIDE DEF F
<1>2. F[0] = e /\ \A n \in 1 .. Packed!Size(e) : n \in 0 .. Packed!Size(e) /\ n # 0
  BY <1>1
<1>3. \A n \in 0 .. Packed!Size(e) : F[n] = IF n = 0 THEN e ELSE PackedRound(F[n - 1], n)
  BY <1>1
<1> QED
  BY <1>2, <1>3 DEF F

\* The recursive function of SetSize is one: it has the values its definition says.
LEMMA PaddingUnfold ==
    ASSUME NEW e, NEW newSize, NEW padWith, newSize - Packed!Size(e) \in Nat
    PROVE  Packed!Padding(e, newSize, padWith) = [n \in 0 .. newSize - Packed!Size(e) |->
               IF n = 0 THEN e
                     ELSE PaddedRound(Packed!Padding(e, newSize, padWith)[n - 1], n, e, padWith)]
<1> DEFINE Def(f, m) == [n \in 0 .. m |-> IF n = 0 THEN e
          ELSE PaddedRound(f[n - 1], n, e, padWith)]
           T == {m \in Nat : \E f : f = Def(f, m)}
<1>1. 0 \in T
  <2> DEFINE f == [n \in 0 .. 0 |-> e]
  <2>1. f = Def(f, 0)
    OBVIOUS
  <2> QED
    BY <2>1
<1>2. ASSUME NEW m \in Nat, m \in T PROVE m + 1 \in T
  <2>1. PICK f : f = Def(f, m)
    BY <1>2
  <2> DEFINE g == [n \in 0 .. m + 1 |-> IF n <= m THEN f[n]
        ELSE PaddedRound(f[n - 1], n, e, padWith)]
  <2>2. \A n \in 0 .. m : f[n] = IF n = 0 THEN e ELSE PaddedRound(f[n - 1], n, e, padWith)
    BY <2>1
  <2>3. \A n \in 0 .. m + 1 : g[n] = IF n = 0 THEN e ELSE PaddedRound(g[n - 1], n, e, padWith)
    BY <2>2
  <2>4. g = Def(g, m + 1)
    BY <2>3
  <2> HIDE DEF Def, g
  <2> QED
    BY <2>4
<1>3. T = Nat
  <2> HIDE DEF Def
  <2>1. T \in SUBSET Nat
    OBVIOUS
  <2> HIDE DEF T
  <2> QED
    BY <1>1, <1>2, <2>1, SetInduction
<1>4. \E f : f = Def(f, newSize - Packed!Size(e))
  BY <1>3
<1> QED
  BY <1>4, Zenon DEF Packed!Padding, PaddedRound

\* Of the elements appended in turn: the next.
LEMMA PaddingStep ==
    ASSUME NEW e, NEW newSize, NEW padWith, newSize - Packed!Size(e) \in Nat
    PROVE  /\ Packed!Padding(e, newSize, padWith)[0] = e
           /\ \A n \in 1 .. newSize - Packed!Size(e) :
                 Packed!Padding(e, newSize, padWith)[n] =
                       PaddedRound(Packed!Padding(e, newSize, padWith)[n - 1], n, e, padWith)
<1> DEFINE F == Packed!Padding(e, newSize, padWith)
<1>1. F = [n \in 0 .. newSize - Packed!Size(e) |-> IF n = 0 THEN e
          ELSE PaddedRound(F[n - 1], n, e, padWith)]
  BY PaddingUnfold
<1> HIDE DEF F
<1>2. F[0] = e
          /\ \A n \in 1 .. newSize - Packed!Size(e) : n \in 0 .. newSize - Packed!Size(e) /\ n # 0
  BY <1>1
<1>3. \A n \in 0 .. newSize - Packed!Size(e) : F[n] = IF n = 0 THEN e
          ELSE PaddedRound(F[n - 1], n, e, padWith)
  BY <1>1
<1> QED
  BY <1>2, <1>3 DEF F

\* The recursive function of Insert is one: it has the values its definition says.
LEMMA RaisingUnfold ==
    ASSUME NEW e, NEW atIndex, Packed!Size(e) - atIndex + 1 \in Nat
    PROVE  Packed!Raising(e, atIndex) = [n \in 0 .. Packed!Size(e) - atIndex + 1 |->
               IF n = 0 THEN e ELSE RaisedRound(Packed!Raising(e, atIndex)[n - 1], n, e)]
<1> DEFINE Def(f, m) == [n \in 0 .. m |-> IF n = 0 THEN e ELSE RaisedRound(f[n - 1], n, e)]
           T == {m \in Nat : \E f : f = Def(f, m)}
<1>1. 0 \in T
  <2> DEFINE f == [n \in 0 .. 0 |-> e]
  <2>1. f = Def(f, 0)
    OBVIOUS
  <2> QED
    BY <2>1
<1>2. ASSUME NEW m \in Nat, m \in T PROVE m + 1 \in T
  <2>1. PICK f : f = Def(f, m)
    BY <1>2
  <2> DEFINE g == [n \in 0 .. m + 1 |-> IF n <= m THEN f[n] ELSE RaisedRound(f[n - 1], n, e)]
  <2>2. \A n \in 0 .. m : f[n] = IF n = 0 THEN e ELSE RaisedRound(f[n - 1], n, e)
    BY <2>1
  <2>3. \A n \in 0 .. m + 1 : g[n] = IF n = 0 THEN e ELSE RaisedRound(g[n - 1], n, e)
    BY <2>2
  <2>4. g = Def(g, m + 1)
    BY <2>3
  <2> HIDE DEF Def, g
  <2> QED
    BY <2>4
<1>3. T = Nat
  <2> HIDE DEF Def
  <2>1. T \in SUBSET Nat
    OBVIOUS
  <2> HIDE DEF T
  <2> QED
    BY <1>1, <1>2, <2>1, SetInduction
<1>4. \E f : f = Def(f, Packed!Size(e) - atIndex + 1)
  BY <1>3
<1> QED
  BY <1>4, Zenon DEF Packed!Raising, RaisedRound

\* Of the elements moved up by one in turn: the next.
LEMMA RaisingStep ==
    ASSUME NEW e, NEW atIndex, Packed!Size(e) - atIndex + 1 \in Nat
    PROVE  /\ Packed!Raising(e, atIndex)[0] = e
           /\ \A n \in 1 .. Packed!Size(e) - atIndex + 1 :
                 Packed!Raising(e, atIndex)[n] =
                       RaisedRound(Packed!Raising(e, atIndex)[n - 1], n, e)
<1> DEFINE F == Packed!Raising(e, atIndex)
<1>1. F = [n \in 0 .. Packed!Size(e) - atIndex + 1 |-> IF n = 0 THEN e
          ELSE RaisedRound(F[n - 1], n, e)]
  BY RaisingUnfold
<1> HIDE DEF F
<1>2. F[0] = e
          /\ \A n \in 1 .. Packed!Size(e) - atIndex + 1 : n \in 0 .. Packed!Size(e) - atIndex + 1 /\ n # 0
  BY <1>1
<1>3. \A n \in 0 .. Packed!Size(e) - atIndex + 1 : F[n] = IF n = 0 THEN e
          ELSE RaisedRound(F[n - 1], n, e)
  BY <1>1
<1> QED
  BY <1>2, <1>3 DEF F

\* The recursive function of InsertRange is one: it has the values its definition says.
LEMMA ShiftingUnfold ==
    ASSUME NEW e, NEW delta, NEW rounds, rounds \in Nat
    PROVE  Packed!Shifting(e, delta, rounds) = [n \in 0 .. rounds |->
               IF n = 0 THEN e
                     ELSE ShiftedRound(Packed!Shifting(e, delta, rounds)[n - 1], n, e, delta)]
<1> DEFINE Def(f, m) == [n \in 0 .. m |-> IF n = 0 THEN e
          ELSE ShiftedRound(f[n - 1], n, e, delta)]
           T == {m \in Nat : \E f : f = Def(f, m)}
<1>1. 0 \in T
  <2> DEFINE f == [n \in 0 .. 0 |-> e]
  <2>1. f = Def(f, 0)
    OBVIOUS
  <2> QED
    BY <2>1
<1>2. ASSUME NEW m \in Nat, m \in T PROVE m + 1 \in T
  <2>1. PICK f : f = Def(f, m)
    BY <1>2
  <2> DEFINE g == [n \in 0 .. m + 1 |-> IF n <= m THEN f[n]
        ELSE ShiftedRound(f[n - 1], n, e, delta)]
  <2>2. \A n \in 0 .. m : f[n] = IF n = 0 THEN e ELSE ShiftedRound(f[n - 1], n, e, delta)
    BY <2>1
  <2>3. \A n \in 0 .. m + 1 : g[n] = IF n = 0 THEN e ELSE ShiftedRound(g[n - 1], n, e, delta)
    BY <2>2
  <2>4. g = Def(g, m + 1)
    BY <2>3
  <2> HIDE DEF Def, g
  <2> QED
    BY <2>4
<1>3. T = Nat
  <2> HIDE DEF Def
  <2>1. T \in SUBSET Nat
    OBVIOUS
  <2> HIDE DEF T
  <2> QED
    BY <1>1, <1>2, <2>1, SetInduction
<1>4. \E f : f = Def(f, rounds)
  BY <1>3
<1> QED
  BY <1>4, Zenon DEF Packed!Shifting, ShiftedRound

\* Of the elements moved up by delta in turn: the next.
LEMMA ShiftingStep ==
    ASSUME NEW e, NEW delta, NEW rounds, rounds \in Nat
    PROVE  /\ Packed!Shifting(e, delta, rounds)[0] = e
           /\ \A n \in 1 .. rounds :
                 Packed!Shifting(e, delta, rounds)[n] =
                       ShiftedRound(Packed!Shifting(e, delta, rounds)[n - 1], n, e, delta)
<1> DEFINE F == Packed!Shifting(e, delta, rounds)
<1>1. F = [n \in 0 .. rounds |-> IF n = 0 THEN e ELSE ShiftedRound(F[n - 1], n, e, delta)]
  BY ShiftingUnfold
<1> HIDE DEF F
<1>2. F[0] = e /\ \A n \in 1 .. rounds : n \in 0 .. rounds /\ n # 0
  BY <1>1
<1>3. \A n \in 0 .. rounds : F[n] = IF n = 0 THEN e ELSE ShiftedRound(F[n - 1], n, e, delta)
  BY <1>1
<1> QED
  BY <1>2, <1>3 DEF F

\* The recursive function of InsertRange is one: it has the values its definition says.
LEMMA PuttingUnfold ==
    ASSUME NEW e, NEW atIndex, NEW range, NEW isSelf, Packed!Size(range) \in Nat
    PROVE  Packed!Putting(e, atIndex, range, isSelf) = [n \in 0 .. Packed!Size(range) |->
               IF n = 0 THEN e
                     ELSE PutRound(Packed!Putting(e, atIndex, range, isSelf)[n - 1], n, atIndex, range, isSelf)]
<1> DEFINE Def(f, m) == [n \in 0 .. m |-> IF n = 0 THEN e
          ELSE PutRound(f[n - 1], n, atIndex, range, isSelf)]
           T == {m \in Nat : \E f : f = Def(f, m)}
<1>1. 0 \in T
  <2> DEFINE f == [n \in 0 .. 0 |-> e]
  <2>1. f = Def(f, 0)
    OBVIOUS
  <2> QED
    BY <2>1
<1>2. ASSUME NEW m \in Nat, m \in T PROVE m + 1 \in T
  <2>1. PICK f : f = Def(f, m)
    BY <1>2
  <2> DEFINE g == [n \in 0 .. m + 1 |-> IF n <= m THEN f[n]
        ELSE PutRound(f[n - 1], n, atIndex, range, isSelf)]
  <2>2. \A n \in 0 .. m : f[n] = IF n = 0 THEN e
        ELSE PutRound(f[n - 1], n, atIndex, range, isSelf)
    BY <2>1
  <2>3. \A n \in 0 .. m + 1 : g[n] = IF n = 0 THEN e
        ELSE PutRound(g[n - 1], n, atIndex, range, isSelf)
    BY <2>2
  <2>4. g = Def(g, m + 1)
    BY <2>3
  <2> HIDE DEF Def, g
  <2> QED
    BY <2>4
<1>3. T = Nat
  <2> HIDE DEF Def
  <2>1. T \in SUBSET Nat
    OBVIOUS
  <2> HIDE DEF T
  <2> QED
    BY <1>1, <1>2, <2>1, SetInduction
<1>4. \E f : f = Def(f, Packed!Size(range))
  BY <1>3
<1> QED
  BY <1>4, Zenon DEF Packed!Putting, PutRound

\* Of the elements written in turn: the next.
LEMMA PuttingStep ==
    ASSUME NEW e, NEW atIndex, NEW range, NEW isSelf, Packed!Size(range) \in Nat
    PROVE  /\ Packed!Putting(e, atIndex, range, isSelf)[0] = e
           /\ \A n \in 1 .. Packed!Size(range) :
                 Packed!Putting(e, atIndex, range, isSelf)[n] =
                       PutRound(Packed!Putting(e, atIndex, range, isSelf)[n - 1], n, atIndex, range, isSelf)
<1> DEFINE F == Packed!Putting(e, atIndex, range, isSelf)
<1>1. F = [n \in 0 .. Packed!Size(range) |-> IF n = 0 THEN e
          ELSE PutRound(F[n - 1], n, atIndex, range, isSelf)]
  BY PuttingUnfold
<1> HIDE DEF F
<1>2. F[0] = e /\ \A n \in 1 .. Packed!Size(range) : n \in 0 .. Packed!Size(range) /\ n # 0
  BY <1>1
<1>3. \A n \in 0 .. Packed!Size(range) : F[n] = IF n = 0 THEN e
          ELSE PutRound(F[n - 1], n, atIndex, range, isSelf)
  BY <1>1
<1> QED
  BY <1>2, <1>3 DEF F

\* The recursive function of MakeSlice is one: it has the values its definition says.
LEMMA SlicingUnfold ==
    ASSUME NEW e, NEW lo, NEW hi, Packed!Cardinality(Within(e, lo, hi)) \in Nat
    PROVE  Packed!Slicing(e, lo, hi) = [n \in 0 .. Packed!Cardinality(Within(e, lo, hi)) |->
               IF n = 0 THEN [left |-> Within(e, lo, hi), e |-> Packed!Empty]
                     ELSE SlicedRound(Packed!Slicing(e, lo, hi)[n - 1], n, e)]
<1> DEFINE Def(f, m) == [n \in 0 .. m |-> IF n =
          0 THEN [left |-> Within(e, lo, hi), e |-> Packed!Empty] ELSE SlicedRound(f[n - 1], n, e)]
           T == {m \in Nat : \E f : f = Def(f, m)}
<1>1. 0 \in T
  <2> DEFINE f == [n \in 0 .. 0 |-> [left |-> Within(e, lo, hi), e |-> Packed!Empty]]
  <2>1. f = Def(f, 0)
    OBVIOUS
  <2> QED
    BY <2>1
<1>2. ASSUME NEW m \in Nat, m \in T PROVE m + 1 \in T
  <2>1. PICK f : f = Def(f, m)
    BY <1>2
  <2> DEFINE g == [n \in 0 .. m + 1 |-> IF n <= m THEN f[n] ELSE SlicedRound(f[n - 1], n, e)]
  <2>2. \A n \in 0 .. m : f[n] =
        IF n = 0 THEN [left |-> Within(e, lo, hi), e |-> Packed!Empty] ELSE SlicedRound(f[n - 1], n, e)
    BY <2>1
  <2>3. \A n \in 0 .. m + 1 : g[n] =
        IF n = 0 THEN [left |-> Within(e, lo, hi), e |-> Packed!Empty] ELSE SlicedRound(g[n - 1], n, e)
    BY <2>2
  <2>4. g = Def(g, m + 1)
    BY <2>3
  <2> HIDE DEF Def, g
  <2> QED
    BY <2>4
<1>3. T = Nat
  <2> HIDE DEF Def
  <2>1. T \in SUBSET Nat
    OBVIOUS
  <2> HIDE DEF T
  <2> QED
    BY <1>1, <1>2, <2>1, SetInduction
<1>4. \E f : f = Def(f, Packed!Cardinality(Within(e, lo, hi)))
  BY <1>3
<1> QED
  BY <1>4, Zenon DEF Packed!Slicing, SlicedRound, Within

\* Of the elements copied in turn: the next.
LEMMA SlicingStep ==
    ASSUME NEW e, NEW lo, NEW hi, Packed!Cardinality(Within(e, lo, hi)) \in Nat
    PROVE  /\ Packed!Slicing(e, lo, hi)[0] = [left |-> Within(e, lo, hi), e |-> Packed!Empty]
           /\ \A n \in 1 .. Packed!Cardinality(Within(e, lo, hi)) :
                 Packed!Slicing(e, lo, hi)[n] =
                       SlicedRound(Packed!Slicing(e, lo, hi)[n - 1], n, e)
<1> DEFINE F == Packed!Slicing(e, lo, hi)
<1>1. F =
          [n \in 0 .. Packed!Cardinality(Within(e, lo, hi)) |-> IF n = 0 THEN [left |-> Within(e, lo, hi), e |-> Packed!Empty] ELSE SlicedRound(F[n - 1], n, e)]
  BY SlicingUnfold
<1> HIDE DEF F
<1>2. F[0] = [left |-> Within(e, lo, hi), e |-> Packed!Empty]
          /\ \A n \in 1 .. Packed!Cardinality(Within(e, lo, hi)) : n \in 0 .. Packed!Cardinality(Within(e, lo, hi)) /\ n # 0
  BY <1>1
<1>3. \A n \in 0 .. Packed!Cardinality(Within(e, lo, hi)) : F[n] =
          IF n = 0 THEN [left |-> Within(e, lo, hi), e |-> Packed!Empty] ELSE SlicedRound(F[n - 1], n, e)
  BY <1>1
<1> QED
  BY <1>2, <1>3 DEF F

\* The operators of the library are the same ones in the instance.
LEMMA SameOperators ==
    \A S : Packed!Cardinality(S) = Cardinality(S) /\ Packed!Min(S) = Min(S)
BY Zenon DEF Packed!Cardinality, Cardinality, Packed!Min, Min

Cells == Values \cup {Nothing}

\* A packed array of n elements: its keys are the first numbers.
IsCells(e, n) == n \in Nat /\ e \in [0 .. n - 1 -> Cells]

\* Its size is the number of its keys.
LEMMA SizeOfCells ==
    ASSUME NEW e, NEW n, IsCells(e, n)
    PROVE  Packed!Size(e) = n /\ DOMAIN e = 0 .. n - 1 /\ n \in Nat
<1>1. n \in Nat /\ DOMAIN e = 0 .. n - 1
  BY DEF IsCells
<1>2. Cardinality(0 .. n - 1) = n
  BY <1>1, FS_Interval
<1>3. Packed!Size(e) = Cardinality(DOMAIN e)
  BY SameOperators DEF Packed!Size
<1> QED
  BY <1>1, <1>2, <1>3

\* A key that is there, or the next one, is set.
LEMMA SetElementIs ==
    \A e, key, value : key \in Nat /\ key \in DOMAIN e \cup (0 .. Packed!Size(e)) =>
        Packed!SetElement(e, key, value) =
            With(e, key, value)
<1>1. \A key \in Nat : ~(key < 0)
  OBVIOUS
<1> QED
  BY <1>1, Zenon DEF Packed!SetElement, With

\* Writing an element of a packed array.
LEMMA SetCell ==
    ASSUME NEW e, NEW n, IsCells(e, n), NEW key \in 0 .. n - 1, NEW value \in Cells
    PROVE  /\ IsCells(Packed!SetElement(e, key, value), n)
           /\ Packed!SetElement(e, key, value)[key] = value
           /\ \A i \in 0 .. n - 1 : i # key => Packed!SetElement(e, key, value)[i] = e[i]
<1> DEFINE t == Packed!SetElement(e, key, value)
<1>1. n \in Nat /\ DOMAIN e = 0 .. n - 1 /\ Packed!Size(e) = n
  BY SizeOfCells
<1>2. \A i \in 0 .. n - 1 : e[i] \in Cells
  BY DEF IsCells
<1>3. key \in Nat /\ key \in DOMAIN e \cup (0 .. Packed!Size(e))
  BY <1>1
<1>4. t = With(e, key, value)
  BY <1>3, SetElementIs
<1>5. DOMAIN e \cup {key} = 0 .. n - 1
  BY <1>1
<1>6. t = [i \in 0 .. n - 1 |-> IF i = key THEN value ELSE e[i]]
  BY <1>4, <1>5 DEF With
<1> HIDE DEF t
<1>7. t \in [0 .. n - 1 -> Cells]
  BY <1>2, <1>6
<1>8. IsCells(t, n)
  BY <1>1, <1>7 DEF IsCells
<1>9. t[key] = value /\ \A i \in 0 .. n - 1 : i # key => t[i] = e[i]
  BY <1>6
<1> QED
  BY <1>8, <1>9 DEF t

\* Appending to one.
LEMMA AddCell ==
    ASSUME NEW e, NEW n, IsCells(e, n), NEW value \in Cells
    PROVE  /\ IsCells(Packed!SetElement(e, n, value), n + 1)
           /\ Packed!SetElement(e, n, value)[n] = value
           /\ \A i \in 0 .. n - 1 : Packed!SetElement(e, n, value)[i] = e[i]
<1> DEFINE t == Packed!SetElement(e, n, value)
<1>1. n \in Nat /\ DOMAIN e = 0 .. n - 1 /\ Packed!Size(e) = n
  BY SizeOfCells
<1>2. \A i \in 0 .. n - 1 : e[i] \in Cells
  BY DEF IsCells
<1>3. n \in DOMAIN e \cup (0 .. Packed!Size(e))
  BY <1>1
<1>4. t = With(e, n, value)
  BY <1>1, <1>3, SetElementIs
<1>5. DOMAIN e \cup {n} = 0 .. n + 1 - 1
  BY <1>1
<1>6. t = [i \in 0 .. n + 1 - 1 |-> IF i = n THEN value ELSE e[i]]
  BY <1>4, <1>5 DEF With
<1> HIDE DEF t
<1>7. \A i \in 0 .. n + 1 - 1 : (IF i = n THEN value ELSE e[i]) \in Cells
  BY <1>1, <1>2
<1>8. t \in [0 .. n + 1 - 1 -> Cells]
  BY <1>6, <1>7
<1>9. IsCells(t, n + 1)
  BY <1>1, <1>8 DEF IsCells
<1>10. t[n] = value /\ \A i \in 0 .. n - 1 : t[i] = e[i]
  BY <1>1, <1>6
<1> QED
  BY <1>9, <1>10 DEF t

\* Appending in turn.
LEMMA PaddingIs ==
    ASSUME NEW e, NEW n, IsCells(e, n), NEW size \in Nat, n <= size, NEW pad \in Cells, NEW t,
           t = Packed!Padding(e, size, pad)[size - n]
    PROVE  /\ IsCells(t, size)
           /\ \A i \in 0 .. n - 1 : t[i] = e[i]
           /\ \A i \in n .. size - 1 : t[i] = pad
<1> DEFINE F == Packed!Padding(e, size, pad)
           P(k) == /\ IsCells(F[k], n + k)
                   /\ \A i \in 0 .. n - 1 : F[k][i] = e[i]
                   /\ \A i \in n .. n + k - 1 : F[k][i] = pad
           T == {k \in Nat : k <= size - n => P(k)}
<1>0. n \in Nat /\ Packed!Size(e) = n
  BY SizeOfCells
<1>1. /\ F[0] = e
      /\ \A k \in 1 .. size - n : F[k] = Packed!SetElement(F[k - 1], n + k - 1, pad)
  BY <1>0, PaddingStep DEF PaddedRound
<1> HIDE DEF F
<1>2. 0 \in T
  <2>1. IsCells(F[0], n + 0)
    BY <1>0, <1>1
  <2>2. P(0)
    BY <1>0, <1>1, <2>1
  <2> HIDE DEF P
  <2> QED
    BY <2>2
<1>3. ASSUME NEW k \in Nat, k \in T PROVE k + 1 \in T
  <2>1. SUFFICES ASSUME k + 1 <= size - n PROVE P(k + 1)
    OBVIOUS
  <2>2. P(k)
    BY <1>0, <1>3, <2>1
  <2>3. F[k + 1] = Packed!SetElement(F[k], n + k, pad)
    BY <1>0, <1>1, <2>1
  <2> DEFINE m == n + k
  <2>4. IsCells(F[k], m) /\ F[k + 1] = Packed!SetElement(F[k], m, pad)
    BY <2>2, <2>3
  <2>5. /\ IsCells(F[k + 1], m + 1)
        /\ F[k + 1][m] = pad
        /\ \A i \in 0 .. m - 1 : F[k + 1][i] = F[k][i]
    <3> HIDE DEF m
    <3> QED
      BY <2>4, AddCell
  <2>6. m + 1 = n + (k + 1)
    BY <1>0
  <2> QED
    BY <1>0, <2>2, <2>5, <2>6
<1>4. T = Nat
  <2>1. T \in SUBSET Nat
    OBVIOUS
  <2> HIDE DEF T
  <2> QED
    BY <1>2, <1>3, <2>1, SetInduction
<1>5. size - n \in Nat /\ n + (size - n) = size
  BY <1>0
<1>6. P(size - n)
  BY <1>4, <1>5
<1>7. t = F[size - n]
  BY DEF F
<1> QED
  BY <1>0, <1>5, <1>6, <1>7

\* Moving up by one, for the new element.
LEMMA RaisingIs ==
    ASSUME NEW e, NEW n, IsCells(e, n), NEW at \in 0 .. n - 1, NEW t,
           t = Packed!Raising(e, at)[n - at + 1]
    PROVE  /\ IsCells(t, n + 1)
           /\ \A i \in 0 .. at - 1 : t[i] = e[i]
           /\ \A i \in at + 1 .. n : t[i] = e[i - 1]
<1> DEFINE F == Packed!Raising(e, at)
           P(k) == /\ IsCells(F[k], IF k = 0 THEN n ELSE n + 1)
                   /\ \A i \in 0 .. n - k : i < n => F[k][i] = e[i]
                   /\ \A i \in n - k + 1 .. n : i > 0 => F[k][i] = e[i - 1]
           T == {k \in Nat : k <= n - at + 1 => P(k)}
<1>0. n \in Nat /\ Packed!Size(e) = n /\ \A i \in 0 .. n - 1 : e[i] \in Cells
  BY SizeOfCells DEF IsCells
<1>1. /\ F[0] = e
      /\ \A k \in 1 .. n - at + 1 :
            F[k] = Packed!SetElement(F[k - 1], n - (k - 1),
                       IF n - (k - 1) > 0 THEN F[k - 1][n - (k - 1) - 1] ELSE Nothing)
  <2>1. /\ F[0] = e
        /\ \A k \in 1 .. n - at + 1 : F[k] = RaisedRound(F[k - 1], k, e)
    BY <1>0, RaisingStep
  <2> HIDE DEF F
  <2> QED
    BY <1>0, <2>1, Zenon DEF RaisedRound
<1> HIDE DEF F
<1>2. 0 \in T
  <2>1. P(0)
    BY <1>0, <1>1
  <2> HIDE DEF P
  <2> QED
    BY <2>1
<1>3. ASSUME NEW k \in Nat, k \in T PROVE k + 1 \in T
  <2>1. SUFFICES ASSUME k + 1 <= n - at + 1 PROVE P(k + 1)
    OBVIOUS
  <2>2. P(k)
    BY <1>0, <1>3, <2>1
  <2> DEFINE v == IF n - k > 0 THEN F[k][n - k - 1] ELSE Nothing
             m == IF k = 0 THEN n ELSE n + 1
  <2>3. F[k + 1] = Packed!SetElement(F[k], n - k, v)
    BY <1>0, <1>1, <2>1
  <2>4. n - k > 0 => F[k][n - k - 1] = e[n - k - 1] /\ e[n - k - 1] \in Cells
    BY <1>0, <2>2
  <2>5. v \in Cells /\ n - k \in 0 .. m
    BY <1>0, <2>1, <2>4 DEF Cells
  <2>6. n - k > 0 => v = e[n - k - 1]
    BY <2>4
  <2>7. IsCells(F[k], m)
    BY <2>2
  <2> HIDE DEF v
  <2> DEFINE Done == /\ IsCells(F[k + 1], n + 1) /\ F[k + 1][n - k] = v
                     /\ \A i \in 0 .. n : i # n - k /\ (k = 0 => i # n) => F[k + 1][i] = F[k][i]
  <2>8. ASSUME k = 0 PROVE Done
    <3>1. n - k = n /\ m = n
      BY <1>0, <2>8
    <3>2. IsCells(F[k], n) /\ F[k + 1] = Packed!SetElement(F[k], n, v)
      BY <2>3, <2>7, <3>1
    <3>3. /\ IsCells(F[k + 1], n + 1) /\ F[k + 1][n] = v
          /\ \A i \in 0 .. n - 1 : F[k + 1][i] = F[k][i]
      BY <2>5, <3>2, AddCell
    <3> QED
      BY <1>0, <2>8, <3>1, <3>3
  <2>9. ASSUME k # 0 PROVE Done
    <3>1. m = n + 1 /\ n - k \in 0 .. m - 1
      BY <1>0, <2>1, <2>9
    <3>2. /\ IsCells(F[k + 1], m) /\ F[k + 1][n - k] = v
          /\ \A i \in 0 .. m - 1 : i # n - k => F[k + 1][i] = F[k][i]
      <4> HIDE DEF m
      <4> QED
        BY <2>3, <2>5, <2>7, <3>1, SetCell
    <3> QED
      BY <1>0, <3>1, <3>2
  <2>10. /\ IsCells(F[k + 1], n + 1) /\ F[k + 1][n - k] = v
         /\ \A i \in 0 .. n : i # n - k /\ (k = 0 => i # n) => F[k + 1][i] = F[k][i]
    BY <2>8, <2>9
  <2>11. \A i \in 0 .. n - (k + 1) : i < n => F[k + 1][i] = e[i]
    BY <1>0, <2>2, <2>10
  <2>12. ASSUME NEW i \in n - k .. n, i > 0 PROVE F[k + 1][i] = e[i - 1]
    <3>1. CASE i = n - k
      BY <1>0, <2>6, <2>10, <2>12, <3>1
    <3>2. CASE i # n - k
      <4>1. i \in n - k + 1 .. n /\ k # 0 /\ i \in 0 .. n
        BY <1>0, <2>1, <2>12, <3>2
      <4>2. F[k][i] = e[i - 1]
        BY <2>2, <2>12, <4>1
      <4> QED
        BY <2>10, <3>2, <4>1, <4>2
    <3> QED
      BY <3>1, <3>2
  <2> QED
    BY <1>0, <2>10, <2>11, <2>12
<1>4. T = Nat
  <2>1. T \in SUBSET Nat
    OBVIOUS
  <2> HIDE DEF T
  <2> QED
    BY <1>2, <1>3, <2>1, SetInduction
<1>5. n - at + 1 \in Nat /\ n - at + 1 # 0 /\ n - (n - at + 1) = at - 1
  BY <1>0
<1>6. P(n - at + 1)
  BY <1>4, <1>5
<1> QED
  BY <1>0, <1>5, <1>6 DEF F

\* Insertion of one element.
LEMMA InsertOneIs ==
    ASSUME NEW e, NEW n, IsCells(e, n), NEW at \in 0 .. n, NEW v \in Cells, NEW t,
           t = Packed!Insert(e, at, v)
    PROVE  /\ IsCells(t, n + 1)
           /\ \A i \in 0 .. at - 1 : t[i] = e[i]
           /\ t[at] = v
           /\ \A i \in at + 1 .. n : t[i] = e[i - 1]
<1>0. n \in Nat /\ Packed!Size(e) = n
  BY SizeOfCells
<1>1. CASE at < n
  <2> DEFINE r == Packed!Raising(e, at)[n - at + 1]
  <2>1. t = Packed!SetElement(r, at, v)
    BY <1>0, <1>1 DEF Packed!Insert
  <2>2. at \in 0 .. n - 1
    BY <1>0, <1>1
  <2> HIDE DEF r
  <2>3. /\ IsCells(r, n + 1)
        /\ \A i \in 0 .. at - 1 : r[i] = e[i]
        /\ \A i \in at + 1 .. n : r[i] = e[i - 1]
    BY <2>2, RaisingIs DEF r
  <2>4. at \in 0 .. n + 1 /\ at # n + 1
    BY <1>0, <1>1
  <2> DEFINE m == n + 1
  <2>5. IsCells(r, m) /\ at \in 0 .. m - 1
    BY <1>0, <1>1, <2>3
  <2>6. m = n + 1
    OBVIOUS
  <2> HIDE DEF m
  <2>7. /\ IsCells(t, m) /\ t[at] = v
        /\ \A i \in 0 .. m - 1 : i # at => t[i] = r[i]
    BY <2>1, <2>5, SetCell
  <2> QED
    BY <1>0, <1>1, <2>3, <2>6, <2>7
<1>2. CASE at = n
  <2>1. t = Packed!SetElement(e, n, v)
    BY <1>0, <1>2 DEF Packed!Insert
  <2>2. /\ IsCells(t, n + 1) /\ t[n] = v
        /\ \A i \in 0 .. n - 1 : i # n => t[i] = e[i]
    BY <2>1, AddCell
  <2> QED
    BY <1>0, <1>2, <2>2
<1> QED
  BY <1>0, <1>1, <1>2

\* Moving the elements from at on up by m, to make room.
LEMMA ShiftingIs ==
    ASSUME NEW e, NEW n \in Nat, NEW m \in Nat, NEW N, N = n + m, IsCells(e, N),
           NEW at \in 0 .. n, NEW t, t = Packed!Shifting(e, m, n - at)[n - at]
    PROVE  /\ IsCells(t, N)
           /\ \A i \in 0 .. at - 1 : t[i] = e[i]
           /\ m > 0 => \A i \in at + m .. N - 1 : t[i] = e[i - m]
<1> DEFINE F == Packed!Shifting(e, m, n - at)
           P(k) == /\ IsCells(F[k], N)
                   /\ \A i \in 0 .. N - k - 1 : F[k][i] = e[i]
                   /\ m > 0 => \A i \in N - k .. N - 1 : F[k][i] = e[i - m]
           T == {k \in Nat : k <= n - at => P(k)}
<1>0. N \in Nat /\ Packed!Size(e) = N /\ \A i \in 0 .. N - 1 : e[i] \in Cells
  BY SizeOfCells DEF IsCells
<1>1. /\ F[0] = e
      /\ \A k \in 1 .. n - at : F[k] = Packed!SetToElement(F[k - 1], N - k, N - k - m)
  <2>1. n - at \in Nat
    OBVIOUS
  <2>2. /\ F[0] = e
        /\ \A k \in 1 .. n - at : F[k] = ShiftedRound(F[k - 1], k, e, m)
    BY <2>1, ShiftingStep
  <2> HIDE DEF F
  <2> QED
    BY <1>0, <2>2, Zenon DEF ShiftedRound
<1> HIDE DEF F
<1>2. 0 \in T
  <2>1. P(0)
    BY <1>0, <1>1
  <2> HIDE DEF P
  <2> QED
    BY <2>1
<1>3. ASSUME NEW k \in Nat, k \in T PROVE k + 1 \in T
  <2>1. SUFFICES ASSUME k + 1 <= n - at PROVE P(k + 1)
    OBVIOUS
  <2>2. P(k)
    BY <1>3, <2>1
  <2> DEFINE key == N - (k + 1)
             from == key - m
             v == IF key = from THEN Nothing ELSE F[k][from]
  <2>3. F[k + 1] = Packed!SetElement(F[k], key, v)
    <3>1. F[k + 1] = Packed!SetToElement(F[k], key, from)
      BY <1>1, <2>1
    <3> HIDE DEF key, from
    <3> QED
      BY <3>1, Zenon DEF Packed!SetToElement, v
  <2>4. key \in 0 .. N - 1 /\ from \in 0 .. N - k - 1 /\ (key = from <=> m = 0)
    BY <1>0, <2>1
  <2>5. F[k][from] = e[from] /\ e[from] \in Cells
    <3> HIDE DEF from
    <3> QED
      BY <1>0, <2>2, <2>4
  <2>6. v \in Cells /\ (m > 0 => v = e[from])
    <3> HIDE DEF from, key
    <3> QED
      BY <2>4, <2>5 DEF Cells
  <2> HIDE DEF v
  <2>7. /\ IsCells(F[k + 1], N)
        /\ F[k + 1][key] = v
        /\ \A i \in 0 .. N - 1 : i # key => F[k + 1][i] = F[k][i]
    <3> HIDE DEF key, from
    <3> QED
      BY <2>2, <2>3, <2>4, <2>6, SetCell
  <2>8. \A i \in 0 .. N - (k + 1) - 1 : F[k + 1][i] = e[i]
    BY <1>0, <2>2, <2>7
  <2>9. ASSUME m > 0, NEW i \in N - (k + 1) .. N - 1 PROVE F[k + 1][i] = e[i - m]
    <3>1. CASE i = key
      BY <2>6, <2>7, <2>9, <3>1
    <3>2. CASE i # key
      <4>1. i \in N - k .. N - 1 /\ i \in 0 .. N - 1
        BY <1>0, <2>1, <2>9, <3>2
      <4> QED
        BY <2>2, <2>7, <2>9, <3>2, <4>1
    <3> QED
      BY <3>1, <3>2
  <2> QED
    BY <2>7, <2>8, <2>9
<1>4. T = Nat
  <2>1. T \in SUBSET Nat
    OBVIOUS
  <2> HIDE DEF T
  <2> QED
    BY <1>2, <1>3, <2>1, SetInduction
<1>5. n - at \in Nat /\ N - (n - at) = at + m
  OBVIOUS
<1>6. P(n - at)
  BY <1>4, <1>5
<1>7. t = F[n - at]
  BY DEF F
<1> QED
  BY <1>0, <1>5, <1>6, <1>7

\* Writing the elements of a range from at on.
LEMMA PuttingIs ==
    ASSUME NEW e, NEW N, IsCells(e, N), NEW range, NEW m, IsCells(range, m),
           NEW at \in Nat, at + m <= N, NEW isSelf \in BOOLEAN, NEW t,
           t = Packed!Putting(e, at, range, isSelf)[m]
    PROVE  /\ IsCells(t, N)
           /\ \A i \in 0 .. N - 1 : i < at \/ i >= at + m => t[i] = e[i]
           /\ ~isSelf => \A i \in 0 .. m - 1 : t[at + i] = range[i]
<1> DEFINE F == Packed!Putting(e, at, range, isSelf)
           P(k) == /\ IsCells(F[k], N)
                   /\ \A i \in 0 .. N - 1 : i < at \/ i >= at + k => F[k][i] = e[i]
                   /\ ~isSelf => \A i \in 0 .. k - 1 : F[k][at + i] = range[i]
           T == {k \in Nat : k <= m => P(k)}
<1>0. /\ N \in Nat /\ m \in Nat /\ Packed!Size(range) = m
      /\ \A i \in 0 .. N - 1 : e[i] \in Cells
      /\ \A i \in 0 .. m - 1 : range[i] \in Cells
  BY SizeOfCells DEF IsCells
<1>1. /\ F[0] = e
      /\ \A k \in 1 .. m : F[k] = PutRound(F[k - 1], k, at, range, isSelf)
  BY <1>0, PuttingStep
<1> HIDE DEF F
<1>2. 0 \in T
  <2>1. P(0)
    BY <1>0, <1>1
  <2> HIDE DEF P
  <2> QED
    BY <2>1
<1>3. ASSUME NEW k \in Nat, k \in T PROVE k + 1 \in T
  <2>1. SUFFICES ASSUME k + 1 <= m PROVE P(k + 1)
    OBVIOUS
  <2>2. P(k)
    BY <1>0, <1>3, <2>1
  <2> DEFINE key == at + k
             v == IF isSelf THEN IF key = k THEN Nothing ELSE F[k][k] ELSE range[k]
  <2>3. F[k + 1] = Packed!SetElement(F[k], key, v)
    <3>1. /\ F[k + 1] = PutRound(F[k], k + 1, at, range, isSelf)
          /\ at + (k + 1) - 1 = key /\ (k + 1) - 1 = k
      BY <1>0, <1>1, <2>1
    <3> HIDE DEF key
    <3> QED
      BY <3>1, Zenon DEF PutRound, Packed!SetToElement, v
  <2>4. key \in 0 .. N - 1 /\ k \in 0 .. N - 1 /\ k \in 0 .. m - 1
    BY <1>0, <2>1
  <2>5. v \in Cells /\ (~isSelf => v = range[k])
    <3>1. F[k][k] \in Cells
      BY <2>2, <2>4 DEF IsCells
    <3> QED
      BY <1>0, <2>4, <3>1 DEF Cells
  <2> HIDE DEF v
  <2>6. /\ IsCells(F[k + 1], N)
        /\ F[k + 1][key] = v
        /\ \A i \in 0 .. N - 1 : i # key => F[k + 1][i] = F[k][i]
    <3> HIDE DEF key
    <3> QED
      BY <2>2, <2>3, <2>4, <2>5, SetCell
  <2>7. \A i \in 0 .. N - 1 : i < at \/ i >= at + (k + 1) => F[k + 1][i] = e[i]
    BY <1>0, <2>2, <2>6
  <2>8. ASSUME ~isSelf, NEW i \in 0 .. k PROVE F[k + 1][at + i] = range[i]
    <3>1. CASE i = k
      BY <2>5, <2>6, <2>8, <3>1
    <3>2. CASE i # k
      <4>1. i \in 0 .. k - 1 /\ at + i \in 0 .. N - 1 /\ at + i # key
        BY <1>0, <2>1, <3>2
      <4> QED
        BY <2>2, <2>6, <2>8, <4>1
    <3> QED
      BY <3>1, <3>2
  <2> QED
    BY <2>6, <2>7, <2>8
<1>4. T = Nat
  <2>1. T \in SUBSET Nat
    OBVIOUS
  <2> HIDE DEF T
  <2> QED
    BY <1>2, <1>3, <2>1, SetInduction
<1>5. P(m)
  BY <1>0, <1>4
<1>6. t = F[m]
  BY DEF F
<1> QED
  BY <1>0, <1>5, <1>6

\* Where everything is when a range of m was inserted at a position.
RangeInserted(t, e, n, range, m, at) ==
    /\ \A i \in 0 .. at - 1 : t[i] = e[i]
    /\ \A i \in 0 .. m - 1 : t[at + i] = range[i]
    /\ \A i \in at + m .. n + m - 1 : t[i] = e[i - m]

\* Insertion of a range: it is a packed array in any case, and the right one
\* unless the range is empty and stands before an element, or is the array.
LEMMA InsertRangeIs ==
    ASSUME NEW e, NEW n, IsCells(e, n), NEW range, NEW m, IsCells(range, m),
           NEW at \in 0 .. n, NEW isSelf \in BOOLEAN, NEW t,
           t = Packed!InsertRange(e, at, range, isSelf)
    PROVE  /\ IsCells(t, n + m)
           /\ ~isSelf /\ (m > 0 \/ at = n) => RangeInserted(t, e, n, range, m, at)
<1>0. n \in Nat /\ m \in Nat /\ Packed!Size(e) = n /\ Packed!Size(range) = m
  BY SizeOfCells
<1> PICK N : N = n + m
  OBVIOUS
<1> PICK r : r = Packed!Padding(e, N, Nothing)[N - n]
  OBVIOUS
<1> PICK s : s = Packed!Shifting(r, m, n - at)[n - at]
  OBVIOUS
<1>1. IsCells(r, N) /\ \A i \in 0 .. n - 1 : r[i] = e[i]
  <2>1. N \in Nat /\ n <= N /\ Nothing \in Cells
    BY <1>0 DEF Cells
  <2> QED
    BY <2>1, PaddingIs
<1>2. Packed!SetSize(e, n + m, Nothing) = r
  BY <1>0 DEF Packed!SetSize
<1>3. Packed!Size(r) - m - at = n - at
  <2>1. Packed!Size(r) = N
    BY <1>1, SizeOfCells
  <2> QED
    BY <1>0, <2>1
<1>4. t = Packed!Putting(s, at, range, isSelf)[m]
  BY <1>0, <1>2, <1>3 DEF Packed!InsertRange
<1>5. /\ IsCells(s, N)
      /\ \A i \in 0 .. at - 1 : s[i] = r[i]
      /\ m > 0 => \A i \in at + m .. N - 1 : s[i] = r[i - m]
  BY <1>0, <1>1, ShiftingIs
<1>6. /\ IsCells(t, N)
      /\ \A i \in 0 .. N - 1 : i < at \/ i >= at + m => t[i] = s[i]
      /\ ~isSelf => \A i \in 0 .. m - 1 : t[at + i] = range[i]
  <2>1. at \in Nat /\ at + m <= N
    BY <1>0
  <2> QED
    BY <1>4, <1>5, <2>1, PuttingIs
<1>7. ASSUME m > 0 \/ at = n
      PROVE  /\ \A i \in 0 .. at - 1 : t[i] = e[i]
             /\ \A i \in at + m .. n + m - 1 : t[i] = e[i - m]
  <2>1. ASSUME NEW i \in 0 .. at - 1 PROVE t[i] = e[i]
    BY <1>0, <1>1, <1>5, <1>6, <2>1
  <2>2. ASSUME NEW i \in at + m .. n + m - 1 PROVE t[i] = e[i - m]
    <3>1. m > 0 /\ i \in 0 .. N - 1 /\ i >= at + m /\ i - m \in 0 .. n - 1
      BY <1>0, <1>7
    <3>2. t[i] = s[i] /\ s[i] = r[i - m]
      BY <1>5, <1>6, <3>1
    <3> QED
      BY <1>1, <3>1, <3>2
  <2> QED
    BY <2>1, <2>2
<1> QED
  BY <1>6, <1>7 DEF RangeInserted

\* Where there is no such position, nothing is inserted.
LEMMA RangeNowhere ==
    ASSUME NEW e, NEW at, at \notin 0 .. Packed!Size(e), NEW range, NEW isSelf
    PROVE  Packed!InsertRange(e, at, range, isSelf) = e
BY DEF Packed!InsertRange

\* The least of a set of numbers.
LEMMA LeastIs ==
    ASSUME NEW S \in SUBSET Int, NEW x \in S, \A y \in S : x <= y
    PROVE  Packed!Min(S) = x
<1>1. Packed!Min(S) = CHOOSE y \in S : \A z \in S : y <= z
  BY Zenon DEF Packed!Min
<1>2. \A y \in S : (\A z \in S : y <= z) => y = x
  OBVIOUS
<1> QED
  BY <1>1, <1>2

\* The elements of e, a packed array of n, without the h from a on: those from
\* a to p - 1 are where they are to be, those from p + h on where they were.
Gap(n, h, p) == (0 .. p - 1) \cup (p + h .. n - 1)
HasGap(t, e, n, a, h, p) ==
    /\ t \in [Gap(n, h, p) -> Cells]
    /\ \A i \in 0 .. a - 1 : t[i] = e[i]
    /\ \A i \in a .. p - 1 : t[i] = e[i + h]
    /\ \A i \in p + h .. n - 1 : t[i] = e[i]

\* Wherever the gap is, there are as many elements.
LEMMA SizeWithGap ==
    ASSUME NEW t, NEW n \in Nat, NEW h \in 0 .. n, NEW p \in 0 .. n - h,
           DOMAIN t = Gap(n, h, p)
    PROVE  Packed!Size(t) = n - h
<1> PICK S : S = 0 .. p - 1
  OBVIOUS
<1> PICK l, r : l = p + h /\ r = n - 1
  OBVIOUS
<1> PICK U : U = l .. r
  OBVIOUS
<1>1. IsFiniteSet(S) /\ Cardinality(S) = p
  <2>1. p - 1 \in Int
    OBVIOUS
  <2> QED
    BY <2>1, FS_Interval
<1>2. IsFiniteSet(U) /\ Cardinality(U) = n - h - p
  <2>1. l \in Int /\ r \in Int
    OBVIOUS
  <2>2. IsFiniteSet(U) /\ Cardinality(U) = IF l > r THEN 0 ELSE r - l + 1
    BY <2>1, FS_Interval
  <2> QED
    BY <2>2
<1>3. Cardinality(S \cup U) = n - h
  <2>1. S \cap U = {} /\ Cardinality({}) = 0
    BY FS_EmptySet
  <2>2. Cardinality(S \cup U) = Cardinality(S) + Cardinality(U) - Cardinality(S \cap U)
    BY <1>1, <1>2, FS_Union
  <2>3. Cardinality(S \cap U) = 0
    BY <2>1, Zenon
  <2> QED
    BY <1>1, <1>2, <2>2, <2>3
<1>4. Packed!Size(t) = Cardinality(DOMAIN t)
  BY SameOperators DEF Packed!Size
<1> QED
  BY <1>3, <1>4 DEF Gap

\* One round behind the gap: the first element behind it crosses it.
LEMMA GapMoves ==
    ASSUME NEW t, NEW e, NEW n \in Nat, NEW h \in 1 .. n, NEW a \in Nat,
           NEW p \in a .. n - h - 1, HasGap(t, e, n, a, h, p),
           NEW u, u = Packed!WithoutKey(Packed!SetElement(t, p, t[p + h]), p + h)
    PROVE  HasGap(u, e, n, a, h, p + 1)
<1>0. p \in 0 .. n - h /\ p \in Nat /\ DOMAIN t = Gap(n, h, p)
  BY DEF HasGap
<1> PICK w : w = Packed!SetElement(t, p, t[p + h])
  OBVIOUS
<1>1. w = [i \in Gap(n, h, p) \cup {p} |-> IF i = p THEN t[p + h] ELSE t[i]]
  <2>1. h \in 0 .. n
    OBVIOUS
  <2>2. Packed!Size(t) = n - h
    BY <1>0, <2>1, SizeWithGap
  <2>3. p \in DOMAIN t \cup (0 .. Packed!Size(t))
    BY <1>0, <2>2
  <2>4. w = With(t, p, t[p + h])
    BY <1>0, <2>3, SetElementIs
  <2> QED
    BY <1>0, <2>4 DEF With
<1>2. u = [i \in DOMAIN w \ {p + h} |-> w[i]]
  BY Zenon DEF Packed!WithoutKey, Packed!Restrict
<1>3. DOMAIN w \ {p + h} = Gap(n, h, p + 1)
  BY <1>0, <1>1 DEF Gap
<1>4. \A i \in Gap(n, h, p + 1) : u[i] = IF i = p THEN t[p + h] ELSE t[i]
  BY <1>0, <1>1, <1>2, <1>3 DEF Gap
<1>5. p + h \in Gap(n, h, p) /\ t[p + h] = e[p + h]
  BY <1>0 DEF Gap, HasGap
<1>6. \A i \in Gap(n, h, p) : t[i] \in Cells
  BY DEF HasGap
<1>7. \A i \in Gap(n, h, p + 1) : i = p \/ i \in Gap(n, h, p)
  BY <1>0 DEF Gap
<1>8. u \in [Gap(n, h, p + 1) -> Cells]
  <2>1. \A i \in Gap(n, h, p + 1) : u[i] \in Cells
    BY <1>4, <1>5, <1>6, <1>7
  <2> QED
    BY <1>2, <1>3, <2>1
<1>9. \A i \in 0 .. a - 1 : u[i] = e[i]
  BY <1>0, <1>4 DEF HasGap, Gap
<1>10. \A i \in a .. p + 1 - 1 : u[i] = e[i + h]
  BY <1>0, <1>4, <1>5 DEF HasGap, Gap
<1>11. \A i \in p + 1 + h .. n - 1 : u[i] = e[i]
  BY <1>0, <1>4 DEF HasGap, Gap
<1> QED
  BY <1>8, <1>9, <1>10, <1>11 DEF HasGap

\* Where everything is when h elements from a on were taken out.
Erased(t, e, n, a, h) ==
    /\ \A i \in 0 .. a - 1 : t[i] = e[i]
    /\ \A i \in a .. n - h - 1 : t[i] = e[i + h]

\* Erasing a range and packing what is left.
LEMMA EraseIs ==
    ASSUME NEW e, NEW n, IsCells(e, n), NEW lo, NEW hi, NEW a \in 0 .. n, NEW b \in a .. n,
           \A k \in 0 .. n - 1 : (k < lo \/ hi < k) <=> (k < a \/ b <= k),
           NEW t, t = Packed!EraseElements(e, lo, hi), NEW h, h = b - a
    PROVE  IsCells(t, n - h) /\ Erased(t, e, n, a, h)
<1>0. n \in Nat /\ DOMAIN e = 0 .. n - 1 /\ \A i \in 0 .. n - 1 : e[i] \in Cells
  BY SizeOfCells DEF IsCells
<1>1. h \in 0 .. n /\ a \in 0 .. n - h /\ n - h \in Nat /\ b = a + h
  BY <1>0
<1> PICK d : d = Packed!Restrict(e, {k \in DOMAIN e : k < lo \/ hi < k})
  OBVIOUS
<1>2. HasGap(d, e, n, a, h, a)
  <2>1. {k \in DOMAIN e : k < lo \/ hi < k} = Gap(n, h, a)
    BY <1>0, <1>1 DEF Gap
  <2>2. d = [i \in Gap(n, h, a) |-> e[i]]
    BY <2>1, Zenon DEF Packed!Restrict
  <2>3. Gap(n, h, a) \subseteq 0 .. n - 1
    BY <1>0, <1>1 DEF Gap
  <2>4. d \in [Gap(n, h, a) -> Cells]
    BY <1>0, <2>2, <2>3
  <2>5. \A i \in Gap(n, h, a) : d[i] = e[i]
    BY <2>2
  <2> QED
    BY <1>0, <1>1, <2>4, <2>5 DEF HasGap, Gap
<1> PICK F : F = Packed!Packing(d)
  OBVIOUS
<1> DEFINE At(k) == IF k < a THEN a ELSE k
           P(k) == HasGap(F[k], e, n, a, h, At(k))
           T == {k \in Nat : k <= n - h => P(k)}
<1>3. Packed!Size(d) = n - h
  <2>1. DOMAIN d = Gap(n, h, a)
    BY <1>2 DEF HasGap
  <2> QED
    BY <1>0, <1>1, <2>1, SizeWithGap
<1>4. F[0] = d /\ \A k \in 1 .. n - h : F[k] = PackedRound(F[k - 1], k)
  BY <1>1, <1>3, PackStep
<1>5. 0 \in T
  <2>1. At(0) = a
    BY <1>1
  <2> HIDE DEF At
  <2> QED
    BY <1>2, <1>4, <2>1
<1>6. ASSUME NEW k \in Nat, k \in T PROVE k + 1 \in T
  <2>1. SUFFICES ASSUME k + 1 <= n - h PROVE P(k + 1)
    OBVIOUS
  <2>2. P(k)
    BY <1>1, <1>6, <2>1
  <2> PICK f : f = F[k]
    OBVIOUS
  <2> PICK S : S = {x \in DOMAIN f : x >= k}
    OBVIOUS
  <2> PICK key : key = Packed!Min(S)
    OBVIOUS
  <2>3. F[k + 1] = IF key = k THEN f
                   ELSE Packed!WithoutKey(Packed!SetElement(f, k, f[key]), key)
    <3>1. F[k + 1] = PackedRound(f, k + 1) /\ k + 1 - 1 = k
      BY <1>1, <1>4, <2>1
    <3> QED
      BY <3>1 DEF PackedRound
  <2>4. DOMAIN f = Gap(n, h, At(k))
    BY <2>2 DEF HasGap
  <2>5. CASE k < a
    <3>1. k \in S /\ S \in SUBSET Int /\ \A x \in S : k <= x
      BY <1>0, <1>1, <2>4, <2>5 DEF Gap
    <3>2. key = k
      BY <3>1, LeastIs
    <3>3. At(k + 1) = At(k)
      BY <1>1, <2>5
    <3> HIDE DEF At
    <3> QED
      BY <2>2, <2>3, <3>2, <3>3
  <2>6. CASE k >= a
    <3>1. At(k) = k /\ At(k + 1) = k + 1
      BY <1>1, <2>6
    <3>2. k + h \in S /\ S \in SUBSET Int /\ \A x \in S : k + h <= x
      BY <1>0, <1>1, <2>1, <2>4, <2>6 DEF Gap
    <3>3. key = k + h
      BY <3>2, LeastIs
    <3>4. HasGap(f, e, n, a, h, k)
      BY <2>2, <3>1
    <3>5. CASE h = 0
      <4>1. F[k + 1] = f
        BY <2>3, <3>3, <3>5
      <4>2. Gap(n, h, k) = Gap(n, h, k + 1)
        BY <1>0, <1>1, <2>1, <3>5 DEF Gap
      <4>3. f[k] = e[k]
        BY <1>0, <1>1, <2>1, <3>4, <3>5 DEF HasGap
      <4>4. HasGap(f, e, n, a, h, k + 1)
        BY <1>0, <1>1, <2>1, <3>4, <3>5, <4>2, <4>3 DEF HasGap
      <4> QED
        BY <3>1, <4>1, <4>4
    <3>6. CASE h # 0
      <4>1. F[k + 1] = Packed!WithoutKey(Packed!SetElement(f, k, f[k + h]), k + h)
        <5>1. key # k
          BY <1>1, <3>3, <3>6
        <5> QED
          BY <2>3, <3>3, <5>1
      <4>2. h \in 1 .. n /\ k \in a .. n - h - 1 /\ a \in Nat
        BY <1>0, <1>1, <2>1, <2>6, <3>6
      <4>3. HasGap(F[k + 1], e, n, a, h, k + 1)
        BY <1>0, <3>4, <4>1, <4>2, GapMoves
      <4> QED
        BY <3>1, <4>3
    <3> QED
      BY <3>5, <3>6
  <2> QED
    BY <1>1, <2>5, <2>6
<1>7. T = Nat
  <2>1. T \in SUBSET Nat
    OBVIOUS
  <2> HIDE DEF T
  <2> QED
    BY <1>5, <1>6, <2>1, SetInduction
<1>8. t = F[n - h]
  BY <1>3 DEF Packed!EraseElements, Packed!Pack
<1>9. HasGap(t, e, n, a, h, n - h)
  <2>1. P(n - h)
    BY <1>1, <1>7
  <2> QED
    BY <1>1, <1>8, <2>1
<1>10. Gap(n, h, n - h) = 0 .. n - h - 1
  BY <1>0, <1>1 DEF Gap
<1> QED
  BY <1>1, <1>9, <1>10 DEF HasGap, IsCells, Erased

\* The elements of e from a on, as many as there are in t.
Copied(t, e, a, m) == \A i \in 0 .. m - 1 : t[i] = e[a + i]

\* Copying the elements from a to b - 1.
LEMMA SliceIs ==
    ASSUME NEW e, NEW n, IsCells(e, n), NEW lo, NEW hi, NEW a \in 0 .. n, NEW b \in a .. n,
           \A k \in 0 .. n - 1 : (lo <= k /\ k <= hi) <=> (a <= k /\ k < b),
           NEW t, t = Packed!MakeSlice(e, lo, hi), NEW m, m = b - a
    PROVE  IsCells(t, m) /\ Copied(t, e, a, m)
<1>0. n \in Nat /\ DOMAIN e = 0 .. n - 1 /\ \A i \in 0 .. n - 1 : e[i] \in Cells
  BY SizeOfCells DEF IsCells
<1> PICK W : W = Within(e, lo, hi)
  OBVIOUS
<1>1. m \in Nat /\ b = a + m /\ a \in Nat
  BY <1>0
<1>2. W = a .. b - 1 /\ Packed!Cardinality(W) = m
  <2>1. W = a .. b - 1
    BY <1>0 DEF Within
  <2> PICK r : r = b - 1
    OBVIOUS
  <2>2. r \in Int /\ a \in Int /\ W = a .. r
    BY <1>0, <2>1
  <2>3. Cardinality(W) = IF a > r THEN 0 ELSE r - a + 1
    BY <2>2, FS_Interval
  <2> QED
    BY <1>0, <1>1, <2>1, <2>3, SameOperators
<1> PICK F : F = Packed!Slicing(e, lo, hi)
  OBVIOUS
<1>3. /\ F[0] = [left |-> W, e |-> Packed!Empty]
      /\ \A k \in 1 .. m : F[k] = SlicedRound(F[k - 1], k, e)
  BY <1>1, <1>2, SlicingStep
<1> DEFINE P(k) == /\ F[k].left = a + k .. b - 1
                   /\ IsCells(F[k].e, k)
                   /\ \A i \in 0 .. k - 1 : F[k].e[i] = e[a + i]
           T == {k \in Nat : k <= m => P(k)}
<1>4. 0 \in T
  <2>1. IsCells(F[0].e, 0)
    <3>1. Packed!Empty \in [0 .. 0 - 1 -> Cells]
      BY DEF Packed!Empty
    <3> QED
      BY <1>3, <3>1 DEF IsCells
  <2>2. F[0].left = a + 0 .. b - 1
    BY <1>0, <1>2, <1>3
  <2>3. P(0)
    BY <2>1, <2>2
  <2> HIDE DEF P
  <2> QED
    BY <2>3
<1>5. ASSUME NEW k \in Nat, k \in T PROVE k + 1 \in T
  <2>1. SUFFICES ASSUME k + 1 <= m PROVE P(k + 1)
    OBVIOUS
  <2>2. P(k)
    BY <1>1, <1>5, <2>1
  <2> PICK f, L, c : f = F[k] /\ L = f.left /\ c = f.e
    OBVIOUS
  <2> PICK key : key = Packed!Min(L)
    OBVIOUS
  <2>3. F[k + 1] = [left |-> L \ {key}, e |-> Packed!SetElement(c, k, e[key])]
    <3>1. F[k + 1] = SlicedRound(f, k + 1, e) /\ k + 1 - 1 = k
      BY <1>1, <1>3, <2>1
    <3> QED
      BY <3>1 DEF SlicedRound
  <2>4. L = a + k .. b - 1 /\ IsCells(c, k) /\ \A i \in 0 .. k - 1 : c[i] = e[a + i]
    BY <2>2
  <2>5. key = a + k
    <3>1. a + k \in L /\ L \in SUBSET Int /\ \A x \in L : a + k <= x
      BY <1>0, <1>1, <2>1, <2>4
    <3> QED
      BY <3>1, LeastIs
  <2>6. e[key] \in Cells
    BY <1>0, <1>1, <2>1, <2>5
  <2> PICK d : d = Packed!SetElement(c, k, e[key])
    OBVIOUS
  <2>7. IsCells(d, k + 1) /\ d[k] = e[key] /\ \A i \in 0 .. k - 1 : d[i] = c[i]
    BY <2>4, <2>6, AddCell
  <2>8. L \ {key} = a + (k + 1) .. b - 1
    BY <1>0, <1>1, <2>1, <2>4, <2>5
  <2>9. F[k + 1].left = a + (k + 1) .. b - 1 /\ F[k + 1].e = d
    BY <2>3, <2>8
  <2>10. \A i \in 0 .. k + 1 - 1 : d[i] = e[a + i]
    BY <2>4, <2>5, <2>7
  <2> QED
    BY <2>7, <2>9, <2>10
<1>6. T = Nat
  <2>1. T \in SUBSET Nat
    OBVIOUS
  <2> HIDE DEF T
  <2> QED
    BY <1>4, <1>5, <2>1, SetInduction
<1>7. t = F[m].e
  <2>1. t = F[Packed!Cardinality(W)].e
    BY DEF Packed!MakeSlice, Within
  <2> QED
    BY <1>2, <2>1
<1>8. P(m)
  <2>1. \A k \in T : k <= m => P(k)
    <3> HIDE DEF P
    <3> QED
      OBVIOUS
  <2> HIDE DEF T, P
  <2>2. m \in T /\ m <= m
    BY <1>1, <1>6
  <2> QED
    BY <2>1, <2>2
<1> QED
  BY <1>1, <1>7, <1>8 DEF Copied

\* Resizing.
LEMMA SetSizeIs ==
    ASSUME NEW e, NEW n, IsCells(e, n), NEW size \in Nat, NEW pad \in Cells,
           NEW t, t = Packed!SetSize(e, size, pad)
    PROVE  /\ IsCells(t, size)
           /\ \A i \in 0 .. size - 1 : t[i] = IF i < n THEN e[i] ELSE pad
<1>0. n \in Nat /\ Packed!Size(e) = n
  BY SizeOfCells
<1>1. CASE n <= size
  <2>1. t = Packed!Padding(e, size, pad)[size - n]
    BY <1>0, <1>1 DEF Packed!SetSize
  <2>2. /\ IsCells(t, size)
        /\ \A i \in 0 .. n - 1 : t[i] = e[i]
        /\ \A i \in n .. size - 1 : t[i] = pad
    BY <1>1, <2>1, PaddingIs
  <2> QED
    BY <1>0, <2>2
<1>2. CASE n > size
  <2> PICK hi, h : hi = n - 1 /\ h = n - size
    OBVIOUS
  <2>1. t = Packed!EraseElements(e, size, hi)
    BY <1>0, <1>2 DEF Packed!SetSize
  <2>2. /\ size \in 0 .. n /\ n \in size .. n
        /\ \A k \in 0 .. n - 1 : (k < size \/ hi < k) <=> (k < size \/ n <= k)
    BY <1>0, <1>2
  <2>3. IsCells(t, n - h) /\ \A i \in 0 .. size - 1 : t[i] = e[i]
    BY <2>1, <2>2, EraseIs DEF Erased
  <2>4. n - h = size
    BY <1>0
  <2> QED
    BY <1>0, <1>2, <2>3, <2>4
<1> QED
  BY <1>0, <1>1, <1>2

\* The list a packed array stands for.
IsList(s, e, n) == /\ s \in Seq(Cells) /\ Len(s) = n
                   /\ \A i \in 1 .. n : s[i] = e[i - 1]

\* It is a list of as many.
LEMMA ListIs ==
    ASSUME NEW e, NEW n, IsCells(e, n)
    PROVE  IsList(Packed!AsList(e), e, n)
<1>1. n \in Nat /\ Packed!Size(e) = n
  BY SizeOfCells
<1>2. Packed!AsList(e) = [i \in 1 .. n |-> e[i - 1]]
  BY <1>1 DEF Packed!AsList
<1>3. \A i \in 1 .. n : e[i - 1] \in Cells
  <2>1. \A i \in 1 .. n : i - 1 \in 0 .. n - 1
    BY <1>1
  <2> QED
    BY <2>1 DEF IsCells
<1> QED
  BY <1>1, <1>2, <1>3 DEF IsList

\* A list that has its elements is the one.
LEMMA ListIsOnly ==
    ASSUME NEW e, NEW n, IsCells(e, n), NEW s, IsList(s, e, n)
    PROVE  Packed!AsList(e) = s
<1>1. IsList(Packed!AsList(e), e, n)
  BY ListIs
<1> PICK r : r = Packed!AsList(e)
  OBVIOUS
<1>2. \A i \in 1 .. Len(r) : r[i] = s[i]
  BY <1>1 DEF IsList
<1>3. r = s
  BY <1>1, <1>2, SeqEqual DEF IsList
<1> QED
  BY <1>3

\* A part of it.
LEMMA PartIs ==
    ASSUME NEW s \in Seq(Cells), NEW a \in 0 .. Len(s), NEW b \in a .. Len(s)
    PROVE  /\ SubSeq(s, a + 1, b) \in Seq(Cells)
           /\ Len(SubSeq(s, a + 1, b)) = b - a
           /\ \A i \in 1 .. b - a : SubSeq(s, a + 1, b)[i] = s[a + i]
<1> PICK m : m = a + 1
  OBVIOUS
<1>1. Len(s) \in Nat /\ m \in Int /\ b \in Int
  BY LenProperties
<1>2. \A i \in m .. b : s[i] \in Cells
  BY <1>1, ElementOfSeq
<1> PICK r : r = SubSeq(s, m, b)
  OBVIOUS
<1>3. /\ r \in Seq(Cells) /\ Len(r) = IF m <= b THEN b - m + 1 ELSE 0
      /\ \A i \in 1 .. b - m + 1 : r[i] = s[m + i - 1]
  BY <1>1, <1>2, SubSeqProperties
<1>4. Len(r) = b - a
  BY <1>1, <1>3
<1>5. \A i \in 1 .. b - a : r[i] = s[a + i]
  <2>1. \A i \in 1 .. b - a : i \in 1 .. b - m + 1 /\ m + i - 1 = a + i
    BY <1>1
  <2> QED
    BY <1>3, <2>1
<1> QED
  BY <1>3, <1>4, <1>5

\* What is where when p is put in at a position.
InsertedAt(t, e, n, p, m, at) ==
    /\ \A i \in 0 .. at - 1 : t[i] = e[i]
    /\ \A i \in 1 .. m : t[at + i - 1] = p[i]
    /\ \A i \in at + m .. n + m - 1 : t[i] = e[i - m]

\* The list with p put in at a position, and without the positions from a to b - 1.
PutIn(s, p, at) == SubSeq(s, 1, at) \o p \o SubSeq(s, at + 1, Len(s))
TakenOut(s, a, b) == SubSeq(s, 1, a) \o SubSeq(s, b + 1, Len(s))

\* The list with another put in at a position.
LEMMA InsertedIs ==
    ASSUME NEW e, NEW n \in Nat, IsCells(e, n), NEW p, NEW m \in Nat,
           p \in Seq(Cells), Len(p) = m, NEW at \in 0 .. n,
           NEW t, NEW N, N = n + m, IsCells(t, N), InsertedAt(t, e, n, p, m, at),
           NEW s, s = Packed!AsList(e)
    PROVE  Packed!AsList(t) = PutIn(s, p, at)
<1>0. n \in Nat /\ m \in Nat
  BY SizeOfCells, LenProperties
<1>1. s \in Seq(Cells) /\ Len(s) = n /\ \A i \in 1 .. n : s[i] = e[i - 1]
  BY ListIs DEF IsList
<1>10. PICK x, z : x = SubSeq(s, 1, at) /\ z = SubSeq(s, at + 1, n)
  OBVIOUS
<1>2. x \in Seq(Cells) /\ Len(x) = at /\ \A i \in 1 .. at : x[i] = s[i]
  <2>1. 0 \in 0 .. Len(s) /\ at \in 0 .. Len(s) /\ 0 + 1 = 1 /\ at - 0 = at
    BY <1>0, <1>1
  <2>2. /\ SubSeq(s, 0 + 1, at) \in Seq(Cells)
        /\ Len(SubSeq(s, 0 + 1, at)) = at - 0
        /\ \A i \in 1 .. at - 0 : SubSeq(s, 0 + 1, at)[i] = s[0 + i]
    BY <1>1, <2>1, PartIs
  <2> QED
    BY <2>1, <2>2, <1>10
<1>3. z \in Seq(Cells) /\ Len(z) = n - at /\ \A i \in 1 .. n - at : z[i] = s[at + i]
  <2>1. at \in 0 .. Len(s) /\ n \in at .. Len(s)
    BY <1>0, <1>1
  <2> QED
    BY <1>1, <1>10, <2>1, PartIs
<1>11. PICK y : y = x \o p
  OBVIOUS
<1>4. /\ y \in Seq(Cells) /\ Len(y) = at + m
      /\ \A i \in 1 .. at + m : y[i] = IF i <= at THEN x[i] ELSE p[i - at]
  BY <1>2, <1>11, ConcatProperties
<1>12. PICK r : r = y \o z
  OBVIOUS
<1>5. /\ r \in Seq(Cells) /\ Len(r) = n + m
      /\ \A i \in 1 .. n + m : r[i] = IF i <= at + m THEN y[i] ELSE z[i - (at + m)]
  <2>1. y \in Seq(Cells) /\ z \in Seq(Cells) /\ Len(y) = at + m /\ Len(z) = n - at
    BY <1>3, <1>4
  <2>2. /\ r \in Seq(Cells) /\ Len(r) = Len(y) + Len(z)
        /\ \A i \in 1 .. Len(y) + Len(z) : r[i] = IF i <= Len(y) THEN y[i] ELSE z[i - Len(y)]
    BY <2>1, <1>12, ConcatProperties
  <2>3. Len(y) + Len(z) = n + m
    BY <1>0, <2>1
  <2> QED
    BY <2>1, <2>2, <2>3
<1>6. ASSUME NEW i \in 1 .. n + m PROVE r[i] = t[i - 1]
  <2>1. CASE i <= at
    <3>1. i \in 1 .. at /\ i \in 1 .. n /\ i - 1 \in 0 .. at - 1 /\ i <= at + m /\ i \in 1 .. at + m
      BY <1>0, <2>1
    <3>2. r[i] = e[i - 1]
      BY <1>1, <1>2, <1>4, <1>5, <2>1, <3>1
    <3> QED
      BY <3>1, <3>2 DEF InsertedAt
  <2>2. CASE at < i /\ i <= at + m
    <3> PICK j : j = i - at
      OBVIOUS
    <3>1. j \in 1 .. m /\ at + j - 1 = i - 1 /\ i \in 1 .. at + m /\ ~(i <= at)
      BY <1>0, <2>2
    <3>2. r[i] = p[j]
      BY <1>4, <1>5, <2>2, <3>1
    <3> QED
      BY <3>1, <3>2 DEF InsertedAt
  <2>3. CASE at + m < i
    <3> PICK j : j = i - (at + m)
      OBVIOUS
    <3>1. /\ j \in 1 .. n - at /\ at + j \in 1 .. n /\ i - 1 \in at + m .. n + m - 1
          /\ i - 1 - m = at + j - 1 /\ ~(i <= at + m)
      BY <1>0, <2>3
    <3>2. r[i] = z[j]
      BY <1>5, <3>1
    <3>3. r[i] = e[at + j - 1]
      <4>1. PICK k : k = at + j
        OBVIOUS
      <4>2. r[i] = s[k] /\ k \in 1 .. n /\ k - 1 = at + j - 1
        BY <1>0, <1>3, <3>1, <3>2, <4>1
      <4> QED
        BY <1>1, <4>2
    <3> QED
      BY <3>1, <3>3 DEF InsertedAt
  <2> QED
    BY <1>0, <2>1, <2>2, <2>3
<1>7. IsList(r, t, n + m)
  BY <1>5, <1>6 DEF IsList
<1>8. Packed!AsList(t) = r
  BY <1>7, ListIsOnly
<1> QED
  BY <1>1, <1>8, <1>10, <1>11, <1>12 DEF PutIn

\* The list without a part.
LEMMA ErasedIs ==
    ASSUME NEW e, NEW n, IsCells(e, n), NEW a \in 0 .. n, NEW b \in a .. n, NEW h, h = b - a,
           NEW t, IsCells(t, n - h), Erased(t, e, n, a, h),
           NEW s, s = Packed!AsList(e)
    PROVE  Packed!AsList(t) = TakenOut(s, a, b)
<1>0. n \in Nat
  BY SizeOfCells
<1>1. s \in Seq(Cells) /\ Len(s) = n /\ \A i \in 1 .. n : s[i] = e[i - 1]
  BY ListIs DEF IsList
<1>10. PICK x, z : x = SubSeq(s, 1, a) /\ z = SubSeq(s, b + 1, n)
  OBVIOUS
<1>2. x \in Seq(Cells) /\ Len(x) = a /\ \A i \in 1 .. a : x[i] = s[i]
  <2>1. 0 \in 0 .. Len(s) /\ a \in 0 .. Len(s) /\ 0 + 1 = 1 /\ a - 0 = a
    BY <1>0, <1>1
  <2>2. /\ SubSeq(s, 0 + 1, a) \in Seq(Cells)
        /\ Len(SubSeq(s, 0 + 1, a)) = a - 0
        /\ \A i \in 1 .. a - 0 : SubSeq(s, 0 + 1, a)[i] = s[0 + i]
    BY <1>1, <2>1, PartIs
  <2> QED
    BY <2>1, <2>2, <1>10
<1>3. z \in Seq(Cells) /\ Len(z) = n - b /\ \A i \in 1 .. n - b : z[i] = s[b + i]
  <2>1. b \in 0 .. Len(s) /\ n \in b .. Len(s)
    BY <1>0, <1>1
  <2> QED
    BY <1>1, <1>10, <2>1, PartIs
<1>12. PICK r : r = x \o z
  OBVIOUS
<1>4. /\ r \in Seq(Cells) /\ Len(r) = n - h
      /\ \A i \in 1 .. n - h : r[i] = IF i <= a THEN x[i] ELSE z[i - a]
  <2>1. x \in Seq(Cells) /\ z \in Seq(Cells) /\ Len(x) = a /\ Len(z) = n - b
    BY <1>2, <1>3
  <2>2. /\ r \in Seq(Cells) /\ Len(r) = Len(x) + Len(z)
        /\ \A i \in 1 .. Len(x) + Len(z) : r[i] = IF i <= Len(x) THEN x[i] ELSE z[i - Len(x)]
    BY <2>1, <1>12, ConcatProperties
  <2>3. Len(x) + Len(z) = n - h
    BY <1>0, <2>1
  <2> QED
    BY <2>1, <2>2, <2>3
<1>5. ASSUME NEW i \in 1 .. n - h PROVE r[i] = t[i - 1]
  <2>1. CASE i <= a
    <3>1. i \in 1 .. a /\ i \in 1 .. n /\ i - 1 \in 0 .. a - 1
      BY <1>0, <2>1
    <3>2. r[i] = e[i - 1]
      BY <1>1, <1>2, <1>4, <2>1, <3>1
    <3> QED
      BY <3>1, <3>2 DEF Erased
  <2>2. CASE a < i
    <3> PICK j, q : j = i - a /\ q = b + j
      OBVIOUS
    <3>1. /\ j \in 1 .. n - b /\ q \in 1 .. n /\ i - 1 \in a .. n - h - 1
          /\ i - 1 + h = q - 1 /\ ~(i <= a)
      BY <1>0, <2>2
    <3>2. r[i] = z[j]
      BY <1>4, <3>1
    <3>3. r[i] = e[q - 1]
      <4>1. z[j] = s[q]
        BY <1>3, <3>1
      <4>2. s[q] = e[q - 1]
        BY <1>1, <3>1
      <4> QED
        BY <3>2, <4>1, <4>2
    <3> QED
      BY <3>1, <3>3 DEF Erased
  <2> QED
    BY <1>0, <2>1, <2>2
<1>6. IsList(r, t, n - h)
  BY <1>4, <1>5 DEF IsList
<1>7. Packed!AsList(t) = r
  BY <1>6, ListIsOnly
<1> QED
  BY <1>1, <1>7, <1>10, <1>12 DEF TakenOut

\* Of two numbers.
LEMMA LessOfTwo ==
    ASSUME NEW x \in Int, NEW y \in Int
    PROVE  /\ Packed!List!Min({x, y}) = IF x <= y THEN x ELSE y
           /\ Packed!List!Max({x, y}) = IF x >= y THEN x ELSE y
<1>1. /\ Packed!List!Min({x, y}) = CHOOSE z \in {x, y} : \A w \in {x, y} : z <= w
      /\ Packed!List!Max({x, y}) = CHOOSE z \in {x, y} : \A w \in {x, y} : z >= w
  BY Zenon DEF Packed!List!Min, Packed!List!Max
<1>2. \E z \in {x, y} : \A w \in {x, y} : z <= w
  OBVIOUS
<1>3. \E z \in {x, y} : \A w \in {x, y} : z >= w
  OBVIOUS
<1>4. Packed!List!Min({x, y}) \in {x, y} /\ \A w \in {x, y} : Packed!List!Min({x, y}) <= w
  BY <1>1, <1>2
<1>5. Packed!List!Max({x, y}) \in {x, y} /\ \A w \in {x, y} : Packed!List!Max({x, y}) >= w
  BY <1>1, <1>3
<1> QED
  BY <1>4, <1>5

\* The keys from lo to hi are a range of the positions there are.
LEMMA RangeIs ==
    ASSUME NEW n, IsCells(elems, n), NEW lo \in Int, NEW hi \in Int,
           NEW a, a = Packed!List!First(lo), NEW b, b = Packed!List!Past(lo, hi)
    PROVE  /\ a \in 0 .. n /\ b \in a .. n
           /\ \A k \in 0 .. n - 1 : (k < lo \/ hi < k) <=> (k < a \/ b <= k)
<1>1. n \in Nat /\ Len(Packed!AsList(elems)) = n
  BY SizeOfCells, ListIs DEF IsList
<1>2. a = IF lo <= 0 THEN 0 ELSE IF lo <= n THEN lo ELSE n
  <2>1. PICK m : m = Packed!List!Min({lo, n})
    OBVIOUS
  <2>2. m = IF lo <= n THEN lo ELSE n
    BY <1>1, <2>1, LessOfTwo
  <2>3. a = Packed!List!Max({0, m})
    BY <1>1, <2>1 DEF Packed!List!First
  <2>4. m \in Int /\ 0 \in Int
    BY <1>1, <2>2
  <2>5. a = IF 0 >= m THEN 0 ELSE m
    BY <2>3, <2>4, LessOfTwo
  <2> QED
    BY <1>1, <2>2, <2>5
<1>3. b = IF hi + 1 <= a THEN a ELSE IF hi + 1 <= n THEN hi + 1 ELSE n
  <2>1. PICK m : m = Packed!List!Min({hi + 1, n})
    OBVIOUS
  <2>2. m = IF hi + 1 <= n THEN hi + 1 ELSE n
    <3>1. hi + 1 \in Int
      OBVIOUS
    <3> QED
      BY <1>1, <2>1, <3>1, LessOfTwo
  <2>3. b = Packed!List!Max({a, m})
    BY <1>1, <2>1 DEF Packed!List!Past
  <2>4. m \in Int /\ a \in Int
    BY <1>1, <1>2, <2>2
  <2>5. b = IF a >= m THEN a ELSE m
    BY <2>3, <2>4, LessOfTwo
  <2> QED
    BY <1>1, <1>2, <2>2, <2>5
<1> QED
  BY <1>1, <1>2, <1>3

\* Both arrays are packed, and no larger than an array may be.
PackedOK ==
    /\ \E n \in 0 .. MaxSize : IsCells(elems, n)
    /\ \E m \in Nat : IsCells(slice, m)
    /\ broken \in BOOLEAN

\* At first both are empty.
LEMMA PackedStarts == Packed!Init => PackedOK
<1> SUFFICES ASSUME Packed!Init PROVE PackedOK
  OBVIOUS
<1>1. IsCells(Packed!Empty, 0)
  <2>1. Packed!Empty \in [0 .. 0 - 1 -> Cells]
    BY DEF Packed!Empty
  <2> QED
    BY <2>1 DEF IsCells
<1>2. 0 \in 0 .. MaxSize
  BY SizeAssumption
<1> QED
  BY <1>1, <1>2 DEF Packed!Init, PackedOK

\* A step from one packed array to another.
LEMMA BecomesIs ==
    ASSUME PackedOK, NEW n, IsCells(elems, n), NEW t, NEW m, IsCells(t, m),
           Packed!Becomes(t), broken' \in BOOLEAN
    PROVE  PackedOK' /\ elems' = t /\ slice' = slice /\ ~broken /\ m \in 0 .. MaxSize
<1>1. Packed!Size(t) = m /\ m \in Nat
  BY SizeOfCells
<1>2. elems' = t /\ slice' = slice /\ ~broken /\ m <= MaxSize
  BY <1>1 DEF Packed!Becomes
<1>3. m \in 0 .. MaxSize
  BY <1>1, <1>2, SizeAssumption
<1> QED
  BY <1>2, <1>3 DEF PackedOK

\* A negative key counts from the end, and one that is not there is not set.
LEMMA KeyIs ==
    ASSUME NEW e, NEW n, IsCells(e, n), NEW key \in Int, NEW v,
           NEW k, k = IF key < 0 THEN key + n ELSE key
    PROVE  /\ k \in 0 .. n => Packed!SetElement(e, key, v) = Packed!SetElement(e, k, v)
           /\ k \notin 0 .. n => Packed!SetElement(e, key, v) = e
<1>1. n \in Nat /\ DOMAIN e = 0 .. n - 1 /\ Packed!Size(e) = n
  BY SizeOfCells
<1>2. DOMAIN e \cup (0 .. Packed!Size(e)) = 0 .. n
  BY <1>1
<1>3. \A j \in Int : Packed!SetElement(e, j, v) =
          IF (IF j < 0 THEN j + n ELSE j) \in 0 .. n
          THEN With(e, IF j < 0 THEN j + n ELSE j, v) ELSE e
  BY <1>1, <1>2, Zenon DEF Packed!SetElement, With
<1>4. Packed!SetElement(e, key, v) = IF k \in 0 .. n THEN With(e, k, v) ELSE e
  BY <1>3
<1>5. ASSUME k \in 0 .. n PROVE Packed!SetElement(e, k, v) = With(e, k, v)
  <2>1. k \in Int /\ (IF k < 0 THEN k + n ELSE k) = k
    BY <1>1, <1>5
  <2> QED
    BY <1>3, <1>5, <2>1
<1> QED
  BY <1>4, <1>5

\* What a command that sets elems does to the list.
LEMMA KeepsThem ==
    ASSUME slice' = slice, broken' = broken
    PROVE  Packed!List!Keeps
BY DEF Packed!List!Keeps, Packed!AsList, Packed!Size, Packed!Cardinality

\* Setting an element: Put.
LEMMA WriteIs ==
    ASSUME PackedOK, NEW key \in Int, NEW v \in Values, Packed!Write(key, v)
    PROVE  PackedOK' /\ ~broken /\ Packed!List!Put(key, v)
<1> PICK n \in 0 .. MaxSize : IsCells(elems, n)
  BY DEF PackedOK
<1>1. PICK t : t = Packed!SetElement(elems, key, v)
  OBVIOUS
<1>2. PICK k : k = IF key < 0 THEN key + n ELSE key
  OBVIOUS
<1>3. Packed!Becomes(t) /\ broken' = broken /\ broken' \in BOOLEAN
  BY <1>1 DEF Packed!Write, PackedOK
<1>4. PICK s : s = Packed!AsList(elems)
  OBVIOUS
<1>5. n \in Nat /\ v \in Cells
  BY SizeOfCells DEF Cells
<1>6. s \in Seq(Cells) /\ Len(s) = n /\ \A i \in 1 .. n : s[i] = elems[i - 1]
  BY <1>4, ListIs DEF IsList
<1> DEFINE Done(m) == /\ IsCells(t, m)
                        /\ Packed!AsList(t) = CASE k \in 0 .. n - 1 -> [s EXCEPT ![k + 1] = v]
                                                [] k = n            -> Append(s, v)
                                                [] OTHER            -> s
<1>7. \E m : Done(m)
  <2>1. CASE k \in 0 .. n - 1
    <3>1. t = Packed!SetElement(elems, k, v)
      BY <1>1, <1>2, <1>5, <2>1, KeyIs
    <3>2. IsCells(t, n) /\ t[k] = v /\ \A i \in 0 .. n - 1 : i # k => t[i] = elems[i]
      BY <1>5, <2>1, <3>1, SetCell
    <3>3. PICK r : r = [s EXCEPT ![k + 1] = v]
      OBVIOUS
    <3>4. k + 1 \in 1 .. n
      BY <1>5, <2>1
    <3>5. /\ r \in Seq(Cells) /\ Len(r) = n
          /\ \A i \in 1 .. n : r[i] = IF i = k + 1 THEN v ELSE s[i]
      BY <1>5, <1>6, <3>3, <3>4, ExceptSeq
    <3>6. \A i \in 1 .. n : i - 1 \in 0 .. n - 1 /\ (i = k + 1 <=> i - 1 = k)
      BY <1>5, <2>1
    <3>7. IsList(r, t, n)
      BY <1>6, <3>2, <3>5, <3>6 DEF IsList
    <3>8. Packed!AsList(t) = r
      BY <3>2, <3>7, ListIsOnly
    <3> QED
      BY <2>1, <3>2, <3>3, <3>8
  <2>2. CASE k = n
    <3>1. t = Packed!SetElement(elems, n, v)
      BY <1>1, <1>2, <1>5, <2>2, KeyIs
    <3>2. IsCells(t, n + 1) /\ t[n] = v /\ \A i \in 0 .. n - 1 : t[i] = elems[i]
      BY <1>5, <3>1, AddCell
    <3>3. PICK r : r = Append(s, v)
      OBVIOUS
    <3>4. /\ r \in Seq(Cells) /\ Len(r) = n + 1
          /\ \A i \in 1 .. n : r[i] = s[i]
          /\ r[n + 1] = v
      BY <1>5, <1>6, <3>3, AppendProperties
    <3>5. \A i \in 1 .. n + 1 : i = n + 1 \/ (i \in 1 .. n /\ i - 1 \in 0 .. n - 1)
      BY <1>5
    <3>6. n + 1 - 1 = n
      BY <1>5
    <3>7. IsList(r, t, n + 1)
      BY <1>6, <3>2, <3>4, <3>5, <3>6 DEF IsList
    <3>8. Packed!AsList(t) = r
      BY <3>2, <3>7, ListIsOnly
    <3>9. k \notin 0 .. n - 1
      BY <1>5, <2>2
    <3> QED
      BY <2>2, <3>2, <3>3, <3>8, <3>9
  <2>3. CASE k \notin 0 .. n
    <3>1. t = elems
      BY <1>1, <1>2, <2>3, KeyIs
    <3>2. k \notin 0 .. n - 1 /\ k # n
      BY <1>5, <2>3
    <3> QED
      BY <1>4, <3>1, <3>2
  <2> QED
    BY <1>5, <2>1, <2>2, <2>3
<1>8. PICK m : Done(m)
  BY <1>7
<1>9. PackedOK' /\ elems' = t /\ slice' = slice /\ ~broken
  BY <1>3, <1>8, BecomesIs
<1>10. Packed!AsList(elems)' = Packed!AsList(t)
  BY <1>9 DEF Packed!AsList, Packed!Size, Packed!Cardinality
<1>11. Packed!List!Put(key, v)
  <2>1. Packed!List!Keeps
    BY <1>3, <1>9, KeepsThem
  <2> QED
    BY <1>2, <1>4, <1>6, <1>8, <1>10, <2>1, Zenon DEF Packed!List!Put, Packed!List!ReplaceAt
<1> QED
  BY <1>9, <1>11

\* A command that leaves a packed array t in elems, seen as a step of the list.
LEMMA ListBecomes ==
    ASSUME PackedOK, NEW n, IsCells(elems, n), NEW t, NEW m, IsCells(t, m),
           Packed!Becomes(t), broken' \in BOOLEAN
    PROVE  /\ PackedOK' /\ ~broken
           /\ Packed!AsList(elems)' = Packed!AsList(t)
           /\ Packed!AsList(slice)' = Packed!AsList(slice)
           /\ Packed!AsList(t) \in Packed!List!Lists
           /\ broken' = broken => Packed!List!Keeps
<1>1. PackedOK' /\ elems' = t /\ slice' = slice /\ ~broken /\ m \in 0 .. MaxSize
  BY BecomesIs
<1>2. Packed!AsList(elems)' = Packed!AsList(t)
  BY <1>1 DEF Packed!AsList, Packed!Size, Packed!Cardinality
<1>3. Packed!AsList(slice)' = Packed!AsList(slice)
  BY <1>1 DEF Packed!AsList, Packed!Size, Packed!Cardinality
<1>4. Packed!AsList(t) \in Packed!List!Lists
  <2>1. PICK s : s = Packed!AsList(t)
    OBVIOUS
  <2>2. s \in Seq(Cells) /\ Len(s) = m
    BY <2>1, ListIs DEF IsList
  <2>3. s \in [1 .. m -> Cells]
    BY <2>2, LenProperties
  <2>4. s \in UNION {[1 .. k -> Cells] : k \in 0 .. MaxSize}
    BY <1>1, <2>3
  <2> QED
    BY <2>1, <2>4, Zenon DEF Packed!List!Lists, Packed!List!BoundedSeq, Packed!List!SeqOf, Cells
<1> QED
  BY <1>1, <1>2, <1>3, <1>4, KeepsThem

\* Inserting an element: InsertOne.
LEMMA InsertElementIs ==
    ASSUME PackedOK, NEW at \in Int, NEW v \in Values, Packed!InsertElement(at, v)
    PROVE  PackedOK' /\ ~broken /\ Packed!List!InsertOne(at, v)
<1> PICK n \in 0 .. MaxSize : IsCells(elems, n)
  BY DEF PackedOK
<1>1. PICK t : t = Packed!Insert(elems, at, v)
  OBVIOUS
<1>2. Packed!Becomes(t) /\ broken' = broken /\ broken' \in BOOLEAN
  BY <1>1 DEF Packed!InsertElement, PackedOK
<1>3. PICK s : s = Packed!AsList(elems)
  OBVIOUS
<1>4. Len(s) = n /\ n \in Nat /\ Packed!Size(elems) = n /\ v \in Cells
  BY <1>3, SizeOfCells, ListIs DEF IsList, Cells
<1>5. CASE at \in 0 .. n
  <2>1. /\ IsCells(t, n + 1)
        /\ \A i \in 0 .. at - 1 : t[i] = elems[i]
        /\ t[at] = v
        /\ \A i \in at + 1 .. n : t[i] = elems[i - 1]
    BY <1>1, <1>4, <1>5, InsertOneIs
  <2>2. PICK p : p = <<v>>
    OBVIOUS
  <2>3. p \in Seq(Cells) /\ Len(p) = 1 /\ p[1] = v
    BY <1>4, <2>2
  <2>4. InsertedAt(t, elems, n, p, 1, at)
    <3>1. n + 1 - 1 = n /\ at + 1 - 1 = at /\ 1 .. 1 = {1}
      BY <1>4
    <3> QED
      BY <2>1, <2>3, <3>1 DEF InsertedAt
  <2>5. Packed!AsList(t) = PutIn(s, p, at)
    <3>1. PICK m : m = 1
      OBVIOUS
    <3>2. PICK N : N = n + m
      OBVIOUS
    <3>3. /\ m \in Nat /\ IsCells(t, N) /\ InsertedAt(t, elems, n, p, m, at)
          /\ p \in Seq(Cells) /\ Len(p) = m
      BY <2>1, <2>3, <2>4, <3>1, <3>2
    <3> QED
      BY <1>3, <1>4, <1>5, <3>2, <3>3, InsertedIs
  <2>6. /\ PackedOK' /\ ~broken /\ Packed!List!Keeps
        /\ Packed!AsList(elems)' = Packed!AsList(t)
    BY <1>2, <2>1, ListBecomes
  <2>7. Packed!List!InsertAt(s, at + 1, v) = PutIn(s, p, at)
    <3>1. PICK k : k = at + 1 /\ k - 1 = at
      OBVIOUS
    <3>2. Packed!List!InsertAt(s, k, v) = SubSeq(s, 1, at) \o <<v>> \o SubSeq(s, k, Len(s))
      BY <3>1, Zenon DEF Packed!List!InsertAt
    <3> QED
      BY <2>2, <3>1, <3>2, Zenon DEF PutIn
  <2>8. at \in 0 .. Len(s)
    BY <1>4, <1>5
  <2> QED
    BY <1>3, <2>5, <2>6, <2>7, <2>8, Zenon DEF Packed!List!InsertOne
<1>6. CASE at \notin 0 .. n
  <2>1. t = elems
    BY <1>1, <1>4, <1>6 DEF Packed!Insert
  <2>2. /\ PackedOK' /\ ~broken /\ Packed!List!Keeps
        /\ Packed!AsList(elems)' = Packed!AsList(t)
    BY <1>2, <2>1, ListBecomes
  <2>3. at \notin 0 .. Len(s)
    BY <1>4, <1>6
  <2> QED
    BY <1>3, <2>1, <2>2, <2>3, Zenon DEF Packed!List!InsertOne
<1> QED
  BY <1>5, <1>6

\* Inserting a slice: InsertPart, or Break.
LEMMA InsertSliceIs ==
    ASSUME PackedOK, NEW at \in Int, Packed!InsertSlice(at)
    PROVE  PackedOK' /\ ~broken /\ (Packed!List!InsertPart(at) \/ Packed!List!Break)
<1> PICK n \in 0 .. MaxSize : IsCells(elems, n)
  BY DEF PackedOK
<1> PICK m \in Nat : IsCells(slice, m)
  BY DEF PackedOK
<1>1. PICK t : t = Packed!InsertRange(elems, at, slice, FALSE)
  OBVIOUS
<1>2. /\ Packed!Becomes(t) /\ broken' \in BOOLEAN /\ broken \in BOOLEAN
      /\ broken' = (slice = Packed!Empty /\ at \in DOMAIN elems)
  BY <1>1 DEF Packed!InsertSlice, PackedOK
<1>3. PICK s : s = Packed!AsList(elems)
  OBVIOUS
<1>8. PICK p : p = Packed!AsList(slice)
  OBVIOUS
<1>4. Len(s) = n /\ n \in Nat /\ Packed!Size(elems) = n /\ DOMAIN elems = 0 .. n - 1
  BY <1>3, SizeOfCells, ListIs DEF IsList
<1>5. p \in Seq(Cells) /\ Len(p) = m /\ \A i \in 1 .. m : p[i] = slice[i - 1]
  BY <1>8, ListIs DEF IsList
<1>6. CASE at \in 0 .. n
  <2>1. /\ IsCells(t, n + m)
        /\ m > 0 \/ at = n => RangeInserted(t, elems, n, slice, m, at)
    <3>1. PICK isSelf \in BOOLEAN : isSelf = FALSE
      OBVIOUS
    <3>2. t = Packed!InsertRange(elems, at, slice, isSelf)
      BY <1>1, <3>1
    <3> QED
      BY <1>6, <3>1, <3>2, InsertRangeIs
  <2>2. /\ PackedOK' /\ ~broken
        /\ Packed!AsList(elems)' = Packed!AsList(t)
        /\ Packed!AsList(slice)' = Packed!AsList(slice)
        /\ Packed!AsList(t) \in Packed!List!Lists
        /\ broken' = broken => Packed!List!Keeps
    BY <1>2, <2>1, ListBecomes
  <2>3. CASE broken' = TRUE
    BY <2>2, <2>3 DEF Packed!List!Break
  <2>4. CASE broken' = FALSE
    <3>1. m > 0 \/ at = n
      <4>1. ASSUME m = 0 PROVE slice = Packed!Empty
        <5>1. slice \in [{} -> Cells]
          <6>1. 0 .. m - 1 = {}
            BY <4>1
          <6> QED
            BY <6>1, Zenon DEF IsCells
        <5>2. Packed!Empty \in [{} -> Cells]
          BY DEF Packed!Empty
        <5> QED
          BY <5>1, <5>2
      <4>2. ~(slice = Packed!Empty /\ at \in DOMAIN elems)
        BY <1>2, <2>4, Zenon
      <4>3. at \notin DOMAIN elems => at = n
        BY <1>4, <1>6
      <4> QED
        BY <4>1, <4>2, <4>3
    <3>2. InsertedAt(t, elems, n, p, m, at)
      <4>1. \A i \in 1 .. m : i - 1 \in 0 .. m - 1 /\ at + i - 1 = at + (i - 1)
        BY <1>6
      <4>2. \A i \in 1 .. m : t[at + i - 1] = p[i]
        BY <1>5, <2>1, <3>1, <4>1 DEF RangeInserted
      <4> QED
        BY <2>1, <3>1, <4>2 DEF InsertedAt, RangeInserted
    <3>3. Packed!AsList(t) = PutIn(s, p, at)
      <4>1. PICK N : N = n + m
        OBVIOUS
      <4>2. IsCells(t, N) /\ p \in Seq(Cells) /\ Len(p) = m
        BY <1>5, <2>1, <4>1
      <4> QED
        BY <1>3, <1>4, <1>6, <3>2, <4>1, <4>2, InsertedIs
    <3>4. Packed!List!Keeps /\ at \in 0 .. Len(s)
      BY <1>2, <1>4, <1>6, <2>2, <2>4
    <3> QED
      BY <1>3, <1>8, <2>2, <3>3, <3>4, Zenon DEF Packed!List!InsertPart, PutIn
  <2> QED
    BY <1>2, <2>2, <2>3, <2>4
<1>7. CASE at \notin 0 .. n
  <2>1. t = elems
    <3>1. at \notin 0 .. Packed!Size(elems)
      BY <1>4, <1>7
    <3> QED
      BY <1>1, <3>1, RangeNowhere, Zenon
  <2>2. at \notin DOMAIN elems /\ broken' = FALSE
    <3>1. at \notin DOMAIN elems
      BY <1>4, <1>7
    <3> QED
      BY <1>2, <3>1, Zenon
  <2>3. /\ PackedOK' /\ ~broken
        /\ Packed!AsList(elems)' = Packed!AsList(t)
        /\ broken' = broken => Packed!List!Keeps
    BY <1>2, <2>1, ListBecomes
  <2>4. at \notin 0 .. Len(s) /\ Packed!List!Keeps
    BY <1>2, <1>4, <1>7, <2>2, <2>3
  <2> QED
    BY <1>3, <1>8, <2>1, <2>3, <2>4, Zenon DEF Packed!List!InsertPart
<1> QED
  BY <1>6, <1>7

\* Inserting the array itself: Break, unless nothing happens.
LEMMA InsertItselfIs ==
    ASSUME PackedOK, NEW at \in Int, Packed!InsertItself(at)
    PROVE  /\ PackedOK' /\ ~broken
           /\ \/ Packed!List!Break
              \/ UNCHANGED <<Packed!AsList(elems), Packed!AsList(slice), broken>>
<1> PICK n \in 0 .. MaxSize : IsCells(elems, n)
  BY DEF PackedOK
<1>1. PICK t : t = Packed!InsertRange(elems, at, elems, TRUE)
  OBVIOUS
<1>2. /\ Packed!Becomes(t) /\ broken' \in BOOLEAN /\ broken \in BOOLEAN
      /\ broken' = (elems # Packed!Empty /\ at \in 0 .. Packed!Size(elems))
  BY <1>1 DEF Packed!InsertItself, PackedOK
<1>3. n \in Nat /\ Packed!Size(elems) = n /\ DOMAIN elems = 0 .. n - 1
  BY SizeOfCells
<1>4. CASE at \in 0 .. n
  <2>1. IsCells(t, n + n)
    BY <1>1, <1>4, InsertRangeIs
  <2>2. /\ PackedOK' /\ ~broken
        /\ Packed!AsList(elems)' = Packed!AsList(t)
        /\ Packed!AsList(slice)' = Packed!AsList(slice)
        /\ Packed!AsList(t) \in Packed!List!Lists
    BY <1>2, <2>1, ListBecomes
  <2>3. CASE broken' = TRUE
    BY <2>2, <2>3 DEF Packed!List!Break
  <2>4. CASE broken' = FALSE
    <3>1. elems = Packed!Empty
      BY <1>2, <1>3, <1>4, <2>4
    <3>2. n = 0
      <4>1. DOMAIN Packed!Empty = {}
        BY DEF Packed!Empty
      <4> QED
        BY <1>3, <3>1, <4>1
    <3>3. PICK s : s = Packed!AsList(elems)
      OBVIOUS
    <3>4. s \in Seq(Cells) /\ Len(s) = 0
      BY <3>2, <3>3, ListIs DEF IsList
    <3>5. IsList(s, t, 0) /\ IsCells(t, 0)
      BY <2>1, <3>2, <3>4 DEF IsList
    <3>6. Packed!AsList(t) = s
      BY <3>5, ListIsOnly
    <3> QED
      BY <1>2, <2>2, <2>4, <3>3, <3>6
  <2> QED
    BY <1>2, <2>2, <2>3, <2>4
<1>5. CASE at \notin 0 .. n
  <2>1. t = elems
    BY <1>1, <1>3, <1>5 DEF Packed!InsertRange
  <2>2. /\ PackedOK' /\ ~broken
        /\ Packed!AsList(elems)' = Packed!AsList(t)
        /\ Packed!AsList(slice)' = Packed!AsList(slice)
    BY <1>2, <2>1, ListBecomes
  <2> QED
    BY <1>2, <1>3, <1>5, <2>1, <2>2
<1> QED
  BY <1>4, <1>5

\* Erasing a range: EraseRange.
LEMMA EraseRangeIs ==
    ASSUME PackedOK, NEW lo \in Int, NEW hi \in Int, Packed!EraseRange(lo, hi)
    PROVE  PackedOK' /\ ~broken /\ Packed!List!EraseRange(lo, hi)
<1> PICK n \in 0 .. MaxSize : IsCells(elems, n)
  BY DEF PackedOK
<1>1. PICK t : t = Packed!EraseElements(elems, lo, hi)
  OBVIOUS
<1>2. Packed!Becomes(t) /\ broken' = broken /\ broken' \in BOOLEAN
  BY <1>1 DEF Packed!EraseRange, PackedOK
<1>3. PICK s : s = Packed!AsList(elems)
  OBVIOUS
<1>4. PICK a, b : a = Packed!List!First(lo) /\ b = Packed!List!Past(lo, hi)
  OBVIOUS
<1>5. /\ a \in 0 .. n /\ b \in a .. n
      /\ \A k \in 0 .. n - 1 : (k < lo \/ hi < k) <=> (k < a \/ b <= k)
  BY <1>4, RangeIs
<1>6. PICK h : h = b - a
  OBVIOUS
<1>7. IsCells(t, n - h) /\ Erased(t, elems, n, a, h)
  BY <1>1, <1>5, <1>6, EraseIs
<1>8. Packed!AsList(t) = TakenOut(s, a, b)
  BY <1>3, <1>5, <1>6, <1>7, ErasedIs
<1>9. /\ PackedOK' /\ ~broken /\ Packed!List!Keeps
      /\ Packed!AsList(elems)' = Packed!AsList(t)
  BY <1>2, <1>7, ListBecomes
<1> QED
  BY <1>3, <1>4, <1>8, <1>9, Zenon DEF Packed!List!EraseRange, TakenOut

\* Resizing: Resize.
LEMMA ResizeIs ==
    ASSUME PackedOK, NEW size \in Nat, NEW pad \in Values, Packed!Resize(size, pad)
    PROVE  PackedOK' /\ ~broken /\ Packed!List!Resize(size, pad)
<1> PICK n \in 0 .. MaxSize : IsCells(elems, n)
  BY DEF PackedOK
<1>1. PICK t : t = Packed!SetSize(elems, size, pad)
  OBVIOUS
<1>2. Packed!Becomes(t) /\ broken' = broken /\ broken' \in BOOLEAN
  BY <1>1 DEF Packed!Resize, PackedOK
<1>3. PICK s : s = Packed!AsList(elems)
  OBVIOUS
<1>4. Len(s) = n /\ n \in Nat /\ pad \in Cells /\ \A i \in 1 .. n : s[i] = elems[i - 1]
  BY <1>3, SizeOfCells, ListIs DEF IsList, Cells
<1>5. /\ IsCells(t, size)
      /\ \A i \in 0 .. size - 1 : t[i] = IF i < n THEN elems[i] ELSE pad
  BY <1>1, <1>4, SetSizeIs
<1>6. Packed!AsList(t) = [i \in 1 .. size |-> t[i - 1]]
  BY <1>5, SizeOfCells DEF Packed!AsList
<1>7. \A i \in 1 .. size : t[i - 1] = IF i <= Len(s) THEN s[i] ELSE pad
  BY <1>4, <1>5
<1>8. Packed!AsList(t) = [i \in 1 .. size |-> IF i <= Len(s) THEN s[i] ELSE pad]
  BY <1>6, <1>7
<1>9. /\ PackedOK' /\ ~broken /\ Packed!List!Keeps
      /\ Packed!AsList(elems)' = Packed!AsList(t)
  BY <1>2, <1>5, ListBecomes
<1> QED
  BY <1>3, <1>8, <1>9 DEF Packed!List!Resize

\* Taking a slice: Slice.
LEMMA SliceStepIs ==
    ASSUME PackedOK, NEW lo \in Int, NEW hi \in Int, Packed!Slice(lo, hi)
    PROVE  PackedOK' /\ ~broken /\ Packed!List!Slice(lo, hi)
<1> PICK n \in 0 .. MaxSize : IsCells(elems, n)
  BY DEF PackedOK
<1>1. PICK t : t = Packed!MakeSlice(elems, lo, hi)
  OBVIOUS
<1>2. ~broken /\ slice' = t /\ elems' = elems /\ broken' = broken
  BY <1>1 DEF Packed!Slice
<1>3. PICK s : s = Packed!AsList(elems)
  OBVIOUS
<1>4. PICK a, b : a = Packed!List!First(lo) /\ b = Packed!List!Past(lo, hi)
  OBVIOUS
<1>5. /\ a \in 0 .. n /\ b \in a .. n
      /\ \A k \in 0 .. n - 1 : (k < lo \/ hi < k) <=> (k < a \/ b <= k)
  BY <1>4, RangeIs
<1>6. \A k \in 0 .. n - 1 : (lo <= k /\ k <= hi) <=> (a <= k /\ k < b)
  <2>1. \A k \in 0 .. n - 1 : ((lo <= k /\ k <= hi) <=> ~(k < lo \/ hi < k))
                           /\ ((a <= k /\ k < b) <=> ~(k < a \/ b <= k))
    BY <1>5
  <2> QED
    BY <1>5, <2>1
<1>7. PICK m : m = b - a
  OBVIOUS
<1>8. IsCells(t, m) /\ Copied(t, elems, a, m)
  BY <1>1, <1>5, <1>6, <1>7, SliceIs
<1>9. s \in Seq(Cells) /\ Len(s) = n /\ \A i \in 1 .. n : s[i] = elems[i - 1]
  BY <1>3, ListIs DEF IsList
<1>10. PICK r : r = SubSeq(s, a + 1, b)
  OBVIOUS
<1>11. r \in Seq(Cells) /\ Len(r) = m /\ \A i \in 1 .. m : r[i] = s[a + i]
  BY <1>5, <1>7, <1>9, <1>10, PartIs
<1>12. \A i \in 1 .. m : a + i \in 1 .. n /\ i - 1 \in 0 .. m - 1 /\ a + (i - 1) = a + i - 1
  BY <1>5, <1>7
<1>13. IsList(r, t, m)
  <2>1. ASSUME NEW i \in 1 .. m PROVE r[i] = t[i - 1]
    <3>1. r[i] = elems[a + i - 1]
      <4>1. PICK j : j = a + i
        OBVIOUS
      <4>2. r[i] = s[j] /\ j \in 1 .. n /\ j - 1 = a + i - 1
        BY <1>5, <1>11, <1>12, <4>1
      <4> QED
        BY <1>9, <4>2
    <3>2. t[i - 1] = elems[a + i - 1]
      BY <1>8, <1>12 DEF Copied
    <3> QED
      BY <3>1, <3>2
  <2> QED
    BY <1>11, <2>1 DEF IsList
<1>14. Packed!AsList(t) = r
  BY <1>8, <1>13, ListIsOnly
<1>15. /\ Packed!AsList(slice)' = Packed!AsList(t)
       /\ Packed!AsList(elems)' = Packed!AsList(elems)
  BY <1>2 DEF Packed!AsList, Packed!Size, Packed!Cardinality
<1>16. Packed!List!Slice(lo, hi)
  BY <1>2, <1>3, <1>4, <1>10, <1>14, <1>15 DEF Packed!List!Slice
<1>17. PackedOK'
  <2>1. m \in Nat
    BY <1>5, <1>7
  <2> QED
    BY <1>2, <1>8, <2>1 DEF PackedOK
<1> QED
  BY <1>2, <1>16, <1>17

\* Every step of a packed array is one of the list, or leaves it alone.
LEMMA PackedStepIs ==
    ASSUME PackedOK, Packed!Next
    PROVE  /\ PackedOK'
           /\ [Packed!List!Next]_<<Packed!AsList(elems), Packed!AsList(slice), broken>>
<1> DEFINE Steps == [Packed!List!Next]_<<Packed!AsList(elems), Packed!AsList(slice), broken>>
<1>0. /\ Packed!Positions \subseteq Int /\ Packed!List!Positions = Packed!Positions
      /\ 0 .. MaxSize \subseteq Nat
  BY SizeAssumption DEF Packed!Positions, Packed!List!Positions
<1>1. ASSUME NEW key \in Packed!Positions, NEW v \in Values, Packed!Write(key, v)
      PROVE  PackedOK' /\ Steps
  <2>1. PackedOK' /\ ~broken /\ Packed!List!Put(key, v)
    BY <1>0, <1>1, WriteIs
  <2> QED
    BY <1>0, <2>1 DEF Packed!List!Next
<1>2. ASSUME NEW key \in Packed!Positions, NEW v \in Values, Packed!InsertElement(key, v)
      PROVE  PackedOK' /\ Steps
  <2>1. PackedOK' /\ ~broken /\ Packed!List!InsertOne(key, v)
    BY <1>0, <1>2, InsertElementIs
  <2> QED
    BY <1>0, <2>1 DEF Packed!List!Next
<1>3. ASSUME NEW key \in Packed!Positions, Packed!InsertSlice(key)
      PROVE  PackedOK' /\ Steps
  <2>1. PackedOK' /\ ~broken /\ (Packed!List!InsertPart(key) \/ Packed!List!Break)
    BY <1>0, <1>3, InsertSliceIs
  <2> QED
    BY <1>0, <2>1 DEF Packed!List!Next
<1>4. ASSUME NEW key \in Packed!Positions, Packed!InsertItself(key)
      PROVE  PackedOK' /\ Steps
  <2>1. /\ PackedOK' /\ ~broken
        /\ \/ Packed!List!Break
           \/ UNCHANGED <<Packed!AsList(elems), Packed!AsList(slice), broken>>
    BY <1>0, <1>4, InsertItselfIs
  <2> QED
    BY <2>1 DEF Packed!List!Next
<1>5. ASSUME NEW lo \in Packed!Positions, NEW hi \in Packed!Positions, Packed!EraseRange(lo, hi)
      PROVE  PackedOK' /\ Steps
  <2>1. PackedOK' /\ ~broken /\ Packed!List!EraseRange(lo, hi)
    BY <1>0, <1>5, EraseRangeIs
  <2> QED
    BY <1>0, <2>1 DEF Packed!List!Next
<1>6. ASSUME NEW lo \in Packed!Positions, NEW hi \in Packed!Positions, Packed!Slice(lo, hi)
      PROVE  PackedOK' /\ Steps
  <2>1. PackedOK' /\ ~broken /\ Packed!List!Slice(lo, hi)
    BY <1>0, <1>6, SliceStepIs
  <2> QED
    BY <1>0, <2>1 DEF Packed!List!Next
<1>7. ASSUME NEW size \in 0 .. MaxSize, NEW pad \in Values, Packed!Resize(size, pad)
      PROVE  PackedOK' /\ Steps
  <2>1. PackedOK' /\ ~broken /\ Packed!List!Resize(size, pad)
    BY <1>0, <1>7, ResizeIs
  <2> QED
    BY <2>1 DEF Packed!List!Next
<1> QED
  BY <1>1, <1>2, <1>3, <1>4, <1>5, <1>6, <1>7 DEF Packed!Next

\* A packed array is the list that scripts take it for: every command that moves
\* its elements does to it what it is to do to the list, up to one that inserts an
\* empty range before an element, or the array itself.
THEOREM PackedArrayIsAList == Packed!Spec => ImplementsList
<1>1. Packed!Init => PackedOK
  BY PackedStarts
<1>2. PackedOK /\ [Packed!Next]_Packed!vars =>
          PackedOK' /\ [Packed!List!Next]_<<Packed!AsList(elems), Packed!AsList(slice), broken>>
  <2>1. SUFFICES ASSUME PackedOK, UNCHANGED Packed!vars
        PROVE  /\ PackedOK'
               /\ UNCHANGED <<Packed!AsList(elems), Packed!AsList(slice), broken>>
    BY PackedStepIs
  <2>2. elems' = elems /\ slice' = slice /\ broken' = broken
    BY <2>1 DEF Packed!vars
  <2>3. PackedOK'
    BY <2>1, <2>2 DEF PackedOK
  <2> QED
    BY <2>2, <2>3 DEF Packed!AsList, Packed!Size, Packed!Cardinality
<1>3. Packed!Init => Packed!List!Init
  <2> SUFFICES ASSUME Packed!Init PROVE Packed!List!Init
    OBVIOUS
  <2>1. elems = Packed!Empty /\ slice = Packed!Empty /\ broken = FALSE
    BY DEF Packed!Init
  <2>2. IsCells(Packed!Empty, 0)
    <3>1. Packed!Empty \in [0 .. 0 - 1 -> Cells]
      BY DEF Packed!Empty
    <3> QED
      BY <3>1 DEF IsCells
  <2>3. IsList(<<>>, Packed!Empty, 0)
    BY EmptySeq DEF IsList
  <2>4. Packed!AsList(Packed!Empty) = <<>>
    BY <2>2, <2>3, ListIsOnly
  <2> QED
    BY <2>1, <2>4 DEF Packed!List!Init
<1> QED
  BY <1>1, <1>2, <1>3, PTL DEF ImplementsList, Packed!ImplementsList, Packed!Spec, Packed!List!Spec

=============================================================================

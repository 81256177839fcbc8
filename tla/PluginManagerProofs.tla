------------------------ MODULE PluginManagerProofs ------------------------
(***************************************************************************)
(* Proofs about PluginManager for any plugins, any listener lists and any  *)
(* depth of dispatches: the type invariant, handles that name one plugin,  *)
(* one entry per listener, PostLoad before PostPostLoad, and that a        *)
(* handler called by the only dispatch in progress cannot move its list.   *)
(* The inductive invariant IInv says in addition what a frame of the       *)
(* dispatch stack stands for, what the loader holds while it loads, and    *)
(* which listeners the PostLoad dispatch still has before it.              *)
(***************************************************************************)
EXTENDS PluginManager, FiniteSetTheorems, TLAPS

\* The lists are numbered from zero without gaps.
ListsFromZero == \E n \in Nat : DOMAIN listeners = 0 .. n - 1

\* What is being loaded is new and has the next handle.
LoadingNext ==
    /\ phase # "scan" => loading = NoPlugin
    /\ loading # NoPlugin => loading \notin Loaded /\ currentHandle = Len(plugins) + 1

\* Before the scan ends nothing is dispatched.
ScanIsQuiet ==
    phase = "scan" => /\ stack = <<>> /\ audience = {}
                      /\ \A p \in Plugins : got[p] = {}

\* A frame iterates a list that exists, and calls a plugin that is in the list.
FrameOK(frame) ==
    /\ frame.sender \in DOMAIN listeners
    /\ frame.handling # NoPlugin =>
           /\ frame.handling \in Loaded
           /\ IsListener(listeners[frame.sender], HandleOf(frame.handling))
FramesOK == \A k \in 1 .. Len(stack) : FrameOK(stack[k])

\* The bottom frame broadcasts PostLoad and has not reached an entry of p's yet.
Following(frame) == IF frame.handling = NoPlugin THEN frame.next ELSE frame.next + 1
Awaits(p) ==
    /\ stack # <<>>
    /\ stack[1].sender = 0 /\ stack[1].message = "PostLoad"
    /\ stack[1].target = kPluginHandle_Invalid
    /\ \E n \in 1 .. Len(listeners[0]) :
           /\ listeners[0][n].owner = p
           /\ n >= Following(stack[1])

\* How far the load messages are in each phase.
PostLoadSent ==
    \A p \in audience :
        \/ "PostLoad" \in got[p]
        \/ /\ phase \in {"postLoad", "crashed"}
           /\ "PostPostLoad" \notin got[p]
           /\ phase = "postLoad" => Awaits(p)
NotPostPostYet ==
    phase = "postLoad" => \A k \in 1 .. Len(stack) : stack[k].message # "PostPostLoad"

IInv ==
    /\ TypeOK
    /\ HandlesNamePlugins
    /\ OneEntryPerListener
    /\ ListsFromZero
    /\ LoadingNext
    /\ ScanIsQuiet
    /\ FramesOK
    /\ PostLoadSent
    /\ NotPostPostYet

-----------------------------------------------------------------------------
(* Looking plugins up. *)

\* Lists numbered from zero are counted by their numbers.
LEMMA Counted ==
    ASSUME NEW S, \E n \in Nat : S = 0 .. n - 1
    PROVE  Cardinality(S) \in Nat /\ S = 0 .. Cardinality(S) - 1
<1>1. PICK n \in Nat : S = 0 .. n - 1
  OBVIOUS
<1>2. Cardinality(0 .. n - 1) = n
  BY FS_Interval
<1> QED
  BY <1>1, <1>2

\* A loaded plugin is at the place of m_plugins that its handle says.
LEMMA HandleOfLoaded ==
    ASSUME NEW p \in Loaded
    PROVE  HandleOf(p) \in 1 .. Len(plugins) /\ plugins[HandleOf(p)] = p
BY DEF Loaded, HandleOf

LEMMA PluginsAreFinite == Cardinality(Plugins) \in Nat
BY FS_CardinalityType, NamesAssumption

\* There are no more handles than plugins, and one is left while a plugin is not
\* loaded.
LEMMA HandlesSuffice ==
    ASSUME plugins \in Seq(Plugins), LoadedOnce
    PROVE  /\ Len(plugins) \in Nat /\ Len(plugins) <= Cardinality(Plugins)
           /\ \A p \in Plugins \ Loaded : Len(plugins) + 1 <= Cardinality(Plugins)
<1>1. Len(plugins) \in Nat /\ plugins \in [1 .. Len(plugins) -> Plugins]
  OBVIOUS
<1>2. Loaded \in SUBSET Plugins
  BY <1>1 DEF Loaded
<1>3. plugins \in Bijection(1 .. Len(plugins), Loaded)
  <2>1. plugins \in [1 .. Len(plugins) -> Loaded]
    BY <1>1 DEF Loaded
  <2>2. plugins \in Injection(1 .. Len(plugins), Loaded)
    BY <2>1 DEF LoadedOnce, Injection, IsInjective
  <2>3. plugins \in Surjection(1 .. Len(plugins), Loaded)
    BY <2>1 DEF Surjection, Loaded
  <2> QED
    BY <2>2, <2>3 DEF Bijection
<1>4. IsFiniteSet(Loaded) /\ Cardinality(Loaded) = Len(plugins)
  <2>1. IsFiniteSet(1 .. Len(plugins)) /\ Cardinality(1 .. Len(plugins)) = Len(plugins)
    BY <1>1, FS_Interval
  <2> QED
    BY <2>1, <1>3, FS_Bijection DEF ExistsBijection
<1>5. /\ Cardinality(Loaded) <= Cardinality(Plugins)
      /\ Cardinality(Plugins) = Cardinality(Loaded) => Plugins = Loaded
  BY <1>2, FS_Subset, NamesAssumption
<1> QED
  BY <1>1, <1>4, <1>5, PluginsAreFinite

\* A name's handle is one, or there is none.
LEMMA LookupIsAHandle ==
    ASSUME plugins \in Seq(Plugins), LoadedOnce, NEW name
    PROVE  LookupHandleFromName(name) \in Handles \cup {kPluginHandle_Invalid}
<1>1. CASE name = NVSE
  BY <1>1, PluginsAreFinite DEF LookupHandleFromName, Handles
<1>2. CASE name # NVSE /\ name \in Loaded
  <2>1. HandleOf(name) \in 1 .. Len(plugins)
    BY <1>2, HandleOfLoaded
  <2> QED
    BY <1>2, <2>1, HandlesSuffice, PluginsAreFinite DEF LookupHandleFromName, Handles
<1>3. CASE name # NVSE /\ name \notin Loaded
  BY <1>3 DEF LookupHandleFromName
<1> QED
  BY <1>1, <1>2, <1>3
-----------------------------------------------------------------------------
(* What RegisterListener does to the lists and to the dispatches. *)

\* The list of a sender before the call, empty when the call makes it.
Before(i) == IF i \in DOMAIN listeners THEN listeners[i] ELSE <<>>

Entry(owner, handle) == [listener |-> handle, owner |-> owner]

\* A list is left alone or the listener, which is not in it, is put behind it.
Grows(old, new, owner, handle) ==
    \/ new = old
    \/ ~IsListener(old, handle) /\ new = Append(old, Entry(owner, handle))

\* The resize keeps the lists and adds empty ones.
LEMMA ResizedKeepsLists ==
    ASSUME ListsFromZero, Len(plugins) \in Nat
    PROVE  /\ \E n \in Nat : DOMAIN Resized = 0 .. n - 1
           /\ DOMAIN listeners \subseteq DOMAIN Resized
           /\ \A i \in DOMAIN Resized : Resized[i] = Before(i)
<1> DEFINE size == Cardinality(DOMAIN listeners)
           numPlugins == GetNumPlugins + 1
           total == numPlugins + Slack
<1>1. size \in Nat /\ DOMAIN listeners = 0 .. size - 1
  BY Counted DEF ListsFromZero
<1>2. numPlugins \in Nat
  BY DEF GetNumPlugins
<1>3. CASE size >= numPlugins
  <2>1. Resized = listeners
    BY <1>3 DEF Resized
  <2> QED
    BY <2>1, <1>1 DEF Before
<1>4. CASE ~(size >= numPlugins)
  <2>1. Resized = [i \in 0 .. numPlugins + Slack - 1 |->
                      IF i < size THEN listeners[i] ELSE <<>>]
    BY <1>4, Zenon DEF Resized
  <2>2. total \in Nat /\ size <= total
    BY <1>1, <1>2, <1>4, BoundsAssumption
  <2>3. total = numPlugins + Slack
    OBVIOUS
  <2> HIDE DEF size, numPlugins, total
  <2>4. DOMAIN Resized = 0 .. total - 1
    BY <1>2, <2>1, <2>2, <2>3, BoundsAssumption
  <2>5. \A i \in DOMAIN Resized : i \in DOMAIN listeners <=> i < size
    BY <1>1, <2>2, <2>4
  <2>6. \A i \in DOMAIN Resized : Resized[i] = Before(i)
    BY <2>1, <2>4, <2>5 DEF Before
  <2>7. DOMAIN listeners \subseteq DOMAIN Resized
    BY <1>1, <2>2, <2>4
  <2>8. \E n \in Nat : DOMAIN Resized = 0 .. n - 1
    BY <2>2, <2>4
  <2> QED
    BY <2>6, <2>7, <2>8
<1> QED
  BY <1>3, <1>4

\* A frame is left alone, or its list got the listener, which was not in it.
FrameKept(old, new, handle) ==
    \/ new = old
    \/ new = [old EXCEPT !.dangling = TRUE] /\ ~IsListener(Before(old.sender), handle)

LEMMA RegisterEffect ==
    ASSUME TypeOK, ListsFromZero,
           NEW owner \in Plugins, NEW handle \in Handles,
           NEW sender \in Senders \cup {NoSender},
           RegisterListener(owner, handle, sender)
    PROVE  /\ ListsFromZero'
           /\ DOMAIN listeners \subseteq DOMAIN listeners'
           /\ \A i \in DOMAIN listeners' : Grows(Before(i), listeners'[i], owner, handle)
           /\ stack' \in Seq(Frames) /\ Len(stack') = Len(stack)
           /\ \A k \in 1 .. Len(stack) : FrameKept(stack[k], stack'[k], handle)
           /\ answered' \subseteq Plugins \X Senders
           /\ UNCHANGED <<scanVars, loadVars, phase, got, audience>>
<1> DEFINE lists == Resized
           accepted == /\ handle <= GetNumPlugins
                       /\ \/ sender = NoSender
                          \/ LookupHandleFromName(sender) # kPluginHandle_Invalid
           joined == IF accepted THEN ListsToJoin(lists, handle, sender) ELSE {}
<1>1. /\ listeners' = [i \in DOMAIN lists |->
                          IF i \in joined THEN Append(lists[i], Entry(owner, handle))
                          ELSE lists[i]]
      /\ stack' = Touched(joined)
      /\ answered' = IF accepted THEN answered \cup Promised(owner, sender) ELSE answered
      /\ UNCHANGED <<scanVars, loadVars, phase, got, audience>>
  BY DEF RegisterListener, Entry
<1>2. plugins \in Seq(Plugins) /\ Len(plugins) \in Nat
  BY DEF TypeOK
<1>3. /\ \E n \in Nat : DOMAIN lists = 0 .. n - 1
      /\ DOMAIN listeners \subseteq DOMAIN lists
      /\ \A i \in DOMAIN lists : lists[i] = Before(i)
  BY <1>2, ResizedKeepsLists
<1>4. \A i \in joined : i \in DOMAIN lists /\ ~IsListener(Before(i), handle)
  BY <1>3 DEF ListsToJoin
<1> HIDE DEF lists, joined, accepted
<1>5. ListsFromZero' /\ DOMAIN listeners \subseteq DOMAIN listeners'
  BY <1>1, <1>3 DEF ListsFromZero
<1>6. \A i \in DOMAIN listeners' : Grows(Before(i), listeners'[i], owner, handle)
  BY <1>1, <1>3, <1>4 DEF Grows
<1>7. stack \in Seq(Frames)
  BY DEF TypeOK
<1>8. stack' \in Seq(Frames) /\ Len(stack') = Len(stack)
  <2>1. \A f \in Frames : [f EXCEPT !.dangling = TRUE] \in Frames
    BY DEF Frames
  <2>2. \A k \in 1 .. Len(stack) : stack[k] \in Frames
    BY <1>7
  <2> QED
    BY <1>1, <1>7, <2>1, <2>2 DEF Touched
<1>9. \A k \in 1 .. Len(stack) : FrameKept(stack[k], stack'[k], handle)
  BY <1>1, <1>4, <1>7 DEF Touched, FrameKept
<1>10. answered' \subseteq Plugins \X Senders
  <2>1. Loaded \subseteq Plugins
    BY <1>2 DEF Loaded
  <2>2. Promised(owner, sender) \subseteq Plugins \X Senders
    BY <2>1 DEF Promised, Senders
  <2> QED
    BY <1>1, <2>2 DEF TypeOK
<1> QED
  BY <1>1, <1>5, <1>6, <1>8, <1>9, <1>10
\* To iterate a list that has moved is all that can happen to a frame.
LEMMA FrameKeptFields ==
    ASSUME NEW old \in Frames, NEW new, NEW handle, FrameKept(old, new, handle)
    PROVE  /\ new.sender = old.sender /\ new.message = old.message
           /\ new.target = old.target /\ new.next = old.next
           /\ new.handling = old.handling
BY DEF FrameKept, Frames

\* A list that grows keeps its entries where they are, and what is new is the
\* listener's.
LEMMA GrowsKeepsEntries ==
    ASSUME NEW old \in Seq(Listener), NEW new,
           NEW owner \in Plugins, NEW handle \in Handles, Grows(old, new, owner, handle)
    PROVE  /\ new \in Seq(Listener) /\ Len(old) <= Len(new)
           /\ \A n \in 1 .. Len(old) : new[n] = old[n]
           /\ \A n \in 1 .. Len(new) : n \in 1 .. Len(old) \/ new[n] = Entry(owner, handle)
           /\ (\A m, n \in 1 .. Len(old) : old[m].listener = old[n].listener => m = n)
                 => \A m, n \in 1 .. Len(new) : new[m].listener = new[n].listener => m = n
<1>1. Entry(owner, handle) \in Listener /\ Entry(owner, handle).listener = handle
  BY DEF Entry, Listener
<1>2. CASE new = old
  BY <1>2
<1>3. CASE ~IsListener(old, handle) /\ new = Append(old, Entry(owner, handle))
  <2> DEFINE entry == Entry(owner, handle)
  <2> HIDE DEF entry
  <2>1. /\ Len(old) \in Nat /\ Len(new) = Len(old) + 1 /\ new \in Seq(Listener)
        /\ \A n \in 1 .. Len(old) : new[n] = old[n]
        /\ new[Len(old) + 1] = entry /\ entry.listener = handle
    BY <1>1, <1>3 DEF entry
  <2>2. \A n \in 1 .. Len(old) : old[n].listener # handle
    BY <1>3 DEF IsListener
  <2>3. \A n \in 1 .. Len(new) : n \in 1 .. Len(old) \/ n = Len(old) + 1
    BY <2>1
  <2> QED
    BY <2>1, <2>2, <2>3 DEF entry
<1> QED
  BY <1>2, <1>3 DEF Grows
\* Whoever registers, from whichever place: the handle must be its own.
OwnHandle(owner, handle) ==
    \/ owner \in Loaded /\ handle = HandleOf(owner)
    \/ loading = owner /\ currentHandle = handle

LEMMA RegisterKeepsIInv ==
    ASSUME IInv,
           NEW owner \in Plugins, NEW handle \in Handles,
           NEW sender \in Senders \cup {NoSender},
           OwnHandle(owner, handle),
           RegisterListener(owner, handle, sender)
    PROVE  IInv'
<1>1. /\ TypeOK /\ HandlesNamePlugins /\ OneEntryPerListener /\ ListsFromZero
      /\ LoadingNext /\ ScanIsQuiet /\ FramesOK /\ PostLoadSent /\ NotPostPostYet
  BY DEF IInv
<1>2. /\ ListsFromZero'
      /\ DOMAIN listeners \subseteq DOMAIN listeners'
      /\ \A i \in DOMAIN listeners' : Grows(Before(i), listeners'[i], owner, handle)
      /\ stack' \in Seq(Frames) /\ Len(stack') = Len(stack)
      /\ \A k \in 1 .. Len(stack) : FrameKept(stack[k], stack'[k], handle)
      /\ answered' \subseteq Plugins \X Senders
      /\ UNCHANGED <<visible, snapshot, visited, nFound, plugins, loading,
                     currentHandle, phase, got, audience>>
  BY <1>1, RegisterEffect DEF scanVars, loadVars
<1>3. \A i \in DOMAIN listeners' : Before(i) \in Seq(Listener)
  BY <1>1 DEF TypeOK, Before
<1>4. \A i \in DOMAIN listeners' :
        /\ listeners'[i] \in Seq(Listener)
        /\ \A n \in 1 .. Len(listeners'[i]) :
              \/ i \in DOMAIN listeners /\ n \in 1 .. Len(listeners[i])
                 /\ listeners'[i][n] = listeners[i][n]
              \/ listeners'[i][n] = Entry(owner, handle)
  <2> SUFFICES ASSUME NEW i \in DOMAIN listeners'
               PROVE  /\ listeners'[i] \in Seq(Listener)
                      /\ \A n \in 1 .. Len(listeners'[i]) :
                            \/ i \in DOMAIN listeners /\ n \in 1 .. Len(listeners[i])
                               /\ listeners'[i][n] = listeners[i][n]
                            \/ listeners'[i][n] = Entry(owner, handle)
    OBVIOUS
  <2>1. /\ listeners'[i] \in Seq(Listener)
        /\ \A n \in 1 .. Len(Before(i)) : listeners'[i][n] = Before(i)[n]
        /\ \A n \in 1 .. Len(listeners'[i]) :
              n \in 1 .. Len(Before(i)) \/ listeners'[i][n] = Entry(owner, handle)
    BY <1>2, <1>3, GrowsKeepsEntries
  <2>2. CASE i \in DOMAIN listeners
    BY <2>1, <2>2 DEF Before
  <2>3. CASE i \notin DOMAIN listeners
    <3>1. Before(i) = <<>> /\ Len(<<>>) = 0
      BY <2>3 DEF Before
    <3>2. \A n : n \notin 1 .. Len(Before(i))
      BY <3>1
    <3> QED
      BY <2>1, <3>2
  <2> QED
    BY <2>2, <2>3
<1>5. \A i \in DOMAIN listeners :
        /\ Len(listeners[i]) <= Len(listeners'[i])
        /\ \A n \in 1 .. Len(listeners[i]) :
              n \in 1 .. Len(listeners'[i]) /\ listeners'[i][n] = listeners[i][n]
  <2> SUFFICES ASSUME NEW i \in DOMAIN listeners
               PROVE  /\ Len(listeners[i]) <= Len(listeners'[i])
                      /\ \A n \in 1 .. Len(listeners[i]) :
                            /\ n \in 1 .. Len(listeners'[i])
                            /\ listeners'[i][n] = listeners[i][n]
    OBVIOUS
  <2>1. i \in DOMAIN listeners' /\ Before(i) = listeners[i] /\ Before(i) \in Seq(Listener)
    BY <1>2, <1>3 DEF Before
  <2>2. /\ Len(listeners[i]) <= Len(listeners'[i])
        /\ listeners'[i] \in Seq(Listener)
        /\ \A n \in 1 .. Len(listeners[i]) : listeners'[i][n] = listeners[i][n]
    BY <1>2, <2>1, GrowsKeepsEntries
  <2> QED
    BY <2>1, <2>2
<1>6. TypeOK'
  <2>1. DOMAIN listeners' = 0 .. Cardinality(DOMAIN listeners') - 1
    BY <1>2, Counted DEF ListsFromZero
  <2>2. \A i \in DOMAIN listeners' : listeners'[i] \in Seq(Listener)
    BY <1>4
  <2> QED
    BY <1>1, <1>2, <2>1, <2>2 DEF TypeOK
<1>7. HandlesNamePlugins'
  <2>1. Entry(owner, handle).listener = handle /\ Entry(owner, handle).owner = owner
    BY DEF Entry
  <2>2. \/ handle \in 1 .. Len(plugins) /\ plugins[handle] = owner
        \/ loading = owner /\ currentHandle = handle
    BY HandleOfLoaded DEF OwnHandle
  <2>3. \A e \in Entries' : e \in Entries \/ e = Entry(owner, handle)
    BY <1>4 DEF Entries
  <2>4. LoadedOnce'
    BY <1>1, <1>2 DEF HandlesNamePlugins, LoadedOnce
  <2> QED
    BY <1>1, <1>2, <2>1, <2>2, <2>3, <2>4 DEF HandlesNamePlugins
<1>8. OneEntryPerListener'
  <2> SUFFICES ASSUME NEW i \in DOMAIN listeners'
               PROVE  \A m, n \in 1 .. Len(listeners'[i]) :
                        listeners'[i][m].listener = listeners'[i][n].listener => m = n
    BY DEF OneEntryPerListener
  <2>1. \A m, n \in 1 .. Len(Before(i)) : Before(i)[m].listener = Before(i)[n].listener => m = n
    BY <1>1 DEF OneEntryPerListener, Before
  <2> QED
    BY <1>2, <1>3, <2>1, GrowsKeepsEntries
<1>9. LoadingNext'
  BY <1>1, <1>2 DEF LoadingNext, Loaded
<1>10. ScanIsQuiet'
  BY <1>1, <1>2 DEF ScanIsQuiet
<1>11. \A k \in 1 .. Len(stack) :
         /\ stack'[k].sender = stack[k].sender /\ stack'[k].message = stack[k].message
         /\ stack'[k].target = stack[k].target /\ stack'[k].next = stack[k].next
         /\ stack'[k].handling = stack[k].handling
  BY <1>1, <1>2, FrameKeptFields DEF TypeOK
<1>12. FramesOK'
  <2> SUFFICES ASSUME NEW k \in 1 .. Len(stack) PROVE FrameOK(stack[k])'
    BY <1>2 DEF FramesOK
  <2>1. FrameOK(stack[k])
    BY <1>1 DEF FramesOK
  <2>2. Loaded' = Loaded /\ \A p : HandleOf(p)' = HandleOf(p)
    BY <1>2 DEF Loaded, HandleOf
  <2>3. stack'[k].sender \in DOMAIN listeners'
    BY <1>2, <1>11, <2>1 DEF FrameOK
  <2>4. ASSUME stack'[k].handling # NoPlugin
        PROVE  IsListener(listeners'[stack'[k].sender], HandleOf(stack[k].handling))
    BY <1>5, <1>11, <2>1, <2>4 DEF FrameOK, IsListener
  <2> QED
    BY <1>11, <2>1, <2>2, <2>3, <2>4 DEF FrameOK
<1>13. \A p \in audience : Awaits(p) => Awaits(p)'
  <2> SUFFICES ASSUME NEW p, Awaits(p) PROVE Awaits(p)'
    OBVIOUS
  <2>1. stack # <<>> /\ stack[1].sender = 0
    BY DEF Awaits
  <2>2. 1 \in 1 .. Len(stack) /\ stack' # <<>>
    BY <1>1, <1>2, <2>1 DEF TypeOK
  <2>3. 0 \in DOMAIN listeners
    BY <1>1, <2>1, <2>2 DEF FramesOK, FrameOK
  <2>4. Following(stack[1])' = Following(stack[1])
    BY <1>11, <2>2 DEF Following
  <2> QED
    BY <1>5, <1>11, <2>2, <2>3, <2>4 DEF Awaits
<1>14. PostLoadSent'
  BY <1>1, <1>2, <1>13 DEF PostLoadSent
<1>15. NotPostPostYet'
  BY <1>1, <1>2, <1>11 DEF NotPostPostYet
<1> QED
  BY <1>2, <1>6, <1>7, <1>8, <1>9, <1>10, <1>12, <1>14, <1>15 DEF IInv
-----------------------------------------------------------------------------
(* The initial states and the scan. *)

LEMMA InitIInv == Init => IInv
<1> SUFFICES ASSUME Init PROVE IInv
  OBVIOUS
<1>1. /\ listeners = [i \in {} |-> <<>>] /\ plugins = <<>> /\ stack = <<>>
      /\ loading = NoPlugin /\ currentHandle = 0 /\ phase = "scan"
      /\ got = [p \in Plugins |-> {}] /\ audience = {} /\ answered = {}
      /\ visible \subseteq Plugins /\ snapshot = visible /\ visited = {} /\ nFound = FALSE
  BY DEF Init
<1>2. DOMAIN listeners = {} /\ {} = 0 .. 0 - 1
  BY <1>1
<1>3. ListsFromZero
  BY <1>2 DEF ListsFromZero
<1>4. DOMAIN listeners = 0 .. Cardinality(DOMAIN listeners) - 1
  BY <1>3, Counted DEF ListsFromZero
<1>5. Len(plugins) = 0 /\ Len(stack) = 0 /\ Loaded = {} /\ Entries = {}
  BY <1>1, <1>2 DEF Loaded, Entries
<1>6. TypeOK
  <2>1. got \in [Plugins -> SUBSET Messages]
    BY <1>1
  <2>2. stack \in Seq(Frames) /\ Len(stack) <= MaxDepth /\ plugins \in Seq(Plugins)
    BY <1>1, <1>5, BoundsAssumption
  <2>3. /\ \A i \in DOMAIN listeners : listeners[i] \in Seq(Listener)
        /\ currentHandle \in Handles
    BY <1>1, <1>2, PluginsAreFinite DEF Handles
  <2>4. visited \subseteq visible /\ answered \subseteq Plugins \X Senders /\ nFound \in BOOLEAN
    BY <1>1
  <2> QED
    BY <1>1, <1>4, <2>1, <2>2, <2>3, <2>4 DEF TypeOK
<1>7. HandlesNamePlugins /\ OneEntryPerListener
  BY <1>2, <1>5 DEF HandlesNamePlugins, LoadedOnce, OneEntryPerListener
<1> QED
  BY <1>1, <1>3, <1>5, <1>6, <1>7
     DEF IInv, LoadingNext, ScanIsQuiet, FramesOK, PostLoadSent, NotPostPostYet

\* While the scan goes on there is nothing to say of messages.
LEMMA ScanStaysQuiet ==
    ASSUME ScanIsQuiet, phase = "scan", UNCHANGED <<phase, stack, audience, got>>
    PROVE  ScanIsQuiet' /\ FramesOK' /\ PostLoadSent' /\ NotPostPostYet'
<1>1. stack' = <<>> /\ Len(<<>>) = 0 /\ audience' = {}
  BY DEF ScanIsQuiet
<1> QED
  BY <1>1 DEF ScanIsQuiet, FramesOK, PostLoadSent, NotPostPostYet

LEMMA VisitPluginKeepsIInv ==
    ASSUME IInv, NEW p \in Plugins, VisitPlugin(p)
    PROVE  IInv'
<1>1. /\ TypeOK /\ HandlesNamePlugins /\ OneEntryPerListener /\ ListsFromZero
      /\ LoadingNext /\ ScanIsQuiet
  BY DEF IInv
<1>2. /\ phase = "scan" /\ loading = NoPlugin /\ p \in visible
      /\ visited' = visited \cup {p}
      /\ UNCHANGED <<visible, snapshot, nFound, plugins, listeners, stack, phase,
                     got, audience, answered>>
      /\ \/ UNCHANGED <<loading, currentHandle>>
         \/ p \notin Loaded /\ loading' = p /\ currentHandle' = Len(plugins) + 1
  BY DEF VisitPlugin, historyVars
<1>3. currentHandle' \in Handles /\ loading' \in Plugins \cup {NoPlugin}
  <2>1. CASE UNCHANGED <<loading, currentHandle>>
    BY <1>1, <2>1 DEF TypeOK
  <2>2. CASE p \notin Loaded /\ loading' = p /\ currentHandle' = Len(plugins) + 1
    <3>1. plugins \in Seq(Plugins) /\ LoadedOnce
      BY <1>1 DEF TypeOK, HandlesNamePlugins
    <3>2. Len(plugins) \in Nat /\ Len(plugins) + 1 <= Cardinality(Plugins)
      BY <2>2, <3>1, HandlesSuffice
    <3> QED
      BY <2>2, <3>2, PluginsAreFinite DEF Handles
  <2> QED
    BY <1>2, <2>1, <2>2
<1>4. TypeOK'
  BY <1>1, <1>2, <1>3 DEF TypeOK
<1>5. HandlesNamePlugins'
  <2>1. \A e \in Entries : e.owner # NoPlugin
    <3> SUFFICES ASSUME NEW i \in DOMAIN listeners, NEW n \in 1 .. Len(listeners[i])
                 PROVE  listeners[i][n].owner # NoPlugin
      BY DEF Entries
    <3>1. listeners[i][n] \in Listener
      BY <1>1 DEF TypeOK
    <3> QED
      BY <3>1, NamesAssumption DEF Listener
  <2>2. Entries' = Entries
    BY <1>2 DEF Entries
  <2> QED
    BY <1>1, <1>2, <2>1, <2>2 DEF HandlesNamePlugins, LoadedOnce
<1>6. OneEntryPerListener' /\ ListsFromZero'
  BY <1>1, <1>2 DEF OneEntryPerListener, ListsFromZero
<1>7. LoadingNext'
  BY <1>1, <1>2 DEF LoadingNext, Loaded
<1>8. ScanIsQuiet' /\ FramesOK' /\ PostLoadSent' /\ NotPostPostYet'
  BY <1>1, <1>2, ScanStaysQuiet
<1> QED
  BY <1>4, <1>5, <1>6, <1>7, <1>8 DEF IInv

LEMMA LoadSucceedsKeepsIInv ==
    ASSUME IInv, LoadSucceeds
    PROVE  IInv'
<1>1. /\ TypeOK /\ HandlesNamePlugins /\ OneEntryPerListener /\ ListsFromZero
      /\ LoadingNext /\ ScanIsQuiet
  BY DEF IInv
<1>2. /\ phase = "scan" /\ loading # NoPlugin
      /\ plugins' = Append(plugins, loading)
      /\ loading' = NoPlugin
      /\ nFound' = TRUE
      /\ visible \subseteq visible' /\ visible' \subseteq Plugins
      /\ UNCHANGED <<snapshot, visited, currentHandle, listeners, stack, phase,
                     got, audience, answered>>
  BY <1>1 DEF LoadSucceeds, historyVars, TypeOK
<1>3. /\ plugins \in Seq(Plugins) /\ loading \in Plugins
      /\ loading \notin Loaded /\ currentHandle = Len(plugins) + 1
  BY <1>1, <1>2 DEF TypeOK, LoadingNext
<1>4. /\ plugins' \in Seq(Plugins) /\ Len(plugins) \in Nat
      /\ Len(plugins') = Len(plugins) + 1
      /\ \A i \in 1 .. Len(plugins) : plugins'[i] = plugins[i]
      /\ plugins'[currentHandle] = loading
  BY <1>2, <1>3
<1>5. TypeOK'
  BY <1>1, <1>2, <1>4 DEF TypeOK
<1>6. LoadedOnce'
  <2>1. \A i \in 1 .. Len(plugins) : plugins[i] # loading
    BY <1>3 DEF Loaded
  <2>2. \A i \in 1 .. Len(plugins') : i \in 1 .. Len(plugins) \/ i = currentHandle
    BY <1>3, <1>4
  <2> QED
    BY <1>1, <1>4, <2>1, <2>2 DEF HandlesNamePlugins, LoadedOnce
<1>7. HandlesNamePlugins'
  <2>1. Entries' = Entries
    BY <1>2 DEF Entries
  <2>2. currentHandle \in 1 .. Len(plugins') /\ 1 .. Len(plugins) \subseteq 1 .. Len(plugins')
    BY <1>3, <1>4
  <2> QED
    BY <1>1, <1>4, <1>6, <2>1, <2>2 DEF HandlesNamePlugins
<1>8. OneEntryPerListener' /\ ListsFromZero'
  BY <1>1, <1>2 DEF OneEntryPerListener, ListsFromZero
<1>9. LoadingNext'
  BY <1>2 DEF LoadingNext
<1>10. ScanIsQuiet' /\ FramesOK' /\ PostLoadSent' /\ NotPostPostYet'
  BY <1>1, <1>2, ScanStaysQuiet
<1> QED
  BY <1>5, <1>7, <1>8, <1>9, <1>10 DEF IInv
\* A list whose entries of a freed library are marked.
Freed(list, owner) ==
    [n \in 1 .. Len(list) |->
        IF list[n].owner = owner THEN [list[n] EXCEPT !.owner = Unloaded] ELSE list[n]]

LEMMA FreedKeepsListeners ==
    ASSUME NEW list \in Seq(Listener), NEW owner
    PROVE  /\ Freed(list, owner) \in Seq(Listener)
           /\ Len(Freed(list, owner)) = Len(list)
           /\ \A n \in 1 .. Len(list) :
                 /\ Freed(list, owner)[n].listener = list[n].listener
                 /\ \/ Freed(list, owner)[n].owner = Unloaded
                    \/ Freed(list, owner)[n] = list[n] /\ list[n].owner # owner
<1>1. Len(list) \in Nat
  OBVIOUS
<1>2. ASSUME NEW n \in 1 .. Len(list)
      PROVE  /\ Freed(list, owner)[n] \in Listener
             /\ Freed(list, owner)[n].listener = list[n].listener
             /\ \/ Freed(list, owner)[n].owner = Unloaded
                \/ Freed(list, owner)[n] = list[n] /\ list[n].owner # owner
  <2>1. list[n] \in Listener
    OBVIOUS
  <2>2. Freed(list, owner)[n] =
            IF list[n].owner = owner THEN [list[n] EXCEPT !.owner = Unloaded] ELSE list[n]
    BY DEF Freed
  <2> QED
    BY <2>1, <2>2 DEF Listener
<1>3. Freed(list, owner) \in Seq(Listener) /\ Len(Freed(list, owner)) = Len(list)
  BY <1>1, <1>2 DEF Freed
<1> QED
  BY <1>2, <1>3

LEMMA LoadFailsKeepsIInv ==
    ASSUME IInv, LoadFails
    PROVE  IInv'
<1>1. /\ TypeOK /\ HandlesNamePlugins /\ OneEntryPerListener /\ ListsFromZero
      /\ LoadingNext /\ ScanIsQuiet
  BY DEF IInv
<1>2. /\ phase = "scan" /\ loading # NoPlugin
      /\ listeners' = [i \in DOMAIN listeners |-> Freed(listeners[i], loading)]
      /\ answered' \subseteq answered
      /\ loading' = NoPlugin
      /\ UNCHANGED <<visible, snapshot, visited, nFound, plugins, currentHandle,
                     stack, phase, got, audience>>
  BY DEF LoadFails, scanVars, Freed
<1>3. DOMAIN listeners' = DOMAIN listeners
  BY <1>2
<1>4. \A i \in DOMAIN listeners : listeners[i] \in Seq(Listener)
  BY <1>1 DEF TypeOK
<1>5. \A i \in DOMAIN listeners :
        /\ listeners'[i] \in Seq(Listener) /\ Len(listeners'[i]) = Len(listeners[i])
        /\ \A n \in 1 .. Len(listeners[i]) :
              /\ listeners'[i][n].listener = listeners[i][n].listener
              /\ \/ listeners'[i][n].owner = Unloaded
                 \/ /\ listeners'[i][n] = listeners[i][n]
                    /\ listeners[i][n].owner # loading
  BY <1>2, <1>4, FreedKeepsListeners
<1>6. TypeOK'
  BY <1>1, <1>2, <1>3, <1>5 DEF TypeOK
<1>7. HandlesNamePlugins'
  <2>1. \A e \in Entries' : e.owner = Unloaded \/ (e \in Entries /\ e.owner # loading)
    BY <1>3, <1>5 DEF Entries
  <2>2. LoadedOnce'
    BY <1>1, <1>2 DEF HandlesNamePlugins, LoadedOnce
  <2>3. \A e \in Entries' :
          \/ e.owner = Unloaded
          \/ e.listener \in 1 .. Len(plugins) /\ plugins[e.listener] = e.owner
    BY <1>1, <2>1 DEF HandlesNamePlugins
  <2> QED
    BY <1>2, <2>2, <2>3 DEF HandlesNamePlugins
<1>8. OneEntryPerListener' /\ ListsFromZero'
  BY <1>1, <1>3, <1>5 DEF OneEntryPerListener, ListsFromZero
<1>9. LoadingNext'
  BY <1>2 DEF LoadingNext
<1>10. ScanIsQuiet' /\ FramesOK' /\ PostLoadSent' /\ NotPostPostYet'
  BY <1>1, <1>2, ScanStaysQuiet
<1> QED
  BY <1>6, <1>7, <1>8, <1>9, <1>10 DEF IInv

\* A dispatch starts with a frame that has called nobody.
LEMMA DispatchStarts ==
    ASSUME TypeOK, LoadedOnce,
           NEW sender, NEW message \in Messages, NEW receiver,
           MayDispatch(sender, receiver)
    PROVE  /\ Frame(sender, message, receiver) \in Frames
           /\ FrameOK(Frame(sender, message, receiver))
           /\ Frame(sender, message, receiver).message = message
<1> DEFINE frame == Frame(sender, message, receiver)
<1>1. /\ frame.sender = sender /\ frame.message = message /\ frame.handling = NoPlugin
      /\ frame.next = 1
  BY DEF Frame
<1>2. sender \in DOMAIN listeners /\ sender \in Handles
  <2>1. /\ plugins \in Seq(Plugins) /\ sender \in DOMAIN listeners /\ sender <= Len(plugins)
        /\ DOMAIN listeners = 0 .. Cardinality(DOMAIN listeners) - 1
    BY DEF MayDispatch, TypeOK
  <2>2. Len(plugins) \in Nat /\ Len(plugins) <= Cardinality(Plugins)
    BY <2>1, HandlesSuffice
  <2>3. sender \in Int /\ 0 <= sender
    BY <2>1
  <2> QED
    BY <2>1, <2>2, <2>3, PluginsAreFinite DEF Handles
<1>3. frame.target \in Handles \cup {kPluginHandle_Invalid}
  BY LookupIsAHandle DEF TypeOK, Frame
<1>4. frame \in Frames
  BY <1>2, <1>3 DEF Frame, Frames
<1>5. FrameOK(frame)
  BY <1>1, <1>2 DEF FrameOK
<1> QED
  BY <1>1, <1>4, <1>5
\* Where there is a list for it, a dispatch that NVSE makes goes on the stack.
LEMMA FirstDispatch ==
    ASSUME TypeOK, LoadedOnce, stack = <<>>, NEW message \in Messages,
           NEW sender, NEW receiver
    PROVE  LET new == Dispatched(sender, message, receiver)
           IN  /\ new \in Seq(Frames) /\ Len(new) <= MaxDepth
               /\ \A k \in 1 .. Len(new) : FrameOK(new[k]) /\ new[k].message = message
<1> DEFINE new == Dispatched(sender, message, receiver)
<1>1. CASE MayDispatch(sender, receiver)
  <2> DEFINE frame == Frame(sender, message, receiver)
  <2>1. frame \in Frames /\ FrameOK(frame) /\ frame.message = message
    BY <1>1, DispatchStarts
  <2>2. new = Append(<<>>, frame)
    BY <1>1 DEF Dispatched
  <2> HIDE DEF frame, new
  <2>3. new \in Seq(Frames) /\ Len(new) = 1 /\ new[1] = frame
    BY <2>1, <2>2
  <2>4. \A k \in 1 .. Len(new) : new[k] = frame
    BY <2>3
  <2>5. Len(new) <= MaxDepth
    BY <2>3, BoundsAssumption
  <2> QED
    BY <2>1, <2>3, <2>4, <2>5 DEF new
<1>2. CASE ~MayDispatch(sender, receiver)
  <2>1. new = <<>>
    BY <1>2 DEF Dispatched
  <2> QED
    BY <2>1, BoundsAssumption
<1> QED
  BY <1>1, <1>2

LEMMA EndPassKeepsIInv ==
    ASSUME IInv, EndPass
    PROVE  IInv'
<1>1. /\ TypeOK /\ HandlesNamePlugins /\ OneEntryPerListener /\ ListsFromZero
      /\ LoadingNext /\ ScanIsQuiet
  BY DEF IInv
<1>2. /\ phase = "scan" /\ loading = NoPlugin
      /\ visited' = {} /\ snapshot' = visible /\ nFound' = FALSE
      /\ UNCHANGED <<visible, plugins, loading, listeners, got, answered>>
  BY DEF EndPass
<1>3. stack = <<>> /\ LoadedOnce
  BY <1>1, <1>2 DEF ScanIsQuiet, HandlesNamePlugins
<1>4. CASE nFound
  <2>1. UNCHANGED <<phase, stack, currentHandle, audience>>
    BY <1>4 DEF EndPass
  <2>2. TypeOK'
    BY <1>1, <1>2, <2>1 DEF TypeOK
  <2>3. HandlesNamePlugins' /\ OneEntryPerListener' /\ ListsFromZero'
    BY <1>1, <1>2, <2>1
       DEF HandlesNamePlugins, LoadedOnce, Entries, OneEntryPerListener, ListsFromZero
  <2>4. LoadingNext'
    BY <1>2 DEF LoadingNext
  <2>5. ScanIsQuiet' /\ FramesOK' /\ PostLoadSent' /\ NotPostPostYet'
    BY <1>1, <1>2, <2>1, ScanStaysQuiet
  <2> QED
    BY <2>2, <2>3, <2>4, <2>5 DEF IInv
<1>5. CASE ~nFound
  <2>1. /\ phase' = "postLoad" /\ currentHandle' = 0
        /\ stack' = Dispatched(0, "PostLoad", NoPlugin)
        /\ audience' = IF 0 \in DOMAIN listeners
                       THEN {p \in Loaded : \E n \in 1 .. Len(listeners[0]) :
                                              listeners[0][n].owner = p}
                       ELSE {}
    BY <1>5 DEF EndPass
  <2>2. /\ stack' \in Seq(Frames) /\ Len(stack') <= MaxDepth
        /\ \A k \in 1 .. Len(stack') : FrameOK(stack'[k]) /\ stack'[k].message = "PostLoad"
    BY <1>1, <1>3, <2>1, FirstDispatch DEF Messages
  <2>3. Loaded \subseteq Plugins /\ audience' \subseteq Loaded
    BY <1>1, <2>1 DEF TypeOK, Loaded
  <2>4. TypeOK'
    <3>1. audience' \subseteq Plugins /\ phase' = "postLoad"
      BY <2>1, <2>3
    <3>2. currentHandle' \in Handles
      BY <2>1, PluginsAreFinite DEF Handles
    <3> QED
      BY <1>1, <1>2, <2>2, <3>1, <3>2 DEF TypeOK
  <2>5. HandlesNamePlugins'
    <3>1. Entries' = Entries /\ LoadedOnce'
      BY <1>2, <1>3 DEF Entries, LoadedOnce
    <3>2. \A e \in Entries : e.owner # NoPlugin
      <4> SUFFICES ASSUME NEW i \in DOMAIN listeners, NEW n \in 1 .. Len(listeners[i])
                   PROVE  listeners[i][n].owner # NoPlugin
        BY DEF Entries
      <4>1. listeners[i][n] \in Listener
        BY <1>1 DEF TypeOK
      <4> QED
        BY <4>1, NamesAssumption DEF Listener
    <3> QED
      BY <1>1, <1>2, <3>1, <3>2 DEF HandlesNamePlugins
  <2>6. OneEntryPerListener' /\ ListsFromZero' /\ LoadingNext'
    BY <1>1, <1>2 DEF OneEntryPerListener, ListsFromZero, LoadingNext
  <2>7. ScanIsQuiet' /\ NotPostPostYet'
    BY <2>1, <2>2 DEF ScanIsQuiet, NotPostPostYet
  <2>8. FramesOK'
    BY <1>2, <2>2 DEF FramesOK, FrameOK, Loaded, HandleOf, IsListener
  <2>9. ASSUME NEW p \in audience'
        PROVE  "PostPostLoad" \notin got'[p] /\ Awaits(p)'
    <3>1. /\ 0 \in DOMAIN listeners /\ p \in Plugins
          /\ \E n \in 1 .. Len(listeners[0]) : listeners[0][n].owner = p
      BY <2>1, <2>3, <2>9
    <3>2. got'[p] = {}
      BY <1>1, <1>2, <3>1 DEF ScanIsQuiet
    <3>3. MayDispatch(0, NoPlugin)
      BY <1>1, <3>1 DEF MayDispatch, TypeOK
    <3>4. stack' = Append(<<>>, Frame(0, "PostLoad", NoPlugin))
      BY <1>3, <2>1, <3>3 DEF Dispatched
    <3>5. stack' # <<>> /\ stack'[1] = Frame(0, "PostLoad", NoPlugin)
      BY <3>4
    <3>6. /\ stack'[1].sender = 0 /\ stack'[1].message = "PostLoad"
          /\ stack'[1].target = kPluginHandle_Invalid
          /\ stack'[1].next = 1 /\ stack'[1].handling = NoPlugin
      BY <3>5 DEF Frame
    <3>7. Awaits(p)'
      BY <1>2, <3>1, <3>5, <3>6 DEF Awaits, Following
    <3> QED
      BY <3>2, <3>7
  <2>10. PostLoadSent'
    BY <2>1, <2>9 DEF PostLoadSent
  <2> QED
    BY <2>4, <2>5, <2>6, <2>7, <2>8, <2>10 DEF IInv
<1> QED
  BY <1>4, <1>5
LEMMA ScanKeepsIInv == IInv /\ Scan => IInv'
BY VisitPluginKeepsIInv, LoadSucceedsKeepsIInv, LoadFailsKeepsIInv, EndPassKeepsIInv DEF Scan

-----------------------------------------------------------------------------
(* Dispatches. *)

LEMMA TopReplaced ==
    ASSUME stack \in Seq(Frames), stack # <<>>, NEW frame \in Frames
    PROVE  /\ Len(stack) \in Nat \ {0} /\ Top \in Frames /\ Top = stack[Len(stack)]
           /\ SetTop(frame) \in Seq(Frames) /\ Len(SetTop(frame)) = Len(stack)
           /\ SetTop(frame)[Len(stack)] = frame
           /\ \A k \in 1 .. Len(stack) - 1 : SetTop(frame)[k] = stack[k]
BY DEF SetTop, Top

LEMMA TopPopped ==
    ASSUME stack \in Seq(Frames), stack # <<>>
    PROVE  /\ Len(stack) \in Nat \ {0} /\ Top \in Frames /\ Top = stack[Len(stack)]
           /\ Pop \in Seq(Frames) /\ Len(Pop) = Len(stack) - 1
           /\ \A k \in 1 .. Len(stack) - 1 : Pop[k] = stack[k]
<1>1. Len(stack) \in Nat \ {0} /\ Top \in Frames /\ Top = stack[Len(stack)]
  BY DEF Top
<1> DEFINE n == Len(stack) - 1
<1>2. n \in Nat /\ n <= Len(stack) /\ Pop = SubSeq(stack, 1, n)
  BY <1>1 DEF Pop
<1> HIDE DEF n
<1>3. Pop \in Seq(Frames) /\ Len(Pop) = n /\ \A k \in 1 .. n : Pop[k] = stack[k]
  BY <1>2
<1> QED
  BY <1>1, <1>3 DEF n

\* A step of a dispatch: it is enough to look at the frames it leaves and at
\* those who still await PostLoad.
LEMMA DispatchStepKeepsIInv ==
    ASSUME IInv, phase # "scan",
           UNCHANGED <<scanVars, loadVars, listeners, phase, audience, answered>>,
           stack' \in Seq(Frames), Len(stack') <= MaxDepth,
           \A k \in 1 .. Len(stack') :
               /\ FrameOK(stack'[k])
               /\ phase = "postLoad" => stack'[k].message # "PostPostLoad",
           got' \in [Plugins -> SUBSET Messages],
           \A p \in Plugins :
               /\ got[p] \subseteq got'[p]
               /\ phase \in {"postLoad", "crashed"} /\ "PostPostLoad" \in got'[p]
                      => "PostPostLoad" \in got[p],
           \A p \in Plugins :
               phase = "postLoad" /\ Awaits(p) => Awaits(p)' \/ "PostLoad" \in got'[p]
    PROVE  IInv'
<1>1. /\ TypeOK /\ HandlesNamePlugins /\ OneEntryPerListener /\ ListsFromZero
      /\ LoadingNext /\ ScanIsQuiet /\ PostLoadSent
  BY DEF IInv
<1>2. UNCHANGED <<visible, snapshot, visited, nFound, plugins, loading, currentHandle,
                  listeners, phase, audience, answered>>
  BY DEF scanVars, loadVars
<1>3. TypeOK'
  BY <1>1, <1>2 DEF TypeOK
<1>4. HandlesNamePlugins' /\ OneEntryPerListener' /\ ListsFromZero'
  <2>1. Entries' = Entries /\ LoadedOnce' = LoadedOnce
    BY <1>2 DEF Entries, LoadedOnce
  <2>2. HandlesNamePlugins'
    BY <1>1, <1>2, <2>1 DEF HandlesNamePlugins
  <2> QED
    BY <1>1, <1>2, <2>2 DEF OneEntryPerListener, ListsFromZero
<1>5. LoadingNext' /\ ScanIsQuiet'
  BY <1>1, <1>2 DEF LoadingNext, Loaded, ScanIsQuiet
<1>6. FramesOK' /\ NotPostPostYet'
  BY <1>2 DEF FramesOK, FrameOK, Loaded, HandleOf, IsListener, NotPostPostYet
<1>7. PostLoadSent'
  <2> SUFFICES ASSUME NEW p \in audience, "PostLoad" \notin got'[p]
               PROVE  /\ phase \in {"postLoad", "crashed"}
                      /\ "PostPostLoad" \notin got'[p]
                      /\ phase = "postLoad" => Awaits(p)'
    BY <1>2 DEF PostLoadSent
  <2>1. p \in Plugins
    BY <1>1 DEF TypeOK
  <2>2. /\ phase \in {"postLoad", "crashed"} /\ "PostPostLoad" \notin got[p]
        /\ phase = "postLoad" => Awaits(p)
    BY <1>1, <2>1 DEF PostLoadSent
  <2> QED
    BY <2>1, <2>2
<1> QED
  BY <1>3, <1>4, <1>5, <1>6, <1>7 DEF IInv

\* As long as the bottom frame is the same, the same plugins await PostLoad.
LEMMA BottomKept ==
    ASSUME stack # <<>>, stack' # <<>>, stack'[1] = stack[1], UNCHANGED listeners
    PROVE  \A p \in Plugins : Awaits(p) => Awaits(p)'
BY DEF Awaits, Following

\* What the stack holds is right, and there is nothing before the scan is over.
LEMMA StackFacts ==
    ASSUME IInv, stack # <<>>
    PROVE  /\ phase # "scan" /\ loading = NoPlugin
           /\ stack \in Seq(Frames) /\ Len(stack) \in Nat \ {0} /\ Len(stack) <= MaxDepth
           /\ Top \in Frames /\ Top = stack[Len(stack)] /\ FrameOK(Top)
           /\ \A k \in 1 .. Len(stack) :
                 /\ FrameOK(stack[k])
                 /\ phase = "postLoad" => stack[k].message # "PostPostLoad"
           /\ Top.sender \in DOMAIN listeners /\ listeners[Top.sender] \in Seq(Listener)
<1>1. stack \in Seq(Frames) /\ Len(stack) \in Nat \ {0} /\ Len(stack) <= MaxDepth
  BY DEF IInv, TypeOK
<1>2. phase # "scan" /\ loading = NoPlugin
  BY DEF IInv, ScanIsQuiet, LoadingNext
<1>3. \A k \in 1 .. Len(stack) :
         /\ FrameOK(stack[k])
         /\ phase = "postLoad" => stack[k].message # "PostPostLoad"
  BY DEF IInv, FramesOK, NotPostPostYet
<1>4. Len(stack) \in 1 .. Len(stack) /\ Top = stack[Len(stack)]
  BY <1>1 DEF Top
<1>5. FrameOK(Top) /\ Top \in Frames
  BY <1>1, <1>3, <1>4
<1>6. Top.sender \in DOMAIN listeners /\ listeners[Top.sender] \in Seq(Listener)
  BY <1>5 DEF FrameOK, IInv, TypeOK
<1> QED
  BY <1>1, <1>2, <1>3, <1>4, <1>5, <1>6
\* A step of the innermost dispatch leaves the frames under it.
LEMMA TopSteps ==
    ASSUME IInv, stack # <<>>,
           NEW frame \in Frames, FrameOK(frame), frame.message = Top.message,
           stack' = SetTop(frame)
    PROVE  /\ stack' \in Seq(Frames) /\ Len(stack') <= MaxDepth /\ stack' # <<>>
           /\ \A k \in 1 .. Len(stack') :
                 /\ FrameOK(stack'[k])
                 /\ phase = "postLoad" => stack'[k].message # "PostPostLoad"
           /\ Len(stack) # 1 => stack'[1] = stack[1]
           /\ Len(stack) = 1 => stack'[1] = frame /\ Top = stack[1]
<1>1. /\ stack \in Seq(Frames) /\ Len(stack) \in Nat \ {0} /\ Len(stack) <= MaxDepth
      /\ Top = stack[Len(stack)]
      /\ \A k \in 1 .. Len(stack) :
            /\ FrameOK(stack[k])
            /\ phase = "postLoad" => stack[k].message # "PostPostLoad"
  BY StackFacts
<1>2. /\ stack' \in Seq(Frames) /\ Len(stack') = Len(stack)
      /\ stack'[Len(stack)] = frame
      /\ \A k \in 1 .. Len(stack) - 1 : stack'[k] = stack[k]
  BY <1>1, TopReplaced
<1>3. \A k \in 1 .. Len(stack) : k \in 1 .. Len(stack) - 1 \/ k = Len(stack)
  BY <1>1
<1>4. \A k \in 1 .. Len(stack') :
         /\ FrameOK(stack'[k])
         /\ phase = "postLoad" => stack'[k].message # "PostPostLoad"
  <2> SUFFICES ASSUME NEW k \in 1 .. Len(stack)
               PROVE  /\ FrameOK(stack'[k])
                      /\ phase = "postLoad" => stack'[k].message # "PostPostLoad"
    BY <1>2
  <2>1. CASE k \in 1 .. Len(stack) - 1
    BY <1>1, <1>2, <2>1
  <2>2. CASE k = Len(stack)
    BY <1>1, <1>2, <2>2
  <2> QED
    BY <1>3, <2>1, <2>2
<1>5. stack' # <<>>
  BY <1>1, <1>2
<1> QED
  BY <1>1, <1>2, <1>4, <1>5

LEMMA DeliverKeepsIInv ==
    ASSUME IInv, Deliver
    PROVE  IInv'
<1> DEFINE entry == listeners[Top.sender][Top.next]
           called == Top.target \in {kPluginHandle_Invalid, entry.listener}
<1>1. /\ phase # "crashed" /\ stack # <<>> /\ Top.handling = NoPlugin
      /\ Top.next <= Len(listeners[Top.sender])
      /\ UNCHANGED <<scanVars, loadVars, listeners, phase, audience, answered>>
  BY DEF Deliver, Iterating
<1>2. /\ phase # "scan" /\ loading = NoPlugin
      /\ Top \in Frames /\ FrameOK(Top) /\ Top.sender \in DOMAIN listeners
      /\ listeners[Top.sender] \in Seq(Listener)
  BY <1>1, StackFacts
<1>3. Top.next \in 1 .. Len(listeners[Top.sender]) /\ Top.next \in Nat
  BY <1>1, <1>2 DEF Frames
<1>4. entry \in Listener /\ entry \in Entries
  BY <1>2, <1>3 DEF Entries
<1> HIDE DEF entry
<1>5. CASE /\ ~called
           /\ stack' = SetTop([Top EXCEPT !.next = @ + 1])
           /\ UNCHANGED got
  <2> DEFINE frame == [Top EXCEPT !.next = @ + 1]
  <2>1. /\ frame \in Frames /\ frame.sender = Top.sender /\ frame.message = Top.message
        /\ frame.handling = NoPlugin
    BY <1>1, <1>2 DEF Frames
  <2>2. FrameOK(frame)
    BY <1>2, <2>1 DEF FrameOK
  <2> HIDE DEF frame
  <2>3. /\ stack' \in Seq(Frames) /\ Len(stack') <= MaxDepth /\ stack' # <<>>
        /\ \A k \in 1 .. Len(stack') :
              /\ FrameOK(stack'[k])
              /\ phase = "postLoad" => stack'[k].message # "PostPostLoad"
        /\ Len(stack) # 1 => stack'[1] = stack[1]
        /\ Len(stack) = 1 => Top = stack[1]
    BY <1>1, <1>5, <2>1, <2>2, TopSteps DEF frame
  <2>4. ASSUME NEW p \in Plugins, Awaits(p) PROVE Awaits(p)'
    <3>1. stack[1].target = kPluginHandle_Invalid
      BY <2>4 DEF Awaits
    <3>2. Len(stack) # 1
      BY <1>5, <2>3, <3>1
    <3> QED
      BY <1>1, <2>3, <2>4, <3>2, BottomKept
  <2> QED
    BY <1>1, <1>2, <1>5, <2>3, <2>4, DispatchStepKeepsIInv DEF IInv, TypeOK
<1>6. CASE /\ called /\ entry.owner # Unloaded
           /\ stack' = SetTop([Top EXCEPT !.handling = entry.owner])
           /\ got' = [got EXCEPT ![entry.owner] = @ \cup {Top.message}]
  <2> DEFINE frame == [Top EXCEPT !.handling = entry.owner]
  <2>1. entry.owner \in Plugins /\ entry.owner # NoPlugin
    BY <1>4, <1>6, NamesAssumption DEF Listener
  <2>2. /\ frame \in Frames /\ frame.sender = Top.sender /\ frame.message = Top.message
        /\ frame.handling = entry.owner /\ frame.next = Top.next /\ frame.target = Top.target
    BY <1>2, <2>1 DEF Frames
  <2>3. entry.listener \in 1 .. Len(plugins) /\ plugins[entry.listener] = entry.owner
    BY <1>2, <1>4, <1>6, <2>1 DEF IInv, HandlesNamePlugins
  <2>4. entry.owner \in Loaded /\ HandleOf(entry.owner) = entry.listener
    <3>1. entry.owner \in Loaded
      BY <2>3 DEF Loaded
    <3> QED
      BY <2>3, <3>1, HandleOfLoaded DEF IInv, HandlesNamePlugins, LoadedOnce
  <2>5. FrameOK(frame)
    <3>1. IsListener(listeners[Top.sender], entry.listener)
      BY <1>3 DEF IsListener, entry
    <3> QED
      BY <1>2, <2>2, <2>4, <3>1 DEF FrameOK
  <2> HIDE DEF frame
  <2>6. /\ stack' \in Seq(Frames) /\ Len(stack') <= MaxDepth /\ stack' # <<>>
        /\ \A k \in 1 .. Len(stack') :
              /\ FrameOK(stack'[k])
              /\ phase = "postLoad" => stack'[k].message # "PostPostLoad"
        /\ Len(stack) # 1 => stack'[1] = stack[1]
        /\ Len(stack) = 1 => stack'[1] = frame /\ Top = stack[1]
    BY <1>1, <1>6, <2>2, <2>5, TopSteps DEF frame
  <2>7. Top.message \in Messages /\ (phase = "postLoad" => Top.message # "PostPostLoad")
    BY <1>1, <1>2, StackFacts, <2>2 DEF Frames
  <2>8. /\ got \in [Plugins -> SUBSET Messages] /\ got' \in [Plugins -> SUBSET Messages]
        /\ \A p \in Plugins :
              /\ got[p] \subseteq got'[p]
              /\ phase \in {"postLoad", "crashed"} /\ "PostPostLoad" \in got'[p]
                   => "PostPostLoad" \in got[p]
        /\ Top.message \in got'[entry.owner]
    <3>1. got \in [Plugins -> SUBSET Messages]
      BY DEF IInv, TypeOK
    <3> QED
      BY <1>1, <1>6, <2>1, <2>7, <3>1
  <2>9. ASSUME NEW p \in Plugins, Awaits(p) PROVE Awaits(p)' \/ "PostLoad" \in got'[p]
    <3>1. CASE Len(stack) # 1
      BY <1>1, <2>6, <2>9, <3>1, BottomKept
    <3>2. CASE Len(stack) = 1
      <4>1. /\ Top = stack[1] /\ stack'[1] = frame /\ Top.sender = 0
            /\ Top.message = "PostLoad" /\ Top.target = kPluginHandle_Invalid
        BY <2>6, <2>9, <3>2 DEF Awaits
      <4>2. PICK n \in 1 .. Len(listeners[0]) :
               listeners[0][n].owner = p /\ n >= Top.next
        BY <1>1, <2>9, <4>1 DEF Awaits, Following
      <4>3. CASE n = Top.next
        BY <2>8, <4>1, <4>2, <4>3 DEF entry
      <4>4. CASE n # Top.next
        <5>1. n >= frame.next + 1
          BY <1>3, <2>2, <4>2, <4>4
        <5>2. Following(frame) = frame.next + 1
          BY <2>1, <2>2 DEF Following
        <5>3. /\ frame.sender = 0 /\ frame.message = "PostLoad"
              /\ frame.target = kPluginHandle_Invalid
          BY <2>2, <4>1
        <5> QED
          BY <1>1, <2>6, <4>1, <4>2, <5>1, <5>2, <5>3 DEF Awaits, Following
      <4> QED
        BY <4>3, <4>4
    <3> QED
      BY <3>1, <3>2
  <2> QED
    BY <1>1, <1>2, <2>6, <2>8, <2>9, DispatchStepKeepsIInv
<1> QED
  BY <1>5, <1>6 DEF Deliver, entry
LEMMA EndDispatchKeepsIInv ==
    ASSUME IInv, EndDispatch
    PROVE  IInv'
<1>1. /\ stack # <<>> /\ Top.handling = NoPlugin
      /\ Top.next > Len(listeners[Top.sender])
      /\ stack' = Pop
      /\ UNCHANGED <<scanVars, loadVars, listeners, phase, audience, answered, got>>
  BY DEF EndDispatch, Iterating, historyVars
<1>2. /\ phase # "scan" /\ Top \in Frames /\ listeners[Top.sender] \in Seq(Listener)
      /\ stack \in Seq(Frames) /\ Len(stack) <= MaxDepth
      /\ \A k \in 1 .. Len(stack) :
            /\ FrameOK(stack[k])
            /\ phase = "postLoad" => stack[k].message # "PostPostLoad"
  BY <1>1, StackFacts
<1>3. /\ Len(stack) \in Nat \ {0} /\ Top = stack[Len(stack)]
      /\ stack' \in Seq(Frames) /\ Len(stack') = Len(stack) - 1
      /\ \A k \in 1 .. Len(stack) - 1 : stack'[k] = stack[k]
  BY <1>1, <1>2, TopPopped
<1>4. Len(stack') <= MaxDepth
  BY <1>2, <1>3, BoundsAssumption
<1>5. \A k \in 1 .. Len(stack') :
         /\ FrameOK(stack'[k])
         /\ phase = "postLoad" => stack'[k].message # "PostPostLoad"
  <2> SUFFICES ASSUME NEW k \in 1 .. Len(stack')
               PROVE  /\ FrameOK(stack'[k])
                      /\ phase = "postLoad" => stack'[k].message # "PostPostLoad"
    OBVIOUS
  <2>1. k \in 1 .. Len(stack) /\ stack'[k] = stack[k]
    BY <1>3
  <2> QED
    BY <1>2, <2>1
<1>6. ASSUME NEW p \in Plugins, Awaits(p) PROVE Awaits(p)'
  <2>1. CASE Len(stack) = 1
    <3>1. Top = stack[1] /\ Top.sender = 0
      BY <1>3, <1>6, <2>1 DEF Awaits
    <3>2. PICK n \in 1 .. Len(listeners[0]) : n >= Top.next
      BY <1>1, <1>6, <3>1 DEF Awaits, Following
    <3>3. Top.next \in Nat /\ Len(listeners[0]) \in Nat /\ Top.next > Len(listeners[0])
      BY <1>1, <1>2, <3>1 DEF Frames
    <3> QED
      BY <3>2, <3>3
  <2>2. CASE Len(stack) # 1
    <3>1. stack' # <<>> /\ stack'[1] = stack[1]
      BY <1>3, <2>2
    <3> QED
      BY <1>1, <1>6, <3>1, BottomKept
  <2> QED
    BY <2>1, <2>2
<1>7. got \in [Plugins -> SUBSET Messages]
  BY DEF IInv, TypeOK
<1> QED
  BY <1>1, <1>2, <1>3, <1>4, <1>5, <1>6, <1>7, DispatchStepKeepsIInv

LEMMA FrameAdvanced ==
    ASSUME NEW old \in Frames, NEW n \in Nat \ {0}
    PROVE  LET new == [old EXCEPT !.handling = NoPlugin, !.next = n]
           IN  /\ new \in Frames /\ new.sender = old.sender /\ new.message = old.message
               /\ new.handling = NoPlugin /\ new.next = n /\ new.target = old.target
BY DEF Frames

LEMMA HandlerReturnsKeepsIInv ==
    ASSUME IInv, HandlerReturns
    PROVE  IInv'
<1>1. /\ stack # <<>> /\ Top.handling # NoPlugin
      /\ UNCHANGED <<scanVars, loadVars, listeners, phase, audience, answered, got>>
  BY DEF HandlerReturns, Handling, historyVars
<1>2. /\ phase # "scan" /\ Top \in Frames /\ FrameOK(Top)
      /\ stack \in Seq(Frames) /\ Len(stack) \in Nat \ {0} /\ Len(stack) <= MaxDepth
      /\ \A k \in 1 .. Len(stack) :
            /\ FrameOK(stack[k])
            /\ phase = "postLoad" => stack[k].message # "PostPostLoad"
  BY <1>1, StackFacts
<1>3. got \in [Plugins -> SUBSET Messages]
  BY DEF IInv, TypeOK
<1>4. CASE Top.target # kPluginHandle_Invalid
  <2>1. stack' = Pop
    BY <1>4 DEF HandlerReturns
  <2>2. /\ Top = stack[Len(stack)]
        /\ stack' \in Seq(Frames) /\ Len(stack') = Len(stack) - 1
        /\ \A k \in 1 .. Len(stack) - 1 : stack'[k] = stack[k]
    BY <1>1, <1>2, <2>1, TopPopped
  <2>3. Len(stack') <= MaxDepth
    BY <1>2, <2>2, BoundsAssumption
  <2>4. \A k \in 1 .. Len(stack') :
           /\ FrameOK(stack'[k])
           /\ phase = "postLoad" => stack'[k].message # "PostPostLoad"
    <3> SUFFICES ASSUME NEW k \in 1 .. Len(stack')
                 PROVE  /\ FrameOK(stack'[k])
                        /\ phase = "postLoad" => stack'[k].message # "PostPostLoad"
      OBVIOUS
    <3>1. k \in 1 .. Len(stack) /\ stack'[k] = stack[k]
      BY <1>2, <2>2
    <3> QED
      BY <1>2, <3>1
  <2>5. ASSUME NEW p \in Plugins, Awaits(p) PROVE Awaits(p)'
    <3>1. Len(stack) # 1
      BY <1>4, <2>2, <2>5 DEF Awaits
    <3>2. stack' # <<>> /\ stack'[1] = stack[1]
      BY <1>2, <2>2, <3>1
    <3> QED
      BY <1>1, <2>5, <3>2, BottomKept
  <2> QED
    BY <1>1, <1>2, <1>3, <2>2, <2>3, <2>4, <2>5, DispatchStepKeepsIInv
<1>5. CASE Top.target = kPluginHandle_Invalid
  <2> DEFINE frame == [Top EXCEPT !.handling = NoPlugin, !.next = @ + 1]
  <2>1. stack' = SetTop(frame)
    BY <1>5 DEF HandlerReturns
  <2>2. /\ frame \in Frames /\ frame.sender = Top.sender /\ frame.message = Top.message
        /\ frame.handling = NoPlugin /\ frame.next = Top.next + 1 /\ frame.target = Top.target
    <3> DEFINE n == Top.next + 1
    <3>1. n \in Nat \ {0}
      BY <1>2 DEF Frames
    <3>2. frame = [Top EXCEPT !.handling = NoPlugin, !.next = n]
      OBVIOUS
    <3> HIDE DEF n, frame
    <3>3. /\ frame \in Frames /\ frame.sender = Top.sender /\ frame.message = Top.message
          /\ frame.handling = NoPlugin /\ frame.next = n /\ frame.target = Top.target
      BY <1>2, <3>1, <3>2, FrameAdvanced
    <3> QED
      BY <3>3 DEF n
  <2>3. FrameOK(frame)
    BY <1>2, <2>2 DEF FrameOK
  <2> HIDE DEF frame
  <2>4. /\ stack' \in Seq(Frames) /\ Len(stack') <= MaxDepth /\ stack' # <<>>
        /\ \A k \in 1 .. Len(stack') :
              /\ FrameOK(stack'[k])
              /\ phase = "postLoad" => stack'[k].message # "PostPostLoad"
        /\ Len(stack) # 1 => stack'[1] = stack[1]
        /\ Len(stack) = 1 => stack'[1] = frame /\ Top = stack[1]
    BY <1>1, <2>1, <2>2, <2>3, TopSteps
  <2>5. ASSUME NEW p \in Plugins, Awaits(p) PROVE Awaits(p)'
    <3>1. CASE Len(stack) # 1
      BY <1>1, <2>4, <2>5, <3>1, BottomKept
    <3>2. CASE Len(stack) = 1
      <4>1. Top = stack[1] /\ stack'[1] = frame
        BY <2>4, <3>2
      <4>2. Following(frame) = Following(Top)
        BY <1>1, <2>2 DEF Following
      <4> QED
        BY <1>1, <2>2, <2>4, <2>5, <4>1, <4>2 DEF Awaits, Following
    <3> QED
      BY <3>1, <3>2
  <2> QED
    BY <1>1, <1>2, <1>3, <2>4, <2>5, DispatchStepKeepsIInv
<1> QED
  BY <1>4, <1>5
LEMMA DispatchInHandlerKeepsIInv ==
    ASSUME IInv, NEW receiver, DispatchInHandler(receiver)
    PROVE  IInv'
<1> DEFINE sender == HandleOf(Top.handling)
           frame == Frame(sender, "other", receiver)
<1>1. /\ stack # <<>> /\ Len(stack) < MaxDepth
      /\ stack' = Dispatched(sender, "other", receiver)
      /\ UNCHANGED <<scanVars, loadVars, listeners, phase, audience, answered, got>>
  BY DEF DispatchInHandler, Handling, historyVars
<1>2. /\ phase # "scan" /\ stack \in Seq(Frames) /\ Len(stack) \in Nat \ {0}
      /\ \A k \in 1 .. Len(stack) :
            /\ FrameOK(stack[k])
            /\ phase = "postLoad" => stack[k].message # "PostPostLoad"
  BY <1>1, StackFacts
<1>3. got \in [Plugins -> SUBSET Messages] /\ TypeOK /\ LoadedOnce
  BY DEF IInv, TypeOK, HandlesNamePlugins
<1> HIDE DEF sender, frame
<1>4. /\ stack' \in Seq(Frames) /\ Len(stack') <= MaxDepth
      /\ stack' # <<>> /\ stack'[1] = stack[1]
      /\ \A k \in 1 .. Len(stack') :
            /\ FrameOK(stack'[k])
            /\ phase = "postLoad" => stack'[k].message # "PostPostLoad"
  <2>1. CASE MayDispatch(sender, receiver)
    <3>1. frame \in Frames /\ FrameOK(frame) /\ frame.message = "other"
      BY <1>3, <2>1, DispatchStarts DEF Messages, frame
    <3>2. stack' = Append(stack, frame)
      BY <1>1, <2>1 DEF Dispatched, frame
    <3>3. /\ stack' \in Seq(Frames) /\ Len(stack') = Len(stack) + 1
          /\ stack'[Len(stack) + 1] = frame
          /\ \A k \in 1 .. Len(stack) : stack'[k] = stack[k]
      BY <1>2, <3>1, <3>2
    <3>4. \A k \in 1 .. Len(stack') : k \in 1 .. Len(stack) \/ k = Len(stack) + 1
      BY <1>2, <3>3
    <3>5. Len(stack') <= MaxDepth /\ stack' # <<>> /\ 1 \in 1 .. Len(stack)
      BY <1>1, <1>2, <3>3, BoundsAssumption
    <3> QED
      BY <1>2, <3>1, <3>3, <3>4, <3>5
  <2>2. CASE ~MayDispatch(sender, receiver)
    <3>1. stack' = stack
      BY <1>1, <2>2 DEF Dispatched
    <3> QED
      BY <1>1, <1>2, <3>1, BoundsAssumption
  <2> QED
    BY <2>1, <2>2
<1>5. \A p \in Plugins : Awaits(p) => Awaits(p)'
  BY <1>1, <1>4, BottomKept
<1> QED
  BY <1>1, <1>2, <1>3, <1>4, <1>5, DispatchStepKeepsIInv

LEMMA DispatchWhileRunningKeepsIInv ==
    ASSUME IInv, NEW sender, NEW receiver, DispatchWhileRunning(sender, receiver)
    PROVE  IInv'
<1>1. /\ phase = "running" /\ stack = <<>>
      /\ stack' = Dispatched(sender, "other", receiver)
      /\ UNCHANGED <<scanVars, loadVars, listeners, phase, audience, answered, got>>
  BY DEF DispatchWhileRunning, historyVars
<1>2. got \in [Plugins -> SUBSET Messages] /\ TypeOK /\ LoadedOnce
  BY DEF IInv, TypeOK, HandlesNamePlugins
<1>3. /\ stack' \in Seq(Frames) /\ Len(stack') <= MaxDepth
      /\ \A k \in 1 .. Len(stack') : FrameOK(stack'[k])
  BY <1>1, <1>2, FirstDispatch DEF Messages
<1> QED
  BY <1>1, <1>2, <1>3, DispatchStepKeepsIInv

\* The phase changes when everyone has got PostLoad, or for the worse.
LEMMA PhaseStepKeepsIInv ==
    ASSUME IInv, phase # "scan",
           UNCHANGED <<scanVars, loadVars, listeners, historyVars>>,
           phase' \in {"postPostLoad", "running", "crashed"},
           stack' \in Seq(Frames), Len(stack') <= MaxDepth,
           \A k \in 1 .. Len(stack') : FrameOK(stack'[k]),
           phase' = "crashed" \/ \A p \in audience : "PostLoad" \in got[p]
    PROVE  IInv'
<1>1. /\ TypeOK /\ HandlesNamePlugins /\ OneEntryPerListener /\ ListsFromZero
      /\ LoadingNext /\ PostLoadSent
  BY DEF IInv
<1>2. UNCHANGED <<visible, snapshot, visited, nFound, plugins, loading, currentHandle,
                  listeners, got, audience, answered>>
  BY DEF scanVars, loadVars, historyVars
<1>3. TypeOK'
  BY <1>1, <1>2 DEF TypeOK
<1>4. HandlesNamePlugins' /\ OneEntryPerListener' /\ ListsFromZero'
  <2>1. Entries' = Entries /\ LoadedOnce' = LoadedOnce
    BY <1>2 DEF Entries, LoadedOnce
  <2>2. HandlesNamePlugins'
    BY <1>1, <1>2, <2>1 DEF HandlesNamePlugins
  <2> QED
    BY <1>1, <1>2, <2>2 DEF OneEntryPerListener, ListsFromZero
<1>5. LoadingNext' /\ ScanIsQuiet' /\ NotPostPostYet'
  BY <1>1, <1>2 DEF LoadingNext, Loaded, ScanIsQuiet, NotPostPostYet
<1>6. FramesOK'
  BY <1>2 DEF FramesOK, FrameOK, Loaded, HandleOf, IsListener
<1>7. PostLoadSent'
  BY <1>1, <1>2 DEF PostLoadSent
<1> QED
  BY <1>3, <1>4, <1>5, <1>6, <1>7 DEF IInv

\* With nothing on the stack nobody awaits PostLoad any more.
LEMMA NobodyAwaits ==
    ASSUME IInv, stack = <<>>, phase \notin {"scan", "crashed"}
    PROVE  \A p \in audience : "PostLoad" \in got[p]
BY DEF IInv, PostLoadSent, Awaits

LEMMA PhasesKeepIInv ==
    ASSUME IInv, SendPostPostLoad \/ StartRunning \/ Fault
    PROVE  IInv'
<1>1. CASE SendPostPostLoad
  <2>1. /\ phase = "postLoad" /\ stack = <<>> /\ phase' = "postPostLoad"
        /\ stack' = Dispatched(0, "PostPostLoad", NoPlugin)
        /\ UNCHANGED <<scanVars, loadVars, listeners, historyVars>>
    BY <1>1 DEF SendPostPostLoad
  <2>2. TypeOK /\ LoadedOnce
    BY DEF IInv, HandlesNamePlugins
  <2>3. /\ stack' \in Seq(Frames) /\ Len(stack') <= MaxDepth
        /\ \A k \in 1 .. Len(stack') : FrameOK(stack'[k])
    BY <2>1, <2>2, FirstDispatch DEF Messages
  <2> QED
    BY <2>1, <2>3, NobodyAwaits, PhaseStepKeepsIInv
<1>2. CASE StartRunning
  <2>1. /\ phase = "postPostLoad" /\ stack = <<>> /\ phase' = "running" /\ stack' = stack
        /\ UNCHANGED <<scanVars, loadVars, listeners, historyVars>>
    BY <1>2 DEF StartRunning
  <2>2. stack' \in Seq(Frames) /\ Len(stack') <= MaxDepth /\ Len(stack') = 0
    BY <2>1, BoundsAssumption
  <2> QED
    BY <2>1, <2>2, NobodyAwaits, PhaseStepKeepsIInv
<1>3. CASE Fault
  <2>1. /\ stack # <<>> /\ phase' = "crashed" /\ stack' = stack
        /\ UNCHANGED <<scanVars, loadVars, listeners, historyVars>>
    BY <1>3 DEF Fault, Iterating
  <2>2. /\ phase # "scan" /\ stack \in Seq(Frames) /\ Len(stack) <= MaxDepth
        /\ \A k \in 1 .. Len(stack) : FrameOK(stack[k])
    BY <2>1, StackFacts
  <2> QED
    BY <2>1, <2>2, PhaseStepKeepsIInv
<1> QED
  BY <1>1, <1>2, <1>3

LEMMA DispatchingKeepsIInv == IInv /\ Dispatching => IInv'
BY DeliverKeepsIInv, EndDispatchKeepsIInv, HandlerReturnsKeepsIInv,
   DispatchInHandlerKeepsIInv, DispatchWhileRunningKeepsIInv, PhasesKeepIInv
   DEF Dispatching
-----------------------------------------------------------------------------
(* Registrations, and the theorems. *)

\* Wherever a plugin registers from, it does so under its own handle.
LEMMA LoadedHasHandle ==
    ASSUME IInv, NEW p \in Loaded
    PROVE  p \in Plugins /\ HandleOf(p) \in Handles /\ OwnHandle(p, HandleOf(p))
<1>1. plugins \in Seq(Plugins) /\ LoadedOnce
  BY DEF IInv, TypeOK, HandlesNamePlugins
<1>2. HandleOf(p) \in 1 .. Len(plugins)
  BY HandleOfLoaded
<1>3. p \in Plugins
  BY <1>1 DEF Loaded
<1>4. HandleOf(p) \in Handles
  BY <1>1, <1>2, HandlesSuffice, PluginsAreFinite DEF Handles
<1> QED
  BY <1>3, <1>4 DEF OwnHandle

LEMMA HandlingIsLoaded ==
    ASSUME IInv, Handling
    PROVE  Top.handling \in Loaded
BY StackFacts DEF Handling, FrameOK

LEMMA RegistrationKeepsIInv == IInv /\ Registration => IInv'
<1> SUFFICES ASSUME IInv, NEW sender \in Senders \cup {NoSender},
                    \/ RegisterDuringLoad(sender)
                    \/ RegisterInHandler(sender)
                    \/ \E p \in Loaded : RegisterWhileRunning(p, sender)
             PROVE  IInv'
  BY DEF Registration
<1>1. CASE RegisterDuringLoad(sender)
  <2>1. loading \in Plugins /\ currentHandle \in Handles
        /\ RegisterListener(loading, currentHandle, sender)
    BY <1>1 DEF RegisterDuringLoad, IInv, TypeOK
  <2> QED
    BY <2>1, RegisterKeepsIInv DEF OwnHandle
<1>2. CASE RegisterInHandler(sender)
  <2>1. /\ Top.handling \in Loaded
        /\ RegisterListener(Top.handling, HandleOf(Top.handling), sender)
    BY <1>2, HandlingIsLoaded DEF RegisterInHandler
  <2> QED
    BY <2>1, LoadedHasHandle, RegisterKeepsIInv
<1>3. CASE \E p \in Loaded : RegisterWhileRunning(p, sender)
  BY <1>3, LoadedHasHandle, RegisterKeepsIInv DEF RegisterWhileRunning
<1> QED
  BY <1>1, <1>2, <1>3

LEMMA NextKeepsIInv == IInv /\ [Next]_vars => IInv'
<1> SUFFICES ASSUME IInv, [Next]_vars PROVE IInv'
  OBVIOUS
<1>1. CASE Next
  BY <1>1, ScanKeepsIInv, RegistrationKeepsIInv, DispatchingKeepsIInv DEF Next
<1>2. CASE UNCHANGED vars
  <2>1. UNCHANGED <<visible, snapshot, visited, nFound, plugins, loading, currentHandle,
                    listeners, stack, phase, got, audience, answered>>
    BY <1>2 DEF vars, scanVars, loadVars, historyVars
  <2>2. TypeOK'
    BY <2>1 DEF IInv, TypeOK
  <2>3. HandlesNamePlugins'
    <3>1. Entries' = Entries /\ LoadedOnce' = LoadedOnce
      BY <2>1 DEF Entries, LoadedOnce
    <3> QED
      BY <2>1, <3>1 DEF IInv, HandlesNamePlugins
  <2>4. OneEntryPerListener' /\ ListsFromZero'
    BY <2>1 DEF IInv, OneEntryPerListener, ListsFromZero
  <2>5. LoadingNext' /\ ScanIsQuiet' /\ NotPostPostYet'
    BY <2>1 DEF IInv, LoadingNext, Loaded, ScanIsQuiet, NotPostPostYet
  <2>6. FramesOK'
    BY <2>1 DEF IInv, FramesOK, FrameOK, Loaded, HandleOf, IsListener
  <2>7. PostLoadSent'
    BY <2>1 DEF IInv, PostLoadSent, Awaits, Following
  <2> QED
    BY <2>2, <2>3, <2>4, <2>5, <2>6, <2>7 DEF IInv
<1> QED
  BY <1>1, <1>2

\* IInv holds throughout.
THEOREM Inductive == Spec => []IInv
<1> QED
  BY InitIInv, NextKeepsIInv, PTL DEF Spec

\* Every variable has its type; in particular there are no more handles than
\* plugins and the lists are numbered without gaps.
THEOREM TypeCorrect == Spec => []TypeOK
<1>1. IInv => TypeOK
  BY DEF IInv
<1> QED
  BY <1>1, Inductive, PTL

\* No plugin is loaded twice, and a handle under which callbacks are filed is
\* never another live plugin's.
THEOREM HandlesHold == Spec => []HandlesNamePlugins
<1>1. IInv => HandlesNamePlugins
  BY DEF IInv
<1> QED
  BY <1>1, Inductive, PTL

\* No listener is twice in a list.
THEOREM NoDoubleEntries == Spec => []OneEntryPerListener
<1>1. IInv => OneEntryPerListener
  BY DEF IInv
<1> QED
  BY <1>1, Inductive, PTL

\* Whoever listened when PostLoad was sent has got it before PostPostLoad.
THEOREM PostLoadComesFirst == Spec => []PostLoadFirst
<1>1. IInv => PostLoadFirst
  BY DEF IInv, PostLoadSent, PostLoadFirst
<1> QED
  BY <1>1, Inductive, PTL
-----------------------------------------------------------------------------
(* Moved lists. *)

\* A step marks a frame whose list has moved.
Moves == \E k \in 1 .. Len(stack) : /\ k <= Len(stack')
                                    /\ ~stack[k].dangling /\ stack'[k].dangling

LEMMA SameFramesDoNotMove ==
    ASSUME \A k \in 1 .. Len(stack) : k <= Len(stack') => stack'[k] = stack[k]
    PROVE  ~Moves
BY DEF Moves

\* Whatever happens to the frame on top, it iterates the list it did.
LEMMA TopStepsDoNotMove ==
    ASSUME IInv, stack # <<>>, NEW frame \in Frames, stack' = SetTop(frame),
           frame.dangling <=> Top.dangling
    PROVE  ~Moves
<1>1. stack \in Seq(Frames) /\ Len(stack) \in Nat \ {0} /\ Top = stack[Len(stack)]
  BY StackFacts
<1>2. /\ stack'[Len(stack)] = frame
      /\ \A k \in 1 .. Len(stack) - 1 : stack'[k] = stack[k]
  BY <1>1, TopReplaced
<1>3. \A k \in 1 .. Len(stack) : k \in 1 .. Len(stack) - 1 \/ k = Len(stack)
  BY <1>1
<1> QED
  BY <1>1, <1>2, <1>3 DEF Moves

LEMMA PopDoesNotMove ==
    ASSUME IInv, stack # <<>>, stack' = Pop
    PROVE  ~Moves
<1>1. stack \in Seq(Frames)
  BY StackFacts
<1>2. /\ Len(stack) \in Nat /\ Len(stack') = Len(stack) - 1
      /\ \A k \in 1 .. Len(stack) - 1 : stack'[k] = stack[k]
  BY <1>1, TopPopped
<1>3. \A k \in 1 .. Len(stack) : k <= Len(stack') => stack'[k] = stack[k]
  BY <1>2
<1> QED
  BY <1>3, SameFramesDoNotMove

LEMMA DispatchingDoesNotMove ==
    ASSUME IInv, NEW sender, NEW message, NEW receiver,
           stack' = Dispatched(sender, message, receiver)
    PROVE  ~Moves
<1> DEFINE frame == Frame(sender, message, receiver)
<1>1. stack' = stack \/ stack' = Append(stack, frame)
  BY DEF Dispatched
<1> HIDE DEF frame
<1>2. stack \in Seq(Frames)
  BY DEF IInv, TypeOK
<1>3. \A k \in 1 .. Len(stack) : stack'[k] = stack[k]
  BY <1>1, <1>2
<1> QED
  BY <1>3, SameFramesDoNotMove

LEMMA EmptyStackDoesNotMove ==
    ASSUME stack = <<>>
    PROVE  ~Moves
<1>1. Len(stack) = 0
  OBVIOUS
<1> QED
  BY <1>1 DEF Moves

\* A handler of the only dispatch is in the list that is being iterated, so that
\* the list is not one it can be added to.
LEMMA SoleHandlerDoesNotMove ==
    ASSUME IInv, NEW sender \in Senders \cup {NoSender}, RegisterInHandler(sender),
           ~(Len(stack) > 1)
    PROVE  ~Moves
<1> DEFINE handle == HandleOf(Top.handling)
<1>1. /\ stack # <<>> /\ Top.handling # NoPlugin
      /\ RegisterListener(Top.handling, handle, sender)
      /\ Top.handling \in Loaded
  BY HandlingIsLoaded DEF RegisterInHandler, Handling
<1>2. Len(stack) = 1 /\ Top = stack[1]
  <2>1. Len(stack) \in Nat \ {0} /\ Top = stack[Len(stack)]
    BY <1>1, StackFacts
  <2>2. Len(stack) = 1
    BY <2>1
  <2> QED
    BY <2>1, <2>2
<1>3. Top.handling \in Plugins /\ handle \in Handles
  BY <1>1, LoadedHasHandle
<1>4. IsListener(Before(Top.sender), handle)
  BY <1>1, StackFacts DEF FrameOK, Before
<1> HIDE DEF handle
<1>5. \A k \in 1 .. Len(stack) : FrameKept(stack[k], stack'[k], handle)
  BY <1>1, <1>3, RegisterEffect DEF IInv
<1>6. \A k \in 1 .. Len(stack) : stack'[k] = stack[k]
  BY <1>2, <1>4, <1>5 DEF FrameKept
<1> QED
  BY <1>6, SameFramesDoNotMove

LEMMA OnlyNestedMoves == IInv /\ [Next]_vars /\ Moves => Len(stack) > 1
<1> SUFFICES ASSUME IInv, [Next]_vars, ~(Len(stack) > 1) PROVE ~Moves
  OBVIOUS
<1>1. CASE Scan
  <2>1. phase = "scan"
    BY <1>1 DEF Scan, VisitPlugin, LoadSucceeds, LoadFails, EndPass
  <2> QED
    BY <2>1, EmptyStackDoesNotMove DEF IInv, ScanIsQuiet
<1>2. CASE Registration
  <2>1. PICK sender \in Senders \cup {NoSender} :
           \/ RegisterDuringLoad(sender)
           \/ RegisterInHandler(sender)
           \/ \E p \in Loaded : RegisterWhileRunning(p, sender)
    BY <1>2 DEF Registration
  <2>2. CASE RegisterDuringLoad(sender)
    BY <2>2, EmptyStackDoesNotMove DEF RegisterDuringLoad, IInv, ScanIsQuiet
  <2>3. CASE RegisterInHandler(sender)
    BY <2>3, SoleHandlerDoesNotMove
  <2>4. CASE \E p \in Loaded : RegisterWhileRunning(p, sender)
    BY <2>4, EmptyStackDoesNotMove DEF RegisterWhileRunning
  <2> QED
    BY <2>1, <2>2, <2>3, <2>4
<1>3. CASE Deliver
  <2> DEFINE entry == listeners[Top.sender][Top.next]
             passed == [Top EXCEPT !.next = @ + 1]
             calling == [Top EXCEPT !.handling = entry.owner]
  <2>1. /\ stack # <<>> /\ Top \in Frames
        /\ stack' = SetTop(passed) \/ (stack' = SetTop(calling) /\ entry.owner # Unloaded)
    BY <1>3, StackFacts DEF Deliver, Iterating
  <2>2. entry \in Listener
    <3>1. /\ Top.next <= Len(listeners[Top.sender]) /\ Top.next \in Nat \ {0}
          /\ listeners[Top.sender] \in Seq(Listener)
      BY <1>3, <2>1, StackFacts DEF Deliver, Frames
    <3> QED
      BY <3>1
  <2>3. passed \in Frames /\ (passed.dangling <=> Top.dangling)
    <3> DEFINE n == Top.next + 1
    <3>1. n \in Nat \ {0} /\ passed = [Top EXCEPT !.next = n]
      BY <2>1 DEF Frames
    <3> HIDE DEF n
    <3> QED
      BY <2>1, <3>1 DEF Frames
  <2>4. entry.owner # Unloaded => calling \in Frames /\ (calling.dangling <=> Top.dangling)
    BY <2>1, <2>2 DEF Frames, Listener
  <2> QED
    BY <2>1, <2>3, <2>4, TopStepsDoNotMove
<1>4. CASE EndDispatch
  BY <1>4, PopDoesNotMove DEF EndDispatch, Iterating
<1>5. CASE HandlerReturns
  <2> DEFINE frame == [Top EXCEPT !.handling = NoPlugin, !.next = @ + 1]
  <2>1. stack # <<>> /\ Top \in Frames /\ (stack' = Pop \/ stack' = SetTop(frame))
    BY <1>5, StackFacts DEF HandlerReturns, Handling
  <2>2. frame \in Frames /\ (frame.dangling <=> Top.dangling)
    <3> DEFINE n == Top.next + 1
    <3>1. n \in Nat \ {0} /\ frame = [Top EXCEPT !.handling = NoPlugin, !.next = n]
      BY <2>1 DEF Frames
    <3> HIDE DEF n
    <3> QED
      BY <2>1, <3>1 DEF Frames
  <2> HIDE DEF frame
  <2> QED
    BY <2>1, <2>2, PopDoesNotMove, TopStepsDoNotMove
<1>6. CASE \E receiver \in Plugins \cup {NoPlugin} :
              \/ DispatchInHandler(receiver)
              \/ \E sender \in 0 .. Len(plugins) : DispatchWhileRunning(sender, receiver)
  BY <1>6, DispatchingDoesNotMove DEF DispatchInHandler, DispatchWhileRunning
<1>7. CASE SendPostPostLoad
  BY <1>7, DispatchingDoesNotMove DEF SendPostPostLoad
<1>8. CASE StartRunning \/ Fault \/ UNCHANGED vars
  BY <1>8, SameFramesDoNotMove DEF StartRunning, Fault, vars
<1> QED
  BY <1>1, <1>2, <1>3, <1>4, <1>5, <1>6, <1>7, <1>8 DEF Next, Dispatching

\* While one dispatch is in progress, the handlers it calls may register as
\* they like: the list it iterates does not move.
THEOREM SoleDispatchHolds == Spec => SoleDispatchIsSafe
<1>1. IInv /\ [Next]_vars
        => [(\E k \in 1 .. Len(stack) : k <= Len(stack') /\ ~stack[k].dangling
                                          /\ stack'[k].dangling)
              => Len(stack) > 1]_vars
  BY OnlyNestedMoves DEF Moves
<1> QED
  BY <1>1, Inductive, PTL DEF Spec, SoleDispatchIsSafe

=============================================================================

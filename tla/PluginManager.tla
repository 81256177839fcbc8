--------------------------- MODULE PluginManager ---------------------------
(***************************************************************************)
(* PluginManager (nvse/nvse/PluginManager.cpp) of the script extender that *)
(* hosts the profiler: the directory is scanned until a pass finds nothing *)
(* new, each plugin is loaded or given up, and plugins send each other     *)
(* messages through per-sender listener lists.  Handlers run inside the    *)
(* dispatch loop and may call back into it, so a dispatch is a frame of a  *)
(* call stack that holds an iterator into its list.                        *)
(***************************************************************************)
EXTENDS Integers, Sequences, FiniteSets

CONSTANTS Plugins,     \* the plugin files, each with its path and name
          NVSE,        \* the sender name "NVSE"
          NoSender,    \* RegisterListener's sender = NULL
          NoPlugin,
          Unloaded,    \* owner of a callback whose library was freed
          Slack,       \* spare listener lists per resize, 5 in the code
          MaxDepth     \* bound: dispatches in progress

ASSUME NamesAssumption ==
    /\ Plugins \cap {NVSE, NoSender, NoPlugin, Unloaded} = {}
    /\ NVSE # NoSender /\ NoPlugin # Unloaded
    /\ IsFiniteSet(Plugins)
ASSUME BoundsAssumption == Slack \in Nat /\ MaxDepth \in Nat \ {0}

VARIABLES
    visible,     \* the files the directory shows now
    snapshot,    \* the files this pass is certain to visit
    visited,     \* the files it has visited
    nFound,      \* whether the pass has loaded something (nFound > 0)
    plugins,     \* m_plugins: position = handle
    loading,     \* s_currentLoadingPlugin while a plugin is being installed
    currentHandle,   \* s_currentPluginHandle
    listeners,   \* s_pluginListeners: one sequence per sender handle
    stack,       \* Dispatch_Message frames in progress, innermost last
    phase,       \* "scan", "postLoad", "postPostLoad", "running", "crashed"
    got,         \* history: the load messages each plugin's handler has received
    audience,    \* history: who listened to NVSE when PostLoad was sent
    answered     \* history: <<plugin, sender>> that RegisterListener said true to

scanVars == <<visible, snapshot, visited, nFound>>
loadVars == <<plugins, loading, currentHandle>>
historyVars == <<got, audience, answered>>
vars == <<scanVars, loadVars, listeners, stack, phase, historyVars>>

kPluginHandle_Invalid == -1
Senders == Plugins \cup {NVSE}
Handles == 0 .. Cardinality(Plugins)
Listener == [listener : Handles, owner : Plugins \cup {Unloaded}]
Messages == {"PostLoad", "PostPostLoad", "other"}
Frames == [sender : Handles, message : Messages,
           target : Handles \cup {kPluginHandle_Invalid}, next : Nat \ {0},
           handling : Plugins \cup {NoPlugin}, dangling : BOOLEAN]

TypeOK ==
    /\ visible \subseteq Plugins /\ snapshot \subseteq visible
    /\ visited \subseteq visible
    /\ nFound \in BOOLEAN
    /\ plugins \in Seq(Plugins)
    /\ loading \in Plugins \cup {NoPlugin}
    /\ currentHandle \in Handles
    /\ DOMAIN listeners = 0 .. Cardinality(DOMAIN listeners) - 1
    /\ \A i \in DOMAIN listeners : listeners[i] \in Seq(Listener)
    /\ stack \in Seq(Frames) /\ Len(stack) <= MaxDepth
    /\ phase \in {"scan", "postLoad", "postPostLoad", "running", "crashed"}
    /\ got \in [Plugins -> SUBSET Messages]
    /\ audience \subseteq Plugins
    /\ answered \subseteq Plugins \X Senders

Init ==
    /\ visible \in SUBSET Plugins
    /\ snapshot = visible
    /\ visited = {}
    /\ nFound = FALSE
    /\ plugins = <<>>
    /\ loading = NoPlugin
    /\ currentHandle = 0
    /\ listeners = [i \in {} |-> <<>>]
    /\ stack = <<>>
    /\ phase = "scan"
    /\ got = [p \in Plugins |-> {}]
    /\ audience = {}
    /\ answered = {}

-----------------------------------------------------------------------------
(* Looking plugins up. *)

Loaded == {plugins[i] : i \in 1 .. Len(plugins)}
HandleOf(p) == CHOOSE i \in 1 .. Len(plugins) : plugins[i] = p

LookupHandleFromName(name) ==
    IF name = NVSE THEN 0
    ELSE IF name \in Loaded THEN HandleOf(name)
    ELSE kPluginHandle_Invalid

\* The plugin being loaded counts, although it is not in m_plugins yet.
GetNumPlugins == Len(plugins) + (IF phase = "scan" THEN 1 ELSE 0)

-----------------------------------------------------------------------------
(* RegisterListener. *)

\* The resize at its start, made before anything is checked.
Resized ==
    LET size == Cardinality(DOMAIN listeners)
        numPlugins == GetNumPlugins + 1
    IN  IF size >= numPlugins THEN listeners
        ELSE [i \in 0 .. numPlugins + Slack - 1 |->
                 IF i < size THEN listeners[i] ELSE <<>>]

IsListener(list, handle) == \E i \in 1 .. Len(list) : list[i].listener = handle

\* The loop over all lists counts them in idx, except those it `continue's over.
ListIndex(lists, handle) ==
    LET idx[i \in DOMAIN lists] ==
            IF i = 0 THEN 0
            ELSE IF /\ idx[i - 1] \notin {0, handle}
                    /\ IsListener(lists[i - 1], handle)
                 THEN idx[i - 1]
                 ELSE idx[i - 1] + 1
    IN  idx

\* Mutant: it is not looked for whether the listener is in the list already.
ListsToJoinAgain(lists, handle, sender) ==
    {i \in DOMAIN lists :
        IF sender = NoSender
        THEN ListIndex(lists, handle)[i] \notin {0, handle}
        ELSE i = LookupHandleFromName(sender)}

\* The lists that a call adds the listener to.
ListsToJoin(lists, handle, sender) ==
    {i \in DOMAIN lists :
        /\ ~IsListener(lists[i], handle)
        /\ IF sender = NoSender
           THEN ListIndex(lists, handle)[i] \notin {0, handle}
           ELSE i = LookupHandleFromName(sender)}

\* push_back may move a list that a dispatch is iterating.
Touched(joined) ==
    [k \in 1 .. Len(stack) |->
        IF stack[k].sender \in joined THEN [stack[k] EXCEPT !.dangling = TRUE]
                                      ELSE stack[k]]

\* Whom the caller has been promised messages from.
Promised(owner, sender) ==
    {owner} \X (IF sender = NoSender THEN Loaded \ {owner} ELSE {sender})

RegisterListener(owner, handle, sender) ==
    LET lists == Resized
        accepted == /\ handle <= GetNumPlugins
                    /\ \/ sender = NoSender
                       \/ LookupHandleFromName(sender) # kPluginHandle_Invalid
        joined == IF accepted THEN ListsToJoin(lists, handle, sender) ELSE {}
    IN  /\ listeners' = [i \in DOMAIN lists |->
                            IF i \in joined
                            THEN Append(lists[i], [listener |-> handle, owner |-> owner])
                            ELSE lists[i]]
        /\ stack' = Touched(joined)
        /\ answered' = IF accepted THEN answered \cup Promised(owner, sender)
                                   ELSE answered
        /\ UNCHANGED <<scanVars, loadVars, phase, got, audience>>

-----------------------------------------------------------------------------
(* InstallPlugins and InstallPlugin. *)

\* Mutant: every attempt takes a new handle.
VisitPluginCountingAttempts(p) ==
    /\ phase = "scan" /\ loading = NoPlugin
    /\ p \in visible \ visited
    /\ visited' = visited \cup {p}
    /\ IF p \in Loaded
       THEN UNCHANGED <<loading, currentHandle>>
       ELSE loading' = p /\ currentHandle' = currentHandle + 1
    /\ UNCHANGED <<visible, snapshot, nFound, plugins, listeners, stack, phase,
                   historyVars>>

\* Mutant: handles count from zero, as m_plugins does.
VisitPluginFromZero(p) ==
    /\ phase = "scan" /\ loading = NoPlugin
    /\ p \in visible \ visited
    /\ visited' = visited \cup {p}
    /\ IF p \in Loaded
       THEN UNCHANGED <<loading, currentHandle>>
       ELSE loading' = p /\ currentHandle' = Len(plugins)
    /\ UNCHANGED <<visible, snapshot, nFound, plugins, listeners, stack, phase,
                   historyVars>>

\* The directory iterator reaches a file; one that is loaded already is skipped.
VisitPlugin(p) ==
    /\ phase = "scan" /\ loading = NoPlugin
    /\ p \in visible \ visited
    /\ visited' = visited \cup {p}
    /\ IF p \in Loaded
       THEN UNCHANGED <<loading, currentHandle>>
       ELSE loading' = p /\ currentHandle' = Len(plugins) + 1
    /\ UNCHANGED <<visible, snapshot, nFound, plugins, listeners, stack, phase,
                   historyVars>>

\* The plugin registers listeners from its Load function.
RegisterDuringLoad(sender) ==
    /\ phase = "scan" /\ loading # NoPlugin
    /\ RegisterListener(loading, currentHandle, sender)

\* A mod manager's plugin may make further files visible by being loaded.
LoadSucceeds ==
    /\ phase = "scan" /\ loading # NoPlugin
    /\ plugins' = Append(plugins, loading)
    /\ loading' = NoPlugin
    /\ nFound' = TRUE
    /\ \E more \in SUBSET (Plugins \ visible) : visible' = visible \cup more
    /\ UNCHANGED <<snapshot, visited, currentHandle, listeners, stack, phase, historyVars>>

\* Mutant: a failed plugin counts as found.
LoadFailsButCounts ==
    /\ phase = "scan" /\ loading # NoPlugin
    /\ nFound' = TRUE
    /\ loading' = NoPlugin
    /\ UNCHANGED <<visible, snapshot, visited, plugins, currentHandle, listeners,
                   stack, phase, historyVars>>

\* LoadLibrary, Query, the compatibility check or Load fails, or one of them
\* throws: the library is freed, its registrations stay.
LoadFails ==
    /\ phase = "scan" /\ loading # NoPlugin
    /\ listeners' = [i \in DOMAIN listeners |->
                        [n \in 1 .. Len(listeners[i]) |->
                           IF listeners[i][n].owner = loading
                           THEN [listeners[i][n] EXCEPT !.owner = Unloaded]
                           ELSE listeners[i][n]]]
    /\ answered' = {a \in answered : a[1] # loading}
    /\ loading' = NoPlugin
    /\ UNCHANGED <<scanVars, plugins, currentHandle, stack, phase, got, audience>>

-----------------------------------------------------------------------------
(* Dispatch_Message. *)

\* The early returns: no lists, no list for the sender, a sender without a name
\* (one that is still loading), an unknown receiver.
MayDispatch(sender, receiver) ==
    /\ sender \in DOMAIN listeners
    /\ sender <= Len(plugins)
    /\ receiver # NoPlugin => LookupHandleFromName(receiver) # kPluginHandle_Invalid

Frame(sender, message, receiver) ==
    [sender |-> sender, message |-> message,
     target |-> IF receiver = NoPlugin THEN kPluginHandle_Invalid
                ELSE LookupHandleFromName(receiver),
     next |-> 1, handling |-> NoPlugin, dangling |-> FALSE]

Dispatched(sender, message, receiver) ==
    IF MayDispatch(sender, receiver)
    THEN Append(stack, Frame(sender, message, receiver))
    ELSE stack

\* Mutant: the two load messages go out in the wrong order.
EndPassSwappingMessages ==
    /\ phase = "scan" /\ loading = NoPlugin
    /\ snapshot \subseteq visited
    /\ visited' = {} /\ snapshot' = visible /\ nFound' = FALSE
    /\ IF nFound
       THEN UNCHANGED <<phase, stack, currentHandle, audience>>
       ELSE /\ phase' = "postLoad"
            /\ currentHandle' = 0
            /\ stack' = Dispatched(0, "PostPostLoad", NoPlugin)
            /\ audience' = IF 0 \in DOMAIN listeners
                           THEN {p \in Loaded : \E n \in 1 .. Len(listeners[0]) :
                                                  listeners[0][n].owner = p}
                           ELSE {}
    /\ UNCHANGED <<visible, plugins, loading, listeners, got, answered>>

\* A pass that loaded nothing ends the scan, and PostLoad goes out.
EndPass ==
    /\ phase = "scan" /\ loading = NoPlugin
    /\ snapshot \subseteq visited
    /\ visited' = {} /\ snapshot' = visible /\ nFound' = FALSE
    /\ IF nFound
       THEN UNCHANGED <<phase, stack, currentHandle, audience>>
       ELSE /\ phase' = "postLoad"
            /\ currentHandle' = 0
            /\ stack' = Dispatched(0, "PostLoad", NoPlugin)
            /\ audience' = IF 0 \in DOMAIN listeners
                           THEN {p \in Loaded : \E n \in 1 .. Len(listeners[0]) :
                                                  listeners[0][n].owner = p}
                           ELSE {}
    /\ UNCHANGED <<visible, plugins, loading, listeners, got, answered>>

SendPostPostLoad ==
    /\ phase = "postLoad" /\ stack = <<>>
    /\ phase' = "postPostLoad"
    /\ stack' = Dispatched(0, "PostPostLoad", NoPlugin)
    /\ UNCHANGED <<scanVars, loadVars, listeners, historyVars>>

StartRunning ==
    /\ phase = "postPostLoad" /\ stack = <<>>
    /\ phase' = "running"
    /\ UNCHANGED <<scanVars, loadVars, listeners, stack, historyVars>>

Top == stack[Len(stack)]
SetTop(frame) == [stack EXCEPT ![Len(stack)] = frame]
Pop == SubSeq(stack, 1, Len(stack) - 1)
Iterating == phase # "crashed" /\ stack # <<>> /\ Top.handling = NoPlugin

\* The iterator is at an entry: call it, or pass over it when the message is
\* for another receiver.
Deliver ==
    /\ Iterating
    /\ Top.next <= Len(listeners[Top.sender])
    /\ LET entry == listeners[Top.sender][Top.next]
           called == Top.target \in {kPluginHandle_Invalid, entry.listener}
       IN  \/ /\ ~called
              /\ stack' = SetTop([Top EXCEPT !.next = @ + 1])
              /\ UNCHANGED got
           \/ /\ called /\ entry.owner # Unloaded
              /\ stack' = SetTop([Top EXCEPT !.handling = entry.owner])
              /\ got' = [got EXCEPT ![entry.owner] = @ \cup {Top.message}]
    /\ UNCHANGED <<scanVars, loadVars, listeners, phase, audience, answered>>

\* Calling a freed library, or using an iterator into a list that has moved.
Fault ==
    /\ Iterating
    /\ \/ Top.dangling
       \/ /\ Top.next <= Len(listeners[Top.sender])
          /\ LET entry == listeners[Top.sender][Top.next]
             IN  /\ Top.target \in {kPluginHandle_Invalid, entry.listener}
                 /\ entry.owner = Unloaded
    /\ phase' = "crashed"
    /\ UNCHANGED <<scanVars, loadVars, listeners, stack, historyVars>>

EndDispatch ==
    /\ Iterating
    /\ Top.next > Len(listeners[Top.sender])
    /\ stack' = Pop
    /\ UNCHANGED <<scanVars, loadVars, listeners, phase, historyVars>>

\* What a handler may do before it returns.
Handling == phase # "crashed" /\ stack # <<>> /\ Top.handling # NoPlugin

RegisterInHandler(sender) ==
    /\ Handling
    /\ RegisterListener(Top.handling, HandleOf(Top.handling), sender)

DispatchInHandler(receiver) ==
    /\ Handling /\ Len(stack) < MaxDepth
    /\ stack' = Dispatched(HandleOf(Top.handling), "other", receiver)
    /\ UNCHANGED <<scanVars, loadVars, listeners, phase, historyVars>>

\* A message to one receiver ends with it, a broadcast goes on.
HandlerReturns ==
    /\ Handling
    /\ stack' = IF Top.target # kPluginHandle_Invalid
                THEN Pop
                ELSE SetTop([Top EXCEPT !.handling = NoPlugin, !.next = @ + 1])
    /\ UNCHANGED <<scanVars, loadVars, listeners, phase, historyVars>>

\* Plugins called by the game, outside of any handler, and NVSE's own messages.
RegisterWhileRunning(p, sender) ==
    /\ phase = "running" /\ stack = <<>>
    /\ RegisterListener(p, HandleOf(p), sender)

DispatchWhileRunning(sender, receiver) ==
    /\ phase = "running" /\ stack = <<>>
    /\ stack' = Dispatched(sender, "other", receiver)
    /\ UNCHANGED <<scanVars, loadVars, listeners, phase, historyVars>>

Scan ==
    \/ \E p \in Plugins : VisitPlugin(p)
    \/ LoadSucceeds
    \/ LoadFails
    \/ EndPass

Registration ==
    \E sender \in Senders \cup {NoSender} :
        \/ RegisterDuringLoad(sender)
        \/ RegisterInHandler(sender)
        \/ \E p \in Loaded : RegisterWhileRunning(p, sender)

Dispatching ==
    \/ SendPostPostLoad
    \/ StartRunning
    \/ Deliver
    \/ Fault
    \/ EndDispatch
    \/ HandlerReturns
    \/ \E receiver \in Plugins \cup {NoPlugin} :
           \/ DispatchInHandler(receiver)
           \/ \E sender \in 0 .. Len(plugins) : DispatchWhileRunning(sender, receiver)

Next == Scan \/ Registration \/ Dispatching

Spec == Init /\ [][Next]_vars

\* Loading goes on: plugins' Load functions and the directory scan return.
FairSpec == Spec /\ WF_vars(Scan)

-----------------------------------------------------------------------------
(* Properties. *)

Entries == UNION {{listeners[i][n] : n \in 1 .. Len(listeners[i])} : i \in DOMAIN listeners}

\* No file is loaded twice, in whatever pass it is found.
LoadedOnce == \A i, j \in 1 .. Len(plugins) : plugins[i] = plugins[j] => i = j

\* A handle names one plugin for good, and a plugin has one handle: the callbacks
\* filed under it are the plugin's at that position of m_plugins, or the one
\* being loaded with that handle, or of a library that has been freed - never
\* another live plugin's.
HandlesNamePlugins ==
    /\ LoadedOnce
    /\ \A e \in Entries :
          \/ e.owner = Unloaded
          \/ e.listener \in 1 .. Len(plugins) /\ plugins[e.listener] = e.owner
          \/ loading = e.owner /\ currentHandle = e.listener

\* A handle is in a list at most once, although it is looked for by hand and
\* the loop over all lists miscounts.
OneEntryPerListener ==
    \A i \in DOMAIN listeners : \A m, n \in 1 .. Len(listeners[i]) :
        listeners[i][m].listener = listeners[i][n].listener => m = n

\* A handler that only registers listeners cannot move the list it is being
\* called from; it takes a dispatch within the handler.
SoleDispatchIsSafe ==
    [][(\E k \in 1 .. Len(stack) : k <= Len(stack') /\ ~stack[k].dangling
                                    /\ stack'[k].dangling)
          => Len(stack) > 1]_vars

\* "sent right after kMessage_PostLoad" (PluginAPI.h:215): whoever listened to
\* NVSE when PostLoad went out has got it before PostPostLoad.
PostLoadFirst ==
    \A p \in audience : "PostPostLoad" \in got[p] => "PostLoad" \in got[p]

\* The scan ends, however often loading one plugin uncovers others.
InstallEnds == <>(phase # "scan")

\* "don't add the listener to its own list" (PluginManager.cpp:695).
NoSelfListener ==
    \A i \in DOMAIN listeners : \A n \in 1 .. Len(listeners[i]) :
        listeners[i][n].listener # i

\* "RegisterListener returns false if the specified plugin is not loaded, true
\* otherwise. Any messages dispatched by the specified plugin will then be
\* forwarded to the listener as they occur." (PluginAPI.h:144)
AnsweredIsListening ==
    \A a \in answered :
        LET list == listeners[LookupHandleFromName(a[2])]
        IN  \E n \in 1 .. Len(list) : list[n].owner = a[1]

=============================================================================

# RuntimeScriptProfilerNV in TLA+

RuntimeScriptProfilerNV is a plugin for New Vegas' script extender (NVSE): it hooks the end of every
script run and the game's per-frame script loop, and writes how long scripts took to a log. The
repository also carries the extender it is built against (`src/nvse`) and its support library
(`src/common`). This directory holds models of the parts that have state worth arguing about, the TLC
runs that check them on small instances, and TLAPS proofs for the plugin's own part, the plugin manager, the
event manager, the co-saves, the scripts' arrays and the input hook.

`PROJECT.json` lists the components, the source lines every definition stands for (`map`), the runs, for
every property a plausible bug that breaks it (`mutants`), the hazards of the code, the disagreements
found (`findings`) and the theorems. Paths without a directory below are those of `src/nvse/nvse`.

## 1. Inventory

| Component | State | Operations | Talks to |
|---|---|---|---|
| **Script profiler** `src/code/main.cpp`, `internals.cpp`, `Configuration.h` | ini settings, `isModEnabled`, `scriptWasExecutedThisFrame`, `mainLoopExecuting`, timers | `NVSEPlugin_Load`, `DoScriptRunnerExecuteTimeElapsed` (every thread), `StartFrame...` / `EndFrameExecutionTimer...` (main thread) | debug log by calls; the game by two code patches |
| **Debug log** `src/common/IDebugLog.*` | file, autoflush, indent, cursor, header, source, the static `formatBuf` | `Message`, `Log`, `SetSource`, `ClearSource`, `Indent`, `Outdent`, `OpenBlock`, `CloseBlock`, `SetAutoFlush`, `SetLogLevel` | C runtime stream; called by everything |
| **Plugin manager** `nvse/PluginManager.*`, `PluginAPI.h` | `m_plugins`, current handle, `s_pluginListeners` | `InstallPlugins`, `InstallPlugin`, `RegisterListener`, `Dispatch_Message`, lookups | plugins' Query / Load / handlers as callbacks, which call back in |
| **Event manager** `nvse/EventManager.*` | `s_eventInfos` with callback lists, deferred callbacks, last events, a recursive lock | `SetHandler`, `RemoveHandler`, `HandleGameEvent`, `DispatchUserDefinedEvent`, `HandleNVSEMessage`, `Tick` | scripts as callbacks, which call back in; plugin manager's messages; arrays |
| **Main loop hook** `nvse/Hooks_Gameplay.cpp` | - | `HandleMainLoopHook`: tasks, `Tick`, clean-up of temporaries | event manager, arrays, strings |
| **Co-save serialization** `nvse/Serialization.cpp`, `Core_Serialization.cpp`, `Hooks_SaveLoad.cpp` | current file, plugin callbacks, chunk lengths | save, load, preload, new game, rename, delete | plugins' callbacks, plugin manager messages |
| **Array and string variables** `nvse/VarMap.h`, `ArrayVar.cpp`, `StringVar.cpp`, `Commands_Array.cpp` | maps, reference counts by mod, temporaries, free ids, one-entry cache, the backup of a load | create, add / remove reference, set, insert, resize, erase, slice, copy, `Clean`, save, load | event manager (arguments), serialization, loops, calls |
| **Dialog text hook** `nvse/Hooks_Dialog.cpp` | a static text buffer | `doTileTextHook`: an array of arguments is made, dispatched, erased | event manager, arrays |
| **User functions, loops** `nvse/FunctionScripts.cpp`, `Loops.cpp`, `ThreadLocal.cpp` | call stack (at most 30), loop stacks, per-thread data | `Call`, `Return`, `ForEach`, `While`, `Break` | event manager, arrays |
| **Input hook** `nvse/Hooks_DirectInput8Create.cpp`, `Commands_Input.cpp` | `m_keys`, `m_bufferedPresses`, the game's bindings, disabled controls | the game's polls and buffered reads; tap, hold, release, disable, enable, rebind, menu presses | scripts, the game, both devices |
| **Locks, events, threads** `common/IReadWriteLock.cpp`, `IEvent.cpp`, `ICriticalSection.h`, `IMutex.cpp`, `IThread.cpp` | counters and kernel objects | enter, leave, block, unblock | - |
| **Pools, queues, containers** `common/IMemPool.h`, `IFIFO.h`, `IObjectPool.h`, `IRangeMap.h`, `ILinkedList.h` | free lists, ring positions | allocate, free, push, pop, peek | - |
| **Streams, pipes, archive, database, console** `common/*` | positions | read, write | operating system |
| **Expression parser and evaluator** `nvse/ScriptUtils.cpp`, `ScriptTokens.*` | text and offset, stacks of operators and operands, code so far | `ParseArgs`, `ParseSubExpression`, `Evaluate` | commands, arrays, user functions |
| **Script commands**, **game layouts**, **loaders** | no protocol state of their own | - | the game, the operating system |

### What is hard in this code, and what makes each part correct

* *Profiler.* The hook runs on whatever thread ran the script, the log has one unlocked format buffer, and
  scripts run both inside and outside the hooked loop. Measurements go through an unflushed stream; the
  frame's separator is the only thing that flushes. Correct means: lines are not torn; the separator
  closes each non-empty frame and no empty one; closed frames survive a crash; only runs the ini file and the
  hotkey let through are logged; nothing pending is forgotten when profiling is switched off.
* *Debug log.* Layout is computed from a column the log tracks itself. Correct means the tracked column is
  the real one and texts start at tab stops after any sequence of calls.
* *Plugin manager.* Load functions fail after they have registered callbacks; handlers register listeners
  and dispatch while the loop that called them holds an iterator. Correct means handles stand for one
  plugin, lists have no duplicates, `PostLoad` precedes `PostPostLoad`, and the scan ends.
* *Event manager.* Handlers remove themselves and their callers, new event names move the vector the
  running loops point into, worker threads leave callbacks to `Tick`. Correct means a script sees a plain
  registry, no iterator loses its node, deferred events are handled, and `Tick` returns.
* *Serialization.* Headers written after what they describe, callbacks that throw or stop reading anywhere,
  sections of plugins that are gone or have another handle. Correct means each plugin reads the records it
  saved, and nothing from a save that was cut short.
* *Arrays.* Reference counts by mod, written by four kinds of holder that begin and end apart; a collector that
  works off a queue while destroying what it deletes adds to it; ids that are used again; a cache that trusts a
  pointer; a load that may fail and is undone, with mods that are gone and whose arrays others refer to; events of
  another thread, whose arguments nothing refers to before `Tick`. Correct means what is referred to stays, what is not
  goes, and ids, cache, counts and the map agree. *Packed arrays* move their elements one by one in the map they
  read from. Correct means keys 0 to n-1 after every command, and the list scripts take the array for.
* *Expressions.* One stack of operators for the compiler, one of operands for the evaluator, brackets and
  subscripts that are subexpressions, an end of argument that is guessed. Correct means that what compiles
  evaluates to what the operators' grammar says.
* *Input.* Scripts and the user act on a key between polls in any order, a device's state is read once a frame and
  told to two readers, rebinding swaps; the reads of both devices take from one queue of presses. Correct means scripts
  see what the game sees, a tap is neither lost nor ended unseen, no two controls share a key, and the game gets
  every press that is taken off the queue.
* *Locks and pools.* Initial states and unlocked reads, in library code that nothing of the repository uses.

## 2. Plan

In order of how much the plugin's behaviour depends on them; 1 to 10 are done.

| # | Module | Composes / abstract specification | Runs | Theorems |
|---|---|---|---|---|
| 1 | `DebugLog` | - | `files` | types, column, tab stops: **done** |
| 2 | `ScriptProfiler` | instantiates `DebugLog`; implements `FrameJournal` | `profiler` | types, flag, frames, durability, wanted runs, the refinement: **done** |
| 3 | `PluginManager` | - | `plugins`, `plugins_self`, `plugins_answer` | types, handles, entries, load messages, moved lists: **done** |
| 4 | `EventManager` | implements `EventRegistry` | `events`, `events_live`, `events_tick`, `events_remove` | types, iterators, distinct handlers, the refinement: **done** |
| 5 | `Serialization` | - (history variables hold what was saved) | `files`, `saves_range` | types, whole files, records as saved, none withheld, each called once: **done** |
| 6 | `VarMap`, `ArrayVars` | reference counts against reachability; composes the map, commands, loops, calls, events, the main loop and the co-save's arrays | `scripts` | types, what is referred to stays, exact counts, ids, cache, waiting events, exact collection, loads: **done** |
| 7 | `PackedArray`, `Arrays` | implements `ScriptList`; `Arrays` has it beside `ArrayVars` | `scripts` | the refinement: **done** |
| 8 | `ExpressionParser` | the grammar, as `Meaning` | `scripts` | - (recursive operators) |
| 9 | `InputHook` | - | `scripts` | types, what scripts see, taps, bindings: **done** |
| 10 | `MenuInput`, `Input` | `Input` composes it with `InputHook` | `scripts`, `input_presses` | reads fit, types of both: **done** |

Not taken up: the read-write lock, the thread-safe pool and the ring buffer, which nothing in the repository uses.
Open: loops and calls inside each other, string variables.

Modules to be proved about use recursive functions or folds only, keep bounds in guards, and have named
assumptions on their constants.

## 3. Modules

### DebugLog
The log at the grain of its public functions. `pen` is the pair of `cursorPos` and the real column of
the file, `file` the finished lines with their start column, `durable` how many are on disk. A text is a
value; headers have the length the code gives them, spaces and tabs are computed as `PrintSpaces`,
`RoundToTab` and `SeekCursor` compute them, the odd parts included: the tab size is that of the start
column and `cursorPos` is brought up to date last. `Spill`, `Close` and `Crash` stand for the C runtime: it may
write any part of its buffer at any time, writes all when closed, and loses what is left in a crash.
Left out: the copy to the console (`printLevel`), `OpenRelative`, and what texts say.

### Selections
What loops that unlink leave of a list: `Kept(s, K)`, the elements of `s` that are in `K`, in order, and `Dropped(s, D)`, the
others. The library has `SelectSeq` for it, whose test is an operator and whose definition recurses; a set for the test and a recursive
function for the loop say the same and can be proved about. The event manager's lists and the journal's view of the log use it.

### ScriptProfiler, MCScriptProfiler, FrameJournal
`ScriptProfiler` instantiates `DebugLog` as `gLog` and calls its actions. `frame` says where the main thread
stands in the plugin's own code: the calls of `NVSEPlugin_Load` one by one, between frames, in the
script loop, and the steps of `EndFrameExecutionTimerAndLog` one by one. `pc[t]` says where thread `t` is in
`DoScriptRunnerExecuteTimeElapsed`: after the test of `isModEnabled` (`enabled`), after the other tests
(`passed`), after formatting into the shared buffer (`formatted`), after writing (`written`). Every
thread may be interrupted between any two of these; the process may end or crash anywhere. The hotkey is
a free choice in `StartFrame`, the elapsed time only its test for zero (`measurable`). The ini file is read
once and may hold any values.

`FrameJournal` is what a reader of the log may rely on: measurements are gathered, committed together
with the separator, and a stop loses only a tail of what is gathered. The refinement mapping splits the log
at its last separator.

### PluginManager, MCPluginManager
One action per step of `InstallPlugins` (a file is visited, its Load succeeds or fails, a pass ends) and of
`Dispatch_Message` (deliver, the handler returns, the loop ends). `stack` holds the dispatches in progress
with their iterators; a handler may register and dispatch again. `RegisterListener` keeps the order of
the code: resize first, checks later, the index that is not advanced for a list that is skipped. A list
that grows marks the iterators into it `dangling`; using one, or calling a library that was freed,
is `Fault`. `got`, `audience` and `answered` are history variables for the properties.
Left out: command registration and opcode bases, the interface tables, `DeInit`.

### EventManager, EventRegistry, MCEventManager
`callbacks[e]` is the callback list of event `e`; a callback's `id` stands for its list node, so that an
iterator is an id, 0 is `end()`, and an iterator is valid while its node is in its list. `stack` holds the
`HandleEventForCallingObject` calls in progress, `deferred` the callbacks left by other threads, `tick`
and `tickAt` where `Tick` stands. The code's lock is recursive and held while handlers run, so another thread acts
only when `LockIsFree`; a deferred dispatch is then one action. When a new event name makes the vector
grow, the lists are copied and the old ones freed: all iterators become `stale`, and using one is `Fault`.
`Tick`'s loop is as written: it has no step for a deferred callback whose Removed flag is set (the loop
spins), and its clean-up erases through an iterator that is at the end by then (`Fault`).
`EventRegistry` is what scripts see: a set of registered handlers per event and the calls in progress; only
a registered handler is called. Under the refinement mapping `Nodes` without the Removed flag are the registered handlers, and
`CallsInProgress` the calls: what `Tick` is calling, then `RunningFrames`, the frames whose handler runs (all but
perhaps the top one).
Left out: the calling-object filter (no code sets it), the installation of game hooks by the first handler,
argument arrays and the return values. A form list as a filter is one call per member, as in the code.

### Serialization, MCSerialization, MCFiles
The co-save file as a sequence of cells: one for each header, one for each portion of data that is written or
read together. A header is written where room was left for it, after what it describes. Handles are
positions in the session's list of plugins; an opcode base is the plugin itself and does not change.
`mode` says where `HandleSaveGame` and `HandleLoadGame` stand; while a plugin's callback runs (`saving`,
`loading`, `resting`) it calls `OpenRecord`, `WriteRecordData`, `GetNextRecordInfo` and `ReadRecordData` as often as
it likes, returns when it likes or throws. `WriteRecord` is `OpenRecord` and `WriteRecordData`;
`PeekRecordData` moves nothing. The process may end anywhere; the next session loads any plugins in any order, and
they set any of their callbacks. `saved`, `written`, `got`, `ended` and `called` are history variables.
An empty co-save leaves the header on the stack unread, so that any value may be found there; indexing
`s_pluginCallbacks` past its end either seems to find no callback or ends the process.
`HandleNewGame` is the history variable `newGame`: it calls callbacks and changes nothing of this module's state.
Left out: types and versions of records, the header's count of sections (nothing reads it), the messages to plugins, file names, files that cannot be
created, calls of the interface outside callbacks. What NVSE's own callbacks store is in `ArrayVars`, for arrays.
`MCFiles` holds an instance of this module beside one of `DebugLog`: the two kinds of files the process writes.

### VarMap, ArrayVars, ArrayVarsProofs, MCScripts
`VarMap` is `VarMap<Var>::State` as operators on a record: the map `vars`, the queue `tempVars` of what nothing
refers to, the free ids `available`, the cache. The cache's pointer is the bit whether it is that of the variable under
the id; `Get` through a pointer that is not makes the state `misled`.

`ArrayVars` is the heap of arrays on it. An array has an owner, a bag of references by mod (a sequence, as in the
code), and elements, which are ids or `Other`. `AddReference`, `RemoveReference`, `SetElement`, `EraseElements`, `Pack`,
`Copy`, `Delete`, `Erase`, `Clean`, `SaveGame`, `LoadedState` are the functions of those names (`SaveGame`: `Core_SaveCallback`;
`LoadedState`: `ArrayVarMap::Load`), every call of `Get` included, since it fills the cache. What a loop over an array's
elements (or over the queue, in `Clean`) has done is a recursive function of how many keys (or arrays) are behind it: `UnsettingKeys`, `Packing`,
`Cleaning`, `Filling`. `Copy`, which calls itself for inner arrays, is a function of the steps made (`CopyStep`), with the calls in
progress as a stack; a deep copy of an array that contains itself runs on until no id is left, and is not
followed (`AssignCopy`). One action is one command of
one script: `Construct`, `Assign`, `AssignList`, `AssignElement`, `AssignCopy`, `SetElementTo`, `EraseRange`, `ForEach` and the
loop's `Continue` and `Break`, `Call` (`PopulateArgs`) and `Return` (`CleanEventList`), `Dispatch`, `TileText`. `phase` says where
the main thread is: scripts run, `Tick` delivers what is deferred, `Clean` collects; or a game is being loaded, with the old
state in `backup`. The other thread takes an id and inserts an array in two steps (`TakeID`, `Post`), under the lock
`Tick` holds. `backup` and `save` are sequences of at most one. `PreLoad`, `LoadSucceeds` and `LoadFails` are the two calls a load makes and its two ends; `Restart` is a new
process with other mods.

Where the code goes wrong by itself, the model records how in `fault` and stops, or marks the behaviour: `leaked` (some
reference belongs to nobody), `hollow` (an element names no other array that exists), `spoiled` (an event's arguments
were lost to a save or a late post). The properties say where they need these (section 5 lists the causes).

Simplified: mods are named instead of numbered (the fix-up tables of a load undo the numbers); one loop and one
call deep, none left at the end of a frame; another mod's variable is only given a new array or one that has a
name; the other thread only posts events; the iterator of a loop has a value and no key; keys are the numbers 0 and
1. Left out: string keys, string variables, sorting, finding, the range of types of elements; and the commands of scripts that
run while a game is being loaded, between `PreLoad` and the end of the load (`Command` asks for the phase "scripts", outside of calls and
loops). The game runs a reference's script as soon as the reference is loaded, and the code lets it (`Hooks_SaveLoad.cpp:60-71`):
such a script works on the new arrays while other variables still have ids of the old ones, and a load that fails drops what it made. Which
variables are loaded at that point is up to the game; the model takes them over all at once (`LoadedData`).

### PackedArray, ScriptList, Arrays
A packed array as the map from numbers to elements that it is, under the commands that move elements: `SetSize`,
`Insert`, `InsertRange`, `EraseElements` with `Pack`, `MakeSlice`, with the checks of `ArrayVar::Get`. What a loop has done is a
recursive function of its rounds, in the loop's order: `Padding` in `SetSize`, `Raising` in `Insert`, `Shifting` and then `Putting` in
`InsertRange`, `Packing` and `Slicing` in the other two. It implements `ScriptList`: a list, under insertion, removal of a stretch, resizing and
slicing. Two calls it cannot take mark it `broken` (section 5). `Arrays` has the packed array beside the heap: the heap knows
which of its elements are arrays, the packed array which element is where.

### ExpressionParser
`ParseArgs` and `ParseSubExpression` as functions of a record of the parser's fields; every loop and every early
return is there; in the loop what `PopOperator` returns is ignored, as in the code (`PopPreceding`), and after it an error ends the
expression (`PopRest`). A text grows by one token a step, any
token after any up to `MaxWrong`, and beyond that those that may still become an expression. Tokens are an operand, an
operator of each kind (right-associative, left-associative of two precedences, unary of two, subscript), brackets, and "-?", a minus
that does not fit its operands' types. `Evaluate` is the evaluator's loop on values that record how they were made.
`Readings` and `Meaning` are the grammar, written down independently: an operand, a bracket, a unary or binary operator
between operands of sufficient precedence, at most `NumParams` of them. Left out: characters (tokens instead, so
no two-character operators), types beyond fitting or not, commands and user functions as operands, commas, braces, literals.

### InputHook, MenuInput, Input
`InputHook` is `DIHookControl`'s table of keys under polls, the user and the commands. `m_keys` has the fields of
`KeyInfo`, with the two disables as a set; `Process` is what a poll stores of a key and `KeyDown` what it returns, which is
what the game is `told`; of the wheel it is told what the device says, as in the code. `PollKeyboard` and `PollMouse` are
`GetDeviceState` on either device, `Press` and `LetGo` the user. `SetControl` is the function of that name: the first control
that has the new key is given the old one, the key is compared in full and stored in a byte. Codes may be those of keys, of
buttons, of the wheel, too large, or the one that stands for no key (`Unbound`), which is a code of the keyboard as well.

`MenuInput` is `m_bufferedPresses` and `ProcessBufferedData` without peeking: a `Read` with room for `size` events takes
the device's `pending` events and, in what room is left, presses off the queue, and reports where they end up in the game's array
(`Reported`): the pointer is set to the second place after each press. `Flush` is a read without an array.

Left out: controls that scripts register (`SetIsControl`), the frame rate tracker, devices that fail, bindings the game itself
changes, and reads that peek (with presses waiting the code halts there on purpose, `Hooks_DirectInput8Create.cpp:432`).

`Input` puts the two side by side: the commands for menus change no key, and those for keys no press. `InputTypeOK` is about both.

`MCScripts` holds five parts side by side: a behaviour is one of expressions, of the heap, of a packed array, of keys or of menu
presses, and the others stay as they were.

### The modules named ...Proofs
See section 6.

## 4. Runs

| Run | Bounds | Why they are enough | What it shows |
|---|---|---|---|
| `files`, log | one text, one source, 2 lines, indent 3, columns to 32 | indent 3 and blocks reach start columns below, at and beyond a tab stop; the operations depend on the previous line only | the tracked column is the real one (`CursorMatchesColumn`), texts start at tab stops (`TextAtTabStop`) |
| `profiler` | a base game script and a mod's, main thread and one other, 7 lines (3 of loading, 4 more) | every setting tells the two scripts apart; 4 lines hold two frames, or one frame of three measurements; one other thread gives every interleaving with the main one | all of `TypeOK`, `NoTornLines`, `FlagTracksLog`, `OnlyWantedRuns`, `MeasurementsReachDisk`, and that the profiler is a `FrameJournal` |
| `plugins` | 2 plugins, 1 spare list, dispatch depth 2 | a resize happens with and without a dispatch in progress; one plugin may fail, then the other gets its handle; a dispatch inside a handler | handles, lists and load messages are consistent; the scan ends |
| `plugins_self` (violation) | the same, depth 1 | - | a listener that registers with everybody twice ends up in its own list |
| `plugins_answer` (violation) | the same, depth 1 | - | a plugin is told it listens although the entry with its handle is a failed plugin's |
| `events` | 1 game event with two kinds of arguments, 2 handlers for it (one with filters), 1 user event with a filtered handler, depth 2, 2 deferred | a handler running inside the same handler, arguments that pass a filter and that do not, both flags on one node, two deferred callbacks of one event or of one handler, a vector that grows under running loops | scripts see a registry, no iterator loses its node, no duplicate handlers |
| `events_live` | 2 game events, one handler each, depth 2, 3 deferred | the duplicate filter needs an event in between; several deferred callbacks make `Tick` erase and go on | deferred events are handled |
| `events_tick` (violation) | 1 handler per event, 2 deferred | - | `Tick` may spin for ever |
| `files`, co-save | 3 plugins, one without opcode base, one with 2 records and one with 1, 1 portion of data each, 2 sessions, 2 names but 1 co-save at a time | two sections and two records in one of them give every case of something left unread before something else; the second session may lack either plugin, swap them or lack callbacks | every plugin is given its own records, whole and in order (`RecordsAreTheSaved`, `AllRecordsOffered`), a co-save cut short is never read (`HeaderMeansWhole`), each plugin is called once (`EachIsCalledOnce`) |
| `saves_range` (violation) | the same | - | a plugin without callbacks is looked up past the end of the vector |
| `events_remove` (violation) | two handlers with different objects | - | removal ignores the object filter |
| `scripts`, heap | 2 mods with a variable each, one may assign the other's; 3 ids, keys 0 and 1; 3 commands, 1 event of the other thread, 2 saves, loads or new games, 5 of these together; one mod may be gone | an array in an array needs three commands, as does one that a loop, a call or a foreign variable holds; two of saves, loads and new games are what a load of something else than what is in the heap takes | what is referred to stays (`HeldArraysLive`), counts are right by mod (`RefsCountHolders`), a collection is exact (`CollectsGarbage`), a load finds what was saved (`LoadedAsSaved`), events keep their arguments (`EventArgsWait`), ids and cache agree with the map |
| `scripts`, packed array | 2 values, up to 4 elements and as many to insert, positions from -4 to 4 | a range of two inserted in the middle of two moves elements over each other | the array is a `ScriptList`, whose keys are contiguous |
| `scripts`, expressions | 2 parameters, any text of 4 tokens, promising ones of 7 | brackets inside brackets, a unary operator on both sides of a binary one, three binary operators, two arguments; 9 tokens were run once, without difference | what compiles without an error means what the grammar says (`CompiledAsWritten`), and every expression compiles (`ExpressionsCompile`) |
| `scripts`, keys | 5 keyboard codes of which the last is `Unbound`, 1 button, the wheel, 2 controls; a key, the button and one direction of the wheel for the user; 4 codes for scripts, 3 commands | the codes are a key, the unbound one, the button and one too large by one, which `SetControl` takes for the key of its remainder; two controls are what a swap takes | scripts see what the game was told (`ScriptsSeeWhatTheGameSees`), taps wait for a poll (`TapsAreNotLost`), keys of controls stay distinct (`BindingsAreDistinct`) |
| `scripts`, menu presses | 2 devices with 1 unread event, 3 presses, room for up to 3 | no room, room for some and for all, with and without an event before the presses | a read reports what fits (`InputTypeOK`) |
| `input_presses` (violation) | the same | - | presses after the first overwrite the second place |

Deadlock is not checked: processes end and crash, `Tick` may spin without a step, and the bounds
(`MaxLines`, `MaxDeferred`, `MaxDepth`, `MaxSessions`) end behaviours the code would continue. `files` and `saves_range`
treat the names of co-saves as symmetric, since no definition tells them apart; the other runs use no
symmetry.

`MaxDepth` bounds dispatches inside each other in both managers. NVSE has no limit for messages; scripts may nest
30 deep, and a call beyond that does not run, which equals a script that does nothing.

### Fairness
* Profiler: calls into the log and out of the hook return (`WF` of load, the main thread's hook steps and
  the end of a frame), the game comes round its loop (`SF` of `ScriptsDone` and `StartFrame`, strong because
  scripts outside the loop may run any number of times before each). No fairness for other
  threads, the hotkey, the buffer or the end of the process: `MeasurementsReachDisk` holds without them.
* Serialization, arrays, expressions and input: none; their properties are about safety.
* Plugin manager: the scan and the plugins' Load functions return (`WF` of `Scan`).
* Event manager: loops run on (`WF` of `Continue` and `TickStep`); scripts return however many events they raise
  (`SF` of the return at each depth, and of `TickReturns`); the main loop calls `Tick` every frame, although
  other events may occupy the lock in between (`SF` of `BeginTick`). Liveness is stated under
  `ScriptsSettle`: a loop visits what is appended behind it, so scripts that set new handlers
  from handlers for ever keep a dispatch going for good, in the code as in the model.

## 5. What was found

1. `plugins_self`: `PluginManager.cpp:710` skips a list without advancing `idx`; the later test against the
   listener's own index then guards the wrong list ("don't add the listener to its own list", 695).
2. `plugins_answer`: a failed plugin's callbacks stay filed under a handle the next plugin gets; that
   plugin's registration is answered true and never filed (`PluginAPI.h:144-146`).
3. `events_tick`: `Tick` neither calls nor passes over a deferred callback that was removed
   (`EventManager.cpp:2006-2007`).
4. `events_remove`: `RemoveHandler` compares script and source only; "removes handler only if all filters
   match" (`EventManager.h:154`).
5. `saves_range`: `HandleLoadGame` indexes the callback vector before it knows that the plugin has an entry
   (`Serialization.cpp:522`), in the case of "plugin has data in save file but no handler" (533).

6. `input_presses`: for each press after the first, `ProcessBufferedData` sets the game's pointer to the second place of the
   array instead of the next (`Hooks_DirectInput8Create.cpp:453`). Of three presses, the first and the last arrive if the device has no event, and one
   place is left as it was; behind one event the last alone arrives, and two places are; behind more events the first and the last do, but the last
   in place of the device's second event, and again two places are left. Two presses and a device without events happen to be right.

Read in the code and not behind a property: `ClearSource` leaves the header text; `RemoveHandler`'s branch
for a form list of sources tests the object filter instead; the InUse flag set for a deferred
callback is never cleared, so such a callback is unlinked only by a new list. The hazards in `PROJECT.json` name the
lines.

In the arrays. Some of these the model reaches (`fault`, `leaked`, `hollow`, `spoiled`, `broken`), and its properties say so; no
comment, document or test of the repository promises otherwise, but for the fifth.
* The cache outlives an array whose last element is null, dead or the array itself: destroying the element puts the
  array that is being destroyed back into the cache (`VarMap.h:138`), and the next `Get` of the id returns it.
* Two threads may be given one id, since one above the greatest is not reserved (`VarMap.h:82`).
* `ar_InsertRange` of an empty range unsets everything from the index on; of the array itself, it reads
  elements it has already overwritten (`ArrayVar.cpp:773-797`).
* `ar_Copy` deep of an array that contains itself does not end. Negative indexes count from the end for elements and not
  for `ar_Erase`.
* `ar_Erase` of a whole array returns one less than it erased (its count begins at -1), where `Commands_Array.cpp:238` says
  "returns num elems erased or -1 on error". Results are not modelled.
* References that nobody gives up: a call whose later argument is wrong; a loop's iterator assigned in the loop; another mod's
  variable (recorded under the mod that assigns, removed under whoever overwrites it); whatever was referred to when a new
  game or a game without a co-save begins. They only leak: `HeldArraysLive` holds all the same.
* `doTileTextHook` erases its arguments although a handler may have stored them (`Hooks_Dialog.cpp:134`), and
  `doTileTextEvent` returns its local buffer (97-107).
* Arguments of a deferred event are lost if the game is saved or a new one begins before `Tick`, or if it is posted between
  `Tick` and `Clean` (`Hooks_Gameplay.cpp:276-280`).
* A load without a mod that was there leaves elements that name arrays discarded with it; a load that fails
  for a game without a co-save drops all arrays.
* An element that was never set is saved and not loaded, and a packed array loses what follows it. A script that returns
  inside a loop leaves its loop on the `LoopManager`'s stack. (Not in the model.)

In expressions (`ScriptUtils.cpp`):
* `x ^ !-x` is compiled as `(!x) ^ (-x)`, without an error, as is `a && !*b`: a unary operator of higher precedence is popped
  when another one comes, and takes the operand before it. At the start of an expression it finds none and an error
  is shown. The properties leave these texts out (`NotBeforeMinus`).
* The loop ignores what `PopOperator` returns (2197, 2225), so that a line whose error was shown may still
  compile (`shown`).
* Inside brackets, what follows the first expression is skipped: `(a b)` is `a` (`unread`).
* With braces around the arguments, a last argument of one character is dropped (1639). (Not in the model.)

## 6. Proofs

TLC agrees with all of these on the runs above; the theorems hold for every value of the constants that
satisfies the named assumptions of the modules (finite or infinite sets of scripts and threads, any
bounds).

**DebugLogProofs.** `LogIInv` is `LogTypeOK` and `LogInv`: between operations the pen is *settled* (its cursor is a
multiple of four and, while there is a file, equal to the column). It is needed because `CursorMatchesColumn` alone
is not inductive: `PrintSpaces` works with the tab size of a stale position, which is right only
when it starts at a tab stop. Lemmas on tab arithmetic (`TabAtStop`, `AfterTabsFromStop`, `RoundedIsTabStop`) carry
over to headers and messages; `LogStepOK` has one step per operation. Theorems: `LogInvariant`,
`LogTypeCorrect`, `CursorIsColumn`, `TextStartsAtTabStop`.

**ScriptProfilerProofs.** `IInv` adds to the type invariant: `PlainLog` (the profiler uses the log without blocks and
sources), `OnlyMainPasses` (no other thread gets past the thread test; the main thread reports runs only outside
the frame's own code), `BufferHeld` (whose text the shared buffer holds), `FlushHeld` (autoflush is on from
`EndFlushOn` to `EndFlushOff`), `FlagInv` (the flag agrees with the log's last line, but for the gap
between writing a line and setting the flag and the one between the separator and the reset), and the two frame
properties. The last two need all the others: a separator is durable because autoflush is on where it is
written, and not empty because the flag was right when the frame ended and nobody else could write
since. Theorems: `Invariance`, `TypeCorrect`, `LinesAreWhole`, `FlagIsRight`, `FramesNotEmpty`,
`ClosedFramesDurable`.

That the profiler is a `FrameJournal` (`ProfilerImplementsJournal`) is proved step by step on top of `IInv`. The mapping selects
the log's measurements and separators and splits them at the last separator, so the lemmas say what a line more or a tail less does to
either half: a line that is neither changes nothing (`QuietJournal` and its kin), a measurement is appended to what is
gathered, a separator moves all of it over, and is never written when nothing is gathered, because the flag is right
(`SomethingGathered`). A crash keeps what is committed since closed frames are durable. All other steps stutter.

Only wanted runs are logged: `OnlyWantedRuns` is a property of steps. `WantedInv` carries the hook's tests to the step that
writes: while the main thread is in the hook profiling is enabled (the hotkey is read only between hook
calls), and once the tests are passed the run's script is one the ini file wants. With `IInv`, which says that
nobody else writes measurements and that the buffer holds the run's own text, `RunsAreWanted` follows.

**SelectionsProofs.** By induction over the length of the prefix (least elements of sets of numbers, since the library's induction
theorems cannot be instantiated): `Kept(s, K)` is the elements of `s` at rising positions, which are all positions whose
element is in `K` (`KeptSelects`). From it: what is kept is in the list and in `K`, distinct elements stay distinct, an append
appends or does nothing, and what is kept of a prefix is a prefix of what is kept; what `RemoveFirst` and `Append` do to the number of
occurrences, which is how bags of references are counted.

**PluginManagerProofs.** `HandlesNamePlugins` and the others lean on each other: a frame calls a plugin that is loaded
because handles name plugins and nothing is loading once the scan is over; a registration from a handler files the right
handle because the frame calls a loaded plugin. `IInv` adds to them: the lists are numbered from zero
(`ListsFromZero`), what is loading is new and has the next handle (`LoadingNext`), the scan dispatches nothing (`ScanIsQuiet`), a
frame iterates a list that exists and calls a plugin that is in it (`FramesOK`), and whoever has not got PostLoad is still ahead of the
bottom frame's iterator (`PostLoadSent`, `Awaits`). `RegisterEffect` says once what a registration does to lists and
frames, whichever of the three places it is made from; of the loop's index it needs nothing. That no handle is too
large rests on the plugins being finitely many (`HandlesSuffice`). Theorems: `Inductive`, `TypeCorrect`, `HandlesHold`,
`NoDoubleEntries`, `PostLoadComesFirst`, `SoleDispatchHolds`.

**EventManagerProofs.** `IteratorsStayValid` is not inductive: that a node stays in its list while a frame points to it rests on the InUse
flag, and the flag on the frames that share it. `IInv` says that lists have no node and no handler twice (`ListsAreLists`), that what
running frames and deferred callbacks point to is in its list and flagged (`FramesOK`, `DeferredPinned`), that only the top frame
is between two callbacks (`OnlyTopLoops`), that the frame that found a flag clear, and so will clear it, is the first to point to
the node (`FlagsNest`), and that `Tick` works while nothing else is dispatched but by what it calls (`TickAlone`). Each step is first described by what it
does to the one list it touches (`Advances`: every flagged node survives with its handler, other lists stay), then the iterators are
followed through it. Theorems: `Invariance`, `TypeCorrect`, `IteratorsHold`, `OneCallbackPerHandler`.
`EventManagerImplementsRegistry` adds what each step does to the set of registered handlers and to `CallsInProgress`: the beginning of a dispatch, a callback
that is passed over and a sweep stutter; the call of a handler is `Call`, its return `Return`, and what the frame below was
calling does not change because its node survives.

**SerializationProofs.** The properties speak of what was saved, the code of offsets and lengths. `IInv` says where things are: `Places` puts
the records of a section one behind the other, each behind a header with its length; `SectionHolds` puts them in a section that is as long as its
header says and as its owner wrote; `Holds` makes a file out of sections, one per owner with records. A file has the header if
and only if it holds what was saved (`FilesHold`), which is why the header has to be written last. A save in progress holds what was written up to
the section (`SaveLoopInv`) and in it up to the open record, whose header is still a gap (`SavingInv`). A load stands at the beginning of a
section, after exactly the plugins whose sections are behind it (`LoadLoopInv`, `HadData`), or in a section where what is left of the
open record ends where the next one begins, whatever was left unread (`LoadingInv`, `ReadSoFar`). The lemmas say what one
cell written does to `Places` and `Holds` (`Overwrites`). `NoFileAssumption` says that the value for "no file" is neither a file nor something that
was saved. TLC found no state of the instance of `files` outside `IInv`. Theorems: `Invariance`, `TypeCorrect`, `WholeIfHeader`,
`ReadsWhatWasSaved`, `AllOffered`, `CalledOnce`.

**ArrayVarsProofs.** No property of `ArrayVars` is inductive, since each asks for the others: an array stays because a reference to it is
recorded, the recorded references are right because ids name one array, ids do because the queue holds what is in
the map. `Inv` counts. For an array and any class of mods, `Refs` are the references recorded for them and `Slots` the elements of
their arrays that name it; the `Surplus`, which elements do not account for, must be what variables and parameters `Demand`.
`Covered` says at least that, over all mods together, which survives every confusion of mods that the code makes: a script that assigns to another mod's
variable removes a reference of its own mod, or none, and records one. `Exact` says just that, for every class of mods, as long as nothing is `leaked`. So
an operation of the heap is shown once to leave every surplus alone (`Keeps`) or to move a single reference, whatever elements it moves,
copies or destroys on the way, and an action to demand what the heap has for it. Around the counts `Inv` has: the types (`HeapType`, with
elements that may name arrays not there); the queue is just the arrays without a reference (`QueueOK`), which makes a new array or a waiting event
safe only until `Clean`; the ids in the map, free or taken by the other thread are 1 to some n without a gap, and no id twice
(`Ids`); arguments of waiting events are in the map and not the hook's own, whose array `Return` erases (`Waiting`); unless `hollow`, no element names nothing
or its own array, which is what it takes for the cache to stay current through a destructor (`Caches`); the backup of a load is such a
heap too; and what is saved is a heap where every array has a reference, whose counts were right for the variables saved with it (`SaveOK`, `LoadedOf`).
Collection needs two arguments: that nothing referred to is deleted, from the counts alone, and that all the rest is
(`GarbageIsCollected`): deletion only takes what is in no set closed under "named from outside or from inside the set", and when the
queue is empty what is left is such a set. Each deletion takes an array off the map, so the loop is through after as many rounds as there are arrays.
The first assumption on constants says whose variables and handlers there are (`ModsAssumption`); the others that variables are finitely many
(`VarsAssumption`), that keys are the first numbers (`KeysAssumption`), that what is no array is no number (`OtherAssumption`), and that bounds are numbers
(`BoundsAssumption`). Theorems: `Invariance`, `TypesCorrect`, `HeldArraysStay`, `CountsExact`, `IdsStay`, `CacheStaysCurrent`, `EventArgsStay`,
`GarbageIsCollected`, `LoadsWhatWasSaved`: every property the run `scripts` checks of the heap.

The last section is about packed arrays, of any values and any size: they implement `ScriptList` (`PackedArrayIsAList`). The
invariant is short, that keys are 0 to n-1 and every key has an element (`IsCells`), and every command keeps it and does to the list what
the operation of `ScriptList` does. What takes proof is the loops. A fact about every round says which elements are where they are
to be and which are where they were: in `Insert` and `InsertRange` those from some position on are moved and the others are not, and
as the loop goes down no element is overwritten before it is read (`RaisingIs`, `ShiftingIs`, `PuttingIs`); in `Pack` there is
one gap, as wide as what was erased, that each round moves by one element (`HasGap`, `GapMoves`), until it is behind the last. The
proof needs the mark `broken` where section 5 has it and nowhere else: a range that is empty, before an element, or is the array itself. The only
assumption is that the bound on sizes is a number (`SizeAssumption`).

**InputHookProofs.** What a script is told is what the game is told because commands change neither (`CommandStep`) and a poll
changes both (`PollTypes`). Swapping keeps bindings distinct if the code fits the byte it is stored in, hence the
assumption of `BindingsStayDistinct` that codes are below twice the byte's values (the second half are the buttons'); `FirstControl` is
where the loop finds the other control. Of `MenuInput` it is proved that a read reports what it took and no more than there is room
for, because the device's events come off the room first (`ReadFits`); `InputTypesCorrect` puts this and the types of keys together, for `InputTypeOK`, and assumes only
that sizes are numbers. Theorems: `KeysTypeCorrect`, `ScriptsAreToldTheSame`,
`TapsArrive`, `BindingsStayDistinct`, `ReadsFit`, `InputTypesCorrect`.

Two properties of the profiler are proved and in no run: `FramesNotEmpty` and `ClosedFramesDurable`; TLC checks them through
`ImplementsJournal`, whose commits are of frames that are not empty and on disk.

Only model-checked: liveness (`MeasurementsReachDisk`, `InstallEnds`, `DeferredAreHandled`), which is beyond the
prover; and that the parser compiles what is written (`CompiledAsWritten`, `ExpressionsCompile`), whose operators are recursive. The
properties of the violation runs are false.

## 7. Not modelled

* Library code that nothing in the repository uses: the read-write lock, pools, queues and range maps of
  `src/common`. Threads are used by the editor's console window only.
* String variables (the map is `VarMap`'s, what is in them has no references), while loops, calls inside calls,
  function results, the loops over strings and containers.
* Types of expressions and the rules of operators (a table), commands (accessors of game objects), the declarations of the
  game's structures, the streams (positions only), the loaders (a fixed sequence of system calls).
* Of the input hook: see section 3.

The table in `PROJECT.json` gives the reason for each.

---------------------------- MODULE Serialization ----------------------------
(***************************************************************************)
(* Serialization (nvse/nvse/Serialization.cpp): the co-save NVSE writes    *)
(* beside every save game.  One section per plugin that saves something,   *)
(* found again by the plugin's opcode base, with one chunk per record.     *)
(* The headers are written after what they describe: the file is skipped   *)
(* over and gone back into.  Callbacks of plugins do the writing and the   *)
(* reading; they may read less than there is, and they may throw.          *)
(*                                                                         *)
(* A file is a sequence of cells: each header is one, and so is each       *)
(* portion of data that is written or read together.  Offsets count cells  *)
(* from 0.  An opcode base is the plugin itself.  The process may end      *)
(* anywhere, and the next session has other plugins in another order.      *)
(***************************************************************************)
EXTENDS Integers, SequencesExt, FiniteSets

CONSTANTS Plugins,       \* the plugins a session may load
          NVSE,          \* the owner of section 0, with kNvseOpcodeBase
          NoOwner,       \* of cells nothing was written to
          Based,         \* the plugins that asked for an opcode base
          Registers,     \* <<plugin, callback>>: what plugins may register
          Paths,         \* save games
          NoFile,
          MaxFiles,      \* bound: co-saves there are at a time
          MaxSessions,   \* bound: starts of the process
          MaxRecords,    \* bound, by owner: records of a section
          MaxData        \* bound: portions of data of a record

CallbackNames == {"save", "load", "newGame", "preLoad"}
Owners == {NVSE} \cup Plugins

ASSUME OwnersAssumption ==
    /\ IsFiniteSet(Plugins)
    /\ NVSE \notin Plugins /\ NoOwner \notin Owners
    /\ Based \subseteq Plugins
    /\ Registers \subseteq Plugins \X CallbackNames
ASSUME SizesAssumption ==
    {MaxFiles, MaxSessions, MaxData} \subseteq Nat /\ MaxRecords \in [Owners -> Nat]

VARIABLES
    sessions,    \* how often the process was started
    plugins,     \* m_plugins: position = handle
    callbacks,   \* s_pluginCallbacks: by handle, the callbacks that are set
    mode,        \* where the process stands, see Modes
    files,       \* the co-saves
    path,        \* s_currentFile
    offset,      \* its position
    callback,    \* HandleLoadGame's callback, "load" or "preLoad"
    index,       \* the plugin whose turn it is
    section,     \* s_pluginHeader
    sectionAt,   \* s_pluginHeaderOffset; while loading, pluginChunkStart
    chunkOpen,   \* s_chunkOpen
    chunk,       \* s_chunkHeader.length
    chunkAt,     \* s_chunkHeaderOffset
    hadData,     \* the handles whose hadData is set
    newGame,     \* history: the last load ended in HandleNewGame
    written,     \* history: per owner, the records this save has written
    saved,       \* history: per path, what was written when it was completed
    got,         \* history: per owner, the records this load has given it
    ended,       \* history: the owners this load told there are no more
    called       \* history: how often this load has called each owner

sessionVars == <<sessions, plugins, callbacks>>
sectionVars == <<section, sectionAt>>
chunkVars == <<chunkOpen, chunk, chunkAt>>
streamVars == <<path, offset, sectionVars, chunkVars>>
loopVars == <<callback, index, hadData>>
readVars == <<got, ended, called>>
historyVars == <<newGame, written, saved, readVars>>
keptBySave == <<sessionVars, path, chunk, callback, hadData, newGame, saved, readVars>>
keptByLoad == <<sessionVars, files, path, chunkAt, callback, newGame, written,
                saved>>
vars == <<sessionVars, mode, files, streamVars, loopVars, historyVars>>

Modes == {"off", "starting", "idle",
          "save", "saving",       \* HandleSaveGame's loop; a plugin's save callback
          "load", "loading",      \* the loop over the sections; a callback in it
          "rest", "resting"}      \* the loop over plugins without data; a callback
Cells == [kind : {"header", "section", "chunk", "data", "gap"},
          owner : Owners \cup {NoOwner}, count : Nat, length : Nat]
Records == [length : Nat, data : Seq(Cells)]
Writings == [Owners -> Seq(Seq(Cells))]   \* per owner, what each record holds

ASSUME NoFileAssumption == NoFile \notin Seq(Cells) \cup Writings

TypeOK ==
    /\ sessions \in 0 .. MaxSessions
    /\ plugins \in Seq(Plugins)
    /\ DOMAIN callbacks = 0 .. Cardinality(DOMAIN callbacks) - 1
    /\ \A h \in DOMAIN callbacks : callbacks[h] \subseteq CallbackNames
    /\ mode \in Modes
    /\ \A p \in Paths : files[p] = NoFile \/ files[p] \in Seq(Cells)
    /\ path \in Paths \cup {NoFile}
    /\ {offset, sectionAt, chunk, chunkAt, index} \subseteq Nat
    /\ callback \in {"load", "preLoad"}
    /\ section \in [owner : Owners \cup {NoOwner}, numChunks : Nat, length : Nat]
    /\ chunkOpen \in BOOLEAN
    /\ hadData \subseteq DOMAIN callbacks

\* Between saves and loads nothing looks at what these hold: each starts anew.
NoSection == [owner |-> NoOwner, numChunks |-> 0, length |-> 0]
NothingOfAny == [o \in Owners |-> <<>>]
NeverCalled == [o \in Owners |-> 0]

Init ==
    /\ sessions = 0
    /\ plugins = <<>>
    /\ callbacks = [h \in {} |-> {}]
    /\ mode = "off"
    /\ files = [p \in Paths |-> NoFile]
    /\ newGame = FALSE
    /\ saved = [p \in Paths |-> NoFile]
    /\ path = NoFile /\ offset = 0
    /\ section = NoSection /\ sectionAt = 0
    /\ chunkOpen = FALSE /\ chunk = 0 /\ chunkAt = 0
    /\ callback = "load" /\ index = 0 /\ hadData = {}
    /\ written = NothingOfAny
    /\ got = NothingOfAny /\ ended = {} /\ called = NeverCalled

\* The file is closed: a save or a load is over.
CloseFile ==
    /\ path' = NoFile /\ offset' = 0
    /\ section' = NoSection /\ sectionAt' = 0
    /\ chunkOpen' = FALSE /\ chunk' = 0 /\ chunkAt' = 0
    /\ callback' = "load" /\ index' = 0 /\ hadData' = {}
    /\ written' = NothingOfAny
    /\ got' = NothingOfAny /\ ended' = {} /\ called' = NeverCalled

-----------------------------------------------------------------------------
(* Cells and lookups. *)

Cell(kind, owner, count, length) ==
    [kind |-> kind, owner |-> owner, count |-> count, length |-> length]
Gap == Cell("gap", NoOwner, 0, 0)

\* WriteBuf at an offset; what was skipped over before becomes part of the file.
Put(file, at, cell) ==
    [i \in 1 .. (IF at < Len(file) THEN Len(file) ELSE at + 1) |->
        IF i = at + 1 THEN cell ELSE IF i <= Len(file) THEN file[i] ELSE Gap]

CellAt(at) == IF at < Len(files[path]) THEN files[path][at + 1] ELSE Gap

OwnerOf(handle) == IF handle = 0 THEN NVSE ELSE plugins[handle]
Handles(owner) ==
    IF owner = NVSE THEN {0}
    ELSE {h \in 1 .. Len(plugins) : plugins[h] = owner /\ owner \in Based}
Has(handle, name) == handle \in DOMAIN callbacks /\ name \in callbacks[handle]

-----------------------------------------------------------------------------
(* Sessions. *)

\* Core_Serialization's callbacks are set when the hooks are.
StartSession ==
    /\ mode = "off" /\ sessions < MaxSessions
    /\ sessions' = sessions + 1
    /\ \E n \in 0 .. Cardinality(Plugins) :
          plugins' \in {s \in [1 .. n -> Plugins] :
                           \A i, j \in 1 .. n : s[i] = s[j] => i = j}
    /\ callbacks' = [h \in {0} |-> CallbackNames]
    /\ mode' = "starting"
    /\ UNCHANGED <<files, streamVars, loopVars, historyVars>>

\* Mutant: s_pluginCallbacks is resized by one, whichever the handle.
EntriesAddingOne(handle) == DOMAIN callbacks \cup {handle}

\* A resize gives all lower handles an entry too.
Entries(handle) == DOMAIN callbacks \cup 0 .. handle

\* SetSaveCallback and so on, by plugins while they are loaded.
SetCallback(handle, name) ==
    /\ mode = "starting"
    /\ callbacks' = [h \in Entries(handle) |->
                        {n \in CallbackNames : Has(h, n) \/ <<h, n>> = <<handle, name>>}]
    /\ UNCHANGED <<sessions, plugins, mode, files, streamVars, loopVars, historyVars>>

StartGame ==
    /\ mode = "starting"
    /\ mode' = "idle"
    /\ UNCHANGED <<sessionVars, files, streamVars, loopVars, historyVars>>

\* The process ends or dies; what was written is in the file.
EndSession ==
    /\ mode # "off"
    /\ mode' = "off"
    /\ plugins' = <<>> /\ callbacks' = [h \in {} |-> {}]
    /\ newGame' = FALSE
    /\ CloseFile
    /\ UNCHANGED <<sessions, files, saved>>

-----------------------------------------------------------------------------
(* HandleSaveGame. *)

MaySave(p) ==
    mode = "idle" /\ Cardinality({q \in Paths : files[q] # NoFile} \cup {p}) <= MaxFiles

\* Mutant: the header is written at the start, before anything is saved.
NewFileWithHeader == <<Cell("header", NVSE, 0, 0)>>

\* The file is emptied and room left for its header.
NewFile == <<>>

HandleSaveGame(p) ==
    /\ MaySave(p)
    /\ mode' = "save"
    /\ files' = [files EXCEPT ![p] = NewFile]
    /\ saved' = [saved EXCEPT ![p] = NoFile]
    /\ path' = p /\ offset' = 1
    /\ UNCHANGED <<sessionVars, sectionVars, chunkVars, loopVars, newGame, written, readVars>>

\* A plugin without opcode base is skipped.
Saves(handle) ==
    /\ Has(handle, "save")
    /\ handle # 0 => plugins[handle] \in Based

\* The loop reaches the next plugin that saves.
CallSave ==
    /\ mode = "save"
    /\ \E h \in {i \in DOMAIN callbacks : i >= index /\ Saves(i)} :
          /\ \A i \in index .. h - 1 : ~Saves(i)
          /\ index' = h
          /\ section' = [owner |-> OwnerOf(h), numChunks |-> 0, length |-> 0]
    /\ chunkOpen' = FALSE
    /\ mode' = "saving"
    /\ UNCHANGED <<keptBySave, files, offset, sectionAt, chunkAt, written>>

\* FlushWriteChunk: the open chunk's header goes where room was left for it.
ChunkSize == offset - chunkAt - 1
FlushedFile ==
    IF chunkOpen THEN Put(files[path], chunkAt, Cell("chunk", NoOwner, 0, ChunkSize))
                 ELSE files[path]
FlushedLength == section.length + (IF chunkOpen THEN ChunkSize + 1 ELSE 0)

OpenRecord ==
    LET first == section.numChunks = 0
        at == IF first THEN offset + 1 ELSE offset
        owner == section.owner
    IN  /\ mode = "saving"
        /\ Len(written[owner]) < MaxRecords[owner]
        /\ files' = [files EXCEPT ![path] = FlushedFile]
        /\ section' = [section EXCEPT !.numChunks = @ + 1, !.length = FlushedLength]
        /\ sectionAt' = IF first THEN offset ELSE sectionAt
        /\ chunkAt' = at /\ offset' = at + 1
        /\ chunkOpen' = TRUE
        /\ written' = [written EXCEPT ![owner] = Append(@, <<>>)]
        /\ UNCHANGED <<keptBySave, mode, index>>

\* Data is marked with its owner and its place in what the owner wrote.
WriteRecordData ==
    LET owner == section.owner
        last == Len(written[owner])
        data == Cell("data", owner, offset, 0)
    IN  /\ mode = "saving" /\ chunkOpen
        /\ Len(written[owner][last]) < MaxData
        /\ files' = [files EXCEPT ![path] = Put(@, offset, data)]
        /\ offset' = offset + 1
        /\ written' = [written EXCEPT ![owner][last] = Append(@, data)]
        /\ UNCHANGED <<keptBySave, mode, sectionVars, chunkOpen, chunkAt, index>>

\* The callback is done: the section's header is written, if there is a section.
SaveReturns ==
    LET header == Cell("section", section.owner, section.numChunks, FlushedLength)
    IN  /\ mode = "saving"
        /\ mode' = "save"
        /\ index' = index + 1
        /\ files' = IF section.numChunks = 0 THEN files
                    ELSE [files EXCEPT ![path] = Put(FlushedFile, sectionAt, header)]
        /\ section' = [section EXCEPT !.length = FlushedLength]
        /\ chunkOpen' = FALSE
        /\ UNCHANGED <<keptBySave, offset, sectionAt, chunkAt, written>>

\* All plugins have saved: the file gets its header.
EndSave ==
    /\ mode = "save"
    /\ \A h \in DOMAIN callbacks : h >= index => ~Saves(h)
    /\ files' = [files EXCEPT ![path] = Put(@, 0, Cell("header", NVSE, 0, 0))]
    /\ saved' = [saved EXCEPT ![path] = written]
    /\ mode' = "idle"
    /\ CloseFile
    /\ UNCHANGED <<sessionVars, newGame>>

\* An exception ends the save; the file stays without header.
SaveThrows ==
    /\ mode = "saving"
    /\ mode' = "idle"
    /\ CloseFile
    /\ UNCHANGED <<sessionVars, files, newGame, saved>>

Save ==
    \/ \E p \in Paths : HandleSaveGame(p)
    \/ CallSave
    \/ OpenRecord
    \/ WriteRecordData
    \/ SaveReturns
    \/ EndSave
    \/ SaveThrows

-----------------------------------------------------------------------------
(* HandleLoadGame, for the load callbacks and, before the game loads, for the *)
(* preLoad callbacks.                                                         *)

\* An empty file leaves the header on the stack as it was.
HeaderIsValid(p) ==
    IF files[p] = <<>> THEN BOOLEAN ELSE {files[p][1].kind = "header"}

\* No file: a new game.  A header that is not one: nothing.
HandleLoadGame(p, name) ==
    /\ mode = "idle"
    /\ IF files[p] = NoFile
       THEN /\ newGame' = (name = "load")
            /\ UNCHANGED <<mode, path, offset, callback>>
       ELSE /\ newGame' = FALSE
            /\ \E valid \in HeaderIsValid(p) :
                  IF valid
                  THEN mode' = "load" /\ path' = p /\ callback' = name
                           /\ offset' = IF files[p] = <<>> THEN 0 ELSE 1
                  ELSE UNCHANGED <<mode, path, offset, callback>>
    /\ UNCHANGED <<sessionVars, files, sectionVars, chunkVars, index, hadData,
                   written, saved, readVars>>

SectionAhead == mode = "load" /\ offset < Len(files[path])
SectionHeader == CellAt(offset)

\* s_pluginCallbacks is indexed without a look at its size.
InRange(owner) == Handles(owner) \subseteq DOMAIN callbacks

\* A section of a plugin that can read it.
CallLoad ==
    /\ SectionAhead
    /\ \E h \in Handles(SectionHeader.owner) :
          /\ Has(h, callback)
          /\ index' = h
          /\ hadData' = hadData \cup {h}
    /\ section' = [owner |-> SectionHeader.owner, numChunks |-> SectionHeader.count,
                   length |-> SectionHeader.length]
    /\ offset' = offset + 1
    /\ sectionAt' = offset + 1
    /\ chunkOpen' = FALSE
    /\ mode' = "loading"
    /\ called' = [called EXCEPT ![SectionHeader.owner] = @ + 1]
    /\ UNCHANGED <<keptByLoad, chunk, got, ended>>

\* Of a plugin that is not loaded, or has no such callback.  Past the end of
\* s_pluginCallbacks there may seem to be none.
SkipSection ==
    /\ SectionAhead
    /\ \A h \in Handles(SectionHeader.owner) : ~Has(h, callback)
    /\ hadData' = hadData \cup (Handles(SectionHeader.owner) \cap DOMAIN callbacks)
    /\ offset' = offset + 1 + SectionHeader.length
    /\ UNCHANGED <<keptByLoad, mode, sectionVars, chunkOpen, chunk, index, readVars>>

\* Past the end there may be anything else: the process is lost.
MissCallbacks ==
    /\ SectionAhead
    /\ ~InRange(SectionHeader.owner)
    /\ mode' = "off"
    /\ plugins' = <<>> /\ callbacks' = [h \in {} |-> {}]
    /\ newGame' = FALSE
    /\ CloseFile
    /\ UNCHANGED <<sessions, files, saved>>

InLoadCallback == mode \in {"loading", "resting"}
Reader == OwnerOf(index)

\* Mutant: what was left of the last record is not skipped.
UnreadRestKept == 0

\* FlushReadRecord: what the callback has not read of the last record.
UnreadRest == IF chunkOpen THEN chunk ELSE 0

\* GetNextRecordInfo, when there is another record.
GetNextRecordInfo ==
    LET at == offset + UnreadRest
        length == CellAt(at).length
    IN  /\ InLoadCallback /\ section.numChunks > 0
        /\ section' = [section EXCEPT !.numChunks = @ - 1]
        /\ chunk' = length /\ chunkOpen' = TRUE
        /\ offset' = at + 1
        /\ got' = [got EXCEPT ![Reader] = Append(@, [length |-> length, data |-> <<>>])]
        /\ UNCHANGED <<keptByLoad, mode, sectionAt, index, hadData, ended, called>>

\* GetNextRecordInfo, when it returns false.
NoNextRecord ==
    /\ InLoadCallback /\ section.numChunks = 0
    /\ offset' = offset + UnreadRest
    /\ chunkOpen' = FALSE
    /\ ended' = ended \cup {Reader}
    /\ UNCHANGED <<keptByLoad, mode, sectionVars, chunk, index, hadData, got, called>>

\* ReadRecordData gives no more than the record has; PeekRecordData gives the
\* same and moves nothing.
ReadRecordData ==
    LET last == Len(got[Reader])
    IN  /\ InLoadCallback /\ chunkOpen /\ chunk > 0
        /\ got' = [got EXCEPT ![Reader][last].data = Append(@, CellAt(offset))]
        /\ offset' = offset + 1
        /\ chunk' = chunk - 1
        /\ UNCHANGED <<keptByLoad, mode, sectionVars, chunkOpen, index, hadData, ended, called>>

\* Mutant: where the callback stopped reading is where the next section is
\* looked for.
LoadReturnsWhereItIs ==
    /\ mode = "loading"
    /\ mode' = "load"
    /\ UNCHANGED <<keptByLoad, offset, sectionVars, chunkOpen, chunk, index, hadData, readVars>>

\* However much the callback has read, the next section is looked for where
\* this one's header says.
LoadReturns ==
    /\ mode = "loading"
    /\ mode' = "load"
    /\ offset' = sectionAt + section.length
    /\ UNCHANGED <<keptByLoad, sectionVars, chunkOpen, chunk, index, hadData, readVars>>

\* The sections are done; now the plugins that had none.
EndSections ==
    /\ mode = "load" /\ ~SectionAhead
    /\ mode' = "rest" /\ index' = 0
    /\ UNCHANGED <<keptByLoad, offset, sectionVars, chunkOpen, chunk, hadData, readVars>>

\* Mutant: plugins that had data are called again.
LeftOutAll(handle) == Has(handle, callback)

LeftOut(handle) == handle \notin hadData /\ Has(handle, callback)

CallRest ==
    /\ mode = "rest"
    /\ \E h \in {i \in DOMAIN callbacks : i >= index /\ LeftOut(i)} :
          /\ \A i \in index .. h - 1 : ~LeftOut(i)
          /\ index' = h
          /\ called' = [called EXCEPT ![OwnerOf(h)] = @ + 1]
    /\ section' = [section EXCEPT !.numChunks = 0]
    /\ chunkOpen' = FALSE
    /\ mode' = "resting"
    /\ UNCHANGED <<keptByLoad, offset, sectionAt, chunk, hadData, got, ended>>

RestReturns ==
    /\ mode = "resting"
    /\ mode' = "rest"
    /\ index' = index + 1
    /\ UNCHANGED <<keptByLoad, offset, sectionVars, chunkOpen, chunk, hadData, readVars>>

EndLoad ==
    /\ mode = "rest"
    /\ \A h \in DOMAIN callbacks : h >= index => ~LeftOut(h)
    /\ mode' = "idle"
    /\ CloseFile
    /\ UNCHANGED <<sessionVars, files, newGame, saved>>

\* An exception of one plugin is a new game for all.
LoadThrows ==
    /\ InLoadCallback
    /\ mode' = "idle"
    /\ newGame' = (callback = "load")
    /\ CloseFile
    /\ UNCHANGED <<sessionVars, files, saved>>

Load ==
    \/ \E p \in Paths, name \in {"load", "preLoad"} : HandleLoadGame(p, name)
    \/ CallLoad
    \/ SkipSection
    \/ MissCallbacks
    \/ GetNextRecordInfo
    \/ NoNextRecord
    \/ ReadRecordData
    \/ LoadReturns
    \/ EndSections
    \/ CallRest
    \/ RestReturns
    \/ EndLoad
    \/ LoadThrows

-----------------------------------------------------------------------------
(* The game deletes and renames its save games. *)

HandleDeleteGame(p) ==
    /\ mode = "idle"
    /\ files' = [files EXCEPT ![p] = NoFile]
    /\ saved' = [saved EXCEPT ![p] = NoFile]
    /\ UNCHANGED <<sessionVars, mode, streamVars, loopVars, newGame, written, readVars>>

HandleRenameGame(old, new) ==
    /\ mode = "idle"
    /\ files' = [files EXCEPT ![old] = NoFile, ![new] = files[old]]
    /\ saved' = [saved EXCEPT ![old] = NoFile, ![new] = saved[old]]
    /\ UNCHANGED <<sessionVars, mode, streamVars, loopVars, newGame, written, readVars>>

Session ==
    \/ StartSession
    \/ \E h \in 1 .. Len(plugins) : \E name \in CallbackNames :
           <<plugins[h], name>> \in Registers /\ SetCallback(h, name)
    \/ StartGame
    \/ EndSession

Files ==
    \/ \E p \in Paths : HandleDeleteGame(p)
    \/ \E old \in Paths : \E new \in Paths \ {old} : HandleRenameGame(old, new)

Next == Session \/ Save \/ Load \/ Files

Spec == Init /\ [][Next]_vars

-----------------------------------------------------------------------------
(* Properties. *)

\* What a plugin reads is what it wrote in the save that was completed: its own
\* records, in order, with their lengths, whatever the others left unread,
\* whether they are loaded and in whichever order.  Nothing is read from a save
\* that a crash or an exception cut short.
RecordsAreTheSaved ==
    \A o \in Owners : got[o] # <<>> =>
        /\ saved[path] # NoFile
        /\ Len(got[o]) <= Len(saved[path][o])
        /\ \A k \in 1 .. Len(got[o]) :
              /\ got[o][k].length = Len(saved[path][o][k])
              /\ IsPrefix(got[o][k].data, saved[path][o][k])

\* A plugin that is told there are no more records has been offered all it saved.
AllRecordsOffered ==
    \A o \in ended :
        path # NoFile /\ saved[path] # NoFile => Len(got[o]) = Len(saved[path][o])

\* A co-save that has its header is whole.
HeaderMeansWhole ==
    \A p \in Paths :
        files[p] # NoFile /\ files[p] # <<>> /\ files[p][1].kind = "header"
            => saved[p] # NoFile

AllCalledOnce ==
    \A h \in DOMAIN callbacks : Has(h, callback) => called[OwnerOf(h)] = 1
Loading == mode \in {"load", "rest"} \/ InLoadCallback

\* A load that ends has called every plugin with such a callback once, with data
\* or without, unless it ended in a new game for all.  Only an exception while
\* preloading leaves the rest uncalled.
EachIsCalledOnce ==
    [][Loading /\ mode' = "idle" =>
          \/ AllCalledOnce
          \/ callback = "load" /\ newGame'
          \/ callback = "preLoad" /\ InLoadCallback]_vars

\* "plugin has data in save file but no handler" (Serialization.cpp:533) is a
\* case the loop means to pass over, for every plugin that is loaded.
HandlersAreInRange == SectionAhead => InRange(SectionHeader.owner)

=============================================================================

--------------------------- MODULE ScriptProfiler ---------------------------
(***************************************************************************)
(* The plugin itself (code/main.cpp, internals.cpp, Configuration.h): it   *)
(* hooks the end of every script run and the game's per-frame script loop, *)
(* logs one line per run that passes the filters, and closes every frame   *)
(* that logged something with a separator line that is flushed to disk.    *)
(*                                                                         *)
(* The hook runs on whatever thread ran the script, so one call of         *)
(* DoScriptRunnerExecuteTimeElapsed is several steps of its thread: the    *)
(* test of isModEnabled, the other tests, formatting into the log's shared *)
(* buffer, writing the buffer out, and setting the frame flag.             *)
(***************************************************************************)
EXTENDS Integers, Selections

CONSTANTS Scripts,      \* the scripts of the loaded plugins, named by refID
          ModOf,        \* modIndex of each script, 0 for the base game
          NoForm,       \* g_FilterFormID = 0
          MaxMod,       \* g_FilterModID ranges over 0 .. MaxMod
          Main,         \* the thread (*g_osGlobals)->mainThreadID
          Workers,      \* the other threads that run scripts
          EndOfFrame,   \* the separator line's text
          Banner, Initialized, Header,   \* the lines of NVSEPlugin_Load
          MaxLines      \* bound: lines in the log

ASSUME ScriptsAssumption ==
    /\ ModOf \in [Scripts -> Nat]
    /\ MaxMod \in Nat
    /\ NoForm \notin Scripts
ASSUME ThreadsAssumption == Main \notin Workers
ASSUME TextsAssumption ==
    /\ Scripts \cap {EndOfFrame, Banner, Initialized, Header} = {}
    /\ EndOfFrame \notin {Banner, Initialized, Header}
ASSUME MaxLinesAssumption == MaxLines \in Nat

Threads == {Main} \cup Workers
LogTexts == Scripts \cup {EndOfFrame, Banner, Initialized, Header}

VARIABLES process, logFile, file, durable, pen, autoFlush, indentLevel, inBlock,
          headerText, sourceBuf, logLevel    \* gLog
VARIABLES frame,       \* where the main thread stands in the plugin's own code
          pc,          \* per thread: where it stands in the script hook
          run,         \* per thread: the script run being reported
          formatBuf,   \* IDebugLog::formatBuf, shared by every caller of the log
          settings,    \* the ini file's values
          isModEnabled, scriptWasExecutedThisFrame, mainLoopExecuting

gLog == INSTANCE DebugLog
           WITH Texts <- LogTexts, Sources <- {}, NoSource <- "none",
                MaxIndent <- 1, MaxCursor <- 0

logVars == <<process, logFile, file, durable, pen, autoFlush, indentLevel, inBlock,
             headerText, sourceBuf, logLevel>>
hookVars == <<pc, run>>
flagVars == <<isModEnabled, scriptWasExecutedThisFrame, mainLoopExecuting>>
vars == <<logVars, frame, hookVars, formatBuf, settings, flagVars>>

LoadFrames == {"banner", "indent", "flushOff", "outdent", "initialized",
               "header", "ini", "patch"}
EndFrames == {"endFlushOn", "endFormat", "endWrite", "endFlushOff", "endReset"}
Frames == LoadFrames \cup {"between", "scripts"} \cup EndFrames

HookPoints == {"idle", "enabled", "passed", "formatted", "written"}
Runs == [script : Scripts, measurable : BOOLEAN]

Settings == [filterFormID : Scripts \cup {NoForm}, filterModID : 0 .. MaxMod,
             skipVanilla : BOOLEAN]
ZeroSettings == [filterFormID |-> NoForm, filterModID |-> 0, skipVanilla |-> FALSE]

TypeOK ==
    /\ gLog!LogTypeOK
    /\ frame \in Frames
    /\ pc \in [Threads -> HookPoints]
    /\ run \in [Threads -> Runs]
    /\ formatBuf \in LogTexts
    /\ settings \in Settings
    /\ isModEnabled \in BOOLEAN
    /\ scriptWasExecutedThisFrame \in BOOLEAN
    /\ mainLoopExecuting \in BOOLEAN

Init ==
    /\ gLog!LogInit
    /\ frame = "banner"
    /\ pc = [t \in Threads |-> "idle"]
    /\ \E script \in Scripts :
          run = [t \in Threads |-> [script |-> script, measurable |-> FALSE]]
    /\ formatBuf = Banner
    /\ settings = ZeroSettings
    /\ isModEnabled = FALSE
    /\ scriptWasExecutedThisFrame = FALSE
    /\ mainLoopExecuting = FALSE

-----------------------------------------------------------------------------
(* NVSEPlugin_Load, call by call. *)

LoadStep(from, to, Call) ==
    /\ frame = from
    /\ frame' = to
    /\ Call
    /\ UNCHANGED <<hookVars, settings, flagVars>>

LoadMessage(text) ==
    /\ formatBuf' = text
    /\ gLog!Log(gLog!kLevel_Message, text)

\* Mutant: a missing filter reads as -1.
HandleIniOptionsWithoutDefault ==
    /\ frame = "ini"
    /\ process = "running"
    /\ frame' = "patch"
    /\ \E ini \in Settings : settings' \in {ini, [ini EXCEPT !.filterModID = -1]}
    /\ isModEnabled' \in BOOLEAN
    /\ UNCHANGED <<logVars, hookVars, formatBuf, scriptWasExecutedThisFrame,
                   mainLoopExecuting>>

HandleIniOptions ==
    /\ frame = "ini"
    /\ process = "running"
    /\ frame' = "patch"
    /\ settings' \in Settings
    /\ isModEnabled' \in BOOLEAN
    /\ UNCHANGED <<logVars, hookVars, formatBuf, scriptWasExecutedThisFrame,
                   mainLoopExecuting>>

\* PatchScriptRunnerPerformanceCounter and PatchExecuteScriptsMainLoop: from
\* here on the game calls the hooks.
InstallHooks ==
    /\ frame = "patch"
    /\ process = "running"
    /\ frame' = "between"
    /\ UNCHANGED <<logVars, hookVars, formatBuf, settings, flagVars>>

Load ==
    \/ LoadStep("banner", "indent", LoadMessage(Banner))
    \/ LoadStep("indent", "flushOff", gLog!Indent /\ UNCHANGED formatBuf)
    \/ LoadStep("flushOff", "outdent", gLog!SetAutoFlush(FALSE) /\ UNCHANGED formatBuf)
    \/ LoadStep("outdent", "initialized", gLog!Outdent /\ UNCHANGED formatBuf)
    \/ LoadStep("initialized", "header", LoadMessage(Initialized))
    \/ LoadStep("header", "ini", LoadMessage(Header))
    \/ HandleIniOptions
    \/ InstallHooks

-----------------------------------------------------------------------------
(* DoScriptRunnerExecuteTimeElapsed. *)

\* The main thread runs scripts inside the frame's script loop and outside it;
\* the other threads whenever they like.
MayRunScript(t) ==
    /\ process = "running"
    /\ frame \notin LoadFrames
    /\ pc[t] = "idle"
    /\ t = Main => frame \in {"between", "scripts"}
    /\ Len(file) + 2 <= MaxLines     \* bound: room for the line and its separator

\* A script run ends; only the test of isModEnabled has been made when the hook
\* goes on.  A disabled profiler returns at once, which changes nothing.
ScriptReturns(t, r) ==
    /\ MayRunScript(t)
    /\ isModEnabled
    /\ run' = [run EXCEPT ![t] = r]
    /\ pc' = [pc EXCEPT ![t] = "enabled"]
    /\ UNCHANGED <<logVars, frame, formatBuf, settings, flagVars>>

\* Mutant: the base game's scripts are skipped only if no mod is asked for.
PassesFiltersOfMod(script) ==
    /\ settings.filterModID # 0 => ModOf[script] = settings.filterModID
    /\ settings.filterFormID # NoForm => script = settings.filterFormID

\* The three filters of the ini file.
PassesFilters(script) ==
    /\ ~(settings.skipVanilla /\ ModOf[script] = 0)
    /\ settings.filterModID # 0 => ModOf[script] = settings.filterModID
    /\ settings.filterFormID # NoForm => script = settings.filterFormID

\* Mutant: the test of the thread is missing.
PassesTestsOnAnyThread(t) ==
    /\ run[t].measurable
    /\ PassesFilters(run[t].script)

\* Elapsed time, thread, filters.
PassesTests(t) ==
    /\ run[t].measurable
    /\ t = Main
    /\ PassesFilters(run[t].script)

TestRun(t) ==
    /\ process = "running"
    /\ pc[t] = "enabled"
    /\ pc' = [pc EXCEPT ![t] = IF PassesTests(t) THEN "passed" ELSE "idle"]
    /\ UNCHANGED <<logVars, frame, run, formatBuf, settings, flagVars>>

\* _MESSAGE: vsprintf_s into the shared buffer, then Message(formatBuf).
FormatRun(t) ==
    /\ process = "running"
    /\ pc[t] = "passed"
    /\ formatBuf' = run[t].script
    /\ pc' = [pc EXCEPT ![t] = "formatted"]
    /\ UNCHANGED <<logVars, frame, run, settings, flagVars>>

WriteRun(t) ==
    /\ pc[t] = "formatted"
    /\ gLog!Log(gLog!kLevel_Message, formatBuf)
    /\ pc' = [pc EXCEPT ![t] = "written"]
    /\ UNCHANGED <<frame, run, formatBuf, settings, flagVars>>

\* Mutant: a run outside the script loop does not mark the frame.
MarkFrameInLoopOnly(t) ==
    /\ process = "running"
    /\ pc[t] = "written"
    /\ scriptWasExecutedThisFrame' = (scriptWasExecutedThisFrame \/ mainLoopExecuting)
    /\ pc' = [pc EXCEPT ![t] = "idle"]
    /\ UNCHANGED <<logVars, frame, run, formatBuf, settings, isModEnabled,
                   mainLoopExecuting>>

MarkFrame(t) ==
    /\ process = "running"
    /\ pc[t] = "written"
    /\ scriptWasExecutedThisFrame' = TRUE
    /\ pc' = [pc EXCEPT ![t] = "idle"]
    /\ UNCHANGED <<logVars, frame, run, formatBuf, settings, isModEnabled,
                   mainLoopExecuting>>

HookStep(t) == TestRun(t) \/ FormatRun(t) \/ WriteRun(t) \/ MarkFrame(t)

-----------------------------------------------------------------------------
(* MainLoopExecuteScriptsHook. *)

FrameStep(from, to) ==
    /\ process = "running"
    /\ pc[Main] = "idle"
    /\ frame = from
    /\ frame' = to
    /\ UNCHANGED <<hookVars, settings>>

\* StartFrameExecutionTimer; the hotkey may have been tapped.
StartFrame ==
    /\ FrameStep("between", "scripts")
    /\ isModEnabled' \in BOOLEAN
    /\ mainLoopExecuting' = TRUE
    /\ UNCHANGED <<logVars, formatBuf, scriptWasExecutedThisFrame>>

\* Mutant: frames are closed only while profiling is enabled.
ScriptsDoneIfEnabled ==
    /\ FrameStep("scripts", IF scriptWasExecutedThisFrame /\ isModEnabled
                            THEN "endFlushOn" ELSE "endReset")
    /\ UNCHANGED <<logVars, formatBuf, flagVars>>

\* The game's own script loop returns, and EndFrameExecutionTimerAndLog looks
\* whether the frame logged anything.
ScriptsDone ==
    /\ FrameStep("scripts", IF scriptWasExecutedThisFrame THEN "endFlushOn"
                                                          ELSE "endReset")
    /\ UNCHANGED <<logVars, formatBuf, flagVars>>

EndFlushOn ==
    /\ FrameStep("endFlushOn", "endFormat")
    /\ gLog!SetAutoFlush(TRUE)
    /\ UNCHANGED <<formatBuf, flagVars>>

EndFormat ==
    /\ FrameStep("endFormat", "endWrite")
    /\ formatBuf' = EndOfFrame
    /\ UNCHANGED <<logVars, flagVars>>

EndWrite ==
    /\ FrameStep("endWrite", "endFlushOff")
    /\ gLog!Log(gLog!kLevel_Message, formatBuf)
    /\ UNCHANGED <<formatBuf, flagVars>>

EndFlushOff ==
    /\ FrameStep("endFlushOff", "endReset")
    /\ gLog!SetAutoFlush(FALSE)
    /\ UNCHANGED <<formatBuf, flagVars>>

\* Mutant: the flag is not reset.
EndResetKeepingFlag ==
    /\ FrameStep("endReset", "between")
    /\ mainLoopExecuting' = FALSE
    /\ UNCHANGED <<logVars, formatBuf, isModEnabled, scriptWasExecutedThisFrame>>

EndReset ==
    /\ FrameStep("endReset", "between")
    /\ mainLoopExecuting' = FALSE
    /\ scriptWasExecutedThisFrame' = FALSE
    /\ UNCHANGED <<logVars, formatBuf, isModEnabled>>

EndFrame == EndFlushOn \/ EndFormat \/ EndWrite \/ EndFlushOff \/ EndReset

-----------------------------------------------------------------------------

LogRuntime ==
    /\ gLog!Spill \/ gLog!Close \/ gLog!Crash
    /\ UNCHANGED <<frame, hookVars, formatBuf, settings, flagVars>>

Next ==
    \/ Load
    \/ \E t \in Threads : \/ \E r \in Runs : ScriptReturns(t, r)
                          \/ HookStep(t)
    \/ StartFrame
    \/ ScriptsDone
    \/ EndFrame
    \/ LogRuntime

\* The game loop comes round as long as the process lives: calls into the log
\* and out of the hook return, the script loop of a frame ends, and the next
\* frame starts however many scripts run before it.
Fairness ==
    /\ WF_vars(Load)
    /\ WF_vars(HookStep(Main))
    /\ WF_vars(EndFrame)
    /\ SF_vars(ScriptsDone)
    /\ SF_vars(StartFrame)

Spec == Init /\ [][Next]_vars
FairSpec == Spec /\ Fairness

-----------------------------------------------------------------------------
(* Properties. *)

IsMeasurement(i) == file[i].text \in Scripts
IsSeparator(i) == file[i].text = EndOfFrame
LastIsMeasurement == Len(file) > 0 /\ IsMeasurement(Len(file))

\* The log's format buffer is shared by all threads and unlocked; still, what
\* a thread writes is what it formatted, because only the main thread gets past
\* the thread test of the hook.
NoTornLines ==
    /\ \A t \in Threads : pc[t] = "formatted" => formatBuf = run[t].script
    /\ frame = "endWrite" => formatBuf = EndOfFrame

\* scriptWasExecutedThisFrame says whether the log has a line no separator
\* closes yet, whether the line was logged inside the script loop or between
\* frames.  (In the middle of logging a line or of ending a frame it need not.)
AtRest == pc[Main] = "idle" /\ frame \in {"between", "scripts"}
FlagTracksLog ==
    (process = "running" /\ logFile /\ AtRest)
        => (scriptWasExecutedThisFrame <=> LastIsMeasurement)

\* A separator closes a frame that logged something: the line before it is a
\* measurement.
NoEmptyFrames ==
    \A i \in 1 .. Len(file) : IsSeparator(i) => i > 1 /\ IsMeasurement(i - 1)

\* Once a frame's separator is written, the frame is on disk, although all its
\* measurements went through a log whose autoflush was off.
FramesDurable == \A i \in 1 .. Len(file) : IsSeparator(i) => i <= durable

\* A run is logged only while profiling is enabled and only if the ini file
\* lets it through, at the moment the line is written, although enabledness was
\* tested several steps earlier and the hotkey may change it.
WantedScripts ==
    LET outsideBaseGame == {s \in Scripts : ModOf[s] # 0}
        ofTheMod == {s \in Scripts : ModOf[s] = settings.filterModID}
    IN  (IF settings.skipVanilla THEN outsideBaseGame ELSE Scripts)
        \cap (IF settings.filterModID = 0 THEN Scripts ELSE ofTheMod)
        \cap (IF settings.filterFormID = NoForm THEN Scripts ELSE {settings.filterFormID})

OnlyWantedRuns ==
    [][Len(file') > Len(file) /\ file'[Len(file')].text \in Scripts
          => isModEnabled /\ file'[Len(file')].text \in WantedScripts]_vars

\* Measurements reach the disk, also if profiling is switched off in the
\* meantime: while one is missing there, the log is going to be flushed whole,
\* unless the process ends first.
MeasurementsReachDisk ==
    (\E i \in 1 .. Len(file) : IsMeasurement(i) /\ i > durable)
        ~> (durable = Len(file) \/ process # "running")

\* The log is a frame journal: its measurements and separators, split at the
\* last separator.
JournalLines == {line \in gLog!Lines : line.text \in Scripts \cup {EndOfFrame}}
ProfileLines == Kept(file, JournalLines)
LastSeparator(lines) ==
    CHOOSE n \in 0 .. Len(lines) :
        /\ n > 0 => lines[n].text = EndOfFrame
        /\ \A m \in n + 1 .. Len(lines) : lines[m].text # EndOfFrame
TextsOf(lines) == [i \in 1 .. Len(lines) |-> lines[i].text]

Journal == INSTANCE FrameJournal WITH
    committed <- TextsOf(SubSeq(ProfileLines, 1, LastSeparator(ProfileLines))),
    gathering <- TextsOf(SubSeq(ProfileLines, LastSeparator(ProfileLines) + 1,
                                Len(ProfileLines))),
    recording <- process = "running"

ImplementsJournal == Journal!JournalSpec

=============================================================================

------------------------ MODULE ScriptProfilerProofs ------------------------
(***************************************************************************)
(* Proofs about ScriptProfiler, for any scripts, threads, settings and log *)
(* length.  The inductive invariant adds to the properties where each of   *)
(* them is true in the middle of a call: only the main thread gets past    *)
(* the thread test; it is outside the frame's own code while it reports a  *)
(* script run; autoflush is on from EndFlushOn to EndFlushOff; and the     *)
(* frame flag agrees with the log's last line but for two known gaps.      *)
(* On it rests that the profiler implements FrameJournal, step by step.    *)
(***************************************************************************)
EXTENDS ScriptProfiler, SelectionsProofs

\* The log is used without sources and blocks, and indented only during load.
PlainLog ==
    /\ pen = gLog!LineStart
    /\ inBlock = FALSE
    /\ headerText = "none"
    /\ logLevel = 5
    /\ indentLevel = IF frame \in {"flushOff", "outdent"} THEN 1 ELSE 0

OnlyMainPasses ==
    /\ \A t \in Workers : pc[t] \in {"idle", "enabled"}
    /\ pc[Main] # "idle" => frame \in {"between", "scripts"}

BufferHeld ==
    /\ pc[Main] = "formatted" => formatBuf = run[Main].script
    /\ frame = "endWrite" => formatBuf = EndOfFrame

FlushHeld == frame \in {"endFormat", "endWrite", "endFlushOff"} => autoFlush = TRUE

FlagInv ==
    /\ frame \in LoadFrames => scriptWasExecutedThisFrame = FALSE
    /\ frame \in {"endFlushOn", "endFormat", "endWrite"}
          => scriptWasExecutedThisFrame = TRUE
    /\ process = "running" /\ logFile =>
          /\ pc[Main] = "written" => LastIsMeasurement
          /\ pc[Main] # "written" /\ frame \notin {"endFlushOff", "endReset"}
                => (scriptWasExecutedThisFrame = TRUE <=> LastIsMeasurement)
          /\ frame \in {"endFlushOff", "endReset"} => ~LastIsMeasurement

FrameInv == FlagInv /\ NoEmptyFrames /\ FramesDurable

IInv == TypeOK /\ PlainLog /\ OnlyMainPasses /\ BufferHeld /\ FlushHeld /\ FrameInv

-----------------------------------------------------------------------------

\* What a log message does, in the only way the profiler uses the log.
LEMMA LogAppends ==
    ASSUME TypeOK, PlainLog, indentLevel = 0, NEW text \in LogTexts,
           gLog!Log(gLog!kLevel_Message, text)
    PROVE  /\ UNCHANGED <<process, logFile, pen, autoFlush, indentLevel, inBlock,
                          headerText, sourceBuf, logLevel>>
           /\ process = "running"
           /\ logFile => file' = Append(file, [source |-> "none", column |-> 0, text |-> text])
           /\ logFile => durable' = IF autoFlush THEN Len(file') ELSE durable
           /\ ~logFile => UNCHANGED <<file, durable>>
<1> DEFINE p == gLog!MessagePen("none")
           line == [source |-> p.source, column |-> p.column, text |-> text]
<1>0. pen.cursor = 0 /\ pen.column = 0 /\ pen.source = "none"
  BY DEF PlainLog, gLog!LineStart
<1>1. p = pen
  <2>0. ~(indentLevel * 4 > pen.cursor)
    BY <1>0
  <2>1. gLog!SeekCursor(pen, indentLevel * 4) = pen
    BY <2>0 DEF gLog!SeekCursor
  <2> QED
    BY <2>1 DEF gLog!MessagePen, gLog!PrintHeader, PlainLog
<1>2. line = [source |-> "none", column |-> 0, text |-> text]
  BY <1>0, <1>1
<1>3. /\ process = "running" /\ gLog!WriteLine(line) /\ pen' = gLog!LineStart
      /\ UNCHANGED <<process, logFile, autoFlush, gLog!layoutVars, logLevel>>
  BY DEF gLog!Log, gLog!Message, gLog!MessageAs, PlainLog
<1> HIDE DEF line, p
<1>4. UNCHANGED <<indentLevel, inBlock, headerText, sourceBuf, pen>>
  BY <1>3 DEF gLog!layoutVars, PlainLog
<1> QED
  BY <1>2, <1>3, <1>4 DEF gLog!WriteLine, gLog!Flushed

\* A message keeps the log's types.
LEMMA LogAppendsType ==
    ASSUME TypeOK, PlainLog, indentLevel = 0, NEW text \in LogTexts,
           gLog!Log(gLog!kLevel_Message, text)
    PROVE  gLog!LogTypeOK'
<1> DEFINE line == [source |-> "none", column |-> 0, text |-> text]
<1>1. gLog!LogTypeOK
  BY DEF TypeOK
<1>2. line \in gLog!Lines
  BY DEF gLog!Lines
<1> HIDE DEF line
<1>3. /\ UNCHANGED <<process, logFile, pen, autoFlush, indentLevel, inBlock,
                     headerText, sourceBuf, logLevel>>
      /\ logFile => file' = Append(file, line)
      /\ logFile => durable' = IF autoFlush THEN Len(file') ELSE durable
      /\ ~logFile => UNCHANGED <<file, durable>>
  BY LogAppends DEF line
<1>4. file \in Seq(gLog!Lines) /\ durable \in 0 .. Len(file) /\ logFile \in BOOLEAN
  BY <1>1 DEF gLog!LogTypeOK
<1>5. file' \in Seq(gLog!Lines) /\ durable' \in 0 .. Len(file')
  <2>1. CASE logFile
    <3>1. file' = Append(file, line) /\ durable' = IF autoFlush THEN Len(file') ELSE durable
      BY <1>3, <2>1
    <3>2. file' \in Seq(gLog!Lines) /\ Len(file') = Len(file) + 1
      BY <3>1, <1>2, <1>4
    <3> QED
      BY <3>1, <3>2, <1>4
  <2>2. CASE ~logFile
    BY <1>3, <1>4, <2>2
  <2> QED
    BY <2>1, <2>2
<1> QED
  BY <1>1, <1>3, <1>5 DEF gLog!LogTypeOK

\* A step that leaves the file alone leaves what is said about it true.
LEMMA FileKept ==
    ASSUME UNCHANGED <<file, durable>>
    PROVE  /\ LastIsMeasurement' <=> LastIsMeasurement
           /\ NoEmptyFrames' <=> NoEmptyFrames
           /\ FramesDurable' <=> FramesDurable
BY DEF LastIsMeasurement, IsMeasurement, NoEmptyFrames, IsSeparator, FramesDurable

\* Appending a line that is no separator.
LEMMA PlainLineKeepsFrames ==
    ASSUME TypeOK, NoEmptyFrames, FramesDurable, NEW text \in LogTexts,
           text # EndOfFrame,
           file' = Append(file, [source |-> "none", column |-> 0, text |-> text]),
           durable' = IF autoFlush THEN Len(file') ELSE durable
    PROVE  /\ NoEmptyFrames' /\ FramesDurable'
           /\ LastIsMeasurement' <=> text \in Scripts
<1> DEFINE line == [source |-> "none", column |-> 0, text |-> text]
<1>1. file \in Seq(gLog!Lines) /\ durable \in 0 .. Len(file)
  BY DEF TypeOK, gLog!LogTypeOK
<1>2. line.text = text
  OBVIOUS
<1> HIDE DEF line
<1>3. /\ Len(file') = Len(file) + 1
      /\ file'[Len(file) + 1] = line
      /\ \A i \in 1 .. Len(file) : file'[i] = file[i]
  BY <1>1 DEF line
<1>4. durable' \in durable .. Len(file')
  BY <1>1, <1>3
<1>5. \A i \in 1 .. Len(file') :
         IsSeparator(i)' => i \in 1 .. Len(file) /\ IsSeparator(i)
  BY <1>1, <1>2, <1>3 DEF IsSeparator
<1>6. NoEmptyFrames'
  BY <1>1, <1>3, <1>5 DEF NoEmptyFrames, IsMeasurement
<1>7. FramesDurable'
  BY <1>1, <1>4, <1>5 DEF FramesDurable
<1>8. LastIsMeasurement' <=> text \in Scripts
  BY <1>1, <1>2, <1>3 DEF LastIsMeasurement, IsMeasurement
<1> QED
  BY <1>6, <1>7, <1>8

\* Appending a separator behind a measurement, with autoflush on.
LEMMA SeparatorKeepsFrames ==
    ASSUME TypeOK, NoEmptyFrames, FramesDurable, LastIsMeasurement, autoFlush = TRUE,
           file' = Append(file, [source |-> "none", column |-> 0, text |-> EndOfFrame]),
           durable' = IF autoFlush THEN Len(file') ELSE durable
    PROVE  NoEmptyFrames' /\ FramesDurable' /\ ~LastIsMeasurement'
<1> DEFINE line == [source |-> "none", column |-> 0, text |-> EndOfFrame]
<1>1. file \in Seq(gLog!Lines)
  BY DEF TypeOK, gLog!LogTypeOK
<1>2. line.text = EndOfFrame
  OBVIOUS
<1> HIDE DEF line
<1>3. /\ Len(file') = Len(file) + 1
      /\ file'[Len(file) + 1] = line
      /\ \A i \in 1 .. Len(file) : file'[i] = file[i]
  BY <1>1 DEF line
<1>4. durable' = Len(file')
  OBVIOUS
<1>5. FramesDurable'
  BY <1>1, <1>3, <1>4 DEF FramesDurable
<1>6. NoEmptyFrames'
  <2> SUFFICES ASSUME NEW i \in 1 .. Len(file'), IsSeparator(i)'
               PROVE  i > 1 /\ IsMeasurement(i - 1)'
    BY DEF NoEmptyFrames
  <2>1. CASE i \in 1 .. Len(file)
    BY <1>1, <1>3, <2>1 DEF NoEmptyFrames, IsSeparator, IsMeasurement
  <2>2. CASE i = Len(file) + 1
    BY <1>1, <1>3, <2>2 DEF LastIsMeasurement, IsMeasurement
  <2> QED
    BY <1>1, <1>3, <2>1, <2>2
<1>7. ~LastIsMeasurement'
  BY <1>1, <1>2, <1>3, TextsAssumption DEF LastIsMeasurement, IsMeasurement
<1> QED
  BY <1>5, <1>6, <1>7

-----------------------------------------------------------------------------

LEMMA InitOK == Init => IInv
<1> SUFFICES ASSUME Init PROVE IInv
  OBVIOUS
<1>0. /\ file = <<>> /\ durable = 0 /\ indentLevel = 0 /\ logLevel = 5
      /\ pen = gLog!LineStart
  BY Zenon DEF Init, gLog!LogInit
<1>1. gLog!LogTypeOK
  <2>1. file \in Seq(gLog!Lines) /\ durable \in 0 .. Len(file)
    BY <1>0
  <2>2. pen \in gLog!Pens
    BY <1>0 DEF gLog!LineStart, gLog!Pens
  <2>3. indentLevel \in Nat /\ logLevel \in gLog!LogLevels
    BY <1>0 DEF gLog!LogLevels
  <2> QED
    BY <2>1, <2>2, <2>3, Zenon DEF Init, gLog!LogInit, gLog!LogTypeOK
<1>2. settings \in Settings
  BY ScriptsAssumption DEF Init, ZeroSettings, Settings
<1>3. run \in [Threads -> Runs] /\ pc \in [Threads -> HookPoints]
  BY DEF Init, Runs, HookPoints
<1>4. TypeOK
  BY <1>1, <1>2, <1>3, Zenon DEF TypeOK, Init, Frames, LoadFrames, LogTexts
<1>5. PlainLog
  BY DEF Init, gLog!LogInit, PlainLog
<1>6. OnlyMainPasses
  BY DEF Init, OnlyMainPasses, Threads
<1>7. BufferHeld /\ FlushHeld
  BY DEF Init, BufferHeld, FlushHeld, Threads
<1>8. FrameInv
  <2>1. Len(file) = 0
    BY <1>0
  <2>2. ~LastIsMeasurement /\ NoEmptyFrames /\ FramesDurable
    BY <2>1 DEF LastIsMeasurement, NoEmptyFrames, FramesDurable
  <2>3. pc[Main] = "idle" /\ frame = "banner" /\ scriptWasExecutedThisFrame = FALSE
    BY DEF Init, Threads
  <2> QED
    BY <2>2, <2>3 DEF FrameInv, FlagInv
<1> QED
  BY <1>4, <1>5, <1>6, <1>7, <1>8 DEF IInv

-----------------------------------------------------------------------------
(* One lemma per part of Next. *)

\* The log's own steps leave everything the invariant says of it true.
LEMMA RuntimeOK == IInv /\ LogRuntime => IInv'
<1> SUFFICES ASSUME IInv, LogRuntime PROVE IInv'
  OBVIOUS
<1>1. /\ UNCHANGED <<frame, pc, run, formatBuf, settings, isModEnabled,
                     scriptWasExecutedThisFrame, mainLoopExecuting>>
      /\ gLog!Spill \/ gLog!Close \/ gLog!Crash
  BY DEF LogRuntime, hookVars, flagVars
<1>2. /\ UNCHANGED <<logFile, pen, autoFlush, indentLevel, inBlock, headerText,
                     sourceBuf, logLevel>>
  BY <1>1 DEF gLog!Spill, gLog!Close, gLog!Crash, gLog!layoutVars
<1>3. /\ file \in Seq(gLog!Lines) /\ durable \in 0 .. Len(file)
      /\ gLog!LogTypeOK /\ NoEmptyFrames /\ FramesDurable
  BY DEF IInv, FrameInv, TypeOK, gLog!LogTypeOK
<1>4. /\ file' \in Seq(gLog!Lines) /\ durable' \in 0 .. Len(file')
      /\ process' \in {"running", "exited", "crashed"}
      /\ NoEmptyFrames' /\ FramesDurable'
      /\ process' = "running" => process = "running" /\ UNCHANGED file
  <2>1. CASE gLog!Spill
    <3>1. process = "running" /\ UNCHANGED <<process, file>> /\ durable' = durable + 1
          /\ durable < Len(file)
      BY <2>1 DEF gLog!Spill
    <3>2. NoEmptyFrames' /\ FramesDurable'
      BY <1>3, <3>1 DEF NoEmptyFrames, FramesDurable, IsSeparator, IsMeasurement
    <3> QED
      BY <1>3, <3>1, <3>2
  <2>2. CASE gLog!Close
    <3>1. process' = "exited" /\ UNCHANGED file /\ durable' = Len(file)
      BY <2>2 DEF gLog!Close
    <3>2. NoEmptyFrames' /\ FramesDurable'
      BY <1>3, <3>1 DEF NoEmptyFrames, FramesDurable, IsSeparator, IsMeasurement
    <3> QED
      BY <1>3, <3>1, <3>2
  <2>3. CASE gLog!Crash
    <3>1. process' = "crashed" /\ file' = SubSeq(file, 1, durable) /\ UNCHANGED durable
      BY <2>3 DEF gLog!Crash
    <3>2. /\ file' \in Seq(gLog!Lines) /\ Len(file') = durable
          /\ \A i \in 1 .. durable : file'[i] = file[i]
      BY <1>3, <3>1
    <3>3. NoEmptyFrames' /\ FramesDurable'
      BY <1>3, <3>1, <3>2 DEF NoEmptyFrames, FramesDurable, IsSeparator, IsMeasurement
    <3> QED
      BY <1>3, <3>1, <3>2, <3>3
  <2> QED
    BY <1>1, <2>1, <2>2, <2>3
<1>5. TypeOK'
  BY <1>1, <1>2, <1>3, <1>4 DEF IInv, TypeOK, gLog!LogTypeOK
<1>6. PlainLog' /\ OnlyMainPasses' /\ BufferHeld' /\ FlushHeld'
  BY <1>1, <1>2 DEF IInv, PlainLog, OnlyMainPasses, BufferHeld, FlushHeld
<1>7. process' = "running" => LastIsMeasurement' = LastIsMeasurement
  BY <1>4 DEF LastIsMeasurement, IsMeasurement
<1>8. FlagInv'
  BY <1>1, <1>2, <1>4, <1>7 DEF IInv, FrameInv, FlagInv
<1> QED
  BY <1>4, <1>5, <1>6, <1>8 DEF IInv, FrameInv

\* Steps of the plugin that do not touch the log.
LEMMA QuietStep ==
    ASSUME IInv, UNCHANGED logVars,
           frame' \in Frames, pc' \in [Threads -> HookPoints],
           run' \in [Threads -> Runs], formatBuf' \in LogTexts,
           settings' \in Settings, isModEnabled' \in BOOLEAN,
           scriptWasExecutedThisFrame' \in BOOLEAN, mainLoopExecuting' \in BOOLEAN,
           frame \notin {"flushOff", "outdent"}, frame' \notin {"flushOff", "outdent"}
    PROVE  /\ TypeOK' /\ PlainLog'
           /\ NoEmptyFrames' /\ FramesDurable'
           /\ LastIsMeasurement' <=> LastIsMeasurement
<1>1. UNCHANGED <<process, logFile, file, durable, pen, autoFlush, indentLevel,
                  inBlock, headerText, sourceBuf, logLevel>>
  BY DEF logVars
<1>2. gLog!LogTypeOK'
  BY <1>1 DEF IInv, TypeOK, gLog!LogTypeOK
<1>3. TypeOK'
  BY <1>2 DEF TypeOK
<1>4. PlainLog'
  BY <1>1 DEF IInv, PlainLog
<1> QED
  BY <1>1, <1>3, <1>4, FileKept DEF IInv, FrameInv

LEMMA LoadOK == IInv /\ Load => IInv'
<1> SUFFICES ASSUME IInv, Load PROVE IInv'
  OBVIOUS
<1>1. frame \in LoadFrames
  BY DEF Load, LoadStep, HandleIniOptions, InstallHooks, LoadFrames
<1>2. /\ Main \in Threads /\ pc \in [Threads -> HookPoints] /\ pc[Main] = "idle"
      /\ scriptWasExecutedThisFrame = FALSE /\ TypeOK /\ PlainLog /\ OnlyMainPasses
      /\ NoEmptyFrames /\ FramesDurable /\ FlagInv
  BY <1>1 DEF IInv, TypeOK, OnlyMainPasses, FrameInv, FlagInv, LoadFrames, Threads
<1>3. ASSUME NEW from \in {"banner", "initialized", "header"},
             NEW to \in {"indent", "header", "ini"},
             NEW text \in {Banner, Initialized, Header},
             LoadStep(from, to, LoadMessage(text))
      PROVE  IInv'
  <2>1. /\ frame = from /\ frame' = to /\ formatBuf' = text
        /\ gLog!Log(gLog!kLevel_Message, text)
        /\ UNCHANGED <<pc, run, settings, isModEnabled, scriptWasExecutedThisFrame,
                       mainLoopExecuting>>
    BY <1>3 DEF LoadStep, LoadMessage, hookVars, flagVars
  <2>2. indentLevel = 0 /\ text \in LogTexts /\ text # EndOfFrame /\ text \notin Scripts
    BY <1>2, <2>1, TextsAssumption DEF PlainLog, LogTexts
  <2>3. gLog!LogTypeOK'
    BY <1>2, <2>1, <2>2, LogAppendsType
  <2>4. /\ UNCHANGED <<process, logFile, pen, autoFlush, indentLevel, inBlock,
                       headerText, sourceBuf, logLevel>>
        /\ logFile => file' = Append(file, [source |-> "none", column |-> 0, text |-> text])
        /\ logFile => durable' = IF autoFlush THEN Len(file') ELSE durable
        /\ ~logFile => UNCHANGED <<file, durable>>
    BY <1>2, <2>1, <2>2, LogAppends
  <2>5. NoEmptyFrames' /\ FramesDurable' /\ (logFile => ~LastIsMeasurement')
    BY <1>2, <2>2, <2>4, FileKept, PlainLineKeepsFrames
  <2>6. TypeOK'
    BY <1>2, <2>1, <2>2, <2>3 DEF TypeOK, Frames, LoadFrames
  <2>7. PlainLog' /\ OnlyMainPasses' /\ BufferHeld' /\ FlushHeld'
    BY <1>2, <2>1, <2>2, <2>4
    DEF PlainLog, OnlyMainPasses, BufferHeld, FlushHeld
  <2>8. FlagInv'
    BY <1>2, <2>1, <2>4, <2>5 DEF FlagInv
  <2> QED
    BY <2>5, <2>6, <2>7, <2>8 DEF IInv, FrameInv
<1>4. ASSUME NEW from \in {"indent", "flushOff", "outdent"},
             NEW to \in {"flushOff", "outdent", "initialized"},
             from = "outdent" <=> to = "initialized",
             frame = from, frame' = to,
             UNCHANGED <<process, logFile, file, durable, pen, inBlock, headerText,
                         sourceBuf, logLevel, formatBuf, pc, run, settings, isModEnabled,
                         scriptWasExecutedThisFrame, mainLoopExecuting>>,
             autoFlush' \in BOOLEAN, to \in {"flushOff", "outdent"} => indentLevel' = 1,
             to = "initialized" => indentLevel' = 0
      PROVE  IInv'
  <2>1. TypeOK'
    BY <1>2, <1>4 DEF TypeOK, gLog!LogTypeOK, Frames, LoadFrames
  <2>2. PlainLog' /\ OnlyMainPasses' /\ BufferHeld' /\ FlushHeld'
    BY <1>2, <1>4 DEF PlainLog, OnlyMainPasses, BufferHeld, FlushHeld
  <2>3. NoEmptyFrames' /\ FramesDurable' /\ (LastIsMeasurement' <=> LastIsMeasurement)
    BY <1>2, <1>4, FileKept
  <2>4. FlagInv'
    BY <1>2, <1>4, <2>3 DEF FlagInv
  <2> QED
    BY <2>1, <2>2, <2>3, <2>4 DEF IInv, FrameInv
<1>5. CASE LoadStep("indent", "flushOff", gLog!Indent /\ UNCHANGED formatBuf)
  <2>1. /\ frame = "indent" /\ frame' = "flushOff" /\ indentLevel = 0
        /\ indentLevel' = indentLevel + 1 /\ autoFlush' = autoFlush
        /\ UNCHANGED <<process, logFile, file, durable, pen, inBlock, headerText,
                       sourceBuf, logLevel, formatBuf, pc, run, settings, isModEnabled,
                       scriptWasExecutedThisFrame, mainLoopExecuting>>
    BY <1>2, <1>5 DEF LoadStep, gLog!Indent, gLog!SetIndent, hookVars, flagVars, PlainLog
  <2> QED
    BY <1>2, <1>4, <2>1 DEF TypeOK, gLog!LogTypeOK
<1>6. CASE LoadStep("flushOff", "outdent", gLog!SetAutoFlush(FALSE) /\ UNCHANGED formatBuf)
  <2>1. /\ frame = "flushOff" /\ frame' = "outdent" /\ indentLevel = 1
        /\ indentLevel' = indentLevel /\ autoFlush' = FALSE
        /\ UNCHANGED <<process, logFile, file, durable, pen, inBlock, headerText,
                       sourceBuf, logLevel, formatBuf, pc, run, settings, isModEnabled,
                       scriptWasExecutedThisFrame, mainLoopExecuting>>
    BY <1>2, <1>6 DEF LoadStep, gLog!SetAutoFlush, gLog!layoutVars, hookVars, flagVars,
                      PlainLog
  <2> QED
    BY <1>4, <2>1
<1>7. CASE LoadStep("outdent", "initialized", gLog!Outdent /\ UNCHANGED formatBuf)
  <2>1. /\ frame = "outdent" /\ frame' = "initialized" /\ indentLevel = 1
        /\ indentLevel' = (IF indentLevel > 0 THEN indentLevel - 1 ELSE 0)
        /\ autoFlush' = autoFlush
        /\ UNCHANGED <<process, logFile, file, durable, pen, inBlock, headerText,
                       sourceBuf, logLevel, formatBuf, pc, run, settings, isModEnabled,
                       scriptWasExecutedThisFrame, mainLoopExecuting>>
    BY <1>2, <1>7 DEF LoadStep, gLog!Outdent, gLog!SetIndent, hookVars, flagVars, PlainLog
  <2>2. indentLevel' = 0
    BY <2>1
  <2> QED
    BY <1>2, <1>4, <2>1, <2>2 DEF TypeOK, gLog!LogTypeOK
<1>8. CASE HandleIniOptions \/ InstallHooks
  <2>1. /\ frame \in {"ini", "patch"} /\ frame' \in {"patch", "between"}
        /\ UNCHANGED logVars /\ UNCHANGED <<pc, run, formatBuf, mainLoopExecuting>>
        /\ settings' \in Settings /\ isModEnabled' \in BOOLEAN
        /\ scriptWasExecutedThisFrame' = scriptWasExecutedThisFrame
    BY <1>2, <1>8 DEF HandleIniOptions, InstallHooks, hookVars, flagVars, TypeOK
  <2>2. /\ TypeOK' /\ PlainLog' /\ NoEmptyFrames' /\ FramesDurable'
        /\ LastIsMeasurement' <=> LastIsMeasurement
    BY <1>2, <2>1, QuietStep DEF TypeOK, Frames, LoadFrames
  <2>3. OnlyMainPasses' /\ BufferHeld' /\ FlushHeld'
    BY <1>2, <2>1 DEF OnlyMainPasses, BufferHeld, FlushHeld
  <2>4. FlagInv'
    BY <1>2, <2>1, <2>2 DEF FlagInv, LoadFrames, logVars
  <2> QED
    BY <2>2, <2>3, <2>4 DEF IInv, FrameInv
<1> QED
  BY <1>3, <1>5, <1>6, <1>7, <1>8 DEF Load

\* The steps of DoScriptRunnerExecuteTimeElapsed.
LEMMA HookOK ==
    ASSUME IInv, NEW t \in Threads,
           HookStep(t) \/ \E r \in Runs : ScriptReturns(t, r)
    PROVE  IInv'
<1>1. /\ Main \in Threads /\ pc \in [Threads -> HookPoints] /\ run \in [Threads -> Runs]
      /\ TypeOK /\ PlainLog /\ OnlyMainPasses /\ BufferHeld /\ FlushHeld
      /\ NoEmptyFrames /\ FramesDurable /\ FlagInv
      /\ t # Main => t \in Workers
  BY DEF IInv, TypeOK, FrameInv, Threads
<1>2. ASSUME NEW r \in Runs, ScriptReturns(t, r) PROVE IInv'
  <2>1. /\ process = "running" /\ frame \notin LoadFrames /\ pc[t] = "idle"
        /\ t = Main => frame \in {"between", "scripts"}
        /\ run' = [run EXCEPT ![t] = r] /\ pc' = [pc EXCEPT ![t] = "enabled"]
        /\ UNCHANGED logVars
        /\ UNCHANGED <<frame, formatBuf, settings, isModEnabled,
                       scriptWasExecutedThisFrame, mainLoopExecuting>>
    BY <1>2 DEF ScriptReturns, MayRunScript, flagVars
  <2>2. /\ pc' \in [Threads -> HookPoints] /\ run' \in [Threads -> Runs]
        /\ frame \notin {"flushOff", "outdent"}
    BY <1>1, <2>1 DEF HookPoints, LoadFrames
  <2>3. /\ TypeOK' /\ PlainLog' /\ NoEmptyFrames' /\ FramesDurable'
        /\ LastIsMeasurement' <=> LastIsMeasurement
    BY <1>1, <2>1, <2>2, QuietStep DEF TypeOK
  <2>4. OnlyMainPasses'
    BY <1>1, <2>1 DEF OnlyMainPasses, Threads
  <2>5. BufferHeld' /\ FlushHeld'
    BY <1>1, <2>1 DEF BufferHeld, FlushHeld, logVars
  <2>6. FlagInv'
    BY <1>1, <2>1, <2>3 DEF FlagInv, logVars
  <2> QED
    BY <2>3, <2>4, <2>5, <2>6 DEF IInv, FrameInv
<1>3. CASE TestRun(t)
  <2>1. /\ process = "running" /\ pc[t] = "enabled"
        /\ pc' = [pc EXCEPT ![t] = IF PassesTests(t) THEN "passed" ELSE "idle"]
        /\ UNCHANGED logVars
        /\ UNCHANGED <<frame, run, formatBuf, settings, isModEnabled,
                       scriptWasExecutedThisFrame, mainLoopExecuting>>
    BY <1>3 DEF TestRun, flagVars
  <2>2. pc' \in [Threads -> HookPoints]
    BY <1>1, <2>1 DEF HookPoints
  <2>3. PassesTests(t) => t = Main
    BY DEF PassesTests
  <2>4. OnlyMainPasses'
    <3>1. /\ pc'[t] \in {"passed", "idle"} /\ (t # Main => pc'[t] = "idle")
          /\ \A u \in Threads : u # t => pc'[u] = pc[u]
      BY <1>1, <2>1, <2>3
    <3>2. CASE t = Main
      BY <1>1, <2>1, <3>1, <3>2, ThreadsAssumption DEF OnlyMainPasses, Threads
    <3>3. CASE t # Main
      BY <1>1, <2>1, <3>1, <3>3 DEF OnlyMainPasses, Threads
    <3> QED
      BY <3>2, <3>3
  <2>5. BufferHeld' /\ FlushHeld'
    BY <1>1, <2>1 DEF BufferHeld, FlushHeld, logVars
  <2>6. /\ TypeOK' /\ PlainLog' /\ NoEmptyFrames' /\ FramesDurable'
        /\ LastIsMeasurement' <=> LastIsMeasurement
    <3>1. CASE frame \notin {"flushOff", "outdent"}
      BY <1>1, <2>1, <2>2, <3>1, QuietStep DEF TypeOK
    <3>2. CASE frame \in {"flushOff", "outdent"}
      <4>1. UNCHANGED <<process, logFile, file, durable, pen, autoFlush, indentLevel,
                        inBlock, headerText, sourceBuf, logLevel>>
        BY <2>1 DEF logVars
      <4>2. gLog!LogTypeOK'
        BY <1>1, <4>1 DEF TypeOK, gLog!LogTypeOK
      <4> QED
        BY <1>1, <2>1, <2>2, <4>1, <4>2, FileKept DEF TypeOK, PlainLog
    <3> QED
      BY <3>1, <3>2
  <2>7. FlagInv'
    BY <1>1, <2>1, <2>6 DEF FlagInv, logVars
  <2> QED
    BY <2>4, <2>5, <2>6, <2>7 DEF IInv, FrameInv
<1>4. ASSUME pc[t] \in {"passed", "formatted", "written"}
      PROVE  t = Main /\ frame \in {"between", "scripts"} /\ indentLevel = 0
             /\ run[Main].script \in Scripts
  BY <1>1, <1>4 DEF OnlyMainPasses, PlainLog, Runs
<1>5. CASE FormatRun(t)
  <2>1. /\ process = "running" /\ pc[t] = "passed" /\ formatBuf' = run[t].script
        /\ pc' = [pc EXCEPT ![t] = "formatted"] /\ UNCHANGED logVars
        /\ UNCHANGED <<frame, run, settings, isModEnabled,
                       scriptWasExecutedThisFrame, mainLoopExecuting>>
    BY <1>5 DEF FormatRun, flagVars
  <2>2. /\ t = Main /\ frame \in {"between", "scripts"}
        /\ formatBuf' \in LogTexts /\ pc' \in [Threads -> HookPoints]
    BY <1>1, <1>4, <2>1 DEF LogTexts, HookPoints
  <2>3. /\ TypeOK' /\ PlainLog' /\ NoEmptyFrames' /\ FramesDurable'
        /\ LastIsMeasurement' <=> LastIsMeasurement
    BY <1>1, <2>1, <2>2, QuietStep DEF TypeOK
  <2>4. OnlyMainPasses' /\ BufferHeld' /\ FlushHeld'
    BY <1>1, <2>1, <2>2, ThreadsAssumption
    DEF OnlyMainPasses, BufferHeld, FlushHeld, Threads
  <2>5. FlagInv'
    BY <1>1, <2>1, <2>2, <2>3 DEF FlagInv, logVars
  <2> QED
    BY <2>3, <2>4, <2>5 DEF IInv, FrameInv
<1>6. CASE WriteRun(t)
  <2>1. /\ pc[t] = "formatted" /\ gLog!Log(gLog!kLevel_Message, formatBuf)
        /\ pc' = [pc EXCEPT ![t] = "written"]
        /\ UNCHANGED <<frame, run, formatBuf, settings, isModEnabled,
                       scriptWasExecutedThisFrame, mainLoopExecuting>>
    BY <1>6 DEF WriteRun, flagVars
  <2>2. /\ t = Main /\ frame \in {"between", "scripts"} /\ indentLevel = 0
        /\ formatBuf \in LogTexts /\ formatBuf \in Scripts /\ formatBuf # EndOfFrame
        /\ pc' \in [Threads -> HookPoints]
    BY <1>1, <1>4, <2>1, TextsAssumption DEF BufferHeld, LogTexts, HookPoints
  <2>3. gLog!LogTypeOK'
    BY <1>1, <2>1, <2>2, LogAppendsType
  <2>4. /\ UNCHANGED <<process, logFile, pen, autoFlush, indentLevel, inBlock,
                       headerText, sourceBuf, logLevel>>
        /\ logFile => file' = Append(file, [source |-> "none", column |-> 0,
                                            text |-> formatBuf])
        /\ logFile => durable' = IF autoFlush THEN Len(file') ELSE durable
        /\ ~logFile => UNCHANGED <<file, durable>>
    BY <1>1, <2>1, <2>2, LogAppends
  <2>5. NoEmptyFrames' /\ FramesDurable' /\ (logFile => LastIsMeasurement')
    BY <1>1, <2>2, <2>4, FileKept, PlainLineKeepsFrames
  <2>6. TypeOK'
    BY <1>1, <2>1, <2>2, <2>3 DEF TypeOK
  <2>7. PlainLog' /\ OnlyMainPasses' /\ BufferHeld' /\ FlushHeld'
    BY <1>1, <2>1, <2>2, <2>4, ThreadsAssumption
    DEF PlainLog, OnlyMainPasses, BufferHeld, FlushHeld, Threads
  <2>8. pc'[Main] = "written"
    BY <1>1, <2>1, <2>2
  <2>9. FlagInv'
    BY <1>1, <2>1, <2>2, <2>4, <2>5, <2>8 DEF FlagInv
  <2> QED
    BY <2>5, <2>6, <2>7, <2>9 DEF IInv, FrameInv
<1>7. CASE MarkFrame(t)
  <2>1. /\ process = "running" /\ pc[t] = "written" /\ scriptWasExecutedThisFrame' = TRUE
        /\ pc' = [pc EXCEPT ![t] = "idle"] /\ UNCHANGED logVars
        /\ UNCHANGED <<frame, run, formatBuf, settings, isModEnabled, mainLoopExecuting>>
    BY <1>7 DEF MarkFrame
  <2>2. /\ t = Main /\ frame \in {"between", "scripts"} /\ pc' \in [Threads -> HookPoints]
    BY <1>1, <1>4, <2>1 DEF HookPoints
  <2>3. /\ TypeOK' /\ PlainLog' /\ NoEmptyFrames' /\ FramesDurable'
        /\ LastIsMeasurement' <=> LastIsMeasurement
    BY <1>1, <2>1, <2>2, QuietStep DEF TypeOK
  <2>4. OnlyMainPasses' /\ BufferHeld' /\ FlushHeld'
    BY <1>1, <2>1, <2>2, ThreadsAssumption
    DEF OnlyMainPasses, BufferHeld, FlushHeld, Threads
  <2>5. FlagInv'
    BY <1>1, <2>1, <2>2, <2>3 DEF FlagInv, logVars, LoadFrames
  <2> QED
    BY <2>3, <2>4, <2>5 DEF IInv, FrameInv
<1> QED
  BY <1>2, <1>3, <1>5, <1>6, <1>7 DEF HookStep

\* StartFrameExecutionTimer, the script loop's return and
\* EndFrameExecutionTimerAndLog.
LEMMA FrameOK == IInv /\ (StartFrame \/ ScriptsDone \/ EndFrame) => IInv'
<1> SUFFICES ASSUME IInv, StartFrame \/ ScriptsDone \/ EndFrame PROVE IInv'
  OBVIOUS
<1>1. /\ Main \in Threads /\ pc \in [Threads -> HookPoints]
      /\ TypeOK /\ PlainLog /\ OnlyMainPasses /\ BufferHeld /\ FlushHeld
      /\ NoEmptyFrames /\ FramesDurable /\ FlagInv
  BY DEF IInv, TypeOK, FrameInv, Threads
<1>2. /\ process = "running" /\ pc[Main] = "idle" /\ UNCHANGED <<pc, run, settings>>
      /\ frame \in {"between", "scripts"} \cup EndFrames
      /\ frame' \in {"between", "scripts"} \cup EndFrames
  BY DEF StartFrame, ScriptsDone, EndFrame, EndFlushOn, EndFormat, EndWrite,
         EndFlushOff, EndReset, FrameStep, hookVars, EndFrames
<1>3. /\ frame \notin {"flushOff", "outdent"} /\ frame' \notin {"flushOff", "outdent"}
      /\ frame \notin LoadFrames /\ frame' \notin LoadFrames /\ frame' \in Frames
      /\ indentLevel = 0
  BY <1>1, <1>2 DEF EndFrames, LoadFrames, Frames, PlainLog
<1>4. OnlyMainPasses'
  BY <1>1, <1>2 DEF OnlyMainPasses
<1>5. ASSUME UNCHANGED logVars, formatBuf' \in LogTexts, isModEnabled' \in BOOLEAN,
             scriptWasExecutedThisFrame' \in BOOLEAN, mainLoopExecuting' \in BOOLEAN
      PROVE  /\ TypeOK' /\ PlainLog' /\ NoEmptyFrames' /\ FramesDurable'
             /\ LastIsMeasurement' <=> LastIsMeasurement
  BY <1>1, <1>2, <1>3, <1>5, QuietStep DEF TypeOK
<1>6. CASE StartFrame
  <2>1. /\ frame = "between" /\ frame' = "scripts" /\ UNCHANGED logVars
        /\ isModEnabled' \in BOOLEAN /\ mainLoopExecuting' = TRUE
        /\ UNCHANGED <<formatBuf, scriptWasExecutedThisFrame>>
    BY <1>6 DEF StartFrame, FrameStep
  <2>2. /\ TypeOK' /\ PlainLog' /\ NoEmptyFrames' /\ FramesDurable'
        /\ LastIsMeasurement' <=> LastIsMeasurement
    BY <1>1, <1>5, <2>1 DEF TypeOK
  <2>3. BufferHeld' /\ FlushHeld' /\ FlagInv'
    BY <1>1, <1>2, <1>3, <2>1, <2>2 DEF BufferHeld, FlushHeld, FlagInv, logVars
  <2> QED
    BY <1>4, <2>2, <2>3 DEF IInv, FrameInv
<1>7. CASE ScriptsDone
  <2>1. /\ frame = "scripts" /\ UNCHANGED logVars
        /\ frame' = IF scriptWasExecutedThisFrame THEN "endFlushOn" ELSE "endReset"
        /\ UNCHANGED <<formatBuf, isModEnabled, scriptWasExecutedThisFrame,
                       mainLoopExecuting>>
    BY <1>7 DEF ScriptsDone, FrameStep, flagVars
  <2>2. /\ TypeOK' /\ PlainLog' /\ NoEmptyFrames' /\ FramesDurable'
        /\ LastIsMeasurement' <=> LastIsMeasurement
    BY <1>1, <1>5, <2>1 DEF TypeOK
  <2>3. BufferHeld' /\ FlushHeld' /\ FlagInv'
    BY <1>1, <1>2, <1>3, <2>1, <2>2 DEF BufferHeld, FlushHeld, FlagInv, logVars, TypeOK
  <2> QED
    BY <1>4, <2>2, <2>3 DEF IInv, FrameInv
<1>8. ASSUME NEW flush \in BOOLEAN, gLog!SetAutoFlush(flush),
             UNCHANGED <<formatBuf, isModEnabled, scriptWasExecutedThisFrame,
                         mainLoopExecuting>>
      PROVE  /\ TypeOK' /\ PlainLog' /\ NoEmptyFrames' /\ FramesDurable'
             /\ (LastIsMeasurement' <=> LastIsMeasurement)
             /\ autoFlush' = flush /\ UNCHANGED <<process, logFile>>
  <2>1. /\ autoFlush' = flush
        /\ UNCHANGED <<process, logFile, file, durable, pen, indentLevel, inBlock,
                       headerText, sourceBuf, logLevel>>
    BY <1>8 DEF gLog!SetAutoFlush, gLog!layoutVars
  <2>2. TypeOK'
    BY <1>1, <1>2, <1>3, <1>8, <2>1 DEF TypeOK, gLog!LogTypeOK
  <2>3. PlainLog'
    BY <1>1, <1>3, <2>1 DEF PlainLog
  <2> QED
    BY <1>1, <2>1, <2>2, <2>3, FileKept
<1>9. CASE EndFlushOn
  <2>1. /\ frame = "endFlushOn" /\ frame' = "endFormat" /\ gLog!SetAutoFlush(TRUE)
        /\ UNCHANGED <<formatBuf, isModEnabled, scriptWasExecutedThisFrame,
                       mainLoopExecuting>>
    BY <1>9 DEF EndFlushOn, FrameStep, flagVars
  <2>2. /\ TypeOK' /\ PlainLog' /\ NoEmptyFrames' /\ FramesDurable'
        /\ (LastIsMeasurement' <=> LastIsMeasurement)
        /\ autoFlush' = TRUE /\ UNCHANGED <<process, logFile>>
    BY <1>8, <2>1
  <2>3. BufferHeld' /\ FlushHeld' /\ FlagInv'
    BY <1>1, <1>2, <1>3, <2>1, <2>2 DEF BufferHeld, FlushHeld, FlagInv
  <2> QED
    BY <1>4, <2>2, <2>3 DEF IInv, FrameInv
<1>10. CASE EndFormat
  <2>1. /\ frame = "endFormat" /\ frame' = "endWrite" /\ formatBuf' = EndOfFrame
        /\ UNCHANGED logVars
        /\ UNCHANGED <<isModEnabled, scriptWasExecutedThisFrame, mainLoopExecuting>>
    BY <1>10 DEF EndFormat, FrameStep, flagVars
  <2>2. /\ TypeOK' /\ PlainLog' /\ NoEmptyFrames' /\ FramesDurable'
        /\ LastIsMeasurement' <=> LastIsMeasurement
    BY <1>1, <1>5, <2>1 DEF TypeOK, LogTexts
  <2>3. BufferHeld' /\ FlushHeld' /\ FlagInv'
    BY <1>1, <1>2, <1>3, <2>1, <2>2 DEF BufferHeld, FlushHeld, FlagInv, logVars
  <2> QED
    BY <1>4, <2>2, <2>3 DEF IInv, FrameInv
<1>11. CASE EndWrite
  <2>1. /\ frame = "endWrite" /\ frame' = "endFlushOff"
        /\ gLog!Log(gLog!kLevel_Message, EndOfFrame)
        /\ UNCHANGED <<formatBuf, isModEnabled, scriptWasExecutedThisFrame,
                       mainLoopExecuting>>
    BY <1>1, <1>11 DEF EndWrite, FrameStep, flagVars, BufferHeld
  <2>2. EndOfFrame \in LogTexts
    BY DEF LogTexts
  <2>3. gLog!LogTypeOK'
    BY <1>1, <1>3, <2>1, <2>2, LogAppendsType
  <2>4. /\ UNCHANGED <<process, logFile, pen, autoFlush, indentLevel, inBlock,
                       headerText, sourceBuf, logLevel>>
        /\ logFile => file' = Append(file, [source |-> "none", column |-> 0,
                                            text |-> EndOfFrame])
        /\ logFile => durable' = IF autoFlush THEN Len(file') ELSE durable
        /\ ~logFile => UNCHANGED <<file, durable>>
    BY <1>1, <1>3, <2>1, <2>2, LogAppends
  <2>5. autoFlush = TRUE /\ (logFile => LastIsMeasurement)
    BY <1>1, <1>2, <2>1 DEF FlushHeld, FlagInv
  <2>6. NoEmptyFrames' /\ FramesDurable' /\ (logFile => ~LastIsMeasurement')
    BY <1>1, <2>4, <2>5, FileKept, SeparatorKeepsFrames
  <2>7. TypeOK'
    BY <1>1, <1>2, <1>3, <2>1, <2>3 DEF TypeOK
  <2>8. PlainLog' /\ BufferHeld' /\ FlushHeld'
    BY <1>1, <1>2, <1>3, <2>1, <2>4, <2>5 DEF PlainLog, BufferHeld, FlushHeld
  <2>9. FlagInv'
    BY <1>1, <1>2, <1>3, <2>1, <2>4, <2>6 DEF FlagInv
  <2> QED
    BY <1>4, <2>6, <2>7, <2>8, <2>9 DEF IInv, FrameInv
<1>12. CASE EndFlushOff
  <2>1. /\ frame = "endFlushOff" /\ frame' = "endReset" /\ gLog!SetAutoFlush(FALSE)
        /\ UNCHANGED <<formatBuf, isModEnabled, scriptWasExecutedThisFrame,
                       mainLoopExecuting>>
    BY <1>12 DEF EndFlushOff, FrameStep, flagVars
  <2>2. /\ TypeOK' /\ PlainLog' /\ NoEmptyFrames' /\ FramesDurable'
        /\ (LastIsMeasurement' <=> LastIsMeasurement)
        /\ UNCHANGED <<process, logFile>>
    BY <1>8, <2>1
  <2>3. BufferHeld' /\ FlushHeld' /\ FlagInv'
    BY <1>1, <1>2, <1>3, <2>1, <2>2 DEF BufferHeld, FlushHeld, FlagInv
  <2> QED
    BY <1>4, <2>2, <2>3 DEF IInv, FrameInv
<1>13. CASE EndReset
  <2>1. /\ frame = "endReset" /\ frame' = "between" /\ UNCHANGED logVars
        /\ mainLoopExecuting' = FALSE /\ scriptWasExecutedThisFrame' = FALSE
        /\ UNCHANGED <<formatBuf, isModEnabled>>
    BY <1>13 DEF EndReset, FrameStep
  <2>2. /\ TypeOK' /\ PlainLog' /\ NoEmptyFrames' /\ FramesDurable'
        /\ LastIsMeasurement' <=> LastIsMeasurement
    BY <1>1, <1>5, <2>1 DEF TypeOK
  <2>3. BufferHeld' /\ FlushHeld' /\ FlagInv'
    BY <1>1, <1>2, <1>3, <2>1, <2>2 DEF BufferHeld, FlushHeld, FlagInv, logVars
  <2> QED
    BY <1>4, <2>2, <2>3 DEF IInv, FrameInv
<1> QED
  BY <1>6, <1>7, <1>9, <1>10, <1>11, <1>12, <1>13 DEF EndFrame

LEMMA StutterOK == IInv /\ UNCHANGED vars => IInv'
<1> SUFFICES ASSUME IInv, UNCHANGED vars PROVE IInv'
  OBVIOUS
<1>1. /\ UNCHANGED <<process, logFile, file, durable, pen, autoFlush, indentLevel,
                     inBlock, headerText, sourceBuf, logLevel>>
      /\ UNCHANGED <<frame, pc, run, formatBuf, settings, isModEnabled,
                     scriptWasExecutedThisFrame, mainLoopExecuting>>
  BY DEF vars, logVars, hookVars, flagVars
<1>2. TypeOK'
  BY <1>1 DEF IInv, TypeOK, gLog!LogTypeOK
<1>3. PlainLog' /\ OnlyMainPasses' /\ BufferHeld' /\ FlushHeld'
  BY <1>1 DEF IInv, PlainLog, OnlyMainPasses, BufferHeld, FlushHeld
<1>4. NoEmptyFrames' /\ FramesDurable' /\ (LastIsMeasurement' <=> LastIsMeasurement)
  BY <1>1, FileKept DEF IInv, FrameInv
<1>5. FlagInv'
  BY <1>1, <1>4 DEF IInv, FrameInv, FlagInv
<1> QED
  BY <1>2, <1>3, <1>4, <1>5 DEF IInv, FrameInv

LEMMA StepOK == IInv /\ [Next]_vars => IInv'
BY LoadOK, HookOK, FrameOK, RuntimeOK, StutterOK DEF Next

\* The inductive invariant holds of every behaviour.
THEOREM Invariance == Spec => []IInv
BY InitOK, StepOK, PTL DEF Spec

-----------------------------------------------------------------------------

\* The plugin's and the log's variables keep their types.
THEOREM TypeCorrect == Spec => []TypeOK
<1>1. IInv => TypeOK
  BY DEF IInv
<1> QED
  BY <1>1, Invariance, PTL

\* The shared format buffer is never overwritten between formatting and writing.
THEOREM LinesAreWhole == Spec => []NoTornLines
<1>1. IInv => NoTornLines
  <2> SUFFICES ASSUME IInv PROVE NoTornLines
    OBVIOUS
  <2>1. \A t \in Threads : pc[t] = "formatted" => t = Main
    BY DEF IInv, OnlyMainPasses, Threads
  <2> QED
    BY <2>1 DEF IInv, BufferHeld, NoTornLines
<1> QED
  BY <1>1, Invariance, PTL

\* The frame flag says whether the log has an unclosed line.
THEOREM FlagIsRight == Spec => []FlagTracksLog
<1>1. IInv => FlagTracksLog
  BY DEF IInv, FrameInv, FlagInv, FlagTracksLog, AtRest, TypeOK
<1> QED
  BY <1>1, Invariance, PTL

\* No separator follows a separator or opens the log.
THEOREM FramesNotEmpty == Spec => []NoEmptyFrames
<1>1. IInv => NoEmptyFrames
  BY DEF IInv, FrameInv
<1> QED
  BY <1>1, Invariance, PTL

\* A frame whose separator is in the log is on disk.
THEOREM ClosedFramesDurable == Spec => []FramesDurable
<1>1. IInv => FramesDurable
  BY DEF IInv, FrameInv
<1> QED
  BY <1>1, Invariance, PTL

-----------------------------------------------------------------------------
(* The log as a journal.  Entries are measurements and separators; what is  *)
(* committed is the entries up to the last separator, what is gathered the  *)
(* measurements behind it.                                                  *)

Committed(lines) == TextsOf(SubSeq(lines, 1, LastSeparator(lines)))
Gathering(lines) == TextsOf(SubSeq(lines, LastSeparator(lines) + 1, Len(lines)))

IsLastSeparator(n, lines) ==
    /\ n \in 0 .. Len(lines)
    /\ n > 0 => lines[n].text = EndOfFrame
    /\ \A m \in n + 1 .. Len(lines) : lines[m].text # EndOfFrame

\* There is a last separator, or none, which counts as position 0.
LEMMA LastSeparatorExists ==
    ASSUME NEW S, NEW lines \in Seq(S)
    PROVE  \E n \in Nat : IsLastSeparator(n, lines)
<1> DEFINE T == {n \in Nat : n <= Len(lines) /\ \A m \in n + 1 .. Len(lines) :
                                                  lines[m].text # EndOfFrame}
<1>0. Len(lines) \in Nat
  OBVIOUS
<1>1. Len(lines) \in T
  BY <1>0
<1>2. T \subseteq Nat /\ T # {}
  BY <1>1
<1>3. PICK n \in T : \A m \in T : n <= m
  <2> HIDE DEF T
  <2> QED
    BY <1>2, LeastOfSet
<1>4. /\ n \in Nat /\ n <= Len(lines)
      /\ \A m \in n + 1 .. Len(lines) : lines[m].text # EndOfFrame
  OBVIOUS
<1>5. ASSUME n > 0, lines[n].text # EndOfFrame PROVE FALSE
  <2>1. n - 1 \in Nat /\ n - 1 <= Len(lines)
    BY <1>0, <1>4, <1>5
  <2>2. ASSUME NEW m \in (n - 1) + 1 .. Len(lines) PROVE lines[m].text # EndOfFrame
    <3>1. m = n \/ m \in n + 1 .. Len(lines)
      BY <1>0, <1>4, <2>2
    <3> QED
      BY <1>4, <1>5, <3>1
  <2>3. n - 1 \in T
    BY <2>1, <2>2
  <2>4. n <= n - 1
    <3> HIDE DEF T
    <3> QED
      BY <1>3, <2>3
  <2> QED
    BY <1>4, <2>4
<1> QED
  BY <1>0, <1>4, <1>5 DEF IsLastSeparator

LEMMA LastSeparatorIs ==
    ASSUME NEW S, NEW lines \in Seq(S)
    PROVE  IsLastSeparator(LastSeparator(lines), lines)
<1>1. \E n \in 0 .. Len(lines) : /\ n > 0 => lines[n].text = EndOfFrame
                                 /\ \A m \in n + 1 .. Len(lines) : lines[m].text # EndOfFrame
  BY LastSeparatorExists DEF IsLastSeparator
<1> QED
  BY <1>1 DEF IsLastSeparator, LastSeparator

LEMMA LastSeparatorUnique ==
    ASSUME NEW S, NEW lines \in Seq(S), NEW n, IsLastSeparator(n, lines)
    PROVE  LastSeparator(lines) = n
<1> DEFINE k == LastSeparator(lines)
<1>1. IsLastSeparator(k, lines)
  BY LastSeparatorIs
<1> HIDE DEF k
<1>2. n \in 0 .. Len(lines) /\ k \in 0 .. Len(lines) /\ Len(lines) \in Nat
  BY <1>1 DEF IsLastSeparator
<1>3. ~(n < k)
  <2> SUFFICES ASSUME n < k PROVE FALSE
    OBVIOUS
  <2>1. k > 0 /\ k \in n + 1 .. Len(lines)
    BY <1>2
  <2> QED
    BY <1>1, <2>1 DEF IsLastSeparator
<1>4. ~(k < n)
  <2> SUFFICES ASSUME k < n PROVE FALSE
    OBVIOUS
  <2>1. n > 0 /\ n \in k + 1 .. Len(lines)
    BY <1>2
  <2> QED
    BY <1>1, <2>1 DEF IsLastSeparator
<1>5. k = n
  BY <1>2, <1>3, <1>4
<1> QED
  BY <1>5 DEF k

\* A measurement is one more entry of the frame in progress.
LEMMA MeasurementGathers ==
    ASSUME NEW S, NEW lines \in Seq(S), NEW line \in S, line.text # EndOfFrame
    PROVE  /\ Committed(Append(lines, line)) = Committed(lines)
           /\ Gathering(Append(lines, line)) = Append(Gathering(lines), line.text)
<1> DEFINE n == LastSeparator(lines)
           more == Append(lines, line)
<1>1. IsLastSeparator(n, lines)
  BY LastSeparatorIs
<1>2. /\ more \in Seq(S) /\ Len(more) = Len(lines) + 1 /\ more[Len(lines) + 1] = line
      /\ \A i \in 1 .. Len(lines) : more[i] = lines[i]
      /\ Len(lines) \in Nat
  OBVIOUS
<1> HIDE DEF n, more
<1>3. n \in 0 .. Len(lines)
  BY <1>1 DEF IsLastSeparator
<1>4. IsLastSeparator(n, more)
  BY <1>1, <1>2, <1>3 DEF IsLastSeparator
<1>5. LastSeparator(more) = n
  BY <1>2, <1>4, LastSeparatorUnique
<1>6. SubSeq(more, 1, n) = SubSeq(lines, 1, n)
  BY <1>2, <1>3
<1>7. /\ SubSeq(more, n + 1, Len(more)) \in Seq(S)
      /\ Len(SubSeq(more, n + 1, Len(more))) = Len(lines) + 1 - n
      /\ \A i \in 1 .. Len(lines) + 1 - n : SubSeq(more, n + 1, Len(more))[i] = more[n + i]
  BY <1>2, <1>3
<1>8. /\ SubSeq(lines, n + 1, Len(lines)) \in Seq(S)
      /\ Len(SubSeq(lines, n + 1, Len(lines))) = Len(lines) - n
      /\ \A i \in 1 .. Len(lines) - n : SubSeq(lines, n + 1, Len(lines))[i] = lines[n + i]
  BY <1>2, <1>3
<1> DEFINE d == Len(lines) - n
           g == TextsOf(SubSeq(lines, n + 1, Len(lines)))
           h == TextsOf(SubSeq(more, n + 1, Len(more)))
<1>9. h = Append(g, line.text)
  <2>0. d \in Nat /\ Len(lines) + 1 - n = d + 1
    BY <1>2, <1>3
  <2>1. g = [i \in 1 .. d |-> lines[n + i].text]
    BY <1>8, <2>0 DEF TextsOf
  <2>2. h = [i \in 1 .. d + 1 |-> more[n + i].text]
    BY <1>7, <2>0 DEF TextsOf
  <2>3. g \in Seq({x.text : x \in S}) /\ Len(g) = d
    <3>1. \A i \in 1 .. d : lines[n + i] \in S
      BY <1>2, <1>3
    <3>2. \A i \in 1 .. d : lines[n + i].text \in {x.text : x \in S}
      BY <3>1
    <3> HIDE DEF d, g
    <3> QED
      BY <2>0, <2>1, <3>2
  <2>4. line.text = more[n + (d + 1)].text
    BY <1>2, <1>3
  <2>5. \A i \in 1 .. d : more[n + i].text = lines[n + i].text
    BY <1>2, <1>3
  <2> HIDE DEF d, g, h
  <2> QED
    BY <2>0, <2>1, <2>2, <2>3, <2>4, <2>5
<1>10. /\ Committed(more) = Committed(lines)
       /\ Gathering(more) = Append(Gathering(lines), line.text)
  BY <1>5, <1>6, <1>9 DEF Committed, Gathering, n, g, h
<1> QED
  BY <1>10 DEF more

\* A separator commits the frame in progress.
LEMMA SeparatorCommits ==
    ASSUME NEW S, NEW lines \in Seq(S), NEW line \in S, line.text = EndOfFrame
    PROVE  /\ Committed(Append(lines, line))
                 = Committed(lines) \o Gathering(lines) \o <<EndOfFrame>>
           /\ Gathering(Append(lines, line)) = <<>>
<1> DEFINE n == LastSeparator(lines)
           more == Append(lines, line)
<1>1. IsLastSeparator(n, lines)
  BY LastSeparatorIs
<1>2. /\ more \in Seq(S) /\ Len(more) = Len(lines) + 1 /\ more[Len(lines) + 1] = line
      /\ \A i \in 1 .. Len(lines) : more[i] = lines[i]
      /\ Len(lines) \in Nat
  OBVIOUS
<1> HIDE DEF n, more
<1>3. n \in 0 .. Len(lines)
  BY <1>1 DEF IsLastSeparator
<1>4. IsLastSeparator(Len(lines) + 1, more)
  BY <1>2 DEF IsLastSeparator
<1>5. LastSeparator(more) = Len(lines) + 1
  BY <1>2, <1>4, LastSeparatorUnique
<1>6. SubSeq(more, 1, Len(lines) + 1) = more
  BY <1>2
<1>7. SubSeq(more, (Len(lines) + 1) + 1, Len(more)) = <<>>
  BY <1>2
<1>8. Gathering(more) = <<>>
  <2>1. Gathering(more) = TextsOf(<<>>)
    BY <1>5, <1>7 DEF Gathering
  <2>2. TextsOf(<<>>) = [i \in {} |-> 0]
    BY DEF TextsOf
  <2> QED
    BY <2>1, <2>2
<1> DEFINE front == SubSeq(lines, 1, n)
           back == SubSeq(lines, n + 1, Len(lines))
<1>9. /\ Len(front) = n /\ \A i \in 1 .. n : front[i] = lines[i]
      /\ Len(back) = Len(lines) - n /\ \A i \in 1 .. Len(lines) - n : back[i] = lines[n + i]
  BY <1>2, <1>3
<1> HIDE DEF front, back
<1> DEFINE c == TextsOf(front)
           g == TextsOf(back)
<1>10. /\ c = [i \in 1 .. n |-> lines[i].text]
       /\ Len(c) = n /\ \A i \in 1 .. n : c[i] = lines[i].text
  BY <1>3, <1>9 DEF TextsOf
<1>11. /\ g = [i \in 1 .. Len(lines) - n |-> lines[n + i].text]
       /\ Len(g) = Len(lines) - n /\ \A i \in 1 .. Len(lines) - n : g[i] = lines[n + i].text
  <2>1. g = [i \in 1 .. Len(lines) - n |-> lines[n + i].text]
    BY <1>2, <1>3, <1>9 DEF TextsOf
  <2>2. Len(lines) - n \in Nat
    BY <1>2, <1>3
  <2> HIDE DEF g
  <2> QED
    BY <2>1, <2>2
<1> HIDE DEF c, g
<1> DEFINE all == c \o g \o <<EndOfFrame>>
<1> DEFINE X == {x.text : x \in S} \cup {EndOfFrame}
<1>12. /\ all \in Seq(X) /\ Len(all) = Len(lines) + 1
       /\ \A i \in 1 .. Len(lines) + 1 : all[i] = more[i].text
  <2>1. \A i \in 1 .. Len(lines) : lines[i].text \in X
    <3>1. \A i \in 1 .. Len(lines) : lines[i] \in S
      OBVIOUS
    <3> QED
      BY <3>1
  <2>2. EndOfFrame \in X
    OBVIOUS
  <2>3. c \in Seq(X) /\ g \in Seq(X)
    <3>1. (\A i \in 1 .. n : c[i] \in X) /\ (\A i \in 1 .. Len(lines) - n : g[i] \in X)
      BY <1>2, <1>3, <1>10, <1>11, <2>1
    <3>2. n \in Nat /\ Len(lines) - n \in Nat
      BY <1>2, <1>3
    <3> HIDE DEF X
    <3>3. c \in Seq(X)
      BY <1>10, <3>1, <3>2
    <3>4. g \in Seq(X)
      BY <1>11, <3>1, <3>2
    <3> QED
      BY <3>3, <3>4
  <2> HIDE DEF X
  <2>4. all \in Seq(X) /\ Len(all) = Len(lines) + 1
    BY <1>2, <1>3, <1>10, <1>11, <2>2, <2>3
  <2>5. more[Len(lines) + 1].text = EndOfFrame
    BY <1>2
  <2>6. \A i \in 1 .. Len(lines) + 1 : all[i] = IF i <= n THEN c[i]
                                               ELSE IF i <= Len(lines) THEN g[i - n]
                                               ELSE EndOfFrame
    BY <1>2, <1>3, <1>10, <1>11, <2>2, <2>3
  <2> HIDE DEF all
  <2>7. ASSUME NEW i \in 1 .. Len(lines) + 1 PROVE all[i] = more[i].text
    <3>1. CASE i <= n
      BY <1>2, <1>3, <1>10, <2>6, <3>1
    <3>2. CASE i > n /\ i <= Len(lines)
      <4>1. i - n \in 1 .. Len(lines) - n /\ n + (i - n) = i
        BY <1>2, <1>3, <3>2
      <4>2. g[i - n] = lines[i].text
        BY <1>11, <4>1
      <4> QED
        BY <1>2, <1>3, <2>6, <3>2, <4>2
    <3>3. CASE i = Len(lines) + 1
      BY <1>2, <1>3, <2>5, <2>6, <3>3
    <3> QED
      BY <1>2, <1>3, <3>1, <3>2, <3>3
  <2> QED
    BY <2>4, <2>7
<1>13. TextsOf(more) = all
  <2> HIDE DEF all
  <2> QED
    BY <1>2, <1>12 DEF TextsOf
<1>14. Committed(more) = c \o g \o <<EndOfFrame>>
  BY <1>5, <1>6, <1>13 DEF Committed
<1>15. c = Committed(lines) /\ g = Gathering(lines)
  BY DEF c, g, front, back, Committed, Gathering, n
<1> QED
  BY <1>8, <1>14, <1>15 DEF more

\* Losing entries behind the last separator loses measurements of the frame in
\* progress only, the newest ones.
LEMMA CutLosesGathered ==
    ASSUME NEW S, NEW lines \in Seq(S), NEW m \in 0 .. Len(lines),
           \A j \in m + 1 .. Len(lines) : lines[j].text # EndOfFrame
    PROVE  /\ Committed(SubSeq(lines, 1, m)) = Committed(lines)
           /\ \E k \in 0 .. Len(Gathering(lines)) :
                 Gathering(SubSeq(lines, 1, m)) = SubSeq(Gathering(lines), 1, k)
<1> DEFINE n == LastSeparator(lines)
           cut == SubSeq(lines, 1, m)
<1>1. IsLastSeparator(n, lines)
  BY LastSeparatorIs
<1>2. /\ cut \in Seq(S) /\ Len(cut) = m
      /\ \A i \in 1 .. m : cut[i] = lines[i]
      /\ Len(lines) \in Nat /\ m \in Nat /\ m <= Len(lines)
  OBVIOUS
<1> HIDE DEF n, cut
<1>3. n \in 0 .. Len(lines) /\ n <= m
  <2>1. n \in 0 .. Len(lines) /\ (n > 0 => lines[n].text = EndOfFrame)
    BY <1>1 DEF IsLastSeparator
  <2>2. n > m => n \in m + 1 .. Len(lines) /\ n > 0
    BY <1>2, <2>1
  <2> QED
    BY <1>2, <2>1, <2>2
<1>4. IsLastSeparator(n, cut)
  BY <1>1, <1>2, <1>3 DEF IsLastSeparator
<1>5. LastSeparator(cut) = n
  BY <1>2, <1>4, LastSeparatorUnique
<1>6. SubSeq(cut, 1, n) = SubSeq(lines, 1, n)
  BY <1>2, <1>3
<1>7. Committed(cut) = Committed(lines)
  BY <1>5, <1>6 DEF Committed, n
<1> DEFINE back == SubSeq(lines, n + 1, Len(lines))
           rest == SubSeq(cut, n + 1, Len(cut))
<1>8. /\ Len(back) = Len(lines) - n /\ \A i \in 1 .. Len(lines) - n : back[i] = lines[n + i]
      /\ Len(rest) = m - n /\ \A i \in 1 .. m - n : rest[i] = lines[n + i]
  BY <1>2, <1>3
<1> HIDE DEF back, rest
<1> DEFINE g == TextsOf(back)
<1>9. /\ g = [i \in 1 .. Len(lines) - n |-> lines[n + i].text]
      /\ TextsOf(rest) = [i \in 1 .. m - n |-> lines[n + i].text]
  BY <1>2, <1>3, <1>8 DEF TextsOf
<1>10. Len(g) = Len(lines) - n /\ m - n \in 0 .. Len(g)
  BY <1>2, <1>3, <1>9
<1>11. SubSeq(g, 1, m - n) = TextsOf(rest)
  BY <1>2, <1>3, <1>9
<1>12. Gathering(cut) = TextsOf(rest) /\ g = Gathering(lines)
  BY <1>5 DEF Gathering, rest, back, n
<1> HIDE DEF g
<1>13. Gathering(cut) = SubSeq(Gathering(lines), 1, m - n) /\ m - n \in 0 .. Len(Gathering(lines))
  BY <1>10, <1>11, <1>12
<1> QED
  BY <1>7, <1>13 DEF cut

-----------------------------------------------------------------------------
(* Every step of the profiler is a step of the journal or leaves it alone. *)

LEMMA ProfileLinesType ==
    ASSUME TypeOK
    PROVE  ProfileLines \in Seq(gLog!Lines)
<1>1. file \in Seq(gLog!Lines)
  BY DEF TypeOK, gLog!LogTypeOK
<1> QED
  BY <1>1, KeptSelects DEF ProfileLines

\* The journal's variables are the two halves of ProfileLines.
LEMMA JournalVariables ==
    /\ Journal!journalVars
          = <<Committed(ProfileLines), Gathering(ProfileLines), process = "running">>
    /\ Journal!JournalInit <=>
          /\ Committed(ProfileLines) = <<>>
          /\ Gathering(ProfileLines) = <<>>
          /\ (process = "running") = TRUE
    /\ \A text : Journal!Measure(text) <=>
          /\ process = "running"
          /\ Gathering(ProfileLines)' = Append(Gathering(ProfileLines), text)
          /\ Committed(ProfileLines)' = Committed(ProfileLines)
          /\ (process = "running")' = (process = "running")
    /\ Journal!CommitFrame <=>
          /\ process = "running"
          /\ Gathering(ProfileLines) # <<>>
          /\ Committed(ProfileLines)'
                = Committed(ProfileLines) \o Gathering(ProfileLines) \o <<EndOfFrame>>
          /\ Gathering(ProfileLines)' = <<>>
          /\ (process = "running")' = (process = "running")
    /\ Journal!Stop <=>
          /\ process = "running"
          /\ (process = "running")' = FALSE
          /\ \E n \in 0 .. Len(Gathering(ProfileLines)) :
                Gathering(ProfileLines)' = SubSeq(Gathering(ProfileLines), 1, n)
          /\ Committed(ProfileLines)' = Committed(ProfileLines)
BY DEF Journal!journalVars, Journal!JournalInit, Journal!Measure, Journal!CommitFrame,
       Journal!Stop, Committed, Gathering

LEMMA JournalUnchanged ==
    ASSUME UNCHANGED process,
           Committed(ProfileLines)' = Committed(ProfileLines),
           Gathering(ProfileLines)' = Gathering(ProfileLines)
    PROVE  UNCHANGED Journal!journalVars
BY DEF Journal!journalVars, Committed, Gathering

\* A step that leaves the file and the process alone.
LEMMA QuietJournal ==
    ASSUME UNCHANGED <<file, process>>
    PROVE  UNCHANGED Journal!journalVars
<1>1. ProfileLines' = ProfileLines
  BY DEF ProfileLines
<1>2. /\ Committed(ProfileLines)' = Committed(ProfileLines)
      /\ Gathering(ProfileLines)' = Gathering(ProfileLines)
  BY <1>1 DEF Committed, Gathering
<1> QED
  BY <1>2, JournalUnchanged

\* What a frame has gathered when the log's last line is a measurement.
LEMMA SomethingGathered ==
    ASSUME TypeOK, LastIsMeasurement
    PROVE  Gathering(ProfileLines) # <<>>
<1> DEFINE d == Len(file) - 1
           front == SubSeq(file, 1, d)
           last == file[Len(file)]
<1>1. file \in Seq(gLog!Lines) /\ Len(file) > 0 /\ last.text \in Scripts
  BY DEF TypeOK, gLog!LogTypeOK, LastIsMeasurement, IsMeasurement
<1>2. front \in Seq(gLog!Lines) /\ last \in gLog!Lines /\ file = Append(front, last)
  BY <1>1
<1>3. last \in JournalLines /\ last.text # EndOfFrame
  BY <1>1, <1>2, TextsAssumption DEF JournalLines
<1> HIDE DEF front, last
<1>4. Kept(front, JournalLines) \in Seq(gLog!Lines)
  BY <1>2, KeptSelects
<1>5. ProfileLines = Append(Kept(front, JournalLines), last)
  <2>1. Kept(Append(front, last), JournalLines)
           = IF last \in JournalLines THEN Append(Kept(front, JournalLines), last)
                                      ELSE Kept(front, JournalLines)
    BY <1>2, KeptOfAppend
  <2> QED
    BY <1>2, <1>3, <2>1 DEF ProfileLines
<1>6. Gathering(ProfileLines) = Append(Gathering(Kept(front, JournalLines)), last.text)
  BY <1>2, <1>3, <1>4, <1>5, MeasurementGathers
<1> DEFINE k == Kept(front, JournalLines)
<1>7. Gathering(k) \in Seq({x.text : x \in gLog!Lines})
  <2>1. LastSeparator(k) \in 0 .. Len(k)
    BY <1>4, LastSeparatorIs DEF IsLastSeparator
  <2> DEFINE back == SubSeq(k, LastSeparator(k) + 1, Len(k))
  <2>2. back \in Seq(gLog!Lines)
    <3> HIDE DEF k
    <3> QED
      BY <1>4, <2>1 DEF k
  <2>3. TextsOf(back) \in Seq({x.text : x \in gLog!Lines})
    <3> HIDE DEF back
    <3>1. \A i \in 1 .. Len(back) : back[i].text \in {x.text : x \in gLog!Lines}
      BY <2>2
    <3> DEFINE X == {x.text : x \in gLog!Lines}
    <3> HIDE DEF X
    <3>2. Len(back) \in Nat /\ \A i \in 1 .. Len(back) : back[i].text \in X
      BY <2>2, <3>1 DEF X
    <3>3. TextsOf(back) \in Seq(X)
      BY <3>2 DEF TextsOf
    <3> QED
      BY <3>3 DEF X
  <2> QED
    BY <2>3 DEF Gathering
<1>8. Append(Gathering(k), last.text) # <<>>
  <2> HIDE DEF k
  <2> QED
    BY <1>7
<1> QED
  BY <1>6, <1>8

\* A message is a measurement, a separator that closes a frame, or nothing to
\* the journal: a line it does not hold, or a log that could not be opened.
LEMMA MessageIsJournalStep ==
    ASSUME TypeOK, PlainLog, indentLevel = 0, NEW text \in LogTexts,
           gLog!Log(gLog!kLevel_Message, text),
           text = EndOfFrame /\ logFile => LastIsMeasurement
    PROVE  Journal!JournalNext \/ UNCHANGED Journal!journalVars
<1> DEFINE line == [source |-> "none", column |-> 0, text |-> text]
<1>1. /\ UNCHANGED process /\ process = "running"
      /\ logFile => file' = Append(file, line)
      /\ ~logFile => UNCHANGED file
  BY LogAppends
<1>2. line.text = text /\ line \in gLog!Lines
  BY DEF gLog!Lines
<1> HIDE DEF line
<1>3. CASE ~logFile
  BY <1>1, <1>3, QuietJournal
<1>4. CASE logFile
  <2>1. file \in Seq(gLog!Lines) /\ ProfileLines \in Seq(gLog!Lines)
    BY ProfileLinesType DEF TypeOK, gLog!LogTypeOK
  <2>2. file' = Append(file, line)
    BY <1>1, <1>4
  <2>3. Kept(Append(file, line), JournalLines)
           = IF line \in JournalLines THEN Append(ProfileLines, line) ELSE ProfileLines
    BY <1>2, <2>1, KeptOfAppend DEF ProfileLines
  <2>4. ProfileLines'
           = IF line \in JournalLines THEN Append(ProfileLines, line) ELSE ProfileLines
    BY <2>2, <2>3 DEF ProfileLines
  <2>5. Committed(ProfileLines)' = Committed(ProfileLines')
    BY DEF Committed
  <2>6. Gathering(ProfileLines)' = Gathering(ProfileLines')
    BY DEF Gathering
  <2>7. CASE text \in Scripts
    <3>1. line \in JournalLines /\ line.text # EndOfFrame
      BY <1>2, <2>7, TextsAssumption DEF JournalLines
    <3>2. /\ Committed(ProfileLines)' = Committed(ProfileLines)
          /\ Gathering(ProfileLines)' = Append(Gathering(ProfileLines), text)
      BY <1>2, <2>1, <2>4, <2>5, <2>6, <3>1, MeasurementGathers
    <3>3. Journal!Measure(text)
      BY <1>1, <3>2, JournalVariables
    <3> QED
      BY <2>7, <3>3 DEF Journal!JournalNext
  <2>8. CASE text = EndOfFrame
    <3>1. line \in JournalLines /\ line.text = EndOfFrame
      BY <1>2, <2>8 DEF JournalLines
    <3>2. /\ Committed(ProfileLines)'
                = Committed(ProfileLines) \o Gathering(ProfileLines) \o <<EndOfFrame>>
          /\ Gathering(ProfileLines)' = <<>>
      BY <1>2, <2>1, <2>4, <2>5, <2>6, <3>1, SeparatorCommits
    <3>3. Gathering(ProfileLines) # <<>>
      BY <1>4, <2>8, SomethingGathered
    <3>4. Journal!CommitFrame
      BY <1>1, <3>2, <3>3, JournalVariables
    <3> QED
      BY <3>4 DEF Journal!JournalNext
  <2>9. CASE text \notin Scripts /\ text # EndOfFrame
    <3>1. line \notin JournalLines
      BY <1>2, <2>9 DEF JournalLines
    <3>2. ProfileLines' = ProfileLines
      BY <2>4, <3>1
    <3>3. /\ Committed(ProfileLines)' = Committed(ProfileLines)
          /\ Gathering(ProfileLines)' = Gathering(ProfileLines)
      BY <2>5, <2>6, <3>2
    <3> QED
      BY <1>1, <3>3, JournalUnchanged
  <2> QED
    BY <2>7, <2>8, <2>9
<1> QED
  BY <1>3, <1>4

\* The log's own steps: spilling shows the journal nothing, the end of the
\* process stops it, and a crash takes measurements of the frame in progress
\* only, because every separator is on disk.
LEMMA RuntimeIsJournalStep ==
    ASSUME IInv, LogRuntime
    PROVE  Journal!JournalNext \/ UNCHANGED Journal!journalVars
<1>1. /\ file \in Seq(gLog!Lines) /\ durable \in 0 .. Len(file) /\ FramesDurable
      /\ ProfileLines \in Seq(gLog!Lines)
  BY ProfileLinesType DEF IInv, TypeOK, gLog!LogTypeOK, FrameInv
<1> DEFINE P == ProfileLines
<1>2. ASSUME NEW m \in 0 .. Len(P), \A j \in m + 1 .. Len(P) : P[j].text # EndOfFrame,
             process = "running", process' # "running", ProfileLines' = SubSeq(P, 1, m)
      PROVE  Journal!JournalNext
  <2>1. Committed(SubSeq(P, 1, m)) = Committed(P)
    BY <1>1, <1>2, CutLosesGathered
  <2>2. \E k \in 0 .. Len(Gathering(P)) :
           Gathering(SubSeq(P, 1, m)) = SubSeq(Gathering(P), 1, k)
    BY <1>1, <1>2, CutLosesGathered
  <2>3. Committed(ProfileLines)' = Committed(P)
    BY <1>2, <2>1 DEF Committed
  <2>4. Gathering(ProfileLines)' = Gathering(SubSeq(P, 1, m))
    BY <1>2 DEF Gathering
  <2>5. Journal!Stop
    BY <1>2, <2>2, <2>3, <2>4, JournalVariables
  <2> QED
    BY <2>5 DEF Journal!JournalNext
<1>3. CASE gLog!Spill
  BY <1>3, QuietJournal DEF gLog!Spill
<1>4. CASE gLog!Close
  <2>1. process = "running" /\ process' = "exited" /\ UNCHANGED file
    BY <1>4 DEF gLog!Close
  <2>2. ProfileLines' = P
    BY <2>1 DEF ProfileLines
  <2>3. P = SubSeq(P, 1, Len(P)) /\ Len(P) \in 0 .. Len(P) /\ Len(P) \in Nat
    <3> HIDE DEF P
    <3> QED
      BY <1>1 DEF P
  <2>4. /\ \A j \in Len(P) + 1 .. Len(P) : P[j].text # EndOfFrame
        /\ process' # "running" /\ ProfileLines' = SubSeq(P, 1, Len(P))
    <3> HIDE DEF P
    <3> QED
      BY <2>1, <2>2, <2>3
  <2> HIDE DEF P
  <2> QED
    BY <1>2, <2>1, <2>3, <2>4
<1>5. CASE gLog!Crash
  <2>1. process = "running" /\ process' = "crashed" /\ file' = SubSeq(file, 1, durable)
    BY <1>5 DEF gLog!Crash
  <2> DEFINE left == Kept(SubSeq(file, 1, durable), JournalLines)
             whole == Kept(file, JournalLines)
             m == Len(left)
  <2>2. /\ m \in 0 .. Len(whole)
        /\ left = SubSeq(whole, 1, m)
        /\ \A j \in m + 1 .. Len(whole) :
              \E i \in durable + 1 .. Len(file) : whole[j] = file[i]
    BY <1>1, KeptOfPrefixIsPrefix
  <2> HIDE DEF m
  <2>3. /\ m \in 0 .. Len(P)
        /\ left = SubSeq(P, 1, m)
        /\ \A j \in m + 1 .. Len(P) : \E i \in durable + 1 .. Len(file) : P[j] = file[i]
    BY <2>2 DEF ProfileLines
  <2>4. \A i \in durable + 1 .. Len(file) : file[i].text # EndOfFrame
    BY <1>1 DEF FramesDurable, IsSeparator
  <2>5. \A j \in m + 1 .. Len(P) : P[j].text # EndOfFrame
    <3> HIDE DEF P
    <3> QED
      BY <2>3, <2>4
  <2>6. ProfileLines' = SubSeq(P, 1, m)
    BY <2>1, <2>3 DEF ProfileLines
  <2> HIDE DEF P
  <2> QED
    BY <1>2, <2>1, <2>3, <2>5, <2>6
<1> QED
  BY <1>3, <1>4, <1>5 DEF LogRuntime

LEMMA StepIsJournalStep ==
    ASSUME IInv, [Next]_vars
    PROVE  Journal!JournalNext \/ UNCHANGED Journal!journalVars
<1>1. TypeOK /\ PlainLog /\ OnlyMainPasses /\ BufferHeld /\ FlagInv
  BY DEF IInv, FrameInv
<1>2. CASE Load
  <2>1. ASSUME NEW from \in {"banner", "initialized", "header"}, NEW to,
               NEW text \in {Banner, Initialized, Header},
               LoadStep(from, to, LoadMessage(text))
        PROVE  Journal!JournalNext \/ UNCHANGED Journal!journalVars
    <3>1. /\ gLog!Log(gLog!kLevel_Message, text) /\ indentLevel = 0
          /\ text \in LogTexts /\ text # EndOfFrame
      BY <1>1, <2>1, TextsAssumption DEF LoadStep, LoadMessage, PlainLog, LogTexts
    <3> QED
      BY <1>1, <3>1, MessageIsJournalStep
  <2>2. CASE \/ LoadStep("indent", "flushOff", gLog!Indent /\ UNCHANGED formatBuf)
             \/ LoadStep("flushOff", "outdent",
                         gLog!SetAutoFlush(FALSE) /\ UNCHANGED formatBuf)
             \/ LoadStep("outdent", "initialized", gLog!Outdent /\ UNCHANGED formatBuf)
             \/ HandleIniOptions
             \/ InstallHooks
    <3>1. UNCHANGED <<file, process>>
      BY <2>2 DEF LoadStep, gLog!Indent, gLog!Outdent, gLog!SetIndent, gLog!SetAutoFlush,
                  HandleIniOptions, InstallHooks, logVars
    <3> QED
      BY <3>1, QuietJournal
  <2> QED
    BY <1>2, <2>1, <2>2 DEF Load
<1>3. ASSUME NEW t \in Threads, HookStep(t) \/ \E r \in Runs : ScriptReturns(t, r)
      PROVE  Journal!JournalNext \/ UNCHANGED Journal!journalVars
  <2>1. CASE WriteRun(t)
    <3>1. t = Main /\ frame \in {"between", "scripts"}
      BY <1>1, <2>1 DEF WriteRun, OnlyMainPasses, Threads
    <3>2. formatBuf = run[Main].script /\ run[Main].script \in Scripts
      BY <1>1, <2>1, <3>1 DEF WriteRun, BufferHeld, TypeOK, Threads, Runs
    <3>3. /\ gLog!Log(gLog!kLevel_Message, formatBuf) /\ indentLevel = 0
          /\ formatBuf \in LogTexts /\ formatBuf # EndOfFrame
      BY <1>1, <2>1, <3>1, <3>2, TextsAssumption DEF WriteRun, PlainLog, LogTexts
    <3> QED
      BY <1>1, <3>3, MessageIsJournalStep
  <2>2. CASE TestRun(t) \/ FormatRun(t) \/ MarkFrame(t) \/ \E r \in Runs : ScriptReturns(t, r)
    <3>1. UNCHANGED <<file, process>>
      BY <2>2 DEF TestRun, FormatRun, MarkFrame, ScriptReturns, logVars
    <3> QED
      BY <3>1, QuietJournal
  <2> QED
    BY <1>3, <2>1, <2>2 DEF HookStep
<1>4. CASE StartFrame \/ ScriptsDone \/ EndFrame
  <2>1. CASE EndWrite
    <3>1. /\ frame = "endWrite" /\ pc[Main] = "idle" /\ process = "running"
          /\ formatBuf = EndOfFrame
          /\ gLog!Log(gLog!kLevel_Message, formatBuf)
      BY <1>1, <2>1 DEF EndWrite, FrameStep, BufferHeld
    <3>2. /\ indentLevel = 0 /\ EndOfFrame \in LogTexts
          /\ logFile => LastIsMeasurement
      BY <1>1, <3>1 DEF PlainLog, LogTexts, FlagInv
    <3> QED
      BY <1>1, <3>1, <3>2, MessageIsJournalStep
  <2>2. CASE \/ StartFrame \/ ScriptsDone \/ EndFlushOn \/ EndFormat \/ EndFlushOff
             \/ EndReset
    <3>1. UNCHANGED <<file, process>>
      BY <2>2 DEF StartFrame, ScriptsDone, EndFlushOn, EndFormat, EndFlushOff, EndReset,
                  gLog!SetAutoFlush, logVars
    <3> QED
      BY <3>1, QuietJournal
  <2> QED
    BY <1>4, <2>1, <2>2 DEF EndFrame
<1>5. CASE LogRuntime
  BY <1>5, RuntimeIsJournalStep
<1>6. CASE UNCHANGED vars
  <2>1. UNCHANGED <<file, process>>
    BY <1>6 DEF vars, logVars
  <2> QED
    BY <2>1, QuietJournal
<1> QED
  BY <1>2, <1>3, <1>4, <1>5, <1>6 DEF Next

\* A new log has nothing of the journal in it.
LEMMA InitIsJournalInit == Init => Journal!JournalInit
<1> SUFFICES ASSUME Init PROVE Journal!JournalInit
  OBVIOUS
<1>1. file = <<>> /\ process = "running"
  BY Zenon DEF Init, gLog!LogInit
<1>2. ProfileLines = <<>>
  <2>1. file \in Seq(gLog!Lines) /\ Len(file) = 0
    BY <1>1
  <2>2. ProfileLines \in Seq(gLog!Lines) /\ Len(ProfileLines) <= 0
    BY <2>1, KeptSelects DEF ProfileLines
  <2> HIDE DEF ProfileLines
  <2> QED
    BY <2>2
<1>3. IsLastSeparator(LastSeparator(ProfileLines), ProfileLines)
  <2>1. ProfileLines \in Seq(gLog!Lines)
    BY <1>2
  <2> QED
    BY <2>1, LastSeparatorIs
<1>4. LastSeparator(ProfileLines) = 0
  BY <1>2, <1>3 DEF IsLastSeparator
<1>5. TextsOf(<<>>) = <<>>
  <2>1. TextsOf(<<>>) = [i \in {} |-> 0]
    BY DEF TextsOf
  <2> QED
    BY <2>1
<1>6. Committed(ProfileLines) = <<>> /\ Gathering(ProfileLines) = <<>>
  <2>1. /\ Committed(ProfileLines) = TextsOf(SubSeq(<<>>, 1, 0))
        /\ Gathering(ProfileLines) = TextsOf(SubSeq(<<>>, 0 + 1, Len(<<>>)))
    BY <1>2, <1>4 DEF Committed, Gathering
  <2>2. SubSeq(<<>>, 1, 0) = <<>> /\ SubSeq(<<>>, 0 + 1, Len(<<>>)) = <<>>
    OBVIOUS
  <2> QED
    BY <1>5, <2>1, <2>2
<1> QED
  BY <1>1, <1>6, JournalVariables

\* The profiler's log is a journal of frames: measurements are gathered and
\* committed frame by frame, nothing committed is ever lost, and the end of the
\* process costs at most the newest measurements of the frame in progress.
THEOREM ProfilerImplementsJournal == Spec => ImplementsJournal
<1>1. Init => Journal!JournalInit
  BY InitIsJournalInit
<1>2. IInv /\ [Next]_vars => [Journal!JournalNext]_(Journal!journalVars)
  BY StepIsJournalStep
<1> QED
  BY <1>1, <1>2, Invariance, PTL DEF Spec, ImplementsJournal, Journal!JournalSpec

-----------------------------------------------------------------------------
(* Only wanted runs are logged (OnlyWantedRuns).  A second invariant on    *)
(* top of IInv carries what the hook tested to the step that writes: the   *)
(* hotkey cannot change isModEnabled while the main thread is in the hook, *)
(* the settings do not change after loading, and what was tested is what   *)
(* is written.                                                             *)

WantedInv ==
    /\ pc[Main] # "idle" => isModEnabled = TRUE
    /\ pc[Main] \in {"passed", "formatted"} => run[Main].script \in WantedScripts

\* What a single step may do to the log.
OnlyWantedStep ==
    Len(file') > Len(file) /\ file'[Len(file')].text \in Scripts
        => isModEnabled /\ file'[Len(file')].text \in WantedScripts

-----------------------------------------------------------------------------

\* The tests of the hook, made one after the other, and the set of scripts the
\* ini file asks for agree.
LEMMA FiltersAreWanted ==
    ASSUME NEW script \in Scripts, PassesFilters(script)
    PROVE  script \in WantedScripts
BY DEF PassesFilters, WantedScripts

\* A step that leaves the main thread's hook and the settings alone keeps
\* WantedInv.
LEMMA HookKept ==
    ASSUME WantedInv, UNCHANGED <<settings, isModEnabled>>,
           pc'[Main] = pc[Main], run'[Main] = run[Main]
    PROVE  WantedInv'
BY DEF WantedInv, WantedScripts

\* A step that leaves the log's file alone logs nothing.
LEMMA FileKeptLogsNothing ==
    ASSUME TypeOK, UNCHANGED file
    PROVE  OnlyWantedStep
BY DEF OnlyWantedStep, TypeOK, gLog!LogTypeOK

\* A message appends at most its own line.
LEMMA MessageLogsText ==
    ASSUME TypeOK, PlainLog, indentLevel = 0, NEW text \in LogTexts,
           gLog!Log(gLog!kLevel_Message, text),
           Len(file') > Len(file)
    PROVE  file'[Len(file')].text = text
<1> DEFINE line == [source |-> "none", column |-> 0, text |-> text]
<1>1. file \in Seq(gLog!Lines) /\ logFile \in BOOLEAN
  BY DEF TypeOK, gLog!LogTypeOK
<1>2. line \in gLog!Lines /\ line.text = text
  BY DEF gLog!Lines
<1> HIDE DEF line
<1>3. /\ logFile => file' = Append(file, line)
      /\ ~logFile => UNCHANGED file
  BY LogAppends DEF line
<1>4. file' = Append(file, line)
  BY <1>1, <1>3
<1>5. Len(file') = Len(file) + 1 /\ file'[Len(file) + 1] = line
  BY <1>1, <1>2, <1>4
<1> QED
  BY <1>2, <1>5

-----------------------------------------------------------------------------
(* One lemma per part of Next. *)

LEMMA LoadLogsNoRun ==
    IInv /\ WantedInv /\ Load => WantedInv' /\ OnlyWantedStep
<1> SUFFICES ASSUME IInv, WantedInv, Load PROVE WantedInv' /\ OnlyWantedStep
  OBVIOUS
<1>1. /\ frame \in LoadFrames /\ UNCHANGED <<pc, run>>
      /\ pc[Main] = "idle" /\ TypeOK /\ PlainLog
  BY DEF IInv, OnlyMainPasses, Load, LoadStep, HandleIniOptions, InstallHooks,
         LoadFrames, hookVars
<1>2. WantedInv'
  BY <1>1 DEF WantedInv
<1>3. ASSUME NEW text \in {Banner, Initialized, Header}, LoadMessage(text),
             frame \in {"banner", "initialized", "header"}
      PROVE  OnlyWantedStep
  <2>1. text \in LogTexts /\ text \notin Scripts /\ indentLevel = 0
    BY <1>1, <1>3, TextsAssumption DEF LogTexts, PlainLog
  <2>2. Len(file') > Len(file) => file'[Len(file')].text = text
    BY <1>1, <1>3, <2>1, MessageLogsText DEF LoadMessage
  <2> QED
    BY <2>1, <2>2 DEF OnlyWantedStep
<1>4. \/ \E text \in {Banner, Initialized, Header} :
             LoadMessage(text) /\ frame \in {"banner", "initialized", "header"}
      \/ UNCHANGED file
  BY DEF Load, LoadStep, HandleIniOptions, InstallHooks, logVars, gLog!Indent,
         gLog!Outdent, gLog!SetIndent, gLog!SetAutoFlush
<1> QED
  BY <1>1, <1>2, <1>3, <1>4, FileKeptLogsNothing

LEMMA HookLogsWanted ==
    ASSUME IInv, WantedInv, NEW t \in Threads,
           (\E r \in Runs : ScriptReturns(t, r)) \/ HookStep(t)
    PROVE  WantedInv' /\ OnlyWantedStep
<1>1. /\ TypeOK /\ PlainLog /\ Main \in Threads
      /\ pc \in [Threads -> HookPoints] /\ run \in [Threads -> Runs]
  BY DEF IInv, TypeOK, Threads
<1>2. CASE \E r \in Runs : ScriptReturns(t, r)
  <2>1. PICK r \in Runs : ScriptReturns(t, r)
    BY <1>2
  <2>2. /\ pc[t] = "idle" /\ isModEnabled
        /\ run' = [run EXCEPT ![t] = r] /\ pc' = [pc EXCEPT ![t] = "enabled"]
        /\ UNCHANGED <<settings, isModEnabled, file>>
    BY <2>1 DEF ScriptReturns, MayRunScript, logVars, flagVars
  <2>3. WantedInv'
    <3>1. CASE t = Main
      BY <1>1, <2>2, <3>1 DEF WantedInv, TypeOK
    <3>2. CASE t # Main
      BY <1>1, <2>2, <3>2, HookKept
    <3> QED
      BY <3>1, <3>2
  <2> QED
    BY <1>1, <2>2, <2>3, FileKeptLogsNothing
<1>3. CASE TestRun(t)
  <2>1. /\ pc[t] = "enabled" /\ UNCHANGED <<run, settings, isModEnabled, file>>
        /\ pc' = [pc EXCEPT ![t] = IF PassesTests(t) THEN "passed" ELSE "idle"]
    BY <1>3 DEF TestRun, logVars, flagVars
  <2>2. run[t].script \in Scripts
    BY <1>1 DEF Runs
  <2>3. PassesTests(t) => run[t].script \in WantedScripts
    BY <2>2, FiltersAreWanted DEF PassesTests
  <2>4. WantedScripts' = WantedScripts
    BY <2>1 DEF WantedScripts
  <2>5. WantedInv'
    <3>1. CASE t = Main
      BY <1>1, <2>1, <2>3, <2>4, <3>1 DEF WantedInv
    <3>2. CASE t # Main
      BY <1>1, <2>1, <3>2, HookKept
    <3> QED
      BY <3>1, <3>2
  <2> QED
    BY <1>1, <2>1, <2>5, FileKeptLogsNothing
<1>4. CASE FormatRun(t)
  <2>1. /\ pc[t] = "passed" /\ UNCHANGED <<run, settings, isModEnabled, file>>
        /\ pc' = [pc EXCEPT ![t] = "formatted"]
    BY <1>4 DEF FormatRun, logVars, flagVars
  <2>2. WantedScripts' = WantedScripts
    BY <2>1 DEF WantedScripts
  <2>3. WantedInv'
    BY <1>1, <2>1, <2>2 DEF WantedInv
  <2> QED
    BY <1>1, <2>1, <2>3, FileKeptLogsNothing
<1>5. CASE WriteRun(t)
  <2>1. /\ pc[t] = "formatted" /\ gLog!Log(gLog!kLevel_Message, formatBuf)
        /\ UNCHANGED <<frame, run, settings, isModEnabled>>
        /\ pc' = [pc EXCEPT ![t] = "written"]
    BY <1>5 DEF WriteRun, flagVars
  <2>2. t = Main
    BY <2>1 DEF IInv, OnlyMainPasses, Threads
  <2>3. /\ formatBuf = run[Main].script /\ formatBuf \in Scripts
        /\ formatBuf \in LogTexts /\ indentLevel = 0
    BY <1>1, <2>1, <2>2
    DEF IInv, BufferHeld, OnlyMainPasses, PlainLog, Runs, LogTexts
  <2>4. isModEnabled /\ formatBuf \in WantedScripts
    BY <2>1, <2>2, <2>3 DEF WantedInv
  <2>5. Len(file') > Len(file) => file'[Len(file')].text = formatBuf
    BY <1>1, <2>1, <2>3, MessageLogsText
  <2>6. WantedInv'
    BY <1>1, <2>1, <2>2 DEF WantedInv
  <2> QED
    BY <2>4, <2>5, <2>6 DEF OnlyWantedStep
<1>6. CASE MarkFrame(t)
  <2>1. /\ pc[t] = "written" /\ UNCHANGED <<run, settings, isModEnabled, file>>
        /\ pc' = [pc EXCEPT ![t] = "idle"]
    BY <1>6 DEF MarkFrame, logVars
  <2>2. t = Main
    BY <2>1 DEF IInv, OnlyMainPasses, Threads
  <2>3. WantedInv'
    BY <1>1, <2>1, <2>2 DEF WantedInv
  <2> QED
    BY <1>1, <2>1, <2>3, FileKeptLogsNothing
<1> QED
  BY <1>2, <1>3, <1>4, <1>5, <1>6 DEF HookStep

\* The hotkey changes isModEnabled only between calls of the hook.
LEMMA FrameLogsNoRun ==
    IInv /\ WantedInv /\ (StartFrame \/ ScriptsDone \/ EndFrame)
        => WantedInv' /\ OnlyWantedStep
<1> SUFFICES ASSUME IInv, WantedInv, StartFrame \/ ScriptsDone \/ EndFrame
             PROVE  WantedInv' /\ OnlyWantedStep
  OBVIOUS
<1>1. pc[Main] = "idle" /\ UNCHANGED <<pc, run>> /\ TypeOK /\ PlainLog
  BY DEF IInv, StartFrame, ScriptsDone, EndFrame, EndFlushOn, EndFormat, EndWrite,
         EndFlushOff, EndReset, FrameStep, hookVars
<1>2. WantedInv'
  BY <1>1 DEF WantedInv
<1>3. CASE EndWrite
  <2>1. frame = "endWrite" /\ gLog!Log(gLog!kLevel_Message, formatBuf)
    BY <1>3 DEF EndWrite, FrameStep
  <2>2. formatBuf = EndOfFrame /\ formatBuf \in LogTexts /\ indentLevel = 0
    BY <2>1 DEF IInv, BufferHeld, PlainLog, LogTexts
  <2>3. Len(file') > Len(file) => file'[Len(file')].text = EndOfFrame
    BY <1>1, <2>1, <2>2, MessageLogsText
  <2>4. EndOfFrame \notin Scripts
    BY TextsAssumption
  <2> QED
    BY <1>2, <2>3, <2>4 DEF OnlyWantedStep
<1>4. ~EndWrite => UNCHANGED file
  BY DEF StartFrame, ScriptsDone, EndFrame, EndFlushOn, EndFormat, EndFlushOff,
         EndReset, logVars, gLog!SetAutoFlush
<1> QED
  BY <1>1, <1>2, <1>3, <1>4, FileKeptLogsNothing

LEMMA RuntimeLogsNothing ==
    IInv /\ WantedInv /\ LogRuntime => WantedInv' /\ OnlyWantedStep
<1> SUFFICES ASSUME IInv, WantedInv, LogRuntime PROVE WantedInv' /\ OnlyWantedStep
  OBVIOUS
<1>1. UNCHANGED <<pc, run, settings, isModEnabled>> /\ TypeOK
  BY DEF IInv, LogRuntime, hookVars, flagVars
<1>2. WantedInv'
  BY <1>1, HookKept
<1>3. UNCHANGED file \/ file' = SubSeq(file, 1, durable)
  BY DEF LogRuntime, gLog!Spill, gLog!Close, gLog!Crash
<1>4. ~(Len(file') > Len(file))
  BY <1>1, <1>3 DEF TypeOK, gLog!LogTypeOK
<1> QED
  BY <1>2, <1>4 DEF OnlyWantedStep

LEMMA WantedStep ==
    IInv /\ WantedInv /\ [Next]_vars => WantedInv' /\ OnlyWantedStep
<1>1. ASSUME IInv, WantedInv, UNCHANGED vars PROVE WantedInv' /\ OnlyWantedStep
  <2>1. UNCHANGED <<pc, run, settings, isModEnabled, file>>
    BY <1>1 DEF vars, hookVars, flagVars, logVars
  <2> QED
    BY <1>1, <2>1, HookKept, FileKeptLogsNothing DEF IInv
<1> QED
  BY <1>1, LoadLogsNoRun, HookLogsWanted, FrameLogsNoRun, RuntimeLogsNothing DEF Next

-----------------------------------------------------------------------------

\* Every line of a run is written while profiling is enabled and the ini file
\* lets the run through, although both were tested steps earlier.
THEOREM RunsAreWanted == Spec => OnlyWantedRuns
<1>1. Init => WantedInv
  BY DEF Init, WantedInv, Threads
<1>2. IInv /\ WantedInv /\ [Next]_vars => WantedInv' /\ OnlyWantedStep
  BY WantedStep
<1>3. OnlyWantedStep
        => [Len(file') > Len(file) /\ file'[Len(file')].text \in Scripts
              => isModEnabled /\ file'[Len(file')].text \in WantedScripts]_vars
  BY DEF OnlyWantedStep
<1> QED
  BY <1>1, <1>2, <1>3, Invariance, PTL DEF Spec, OnlyWantedRuns

=============================================================================

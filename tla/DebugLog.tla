------------------------------ MODULE DebugLog ------------------------------
(***************************************************************************)
(* IDebugLog (common/IDebugLog.cpp): the text log every module of the      *)
(* plugin writes through.  All of its state is static, so there is one log *)
(* per process.  A log line is modelled by what a reader of the file sees  *)
(* of it: the source printed in front of it, the column its text starts in *)
(* and the text.  `pen' is the line being written: cursorPos, which the    *)
(* code maintains, next to the column the file itself has reached.         *)
(***************************************************************************)
EXTENDS Integers, Sequences

CONSTANTS Texts,       \* what callers may log
          Sources,     \* message sources of SetSource
          NoSource,    \* the empty headerText / sourceBuf
          MaxLines,    \* bound: lines in the file
          MaxIndent,   \* bound: indentLevel
          MaxCursor    \* bound: cursorPos of an unfinished line

ASSUME SourcesAssumption == NoSource \notin Sources
ASSUME LogBoundsAssumption ==
    MaxLines \in Nat /\ MaxIndent \in Nat /\ MaxCursor \in Nat

VARIABLES process,     \* "running", "exited" or "crashed"
          logFile,     \* TRUE when Open got a FILE*, FALSE when all six names failed
          file,        \* the finished lines, as the C runtime has them
          durable,     \* how many of them have reached the operating system
          pen,         \* the unfinished line: [cursor, column, source]
          autoFlush, indentLevel, inBlock, headerText, sourceBuf, logLevel

layoutVars == <<indentLevel, inBlock, headerText, sourceBuf>>
logVars == <<process, logFile, file, durable, pen, autoFlush, layoutVars, logLevel>>

\* enum LogLevel, from kLevel_FatalError to kLevel_DebugMessage
LogLevels == 0 .. 5
kLevel_Message == 3

LineStart == [cursor |-> 0, column |-> 0, source |-> NoSource]

Pens == [cursor : Nat, column : Nat, source : Sources \cup {NoSource}]
Lines == [source : Sources \cup {NoSource}, column : Nat, text : Texts]

LogTypeOK ==
    /\ process \in {"running", "exited", "crashed"}
    /\ logFile \in BOOLEAN
    /\ file \in Seq(Lines)
    /\ durable \in 0 .. Len(file)
    /\ pen \in Pens
    /\ autoFlush \in BOOLEAN
    /\ indentLevel \in Nat
    /\ inBlock \in BOOLEAN
    /\ headerText \in Sources \cup {NoSource}
    /\ sourceBuf \in Sources \cup {NoSource}
    /\ logLevel \in LogLevels

\* Static initialisation, and the constructor's Open(path).
LogInit ==
    /\ process = "running"
    /\ logFile \in BOOLEAN
    /\ file = <<>>
    /\ durable = 0
    /\ pen = LineStart
    /\ autoFlush = TRUE
    /\ indentLevel = 0
    /\ inBlock = FALSE
    /\ headerText = NoSource
    /\ sourceBuf = NoSource
    /\ logLevel = 5

-----------------------------------------------------------------------------
(* Columns.  ((~c) & 3) + 1 is the distance to the next multiple of 4. *)

TabSize(c) == 4 - (c % 4)

RoundToTab(n) == ((n + 3) \div 4) * 4

\* What the file's column becomes after `tabs' tab characters and `rest' spaces.
AfterTabs(c, tabs, rest) ==
    IF tabs = 0 THEN c + rest ELSE ((c \div 4) + tabs) * 4 + rest

\* PrintSpaces: cursorPos changes only after the loop, so every turn of the
\* loop takes the same TabSize, the one of the column the loop started in.
PrintSpaces(p, n) ==
    LET tab == TabSize(p.cursor)
    IN  [p EXCEPT !.cursor = @ + n,
                  !.column = IF logFile THEN AfterTabs(@, n \div tab, n % tab)
                                        ELSE @]

SeekCursor(p, position) ==
    IF position > p.cursor THEN PrintSpaces(p, position - p.cursor) ELSE p

\* strlen(headerText): "", or "[        ]\t" with the source written into it.
HeaderLength(h) == IF h = NoSource THEN 0 ELSE 11

\* Mutant: the header's tab counts as one column.
PrintHeaderCountingTabAsOne(p, h) ==
    IF h = NoSource THEN p
    ELSE [cursor |-> p.cursor + HeaderLength(h),
          column |-> IF logFile THEN AfterTabs(p.column + 10, 1, 0) ELSE p.column,
          source |-> h]

\* PrintText(headerText): ten characters and a tab.
PrintHeader(p, h) ==
    IF h = NoSource THEN p
    ELSE [cursor |-> p.cursor + 10 + TabSize(p.cursor + 10),
          column |-> IF logFile THEN AfterTabs(p.column + 10, 1, 0) ELSE p.column,
          source |-> h]

-----------------------------------------------------------------------------
(* What an operation does to the file: flushing, and finishing a line. *)

Flushed(lines) == IF autoFlush THEN Len(lines) ELSE durable

\* The lines the file holds once `line' is finished, and what of it is durable.
WriteLine(line) ==
    IF logFile
    THEN /\ Len(file) < MaxLines
         /\ file' = Append(file, line)
         /\ durable' = Flushed(file')
    ELSE UNCHANGED <<file, durable>>

\* Mutant: the text in a block is not rounded to a tab stop.
MessagePenUnrounded(h) ==
    IF inBlock
    THEN SeekCursor(pen, indentLevel * 4 + HeaderLength(h))
    ELSE PrintHeader(SeekCursor(pen, indentLevel * 4), h)

\* Where the text of the next message goes, for a given header.
MessagePen(h) ==
    IF inBlock
    THEN SeekCursor(pen, RoundToTab(indentLevel * 4 + HeaderLength(h)))
    ELSE PrintHeader(SeekCursor(pen, indentLevel * 4), h)

MessageAs(h, text) ==
    LET p == MessagePen(h)
    IN  /\ WriteLine([source |-> p.source, column |-> p.column, text |-> text])
        /\ pen' = LineStart

-----------------------------------------------------------------------------
(* The operations. *)

Message(text) ==
    /\ process = "running"
    /\ MessageAs(headerText, text)
    /\ UNCHANGED <<process, logFile, autoFlush, layoutVars, logLevel>>

\* Message with a source: SetSource first.
MessageFrom(text, source) ==
    /\ process = "running"
    /\ headerText' = source
    /\ sourceBuf' = source
    /\ MessageAs(source, text)
    /\ UNCHANGED <<process, logFile, autoFlush, indentLevel, inBlock, logLevel>>

\* Log, of a level logLevel lets through (a level it does not let through
\* leaves the log as it is).
Log(level, text) ==
    /\ level <= logLevel
    /\ Message(text)

SetSource(source) ==
    /\ process = "running"
    /\ headerText' = source
    /\ sourceBuf' = source
    /\ UNCHANGED <<process, logFile, file, durable, pen, autoFlush, indentLevel,
                   inBlock, logLevel>>

\* Only sourceBuf: the header printed in front of messages stays.
ClearSource ==
    /\ process = "running"
    /\ sourceBuf' = NoSource
    /\ UNCHANGED <<process, logFile, file, durable, pen, autoFlush, indentLevel,
                   inBlock, headerText, logLevel>>

SetIndent(n) ==
    /\ process = "running"
    /\ indentLevel' = n
    /\ UNCHANGED <<process, logFile, file, durable, pen, autoFlush, inBlock,
                   headerText, sourceBuf, logLevel>>

Indent == indentLevel < MaxIndent /\ SetIndent(indentLevel + 1)

\* Mutant: Outdent without the test for zero.
OutdentUnchecked == SetIndent(indentLevel - 1)

Outdent == SetIndent(IF indentLevel > 0 THEN indentLevel - 1 ELSE 0)

OpenBlock ==
    LET p == PrintHeader(SeekCursor(pen, indentLevel * 4), headerText)
    IN  /\ process = "running"
        /\ p.cursor <= MaxCursor
        /\ pen' = p
        /\ inBlock' = TRUE
        /\ durable' = IF logFile THEN Flushed(file) ELSE durable
        /\ UNCHANGED <<process, logFile, file, autoFlush, indentLevel, headerText,
                       sourceBuf, logLevel>>

CloseBlock ==
    /\ process = "running"
    /\ inBlock' = FALSE
    /\ UNCHANGED <<process, logFile, file, durable, pen, autoFlush, indentLevel,
                   headerText, sourceBuf, logLevel>>

SetAutoFlush(inAutoFlush) ==
    /\ process = "running"
    /\ autoFlush' = inAutoFlush
    /\ UNCHANGED <<process, logFile, file, durable, pen, layoutVars, logLevel>>

SetLogLevel(level) ==
    /\ process = "running"
    /\ logLevel' = level
    /\ UNCHANGED <<process, logFile, file, durable, pen, autoFlush, layoutVars>>

\* The C runtime writes its buffer out whenever it likes.
Spill ==
    /\ process = "running"
    /\ durable < Len(file)
    /\ durable' = durable + 1
    /\ UNCHANGED <<process, logFile, file, pen, autoFlush, layoutVars, logLevel>>

\* ~IDebugLog: fclose writes out what is buffered.
Close ==
    /\ process = "running"
    /\ process' = "exited"
    /\ durable' = Len(file)
    /\ UNCHANGED <<logFile, file, pen, autoFlush, layoutVars, logLevel>>

\* The game dies: the file on disk is what had been handed to the system.
Crash ==
    /\ process = "running"
    /\ process' = "crashed"
    /\ file' = SubSeq(file, 1, durable)
    /\ UNCHANGED <<logFile, durable, pen, autoFlush, layoutVars, logLevel>>

LogNext ==
    \/ \E level \in LogLevels, text \in Texts : Log(level, text)
    \/ \E text \in Texts, source \in Sources : MessageFrom(text, source)
    \/ \E source \in Sources : SetSource(source)
    \/ ClearSource
    \/ Indent
    \/ Outdent
    \/ OpenBlock
    \/ CloseBlock
    \/ \E flush \in BOOLEAN : SetAutoFlush(flush)
    \/ \E level \in LogLevels : SetLogLevel(level)
    \/ Spill
    \/ Close
    \/ Crash

LogSpec == LogInit /\ [][LogNext]_logVars

-----------------------------------------------------------------------------
(* Properties. *)

\* cursorPos, which TabSize and SeekCursor compute with, is the column the
\* file has really reached: otherwise every later line would be misaligned.
CursorMatchesColumn == logFile => pen.cursor = pen.column

\* The text of every line starts at a tab stop, whatever sequence of blocks,
\* sources and indentations preceded it (PrintSpaces and the header's own tab).
TextAtTabStop == \A i \in 1 .. Len(file) : file[i].column % 4 = 0

\* What both rest on: between operations the pen stands at a tab stop.
PenAtTabStop == pen.cursor % 4 = 0

LogInv == CursorMatchesColumn /\ TextAtTabStop /\ PenAtTabStop

=============================================================================

--------------------------- MODULE DebugLogProofs ---------------------------
(***************************************************************************)
(* Proofs about DebugLog, for every set of texts and sources and all       *)
(* bounds.  Between operations the pen stands at a tab stop, so PrintSpaces *)
(* always divides by a tab of four columns and its stale cursorPos does no *)
(* harm; that is what makes the layout properties inductive.               *)
(***************************************************************************)
EXTENDS DebugLog, TLAPS

\* A pen between operations: at a tab stop, and where the file is.
Settled(p) ==
    /\ p \in Pens
    /\ p.cursor % 4 = 0
    /\ logFile => p.cursor = p.column

LogIInv == LogTypeOK /\ LogInv

-----------------------------------------------------------------------------

\* Arithmetic of tab stops.
LEMMA TabAtStop ==
    ASSUME NEW c \in Nat, c % 4 = 0
    PROVE  TabSize(c) = 4
BY DEF TabSize

LEMMA TabAfterHeaderText ==
    ASSUME NEW c \in Nat, c % 4 = 0
    PROVE  TabSize(c + 10) = 2
BY DEF TabSize

LEMMA AfterTabsFromStop ==
    ASSUME NEW c \in Nat, NEW n \in Nat, c % 4 = 0
    PROVE  AfterTabs(c, n \div 4, n % 4) = c + n
BY DEF AfterTabs

LEMMA AfterTabsType ==
    ASSUME NEW c \in Nat, NEW tabs \in Nat, NEW rest \in Nat
    PROVE  AfterTabs(c, tabs, rest) \in Nat
BY DEF AfterTabs

LEMMA AfterHeader ==
    ASSUME NEW c \in Nat, c % 4 = 0
    PROVE  AfterTabs(c + 10, 1, 0) = c + 12
BY DEF AfterTabs

\* Seeking from a settled pen to a tab stop leaves it settled.
LEMMA SeekSettles ==
    ASSUME NEW p, NEW position \in Nat, Settled(p), position % 4 = 0,
           logFile \in BOOLEAN
    PROVE  Settled(SeekCursor(p, position))
<1>1. CASE position <= p.cursor
  BY <1>1 DEF SeekCursor, Settled, Pens
<1>2. CASE position > p.cursor
  <2> DEFINE n == position - p.cursor
  <2>1. p.cursor \in Nat /\ p.column \in Nat /\ p.cursor % 4 = 0 /\ p.source \in Sources \cup {NoSource}
    BY DEF Settled, Pens
  <2>2. n \in Nat /\ p.cursor + n = position
    BY <1>2, <2>1
  <2>3. n \div 4 \in Nat /\ n % 4 \in Nat
    BY <2>2
  <2> HIDE DEF n
  <2>4. TabSize(p.cursor) = 4
    BY <2>1, TabAtStop
  <2>5. p = [cursor |-> p.cursor, column |-> p.column, source |-> p.source]
    BY DEF Settled, Pens
  <2>6. SeekCursor(p, position) =
          [cursor |-> position,
           column |-> IF logFile THEN AfterTabs(p.column, n \div 4, n % 4)
                                 ELSE p.column,
           source |-> p.source]
    BY <1>2, <2>2, <2>4, <2>5 DEF SeekCursor, PrintSpaces, n
  <2>7. AfterTabs(p.column, n \div 4, n % 4) \in Nat
    BY <2>1, <2>3, AfterTabsType
  <2>8. logFile => AfterTabs(p.column, n \div 4, n % 4) = position
    BY <2>1, <2>2, AfterTabsFromStop DEF Settled
  <2> QED
    BY <2>1, <2>6, <2>7, <2>8 DEF Settled, Pens
<1> QED
  BY <1>1, <1>2 DEF Settled, Pens

\* The header, ten characters and a tab, takes a settled pen to a tab stop.
LEMMA HeaderSettles ==
    ASSUME NEW p, NEW h \in Sources \cup {NoSource}, Settled(p), logFile \in BOOLEAN
    PROVE  Settled(PrintHeader(p, h))
<1>1. CASE h = NoSource
  BY <1>1 DEF PrintHeader
<1>2. CASE h # NoSource
  <2>1. p.cursor \in Nat /\ p.column \in Nat /\ p.cursor % 4 = 0
    BY DEF Settled, Pens
  <2>2. TabSize(p.cursor + 10) = 2
    BY <2>1, TabAfterHeaderText
  <2>3. PrintHeader(p, h) =
          [cursor |-> p.cursor + 12,
           column |-> IF logFile THEN AfterTabs(p.column + 10, 1, 0) ELSE p.column,
           source |-> h]
    BY <1>2, <2>1, <2>2 DEF PrintHeader
  <2>4. AfterTabs(p.column + 10, 1, 0) \in Nat
    BY <2>1 DEF AfterTabs
  <2>5. logFile => AfterTabs(p.column + 10, 1, 0) = p.cursor + 12
    BY <2>1, AfterHeader DEF Settled
  <2>6. (p.cursor + 12) % 4 = 0 /\ p.cursor + 12 \in Nat
    BY <2>1
  <2> QED
    BY <2>1, <2>3, <2>4, <2>5, <2>6 DEF Settled, Pens
<1> QED
  BY <1>1, <1>2

LEMMA RoundedIsTabStop ==
    ASSUME NEW n \in Nat
    PROVE  RoundToTab(n) \in Nat /\ RoundToTab(n) % 4 = 0
BY DEF RoundToTab

\* The column a message's text starts in, in a block or not.
LEMMA MessagePenSettled ==
    ASSUME LogIInv, NEW h \in Sources \cup {NoSource}
    PROVE  Settled(MessagePen(h))
<1>1. Settled(pen) /\ logFile \in BOOLEAN /\ indentLevel \in Nat
  BY DEF LogIInv, LogTypeOK, LogInv, Settled, CursorMatchesColumn, PenAtTabStop
<1>2. CASE inBlock
  <2> DEFINE target == RoundToTab(indentLevel * 4 + HeaderLength(h))
  <2>1. target \in Nat /\ target % 4 = 0
    BY <1>1, RoundedIsTabStop DEF HeaderLength
  <2> QED
    BY <1>1, <1>2, <2>1, SeekSettles DEF MessagePen
<1>3. CASE ~inBlock
  <2>1. Settled(SeekCursor(pen, indentLevel * 4))
    BY <1>1, SeekSettles
  <2> QED
    BY <1>1, <1>3, <2>1, HeaderSettles DEF MessagePen
<1> QED
  BY <1>2, <1>3

-----------------------------------------------------------------------------

\* A finished line: the file stays well typed, its texts stay at tab stops.
LEMMA MessageKeepsFile ==
    ASSUME LogIInv, NEW h \in Sources \cup {NoSource}, NEW text \in Texts,
           MessageAs(h, text)
    PROVE  /\ file' \in Seq(Lines)
           /\ durable' \in 0 .. Len(file')
           /\ TextAtTabStop'
           /\ pen' = LineStart
<1> DEFINE p == MessagePen(h)
           line == [source |-> p.source, column |-> p.column, text |-> text]
<1>1. Settled(p)
  BY MessagePenSettled
<1>2. pen' = LineStart /\ WriteLine(line)
  BY DEF MessageAs
<1>3. CASE ~logFile
  BY <1>2, <1>3 DEF WriteLine, LogIInv, LogTypeOK, LogInv, TextAtTabStop
<1>4. CASE logFile
  <2>1. line \in Lines /\ line.column % 4 = 0
    BY <1>1, <1>4 DEF Settled, Pens, Lines
  <2> HIDE DEF line
  <2>2. file' = Append(file, line) /\ durable' = Flushed(file')
    BY <1>2, <1>4 DEF WriteLine
  <2>3. file \in Seq(Lines) /\ durable \in 0 .. Len(file)
    BY DEF LogIInv, LogTypeOK
  <2>4. file' \in Seq(Lines) /\ Len(file') = Len(file) + 1
    BY <2>1, <2>2, <2>3
  <2>5. durable' \in 0 .. Len(file')
    BY <2>2, <2>3, <2>4 DEF Flushed
  <2>6. TextAtTabStop'
    BY <2>1, <2>2, <2>3 DEF LogIInv, LogInv, TextAtTabStop
  <2> QED
    BY <1>2, <2>4, <2>5, <2>6
<1>5. logFile \in BOOLEAN
  BY DEF LogIInv, LogTypeOK
<1> QED
  BY <1>3, <1>4, <1>5

LEMMA LineStartSettled == Settled(LineStart)
BY DEF Settled, LineStart, Pens

\* Static initialisation establishes the inductive invariant.
LEMMA LogInitOK == LogInit => LogIInv
<1> SUFFICES ASSUME LogInit PROVE LogIInv
  OBVIOUS
<1>1. LogTypeOK
  <2>1. file \in Seq(Lines) /\ durable \in 0 .. Len(file)
    BY DEF LogInit
  <2>2. pen \in Pens
    BY DEF LogInit, LineStart, Pens
  <2>3. indentLevel \in Nat /\ logLevel \in LogLevels
    BY DEF LogInit, LogLevels
  <2> QED
    BY <2>1, <2>2, <2>3, Zenon DEF LogInit, LogTypeOK
<1>2. LogInv
  BY DEF LogInit, LogInv, CursorMatchesColumn, TextAtTabStop, PenAtTabStop, LineStart
<1> QED
  BY <1>1, <1>2 DEF LogIInv

\* Every operation of the log preserves it.
LEMMA LogStepOK == LogIInv /\ [LogNext]_logVars => LogIInv'
<1> SUFFICES ASSUME LogIInv, [LogNext]_logVars PROVE LogIInv'
  OBVIOUS
<1> USE DEF LogIInv
<1>1. ASSUME NEW level \in LogLevels, NEW text \in Texts, Log(level, text)
      PROVE  LogIInv'
  <2>1. /\ MessageAs(headerText, text)
        /\ headerText \in Sources \cup {NoSource}
        /\ UNCHANGED <<process, logFile, autoFlush, layoutVars, logLevel>>
    BY <1>1 DEF Log, Message, LogTypeOK
  <2>2. /\ file' \in Seq(Lines) /\ durable' \in 0 .. Len(file')
        /\ TextAtTabStop' /\ pen' = LineStart
    BY <2>1, MessageKeepsFile
  <2>3. LogTypeOK'
    BY <2>1, <2>2 DEF LogTypeOK, layoutVars, LineStart, Pens
  <2>4. CursorMatchesColumn' /\ PenAtTabStop'
    BY <2>2 DEF CursorMatchesColumn, PenAtTabStop, LineStart
  <2> QED
    BY <2>2, <2>3, <2>4 DEF LogInv
<1>2. ASSUME NEW text \in Texts, NEW source \in Sources, MessageFrom(text, source)
      PROVE  LogIInv'
  <2>1. /\ MessageAs(source, text)
        /\ headerText' = source /\ sourceBuf' = source
        /\ UNCHANGED <<process, logFile, autoFlush, indentLevel, inBlock, logLevel>>
    BY <1>2 DEF MessageFrom
  <2>2. /\ file' \in Seq(Lines) /\ durable' \in 0 .. Len(file')
        /\ TextAtTabStop' /\ pen' = LineStart
    BY <2>1, MessageKeepsFile
  <2>3. LogTypeOK'
    BY <2>1, <2>2 DEF LogTypeOK, LineStart, Pens
  <2>4. CursorMatchesColumn' /\ PenAtTabStop'
    BY <2>2 DEF CursorMatchesColumn, PenAtTabStop, LineStart
  <2> QED
    BY <2>2, <2>3, <2>4 DEF LogInv
<1>3. ASSUME UNCHANGED <<logFile, file, durable, pen, indentLevel, inBlock>>,
             process' \in {"running", "exited", "crashed"},
             autoFlush' \in BOOLEAN, logLevel' \in LogLevels,
             headerText' \in Sources \cup {NoSource},
             sourceBuf' \in Sources \cup {NoSource}
      PROVE  LogIInv'
  BY <1>3 DEF LogTypeOK, LogInv, CursorMatchesColumn, TextAtTabStop, PenAtTabStop
<1>4. ASSUME NEW source \in Sources, SetSource(source)
      PROVE  LogIInv'
  BY <1>3, <1>4 DEF SetSource, LogTypeOK
<1>5. CASE ClearSource
  BY <1>3, <1>5 DEF ClearSource, LogTypeOK
<1>6. ASSUME NEW n \in Nat, SetIndent(n)
      PROVE  LogIInv'
  BY <1>6 DEF SetIndent, LogTypeOK, LogInv, CursorMatchesColumn, TextAtTabStop,
              PenAtTabStop
<1>7. CASE Indent
  <2>1. indentLevel + 1 \in Nat
    BY DEF LogTypeOK
  <2> QED
    BY <1>6, <1>7, <2>1 DEF Indent
<1>8. CASE Outdent
  <2>1. (IF indentLevel > 0 THEN indentLevel - 1 ELSE 0) \in Nat
    BY DEF LogTypeOK
  <2> QED
    BY <1>6, <1>8, <2>1 DEF Outdent
<1>9. CASE OpenBlock
  <2> DEFINE p == PrintHeader(SeekCursor(pen, indentLevel * 4), headerText)
  <2>1. Settled(pen) /\ logFile \in BOOLEAN /\ indentLevel \in Nat
        /\ headerText \in Sources \cup {NoSource}
    BY DEF LogTypeOK, LogInv, Settled, CursorMatchesColumn, PenAtTabStop
  <2>2. Settled(SeekCursor(pen, indentLevel * 4))
    BY <2>1, SeekSettles
  <2>3. Settled(p)
    BY <2>1, <2>2, HeaderSettles
  <2>4. /\ pen' = p /\ inBlock' = TRUE
        /\ durable' = IF logFile THEN Flushed(file) ELSE durable
        /\ UNCHANGED <<process, logFile, file, autoFlush, indentLevel, headerText,
                       sourceBuf, logLevel>>
    BY <1>9 DEF OpenBlock
  <2> HIDE DEF p
  <2>5. LogTypeOK'
    BY <2>3, <2>4 DEF LogTypeOK, Settled, Flushed
  <2>6. LogInv'
    BY <2>3, <2>4 DEF LogInv, Settled, CursorMatchesColumn, TextAtTabStop, PenAtTabStop
  <2> QED
    BY <2>5, <2>6
<1>10. CASE CloseBlock
  BY <1>10 DEF CloseBlock, LogTypeOK, LogInv, CursorMatchesColumn, TextAtTabStop,
               PenAtTabStop
<1>11. ASSUME NEW flush \in BOOLEAN, SetAutoFlush(flush)
       PROVE  LogIInv'
  BY <1>3, <1>11 DEF SetAutoFlush, LogTypeOK, layoutVars
<1>12. ASSUME NEW level \in LogLevels, SetLogLevel(level)
       PROVE  LogIInv'
  BY <1>3, <1>12 DEF SetLogLevel, LogTypeOK, layoutVars
<1>13. ASSUME UNCHANGED <<logFile, file, pen, autoFlush, layoutVars, logLevel>>,
              process' \in {"running", "exited", "crashed"},
              durable' \in 0 .. Len(file)
       PROVE  LogIInv'
  BY <1>13 DEF LogTypeOK, LogInv, CursorMatchesColumn, TextAtTabStop, PenAtTabStop,
               layoutVars
<1>14. CASE Spill
  BY <1>13, <1>14 DEF Spill, LogTypeOK
<1>15. CASE Close
  BY <1>13, <1>15 DEF Close, LogTypeOK
<1>16. CASE Crash
  <2>1. /\ file \in Seq(Lines) /\ durable \in 0 .. Len(file)
        /\ file' = SubSeq(file, 1, durable) /\ process' = "crashed"
        /\ UNCHANGED <<logFile, durable, pen, autoFlush, layoutVars, logLevel>>
    BY <1>16 DEF Crash, LogTypeOK
  <2>2. file' \in Seq(Lines) /\ Len(file') = durable
        /\ \A i \in 1 .. durable : file'[i] = file[i]
    BY <2>1
  <2>3. LogTypeOK'
    BY <2>1, <2>2 DEF LogTypeOK, layoutVars
  <2>4. LogInv'
    BY <2>1, <2>2 DEF LogInv, CursorMatchesColumn, TextAtTabStop, PenAtTabStop
  <2> QED
    BY <2>3, <2>4
<1>17. CASE UNCHANGED logVars
  BY <1>17 DEF logVars, layoutVars, LogTypeOK, LogInv, CursorMatchesColumn,
               TextAtTabStop, PenAtTabStop
<1> QED
  BY <1>1, <1>2, <1>4, <1>5, <1>7, <1>8, <1>9, <1>10, <1>11, <1>12, <1>14, <1>15,
     <1>16, <1>17 DEF LogNext

\* The inductive invariant of the log.
THEOREM LogInvariant == LogSpec => []LogIInv
BY LogInitOK, LogStepOK, PTL DEF LogSpec

\* The log's variables keep their types (IDebugLog's static members).
THEOREM LogTypeCorrect == LogSpec => []LogTypeOK
<1>1. LogIInv => LogTypeOK
  BY DEF LogIInv
<1> QED
  BY <1>1, LogInvariant, PTL

\* cursorPos is the column the file has reached, for every sequence of blocks,
\* sources and indentations (PrintSpaces, PrintText, SeekCursor).
THEOREM CursorIsColumn == LogSpec => []CursorMatchesColumn
<1>1. LogIInv => CursorMatchesColumn
  BY DEF LogIInv, LogInv
<1> QED
  BY <1>1, LogInvariant, PTL

\* Every line's text starts at a tab stop.
THEOREM TextStartsAtTabStop == LogSpec => []TextAtTabStop
<1>1. LogIInv => TextAtTabStop
  BY DEF LogIInv, LogInv
<1> QED
  BY <1>1, LogInvariant, PTL

=============================================================================

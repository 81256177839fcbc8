------------------------- MODULE SerializationProofs -------------------------
(***************************************************************************)
(* Proofs about Serialization, for any plugins, sections, records and      *)
(* save games.  The inductive invariant says where everything is in a      *)
(* co-save: sections one behind the other, in each the records of its      *)
(* owner one behind the other, as long as their headers say; and where the *)
(* save or the load stands in it, between any two calls of a plugin.       *)
(***************************************************************************)
EXTENDS Serialization, FiniteSetTheorems, TLAPS

\* The cell at an offset, which the file reaches.
Is(f, x, cell) == x < Len(f) /\ f[x + 1] = cell
Sections(f) == {x \in 0 .. Len(f) - 1 : f[x + 1].kind = "section"}
SectionEnd(f, x) == x + 1 + f[x + 1].length
Chunk(record) == Cell("chunk", NoOwner, 0, Len(record))

\* Records one behind the other from first on to end, the k-th with its header
\* at at[k]: their data is in the file, and the headers of the first n.
Places(f, first, end, records, at, n) ==
    /\ Len(records) > 0
    /\ at \in [1 .. Len(records) -> first .. end - 1]
    /\ at[1] = first
    /\ \A k \in 1 .. Len(records) - 1 :
          at[k + 1] = at[k] + 1 + Len(records[k]) /\ at[k + 1] <= at[Len(records)]
    /\ end = at[Len(records)] + 1 + Len(records[Len(records)])
    /\ \A k \in 1 .. Len(records) : \A j \in 1 .. Len(records[k]) :
          Is(f, at[k] + j, records[k][j])
    /\ \A k \in 1 .. n : Is(f, at[k], Chunk(records[k]))

\* A section of an owner that may have one, up to the end or the next section,
\* with all records of its owner.
SectionHolds(f, x, end, records) ==
    /\ f[x + 1].owner \in {NVSE} \cup Based
    /\ f[x + 1].count = Len(records)
    /\ SectionEnd(f, x) = end \/ SectionEnd(f, x) \in Sections(f)
    /\ SectionEnd(f, x) <= end
    /\ \A y \in Sections(f) : x < y => SectionEnd(f, x) <= y
    /\ \A y \in Sections(f) : f[y + 1].owner = f[x + 1].owner => y = x
    /\ \E at \in [1 .. Len(records) -> x + 1 .. SectionEnd(f, x) - 1] :
          Places(f, x + 1, SectionEnd(f, x), records, at, Len(records))

\* The sections of a file, up to end, are what the owners have written.
Holds(f, end, writing) ==
    /\ end = 1 \/ 1 \in Sections(f)
    /\ \A x \in Sections(f) : SectionHolds(f, x, end, writing[f[x + 1].owner])
    /\ \A o \in Owners : writing[o] # <<>> => \E x \in Sections(f) : f[x + 1].owner = o

HasHeader(f) == f \in Seq(Cells) /\ f # <<>> /\ f[1].kind = "header"

\* A co-save has a header if and only if it is whole.
FileHolds(f, writing) ==
    \/ writing = NoFile /\ ~HasHeader(f)
    \/ writing \in Writings /\ HasHeader(f) /\ Holds(f, Len(f), writing)
FilesHold ==
    /\ DOMAIN files = Paths /\ DOMAIN saved = Paths
    /\ \A p \in Paths : FileHolds(files[p], saved[p])

\* A plugin has one handle; entries of s_pluginCallbacks are of loaded plugins.
HandlesOK ==
    /\ \A i, j \in 1 .. Len(plugins) : plugins[i] = plugins[j] => i = j
    /\ DOMAIN callbacks \subseteq 0 .. Len(plugins)

NothingRead == got = NothingOfAny /\ ended = {} /\ called = NeverCalled
NothingHeld == written = NothingOfAny /\ index = 0 /\ hadData = {} /\ chunkOpen = FALSE

InSave == mode \in {"save", "saving"}
InLoad == mode \in {"load", "loading", "rest", "resting"}
AtRestInv == ~InSave /\ ~InLoad => NothingRead /\ NothingHeld

File == files[path]

SaveInv ==
    InSave =>
        /\ path \in Paths /\ File \in Seq(Cells) /\ saved[path] = NoFile
        /\ 0 \notin Sections(File)
        /\ NothingRead /\ hadData = {}
        /\ written \in Writings
        /\ \A h \in DOMAIN callbacks :
              h > index \/ (mode = "save" /\ h = index) => written[OwnerOf(h)] = <<>>

BetweenSections(end) == Len(File) = end \/ (Len(File) = 0 /\ end = 1)

SaveLoopInv ==
    mode = "save" => Holds(File, offset, written) /\ BetweenSections(offset) /\ offset > 0

\* In a plugin's save callback.
Earlier == [written EXCEPT ![section.owner] = <<>>]
SavingInv ==
    mode = "saving" =>
        /\ index \in DOMAIN callbacks /\ Saves(index) /\ section.owner = OwnerOf(index)
        /\ section.numChunks = Len(written[section.owner])
        /\ section.numChunks = 0 =>
              /\ chunkOpen = FALSE /\ section.length = 0 /\ offset > 0
              /\ Holds(File, offset, Earlier) /\ BetweenSections(offset)
        /\ section.numChunks > 0 =>
              /\ chunkOpen = TRUE /\ sectionAt > 0
              /\ Holds(File, sectionAt, Earlier)
              /\ section.length = chunkAt - sectionAt - 1
              /\ Len(File) = offset \/ (Len(File) <= chunkAt /\ offset = chunkAt + 1)
              /\ \E at \in [1 .. section.numChunks -> sectionAt + 1 .. offset - 1] :
                    /\ Places(File, sectionAt + 1, offset, written[section.owner], at,
                              section.numChunks - 1)
                    /\ chunkAt = at[section.numChunks]

\* The sections the load is past are those whose plugins had data.
HadData(f, x) ==
    {h \in DOMAIN callbacks : \E y \in Sections(f) : y < x /\ h \in Handles(f[y + 1].owner)}

Offered(o) ==
    /\ Len(got[o]) <= Len(saved[path][o])
    /\ \A k \in 1 .. Len(got[o]) :
          /\ got[o][k].length = Len(saved[path][o][k])
          /\ Len(got[o][k].data) <= Len(saved[path][o][k])
          /\ \A j \in 1 .. Len(got[o][k].data) : got[o][k].data[j] = saved[path][o][k][j]

LoadInv ==
    InLoad =>
        /\ path \in Paths
        /\ File = <<>> \/ HasHeader(File)
        /\ File = <<>> => got = NothingOfAny
        /\ written = NothingOfAny
        /\ got \in [Owners -> Seq(Records)] /\ ended \subseteq Owners
        /\ called \in [Owners -> Nat]
        /\ File # <<>> => \A o \in Owners : Offered(o)
        /\ File # <<>> => \A o \in ended : Len(got[o]) = Len(saved[path][o])

LoadLoopInv ==
    mode = "load" =>
        /\ offset = Len(File) \/ offset \in Sections(File)
        /\ index \in Nat
        /\ hadData = HadData(File, offset)
        /\ \A x \in Sections(File) : x >= offset => got[File[x + 1].owner] = <<>>
        /\ \A h \in DOMAIN callbacks :
              called[OwnerOf(h)] = IF h \in hadData /\ Has(h, callback) THEN 1 ELSE 0

\* How far the plugin whose load callback runs has read.
ReadSoFar ==
    LET mine == got[section.owner]
        records == saved[path][section.owner]
        k == Len(mine)
    IN  /\ section.numChunks = Len(records) - k
        /\ k = 0 => chunkOpen = FALSE /\ offset = sectionAt
        /\ k > 0 /\ chunkOpen = FALSE => section.numChunks = 0
        /\ chunkOpen =>
              /\ chunk <= Len(records[k])
              /\ Len(mine[k].data) = Len(records[k]) - chunk
              /\ \E at \in [1 .. Len(records) -> sectionAt .. sectionAt + section.length - 1] :
                    /\ Places(File, sectionAt, sectionAt + section.length, records, at,
                              Len(records))
                    /\ offset + chunk = at[k] + 1 + Len(records[k])

LoadingInv ==
    mode = "loading" =>
        /\ sectionAt - 1 \in Sections(File)
        /\ section.owner = File[sectionAt].owner /\ section.length = File[sectionAt].length
        /\ index \in Handles(section.owner) /\ index \in DOMAIN callbacks
        /\ hadData = HadData(File, sectionAt + section.length)
        /\ \A x \in Sections(File) : x >= sectionAt => got[File[x + 1].owner] = <<>>
        /\ \A h \in DOMAIN callbacks :
              called[OwnerOf(h)] = IF h \in hadData /\ Has(h, callback) THEN 1 ELSE 0
        /\ ReadSoFar

RestInv ==
    mode \in {"rest", "resting"} =>
        /\ hadData = HadData(File, Len(File))
        /\ \A h \in DOMAIN callbacks :
              called[OwnerOf(h)] =
                 IF /\ Has(h, callback)
                    /\ h \in hadData \/ h < index \/ (mode = "resting" /\ h = index)
                 THEN 1 ELSE 0
        /\ mode = "resting" =>
              /\ section.numChunks = 0 /\ chunkOpen = FALSE
              /\ index \in DOMAIN callbacks /\ index \notin hadData

IInv ==
    /\ TypeOK /\ HandlesOK /\ FilesHold /\ AtRestInv
    /\ SaveInv /\ SaveLoopInv /\ SavingInv
    /\ LoadInv /\ LoadLoopInv /\ LoadingInv /\ RestInv

-----------------------------------------------------------------------------
(* What writing a cell does to a file. *)

\* g is f with one cell written, and what is skipped over is filled.
Overwrites(g, f, a, cell) ==
    /\ g \in Seq(Cells)
    /\ a < Len(f) => Len(g) = Len(f)
    /\ Len(f) <= a => Len(g) = a + 1
    /\ g[a + 1] = cell
    /\ \A i \in 1 .. Len(f) : i # a + 1 => g[i] = f[i]
    /\ \A i \in Len(f) + 1 .. a : g[i] = Gap

LEMMA PutCells ==
    ASSUME NEW f \in Seq(Cells), NEW a \in Nat, NEW cell \in Cells
    PROVE  Overwrites(Put(f, a, cell), f, a, cell)
<1> DEFINE n == IF a < Len(f) THEN Len(f) ELSE a + 1
           g == Put(f, a, cell)
<1>1. n \in Nat /\ Len(f) \in Nat /\ Len(f) <= n /\ a + 1 <= n
  OBVIOUS
<1>2. g = [i \in 1 .. n |-> IF i = a + 1 THEN cell
                            ELSE IF i <= Len(f) THEN f[i] ELSE Gap]
  BY DEF Put
<1>3. Gap \in Cells
  BY DEF Gap, Cell, Cells
<1> HIDE DEF n, g
<1>4. \A i \in 1 .. n : g[i] = IF i = a + 1 THEN cell
                               ELSE IF i <= Len(f) THEN f[i] ELSE Gap
  BY <1>2
<1>5. \A i \in 1 .. n : g[i] \in Cells
  BY <1>1, <1>3, <1>4
<1>6. g \in Seq(Cells) /\ Len(g) = n
  BY <1>1, <1>2, <1>5
<1>7. g[a + 1] = cell
  BY <1>1, <1>4
<1>8. \A i \in 1 .. Len(f) : i # a + 1 => g[i] = f[i]
  BY <1>1, <1>4
<1>9. \A i \in Len(f) + 1 .. a : g[i] = Gap
  BY <1>1, <1>4
<1>10. (a < Len(f) => n = Len(f)) /\ (Len(f) <= a => n = a + 1)
  BY DEF n
<1> QED
  BY <1>6, <1>7, <1>8, <1>9, <1>10 DEF g, Overwrites

LEMMA PutIs ==
    ASSUME NEW f \in Seq(Cells), NEW a \in Nat, NEW cell \in Cells
    PROVE  /\ Is(Put(f, a, cell), a, cell)
           /\ \A x \in Nat \ {a} : \A c : Is(f, x, c) => Is(Put(f, a, cell), x, c)
<1> DEFINE g == Put(f, a, cell)
<1>1. /\ g \in Seq(Cells)
      /\ a < Len(f) => Len(g) = Len(f)
      /\ Len(f) <= a => Len(g) = a + 1
      /\ g[a + 1] = cell
      /\ \A i \in 1 .. Len(f) : i # a + 1 => g[i] = f[i]
  <2>1. Overwrites(g, f, a, cell)
    BY PutCells
  <2> QED
    BY <2>1 DEF Overwrites
<1> HIDE DEF g
<1>2. Len(f) \in Nat
  OBVIOUS
<1>3. Is(g, a, cell)
  BY <1>1, <1>2 DEF Is
<1>4. ASSUME NEW x \in Nat \ {a}, NEW c, Is(f, x, c) PROVE Is(g, x, c)
  BY <1>1, <1>2, <1>4 DEF Is
<1> QED
  BY <1>3, <1>4 DEF g

LEMMA PutSections ==
    ASSUME NEW f \in Seq(Cells), NEW a \in Nat, NEW cell \in Cells
    PROVE  Sections(Put(f, a, cell))
              = (Sections(f) \ {a}) \cup (IF cell.kind = "section" THEN {a} ELSE {})
<1> DEFINE g == Put(f, a, cell)
<1>1. /\ g \in Seq(Cells)
      /\ a < Len(f) => Len(g) = Len(f)
      /\ Len(f) <= a => Len(g) = a + 1
      /\ g[a + 1] = cell
      /\ \A i \in 1 .. Len(f) : i # a + 1 => g[i] = f[i]
      /\ \A i \in Len(f) + 1 .. a : g[i] = Gap
  <2>1. Overwrites(g, f, a, cell)
    BY PutCells
  <2> QED
    BY <2>1 DEF Overwrites
<1> HIDE DEF g
<1>2. Len(f) \in Nat /\ Gap.kind # "section"
  BY DEF Gap, Cell
<1>3. a \in Sections(g) <=> cell.kind = "section"
  BY <1>1, <1>2 DEF Sections
<1>4. ASSUME NEW x \in Nat \ {a} PROVE x \in Sections(g) <=> x \in Sections(f)
  <2>1. CASE x < Len(f)
    <3>1. x + 1 \in 1 .. Len(f) /\ x + 1 # a + 1 /\ x < Len(g)
      BY <1>1, <1>2, <2>1
    <3>2. g[x + 1] = f[x + 1]
      BY <1>1, <3>1
    <3>3. Len(g) \in Nat
      BY <1>1
    <3> QED
      BY <1>2, <2>1, <3>1, <3>2, <3>3 DEF Sections
  <2>2. CASE ~(x < Len(f))
    <3>1. x \notin Sections(f)
      BY <1>2, <2>2 DEF Sections
    <3>2. x < Len(g) => x + 1 \in Len(f) + 1 .. a
      BY <1>1, <1>2, <2>2
    <3>3. x < Len(g) => g[x + 1].kind # "section"
      BY <1>1, <1>2, <3>2
    <3>4. x \notin Sections(g)
      BY <1>1, <3>3 DEF Sections
    <3> QED
      BY <3>1, <3>4
  <2> QED
    BY <2>1, <2>2
<1>5. Sections(g) \subseteq Nat /\ Sections(f) \subseteq Nat
  BY DEF Sections
<1>6. Sections(g) = (Sections(f) \ {a}) \cup (IF cell.kind = "section" THEN {a} ELSE {})
  BY <1>3, <1>4, <1>5
<1> QED
  BY <1>6 DEF g

\* Only a cell at the very beginning can be the file's header.
LEMMA PutNoHeader ==
    ASSUME NEW f \in Seq(Cells), NEW a \in Nat, a > 0, NEW cell \in Cells,
           ~HasHeader(f)
    PROVE  ~HasHeader(Put(f, a, cell))
<1> DEFINE g == Put(f, a, cell)
<1>1. /\ g \in Seq(Cells)
      /\ a < Len(f) => Len(g) = Len(f)
      /\ Len(f) <= a => Len(g) = a + 1
      /\ \A i \in 1 .. Len(f) : i # a + 1 => g[i] = f[i]
      /\ \A i \in Len(f) + 1 .. a : g[i] = Gap
  <2>1. Overwrites(g, f, a, cell)
    BY PutCells
  <2> QED
    BY <2>1 DEF Overwrites
<1> HIDE DEF g
<1>2. CASE f = <<>>
  <2>1. Len(f) = 0 /\ 1 \in Len(f) + 1 .. a
    BY <1>2
  <2>2. g[1] = Gap
    BY <1>1, <2>1
  <2> QED
    BY <2>2 DEF HasHeader, Gap, Cell, g
<1>3. CASE f # <<>>
  <2>1. 1 \in 1 .. Len(f) /\ 1 # a + 1
    BY <1>3
  <2>2. g[1] = f[1]
    BY <1>1, <2>1
  <2> QED
    BY <1>3, <2>2 DEF HasHeader, g
<1> QED
  BY <1>2, <1>3

-----------------------------------------------------------------------------
(* What is in a file stays there as long as the cells it is in do. *)

Keeps(f, g, first, end) == \A x \in first .. end - 1 : \A c : Is(f, x, c) => Is(g, x, c)

LEMMA PlacesKept ==
    ASSUME NEW f, NEW g, NEW first \in Nat, NEW end \in Nat,
           NEW records \in Seq(Seq(Cells)), NEW at, NEW n \in 0 .. Len(records),
           Keeps(f, g, first, end), Places(f, first, end, records, at, n)
    PROVE  Places(g, first, end, records, at, n)
<1>1. /\ Len(records) \in Nat /\ Len(records) > 0
      /\ \A k \in 1 .. Len(records) : Len(records[k]) \in Nat
      /\ \A k \in 1 .. Len(records) : at[k] \in first .. end - 1 /\ at[k] \in Nat
      /\ end = at[Len(records)] + 1 + Len(records[Len(records)])
      /\ \A k \in 1 .. Len(records) - 1 :
            at[k + 1] = at[k] + 1 + Len(records[k]) /\ at[k + 1] <= at[Len(records)]
  <2>1. \A k \in 1 .. Len(records) : Len(records[k]) \in Nat
    <3>1. \A k \in 1 .. Len(records) : records[k] \in Seq(Cells)
      OBVIOUS
    <3> QED
      BY <3>1
  <2>2. \A k \in 1 .. Len(records) : at[k] \in first .. end - 1 /\ at[k] \in Nat
    <3>1. at \in [1 .. Len(records) -> first .. end - 1]
      BY DEF Places
    <3>2. \A k \in 1 .. Len(records) : at[k] \in first .. end - 1
      BY <3>1
    <3> QED
      BY <3>2
  <2>3. Len(records) \in Nat
    OBVIOUS
  <2> QED
    BY <2>1, <2>2, <2>3 DEF Places
<1>2. ASSUME NEW k \in 1 .. Len(records), NEW j \in 1 .. Len(records[k])
      PROVE  Is(g, at[k] + j, records[k][j])
  <2>1. at[k] + 1 + Len(records[k]) <= end
    <3>1. CASE k = Len(records)
      BY <1>1, <3>1
    <3>2. CASE k # Len(records)
      <4>1. k \in 1 .. Len(records) - 1 /\ Len(records) \in 1 .. Len(records)
        BY <1>1, <3>2
      <4>2. at[k] + 1 + Len(records[k]) <= at[Len(records)]
        BY <1>1, <4>1
      <4> QED
        BY <1>1, <4>1, <4>2
    <3> QED
      BY <3>1, <3>2
  <2>2. at[k] + j \in first .. end - 1
    BY <1>1, <2>1
  <2>3. Is(f, at[k] + j, records[k][j])
    BY DEF Places
  <2> QED
    BY <2>2, <2>3 DEF Keeps
<1>3. ASSUME NEW k \in 1 .. n PROVE Is(g, at[k], Chunk(records[k]))
  <2>1. k \in 1 .. Len(records)
    BY <1>1
  <2>2. Is(f, at[k], Chunk(records[k]))
    BY DEF Places
  <2> QED
    BY <1>1, <2>1, <2>2 DEF Keeps
<1> QED
  BY <1>2, <1>3 DEF Places

\* A section's header says where the section ends, and the owner's records fill it.
LEMMA HoldsKept ==
    ASSUME NEW f \in Seq(Cells), NEW g \in Seq(Cells), NEW end \in Nat,
           NEW writing \in Writings, OwnersAssumption,
           Keeps(f, g, 1, end), Sections(g) = Sections(f), 0 \notin Sections(f),
           Holds(f, end, writing)
    PROVE  Holds(g, end, writing)
<1>1. ASSUME NEW x \in Sections(f)
      PROVE  /\ g[x + 1] = f[x + 1] /\ SectionEnd(g, x) = SectionEnd(f, x)
             /\ f[x + 1] \in Cells /\ x \in Nat /\ SectionEnd(f, x) \in Nat
             /\ SectionEnd(f, x) <= end
  <2>1. x \in Nat /\ x < Len(f) /\ f[x + 1] \in Cells /\ x > 0
    BY DEF Sections
  <2>2. f[x + 1].length \in Nat
    BY <2>1 DEF Cells
  <2>3. x + 1 <= SectionEnd(f, x) /\ SectionEnd(f, x) <= end /\ SectionEnd(f, x) \in Nat
    BY <2>1, <2>2 DEF Holds, SectionHolds, SectionEnd
  <2>4. x \in 1 .. end - 1
    BY <2>1, <2>3
  <2>5. g[x + 1] = f[x + 1]
    BY <2>1, <2>4 DEF Keeps, Is
  <2> QED
    BY <2>1, <2>3, <2>5 DEF SectionEnd
<1>2. ASSUME NEW x \in Sections(g)
      PROVE  SectionHolds(g, x, end, writing[g[x + 1].owner])
  <2>1. /\ SectionHolds(f, x, end, writing[f[x + 1].owner])
        /\ f[x + 1].owner \in Owners
    BY OwnersAssumption DEF Holds, SectionHolds, Owners
  <2> DEFINE records == writing[f[x + 1].owner]
             last == SectionEnd(f, x)
  <2>2. records \in Seq(Seq(Cells))
    BY <2>1 DEF Writings
  <2>3. PICK at \in [1 .. Len(records) -> x + 1 .. last - 1] :
           Places(f, x + 1, last, records, at, Len(records))
    BY <2>1 DEF SectionHolds
  <2>4. Places(g, x + 1, last, records, at, Len(records))
    <3>1. Keeps(f, g, x + 1, last) /\ x + 1 \in Nat /\ last \in Nat
      <4>1. x \in Nat /\ last \in Nat /\ last <= end
        BY <1>1
      <4> HIDE DEF last
      <4> QED
        BY <4>1 DEF Keeps
    <3>2. Len(records) \in 0 .. Len(records)
      BY <2>2
    <3> HIDE DEF records, last
    <3> QED
      BY <2>2, <2>3, <3>1, <3>2, PlacesKept
  <2>5. \A y \in Sections(g) : g[y + 1] = f[y + 1]
    BY <1>1
  <2>6. g[x + 1] = f[x + 1] /\ SectionEnd(g, x) = last
    BY <1>1
  <2> HIDE DEF records, last
  <2>7. /\ g[x + 1].owner \in {NVSE} \cup Based
        /\ g[x + 1].count = Len(records)
        /\ last = end \/ last \in Sections(g)
        /\ last <= end
        /\ \A y \in Sections(g) : x < y => last <= y
        /\ \A y \in Sections(g) : g[y + 1].owner = g[x + 1].owner => y = x
    BY <2>1, <2>5, <2>6 DEF SectionHolds, records, last
  <2>8. SectionHolds(g, x, end, records)
    BY <2>4, <2>6, <2>7 DEF SectionHolds
  <2> QED
    BY <2>6, <2>8 DEF records
<1>3. ASSUME NEW o \in Owners, writing[o] # <<>>
      PROVE  \E x \in Sections(g) : g[x + 1].owner = o
  BY <1>1, <1>3 DEF Holds
<1> QED
  BY <1>2, <1>3 DEF Holds

-----------------------------------------------------------------------------
(* How a section grows. *)

\* What the numbers of Places say of each other.
Ordered(first, end, records, at) ==
    /\ Len(records) \in Nat /\ Len(records) > 0
    /\ \A k \in 1 .. Len(records) : Len(records[k]) \in Nat
    /\ \A k \in 1 .. Len(records) : at[k] \in Nat /\ first <= at[k] /\ at[k] < end
    /\ \A k \in 1 .. Len(records) - 1 :
          at[k + 1] = at[k] + 1 + Len(records[k]) /\ at[k + 1] <= at[Len(records)]
    /\ end = at[Len(records)] + 1 + Len(records[Len(records)])
    /\ end \in Nat /\ first < end
    /\ \A k \in 1 .. Len(records) : at[k] + 1 + Len(records[k]) <= end

LEMMA PlacesTypes ==
    ASSUME NEW f, NEW first \in Nat, NEW end \in Int, NEW records \in Seq(Seq(Cells)),
           NEW at, NEW n, Places(f, first, end, records, at, n)
    PROVE  Ordered(first, end, records, at)
<1>1. \A k \in 1 .. Len(records) : Len(records[k]) \in Nat
  <2>1. \A k \in 1 .. Len(records) : records[k] \in Seq(Cells)
    OBVIOUS
  <2> QED
    BY <2>1
<1>2. \A k \in 1 .. Len(records) : at[k] \in Nat /\ first <= at[k] /\ at[k] < end
  <2>1. at \in [1 .. Len(records) -> first .. end - 1]
    BY DEF Places
  <2>2. \A k \in 1 .. Len(records) : at[k] \in first .. end - 1
    BY <2>1
  <2> QED
    BY <2>2
<1>3. Len(records) \in Nat /\ Len(records) > 0 /\ 1 \in 1 .. Len(records)
  BY DEF Places
<1>4. /\ \A k \in 1 .. Len(records) - 1 :
            at[k + 1] = at[k] + 1 + Len(records[k]) /\ at[k + 1] <= at[Len(records)]
      /\ end = at[Len(records)] + 1 + Len(records[Len(records)])
  BY DEF Places
<1>5. end \in Nat /\ first < end
  BY <1>2, <1>3
<1>6. ASSUME NEW k \in 1 .. Len(records) PROVE at[k] + 1 + Len(records[k]) <= end
  <2>1. CASE k = Len(records)
    BY <1>1, <1>2, <1>4, <2>1
  <2>2. CASE k # Len(records)
    <3>1. k \in 1 .. Len(records) - 1 /\ Len(records) \in 1 .. Len(records)
      BY <1>3, <2>2
    <3>2. at[k] + 1 + Len(records[k]) <= at[Len(records)]
      BY <1>4, <3>1
    <3> QED
      BY <1>1, <1>2, <1>4, <3>1, <3>2
  <2> QED
    BY <2>1, <2>2
<1> QED
  BY <1>1, <1>2, <1>3, <1>4, <1>5, <1>6 DEF Ordered

\* OpenRecord for the first record of a section.
LEMMA FirstPlace ==
    ASSUME NEW f, NEW first \in Nat
    PROVE  LET at == [k \in 1 .. 1 |-> first]
           IN  /\ at \in [1 .. 1 -> first .. first]
               /\ Places(f, first, first + 1, << <<>> >>, at, 0)
<1> DEFINE at == [k \in 1 .. 1 |-> first]
           records == << <<>> >>
<1>1. Len(records) = 1 /\ records[1] = <<>> /\ Len(records[1]) = 0
  OBVIOUS
<1>2. at \in [1 .. 1 -> first .. first + 1 - 1] /\ at[1] = first
      /\ at \in [1 .. 1 -> first .. first]
  OBVIOUS
<1> HIDE DEF at, records
<1>3. Places(f, first, first + 1, records, at, 0)
  BY <1>1, <1>2 DEF Places
<1> QED
  BY <1>2, <1>3 DEF at, records

\* OpenRecord for the next record: the last record's header is written now.
LEMMA NextPlace ==
    ASSUME NEW f, NEW first \in Nat, NEW end \in Nat, NEW records \in Seq(Seq(Cells)), NEW at,
           Places(f, first, end, records, at, Len(records))
    PROVE  \E more \in [1 .. Len(records) + 1 -> first .. end] :
              /\ more[Len(records) + 1] = end
              /\ Places(f, first, end + 1, Append(records, <<>>), more, Len(records))
<1> DEFINE n == Len(records)
           more == [k \in 1 .. n + 1 |-> IF k <= n THEN at[k] ELSE end]
           longer == Append(records, <<>>)
<1>1. /\ n \in Nat /\ n > 0 /\ n \in 1 .. n
      /\ \A k \in 1 .. n : Len(records[k]) \in Nat
      /\ \A k \in 1 .. n : at[k] \in Nat /\ first <= at[k] /\ at[k] < end
      /\ \A k \in 1 .. n - 1 : at[k + 1] = at[k] + 1 + Len(records[k])
      /\ end = at[n] + 1 + Len(records[n])
      /\ end \in Nat /\ first < end
  <2>1. Ordered(first, end, records, at)
    BY PlacesTypes
  <2> QED
    BY <2>1 DEF Ordered
<1>2. /\ \A k \in 1 .. n : \A j \in 1 .. Len(records[k]) : Is(f, at[k] + j, records[k][j])
      /\ \A k \in 1 .. n : Is(f, at[k], Chunk(records[k]))
      /\ at[1] = first
  BY DEF Places
<1>3. /\ Len(longer) = n + 1 /\ longer[n + 1] = <<>> /\ Len(<<>>) = 0
      /\ \A k \in 1 .. n : longer[k] = records[k]
  OBVIOUS
<1> HIDE DEF n, longer
<1>4. /\ \A k \in 1 .. n : more[k] = at[k]
      /\ more[n + 1] = end
  BY <1>1
<1>5. more \in [1 .. n + 1 -> first .. end] /\ first .. end = first .. (end + 1) - 1
  <2>1. \A k \in 1 .. n + 1 : more[k] \in first .. end
    BY <1>1, <1>4
  <2>2. more = [k \in 1 .. n + 1 |-> more[k]]
    OBVIOUS
  <2>3. first .. end = first .. (end + 1) - 1
    BY <1>1
  <2> HIDE DEF more
  <2> QED
    BY <2>1, <2>2, <2>3
<1> HIDE DEF more
<1>6. Len(longer) > 0 /\ more[1] = first
  BY <1>1, <1>2, <1>3, <1>4
<1>7. ASSUME NEW k \in 1 .. Len(longer) - 1
      PROVE  more[k + 1] = more[k] + 1 + Len(longer[k]) /\ more[k + 1] <= more[Len(longer)]
  <2>1. k \in 1 .. n /\ Len(longer) = n + 1
    BY <1>1, <1>3
  <2>2. CASE k = n
    BY <1>1, <1>3, <1>4, <2>1, <2>2
  <2>3. CASE k # n
    <3>1. k \in 1 .. n - 1 /\ k + 1 \in 1 .. n
      BY <1>1, <2>1, <2>3
    <3>2. at[k + 1] = at[k] + 1 + Len(records[k]) /\ at[k + 1] <= end
      BY <1>1, <3>1
    <3>3. more[k + 1] = at[k + 1] /\ more[k] = at[k] /\ more[Len(longer)] = end
      BY <1>4, <2>1, <3>1
    <3> QED
      BY <1>3, <2>1, <3>2, <3>3
  <2> QED
    BY <2>2, <2>3
<1>8. end + 1 = more[Len(longer)] + 1 + Len(longer[Len(longer)])
  BY <1>1, <1>3, <1>4
<1>9. ASSUME NEW k \in 1 .. Len(longer), NEW j \in 1 .. Len(longer[k])
      PROVE  Is(f, more[k] + j, longer[k][j])
  <2>1. CASE k \in 1 .. n
    BY <1>2, <1>3, <1>4, <2>1
  <2>2. CASE k = n + 1
    BY <1>3, <2>2
  <2> QED
    BY <1>1, <1>3, <2>1, <2>2
<1>10. ASSUME NEW k \in 1 .. n PROVE Is(f, more[k], Chunk(longer[k]))
  BY <1>2, <1>3, <1>4
<1>11. Places(f, first, end + 1, longer, more, n)
  BY <1>3, <1>5, <1>6, <1>7, <1>8, <1>9, <1>10 DEF Places
<1> QED
  BY <1>4, <1>5, <1>11 DEF n, longer

\* WriteRecordData: the cell behind the last record's data becomes part of it.
LEMMA DataPlace ==
    ASSUME NEW f, NEW g, NEW first \in Nat, NEW end \in Nat,
           NEW records \in Seq(Seq(Cells)), NEW at,
           Places(f, first, end, records, at, Len(records) - 1),
           Keeps(f, g, first, end), NEW cell \in Cells, Is(g, end, cell)
    PROVE  LET n == Len(records)
               longer == [records EXCEPT ![n] = Append(@, cell)]
           IN  /\ at \in [1 .. n -> first .. end]
               /\ Places(g, first, end + 1, longer, at, n - 1)
<1> DEFINE n == Len(records)
           longer == [records EXCEPT ![n] = Append(@, cell)]
<1>1. /\ n \in Nat /\ n > 0 /\ n \in 1 .. n
      /\ \A k \in 1 .. n : Len(records[k]) \in Nat
      /\ \A k \in 1 .. n : at[k] \in Nat /\ first <= at[k] /\ at[k] < end
      /\ \A k \in 1 .. n - 1 :
            at[k + 1] = at[k] + 1 + Len(records[k]) /\ at[k + 1] <= at[n]
      /\ end = at[n] + 1 + Len(records[n])
      /\ end \in Nat /\ first < end
  <2>1. Ordered(first, end, records, at)
    BY PlacesTypes
  <2> QED
    BY <2>1 DEF Ordered
<1>2. Places(g, first, end, records, at, n - 1)
  <2>1. n - 1 \in 0 .. n
    BY <1>1
  <2> QED
    BY <2>1, PlacesKept
<1>3. /\ \A k \in 1 .. n : \A j \in 1 .. Len(records[k]) : Is(g, at[k] + j, records[k][j])
      /\ \A k \in 1 .. n - 1 : Is(g, at[k], Chunk(records[k]))
      /\ at[1] = first
  BY <1>2 DEF Places
<1>4. /\ records[n] \in Seq(Cells) /\ Len(longer) = n
      /\ longer[n] = Append(records[n], cell)
      /\ \A k \in 1 .. n - 1 : longer[k] = records[k]
  BY <1>1
<1>5. /\ Len(longer[n]) = Len(records[n]) + 1
      /\ longer[n][Len(records[n]) + 1] = cell
      /\ \A j \in 1 .. Len(records[n]) : longer[n][j] = records[n][j]
  <2> DEFINE r == records[n]
  <2>1. r \in Seq(Cells) /\ longer[n] = Append(r, cell)
    BY <1>4
  <2> HIDE DEF r
  <2>2. /\ Len(Append(r, cell)) = Len(r) + 1 /\ Append(r, cell)[Len(r) + 1] = cell
        /\ \A j \in 1 .. Len(r) : Append(r, cell)[j] = r[j]
    BY <2>1
  <2> QED
    BY <2>1, <2>2 DEF r
<1>6. at \in [1 .. n -> first .. end] /\ first .. end = first .. (end + 1) - 1
  <2>1. at \in [1 .. n -> first .. end - 1]
    BY DEF Places
  <2>2. first .. end - 1 \subseteq first .. end /\ first .. end = first .. (end + 1) - 1
    BY <1>1
  <2> HIDE DEF n
  <2> QED
    BY <2>1, <2>2
<1> HIDE DEF n, longer
<1>7. PICK p \in Nat, l \in Nat : p = at[n] /\ l = Len(records[n])
  BY <1>1
<1>8. ASSUME NEW k \in 1 .. n, NEW j \in 1 .. Len(longer[k]) PROVE Is(g, at[k] + j, longer[k][j])
  <2>1. CASE k \in 1 .. n - 1
    BY <1>3, <1>4, <2>1
  <2>2. CASE k = n /\ j \in 1 .. Len(records[n])
    BY <1>3, <1>5, <2>2
  <2>3. CASE k = n /\ j = Len(records[n]) + 1
    <3>1. end = p + 1 + l /\ at[k] = p /\ j = l + 1
      BY <1>1, <1>7, <2>3
    <3>2. at[k] + j = end
      BY <3>1
    <3> QED
      BY <1>5, <2>3, <3>2
  <2> QED
    BY <1>1, <1>5, <2>1, <2>2, <2>3
<1>9. \A k \in 1 .. n - 1 : Is(g, at[k], Chunk(longer[k]))
  BY <1>3, <1>4
<1>10. end + 1 = at[n] + 1 + Len(longer[n])
  <2>1. end = p + 1 + l /\ at[n] = p /\ Len(longer[n]) = l + 1
    BY <1>1, <1>5, <1>7
  <2> QED
    BY <2>1
<1>11. \A k \in 1 .. n - 1 : at[k + 1] = at[k] + 1 + Len(longer[k]) /\ at[k + 1] <= at[n]
  BY <1>1, <1>4
<1>12. Places(g, first, end + 1, longer, at, n - 1)
  BY <1>1, <1>3, <1>4, <1>6, <1>8, <1>9, <1>10, <1>11 DEF Places
<1> QED
  BY <1>6, <1>12 DEF n, longer

\* FlushWriteChunk: the last record gets its header.
LEMMA FlushPlace ==
    ASSUME NEW f \in Seq(Cells), NEW first \in Nat, NEW end \in Nat,
           NEW records \in Seq(Seq(Cells)), NEW at,
           Places(f, first, end, records, at, Len(records) - 1)
    PROVE  Places(Put(f, at[Len(records)], Chunk(records[Len(records)])),
                  first, end, records, at, Len(records))
<1> DEFINE n == Len(records)
           a == at[n]
           g == Put(f, a, Chunk(records[n]))
<1>1. /\ n \in Nat /\ n > 0 /\ n \in 1 .. n
      /\ \A k \in 1 .. n : Len(records[k]) \in Nat
      /\ \A k \in 1 .. n : at[k] \in Nat /\ first <= at[k] /\ at[k] < end
      /\ \A k \in 1 .. n - 1 :
            at[k + 1] = at[k] + 1 + Len(records[k]) /\ at[k + 1] <= at[n]
  <2>1. Ordered(first, end, records, at)
    BY PlacesTypes
  <2> QED
    BY <2>1 DEF Ordered
<1>2. a \in Nat /\ Chunk(records[n]) \in Cells
  BY <1>1 DEF Chunk, Cell, Cells
<1> HIDE DEF n
<1>3. /\ Is(g, a, Chunk(records[n]))
      /\ \A x \in Nat \ {a} : \A c : Is(f, x, c) => Is(g, x, c)
  BY <1>2, PutIs
<1> HIDE DEF a, g
<1>4. ASSUME NEW k \in 1 .. n, NEW j \in 1 .. Len(records[k]) PROVE Is(g, at[k] + j, records[k][j])
  <2>1. Is(f, at[k] + j, records[k][j])
    BY DEF Places, n
  <2>2. at[k] + j \in Nat /\ at[k] + j # a
    <3>1. CASE k = n
      BY <1>1, <3>1 DEF a
    <3>2. CASE k # n
      <4>1. k \in 1 .. n - 1
        BY <1>1, <3>2
      <4>2. at[k] + 1 + Len(records[k]) <= a
        BY <1>1, <4>1 DEF a
      <4>3. at[k] \in Nat /\ Len(records[k]) \in Nat
        BY <1>1
      <4>4. PICK p \in Nat, l \in Nat : p = at[k] /\ l = Len(records[k])
        BY <4>3
      <4>5. p + 1 + l <= a /\ j \in 1 .. l
        BY <4>2, <4>4
      <4>6. p + j \in Nat /\ p + j # a
        BY <1>2, <4>5
      <4> QED
        BY <4>4, <4>6
    <3> QED
      BY <3>1, <3>2
  <2> QED
    BY <1>3, <2>1, <2>2
<1>5. ASSUME NEW k \in 1 .. n PROVE Is(g, at[k], Chunk(records[k]))
  <2>1. CASE k = n
    BY <1>3, <2>1 DEF a
  <2>2. CASE k # n
    <3>1. k \in 1 .. n - 1
      BY <1>1, <2>2
    <3>2. Is(f, at[k], Chunk(records[k]))
      BY <3>1 DEF Places, n
    <3>3. at[k] \in Nat /\ at[k] # a
      <4>1. at[k] \in Nat /\ Len(records[k]) \in Nat
        BY <1>1
      <4>2. at[k] + 1 + Len(records[k]) <= a
        BY <1>1, <3>1 DEF a
      <4> QED
        BY <1>2, <4>1, <4>2
    <3> QED
      BY <1>3, <3>2, <3>3
  <2> QED
    BY <2>1, <2>2
<1>6. Places(g, first, end, records, at, n)
  BY <1>4, <1>5 DEF Places, n
<1> QED
  BY <1>6 DEF n, a, g

LEMMA SectionTypes ==
    ASSUME NEW f \in Seq(Cells), NEW x \in Sections(f)
    PROVE  /\ x \in Nat /\ x < Len(f) /\ f[x + 1] \in Cells
           /\ f[x + 1].length \in Nat /\ f[x + 1].count \in Nat
           /\ f[x + 1].owner \in Owners \cup {NoOwner}
           /\ SectionEnd(f, x) \in Nat /\ x < SectionEnd(f, x)
<1>1. x \in Nat /\ x < Len(f) /\ f[x + 1] \in Cells
  BY DEF Sections
<1>2. f[x + 1].length \in Nat /\ f[x + 1].count \in Nat /\ f[x + 1].owner \in Owners \cup {NoOwner}
  BY <1>1 DEF Cells
<1> QED
  BY <1>1, <1>2 DEF SectionEnd

\* SaveReturns: the section's own header makes it one more section.
LEMMA SectionAdded ==
    ASSUME NEW f \in Seq(Cells), NEW start \in Nat, start > 0, NEW end \in Nat,
           NEW writing \in Writings, NEW o \in {NVSE} \cup Based, 0 \notin Sections(f),
           Holds(f, start, [writing EXCEPT ![o] = <<>>]), NEW at,
           Places(f, start + 1, end, writing[o], at, Len(writing[o]))
    PROVE  Holds(Put(f, start, Cell("section", o, Len(writing[o]), end - start - 1)),
                 end, writing)
<1> DEFINE header == Cell("section", o, Len(writing[o]), end - start - 1)
           g == Put(f, start, header)
           before == [writing EXCEPT ![o] = <<>>]
<1>1. /\ o \in Owners /\ writing[o] \in Seq(Seq(Cells)) /\ Len(writing[o]) \in Nat
      /\ \A q \in Owners : q # o => before[q] = writing[q]
      /\ before[o] = <<>> /\ Len(before[o]) = 0
  BY OwnersAssumption DEF Owners, Writings
<1>2. start + 1 < end
  <2>1. Ordered(start + 1, end, writing[o], at)
    BY <1>1, PlacesTypes
  <2> QED
    BY <2>1 DEF Ordered
<1>3. end - start - 1 \in Nat /\ header \in Cells /\ header.kind = "section"
      /\ header.owner = o /\ header.count = Len(writing[o])
      /\ header.length = end - start - 1
  BY <1>1, <1>2 DEF Cell, Cells, Owners
<1> HIDE DEF header, before
<1>4. /\ Sections(g) = Sections(f) \cup {start}
      /\ g[start + 1] = header /\ g \in Seq(Cells)
      /\ \A x \in Nat \ {start} : \A c : Is(f, x, c) => Is(g, x, c)
  <2>1. Overwrites(g, f, start, header)
    BY <1>3, PutCells
  <2>2. Sections(g) = (Sections(f) \ {start}) \cup {start}
    BY <1>3, PutSections
  <2>3. \A x \in Nat \ {start} : \A c : Is(f, x, c) => Is(g, x, c)
    BY <1>3, PutIs
  <2> HIDE DEF g
  <2> QED
    BY <2>1, <2>2, <2>3 DEF Overwrites
<1> HIDE DEF g
<1>5. ASSUME NEW x \in Sections(f)
      PROVE  /\ x \in Nat /\ SectionEnd(f, x) \in Nat /\ x < SectionEnd(f, x)
             /\ SectionEnd(f, x) <= start /\ x < start
             /\ g[x + 1] = f[x + 1] /\ SectionEnd(g, x) = SectionEnd(f, x)
             /\ SectionHolds(f, x, start, before[f[x + 1].owner])
             /\ f[x + 1].owner \in Owners
  <2>1. x \in Nat /\ SectionEnd(f, x) \in Nat /\ x < SectionEnd(f, x) /\ x < Len(f)
    BY SectionTypes
  <2>2. SectionHolds(f, x, start, before[f[x + 1].owner])
    BY DEF Holds, before
  <2>3. SectionEnd(f, x) <= start /\ f[x + 1].owner \in Owners
    BY <2>2, OwnersAssumption DEF SectionHolds, Owners
  <2>4. x < start
    BY <2>1, <2>3
  <2>5. g[x + 1] = f[x + 1]
    BY <1>4, <2>1, <2>4 DEF Is
  <2> QED
    BY <2>1, <2>2, <2>3, <2>4, <2>5 DEF SectionEnd
<1>6. ASSUME NEW x \in Sections(f)
      PROVE  f[x + 1].owner # o
  <2> SUFFICES ASSUME f[x + 1].owner = o PROVE FALSE
    OBVIOUS
  <2>1. SectionHolds(f, x, start, before[f[x + 1].owner])
    BY <1>5
  <2>2. Len(before[f[x + 1].owner]) = 0
    BY <1>1
  <2> QED
    BY <2>1, <2>2 DEF SectionHolds, Places
<1>7. SectionEnd(g, start) = end
  BY <1>2, <1>3, <1>4 DEF SectionEnd
<1>8. ASSUME NEW x \in Sections(f) PROVE SectionHolds(g, x, end, writing[g[x + 1].owner])
  <2> DEFINE records == writing[f[x + 1].owner]
             last == SectionEnd(f, x)
  <2>1. records = before[f[x + 1].owner] /\ records \in Seq(Seq(Cells))
    BY <1>1, <1>5, <1>6 DEF Writings
  <2>2. SectionHolds(f, x, start, records)
    BY <1>5, <2>1
  <2>3. PICK places \in [1 .. Len(records) -> x + 1 .. last - 1] :
           Places(f, x + 1, last, records, places, Len(records))
    BY <2>2 DEF SectionHolds
  <2>4. Places(g, x + 1, last, records, places, Len(records))
    <3>1. last \in Nat /\ last <= start /\ x \in Nat
      BY <1>5
    <3> HIDE DEF last, records
    <3>2. Keeps(f, g, x + 1, last)
      <4>1. \A z \in x + 1 .. last - 1 : z \in Nat \ {start}
        BY <3>1
      <4> QED
        BY <1>4, <4>1 DEF Keeps
    <3>3. Len(records) \in 0 .. Len(records)
      BY <2>1
    <3> QED
      BY <2>1, <2>3, <3>1, <3>2, <3>3, PlacesKept
  <2>5. /\ g[x + 1] = f[x + 1] /\ SectionEnd(g, x) = last
        /\ last \in Nat /\ last <= start /\ last <= end
    BY <1>2, <1>5
  <2>6. \A y \in Sections(g) : x < y => last <= y
    <3>1. \A y \in Sections(f) : x < y => last <= y
      BY <2>2 DEF SectionHolds
    <3> HIDE DEF last
    <3> QED
      BY <1>4, <2>5, <3>1
  <2>7. \A y \in Sections(g) : g[y + 1].owner = g[x + 1].owner => y = x
    <3>1. \A y \in Sections(f) : f[y + 1].owner = f[x + 1].owner => y = x
      BY <2>2 DEF SectionHolds
    <3>2. g[start + 1].owner # g[x + 1].owner
      BY <1>3, <1>4, <1>5, <1>6
    <3> QED
      BY <1>4, <1>5, <3>1, <3>2
  <2>8. last = end \/ last \in Sections(g)
    BY <1>4, <2>2 DEF SectionHolds
  <2>9. g[x + 1].owner \in {NVSE} \cup Based /\ g[x + 1].count = Len(records)
    BY <2>2, <2>5 DEF SectionHolds
  <2> HIDE DEF records, last
  <2>10. SectionHolds(g, x, end, records)
    BY <2>4, <2>5, <2>6, <2>7, <2>8, <2>9 DEF SectionHolds
  <2> QED
    BY <2>5, <2>10 DEF records
<1>9. SectionHolds(g, start, end, writing[g[start + 1].owner])
  <2>1. Places(g, start + 1, end, writing[o], at, Len(writing[o]))
    <3>1. Keeps(f, g, start + 1, end)
      BY <1>4 DEF Keeps
    <3>2. Len(writing[o]) \in 0 .. Len(writing[o])
      BY <1>1
    <3> QED
      BY <1>1, <3>1, <3>2, PlacesKept
  <2>2. \A y \in Sections(g) : ~(start < y)
    BY <1>4, <1>5
  <2>3. \A y \in Sections(g) : g[y + 1].owner = g[start + 1].owner => y = start
    BY <1>3, <1>4, <1>5, <1>6
  <2>4. at \in [1 .. Len(writing[o]) -> start + 1 .. end - 1]
    BY <2>1 DEF Places
  <2>5. SectionHolds(g, start, end, writing[o])
    BY <1>3, <1>4, <1>7, <2>1, <2>2, <2>3, <2>4 DEF SectionHolds
  <2> QED
    BY <1>3, <1>4, <2>5
<1>10. 1 \in Sections(g)
  BY <1>4 DEF Holds
<1>11. ASSUME NEW q \in Owners, writing[q] # <<>>
       PROVE  \E x \in Sections(g) : g[x + 1].owner = q
  <2>1. CASE q = o
    BY <1>3, <1>4, <2>1
  <2>2. CASE q # o
    <3>1. before[q] # <<>>
      BY <1>1, <1>11, <2>2
    <3>2. \E x \in Sections(f) : f[x + 1].owner = q
      BY <3>1 DEF Holds, before
    <3> QED
      BY <1>4, <1>5, <3>2
  <2> QED
    BY <2>1, <2>2
<1>12. Holds(g, end, writing)
  BY <1>4, <1>8, <1>9, <1>10, <1>11 DEF Holds
<1> QED
  BY <1>12 DEF g, header

-----------------------------------------------------------------------------
(* Handles and callbacks. *)

\* The entries of s_pluginCallbacks: 0 and so on without a gap.
LEMMA CallbackEntries ==
    ASSUME TypeOK, HandlesOK
    PROVE  \E n \in Nat : DOMAIN callbacks = 0 .. n - 1 /\ Cardinality(DOMAIN callbacks) = n
<1>1. Len(plugins) \in Nat
  BY DEF TypeOK
<1>2. IsFiniteSet(0 .. Len(plugins))
  BY <1>1, FS_Interval
<1>3. IsFiniteSet(DOMAIN callbacks)
  BY <1>2, FS_Subset DEF HandlesOK
<1>4. Cardinality(DOMAIN callbacks) \in Nat
  BY <1>3, FS_CardinalityType
<1> QED
  BY <1>4 DEF TypeOK

LEMMA EntryCount ==
    ASSUME NEW n \in Nat
    PROVE  Cardinality(0 .. n - 1) = n
<1>1. CASE n = 0
  <2>1. 0 .. n - 1 = {}
    BY <1>1
  <2> QED
    BY <1>1, <2>1, FS_EmptySet
<1>2. CASE n > 0
  <2>1. 0 \in Int /\ n - 1 \in Int /\ ~(0 > n - 1)
    BY <1>2
  <2>2. Cardinality(0 .. n - 1) = (n - 1) - 0 + 1
    BY <2>1, FS_Interval
  <2> QED
    BY <2>2
<1> QED
  BY <1>1, <1>2

\* Who is behind a handle, and that two handles are never the same owner's.
LEMMA OwnersOfHandles ==
    ASSUME TypeOK, HandlesOK
    PROVE  /\ DOMAIN callbacks \subseteq Nat
           /\ \A h \in DOMAIN callbacks : OwnerOf(h) \in Owners
           /\ \A h, i \in DOMAIN callbacks : OwnerOf(h) = OwnerOf(i) => h = i
           /\ \A h \in DOMAIN callbacks : \A o \in {NVSE} \cup Based :
                 h \in Handles(o) <=> OwnerOf(h) = o
           /\ \A o : \A h \in Handles(o) : OwnerOf(h) = o /\ o \in Owners /\ h \in Nat
<1>1. plugins \in Seq(Plugins) /\ NVSE \notin Plugins /\ Based \subseteq Plugins
  BY OwnersAssumption DEF TypeOK
<1>2. \A h \in DOMAIN callbacks : h \in 0 .. Len(plugins)
  BY DEF HandlesOK
<1>3. \A h \in 1 .. Len(plugins) : plugins[h] \in Plugins
  BY <1>1
<1>4. Len(plugins) \in Nat
  BY <1>1
<1>5. \A h \in DOMAIN callbacks : OwnerOf(h) \in Owners
  BY <1>2, <1>3, <1>4 DEF OwnerOf, Owners
<1>6. ASSUME NEW h \in DOMAIN callbacks, NEW i \in DOMAIN callbacks, OwnerOf(h) = OwnerOf(i)
      PROVE  h = i
  <2>1. CASE h = 0 \/ i = 0
    BY <1>1, <1>2, <1>3, <1>4, <1>6, <2>1 DEF OwnerOf
  <2>2. CASE h # 0 /\ i # 0
    <3>1. h \in 1 .. Len(plugins) /\ i \in 1 .. Len(plugins) /\ plugins[h] = plugins[i]
      BY <1>2, <1>4, <1>6, <2>2 DEF OwnerOf
    <3> QED
      BY <3>1 DEF HandlesOK
  <2> QED
    BY <2>1, <2>2
<1>7. ASSUME NEW h \in DOMAIN callbacks, NEW o \in {NVSE} \cup Based
      PROVE  h \in Handles(o) <=> OwnerOf(h) = o
  <2>1. CASE h = 0
    BY <1>1, <2>1 DEF OwnerOf, Handles
  <2>2. CASE h # 0
    <3>1. h \in 1 .. Len(plugins) /\ plugins[h] # NVSE
      BY <1>1, <1>2, <1>3, <1>4, <2>2
    <3>2. OwnerOf(h) = plugins[h]
      BY <2>2 DEF OwnerOf
    <3>3. CASE o = NVSE
      BY <2>2, <3>1, <3>2, <3>3 DEF Handles
    <3>4. CASE o # NVSE
      BY <3>1, <3>2, <3>4 DEF Handles
    <3> QED
      BY <3>3, <3>4
  <2> QED
    BY <2>1, <2>2
<1>8. ASSUME NEW o, NEW h \in Handles(o) PROVE OwnerOf(h) = o /\ o \in Owners /\ h \in Nat
  <2>1. CASE o = NVSE
    BY <2>1 DEF Handles, OwnerOf, Owners
  <2>2. CASE o # NVSE
    <3>1. h \in 1 .. Len(plugins) /\ plugins[h] = o
      BY <2>2 DEF Handles
    <3> QED
      BY <1>3, <1>4, <3>1 DEF OwnerOf, Owners
  <2> QED
    BY <2>1, <2>2
<1>9. DOMAIN callbacks \subseteq Nat
  BY <1>2, <1>4
<1> QED
  BY <1>5, <1>6, <1>7, <1>8, <1>9

-----------------------------------------------------------------------------
(* Between saves and loads. *)

\* What the invariant says when nothing is being saved or loaded.
LEMMA AtRest ==
    ASSUME TypeOK, HandlesOK, FilesHold, ~InSave, ~InLoad, NothingRead, NothingHeld
    PROVE  IInv
<1>1. mode \notin {"save", "saving", "load", "loading", "rest", "resting"}
  BY DEF InSave, InLoad
<1> QED
  BY <1>1 DEF IInv, AtRestInv, SaveInv, SaveLoopInv, SavingInv, LoadInv, LoadLoopInv,
              LoadingInv, RestInv, InSave, InLoad

LEMMA InitOK == Init => IInv
<1> SUFFICES ASSUME Init PROVE IInv
  OBVIOUS
<1>1. /\ sessions = 0 /\ plugins = <<>> /\ callbacks = [h \in {} |-> {}] /\ mode = "off"
      /\ path = NoFile /\ offset = 0 /\ section = NoSection /\ sectionAt = 0
      /\ chunkOpen = FALSE /\ chunk = 0 /\ chunkAt = 0
      /\ callback = "load" /\ index = 0 /\ hadData = {}
  BY DEF Init
<1>2. \A p \in Paths : files[p] = NoFile /\ saved[p] = NoFile
  BY DEF Init
<1>3. DOMAIN callbacks = 0 .. Cardinality(DOMAIN callbacks) - 1 /\ DOMAIN callbacks = {}
  <2>1. DOMAIN callbacks = {}
    BY <1>1
  <2>2. Cardinality({}) = 0 /\ 0 .. 0 - 1 = {}
    BY FS_EmptySet
  <2> QED
    BY <2>1, <2>2
<1>4. section \in [owner : Owners \cup {NoOwner}, numChunks : Nat, length : Nat]
  BY <1>1 DEF NoSection
<1>5. plugins \in Seq(Plugins) /\ Len(plugins) = 0
  BY <1>1
<1>6. TypeOK
  <2>1. {offset, sectionAt, chunk, chunkAt, index} \subseteq Nat
    BY <1>1
  <2>2. path \in Paths \cup {NoFile} /\ callback \in {"load", "preLoad"}
        /\ chunkOpen \in BOOLEAN /\ hadData \subseteq DOMAIN callbacks
    BY <1>1
  <2>3. sessions \in 0 .. MaxSessions /\ mode \in Modes
    BY <1>1, SizesAssumption DEF Modes
  <2>4. \A h \in DOMAIN callbacks : callbacks[h] \subseteq CallbackNames
    BY <1>3
  <2> QED
    BY <1>2, <1>3, <1>4, <1>5, <2>1, <2>2, <2>3, <2>4 DEF TypeOK
<1>7. HandlesOK
  BY <1>3, <1>5 DEF HandlesOK
<1>8. FilesHold
  <2>1. DOMAIN files = Paths /\ DOMAIN saved = Paths
    BY DEF Init
  <2> QED
    BY <1>2, <2>1, NoFileAssumption DEF FilesHold, FileHolds, HasHeader
<1>9. NothingRead /\ NothingHeld /\ ~InSave /\ ~InLoad
  BY DEF Init, NothingRead, NothingHeld, InSave, InLoad
<1> QED
  BY <1>6, <1>7, <1>8, <1>9, AtRest

\* Every save or load that is over, however it ended, and the end of a session.
LEMMA OverOK ==
    ASSUME IInv, CloseFile, mode' \in {"off", "idle"}, UNCHANGED <<sessions, files, saved>>,
           \/ UNCHANGED <<plugins, callbacks>>
           \/ plugins' = <<>> /\ callbacks' = [h \in {} |-> {}]
    PROVE  IInv'
<1>1. TypeOK /\ HandlesOK /\ FilesHold
  BY DEF IInv
<1>2. /\ path' = NoFile /\ offset' = 0 /\ section' = NoSection /\ sectionAt' = 0
      /\ chunkOpen' = FALSE /\ chunk' = 0 /\ chunkAt' = 0
      /\ callback' = "load" /\ index' = 0 /\ hadData' = {}
      /\ written' = NothingOfAny
      /\ got' = NothingOfAny /\ ended' = {} /\ called' = NeverCalled
  BY DEF CloseFile
<1>3. /\ DOMAIN callbacks' = 0 .. Cardinality(DOMAIN callbacks') - 1
      /\ \A h \in DOMAIN callbacks' : callbacks'[h] \subseteq CallbackNames
      /\ plugins' \in Seq(Plugins) /\ HandlesOK'
  <2>1. CASE UNCHANGED <<plugins, callbacks>>
    BY <1>1, <2>1 DEF TypeOK, HandlesOK
  <2>2. CASE plugins' = <<>> /\ callbacks' = [h \in {} |-> {}]
    <3>1. DOMAIN callbacks' = {} /\ Len(plugins') = 0 /\ plugins' \in Seq(Plugins)
      BY <2>2
    <3>2. Cardinality({}) = 0 /\ 0 .. 0 - 1 = {}
      BY FS_EmptySet
    <3> QED
      BY <3>1, <3>2 DEF HandlesOK
  <2> QED
    BY <2>1, <2>2
<1>4. section' \in [owner : Owners \cup {NoOwner}, numChunks : Nat, length : Nat]
  BY <1>2 DEF NoSection
<1>5. TypeOK'
  <2>1. {offset', sectionAt', chunk', chunkAt', index'} \subseteq Nat
    BY <1>2
  <2>2. path' \in Paths \cup {NoFile} /\ callback' \in {"load", "preLoad"}
        /\ chunkOpen' \in BOOLEAN /\ hadData' \subseteq DOMAIN callbacks'
    BY <1>2
  <2>3. sessions' \in 0 .. MaxSessions /\ mode' \in Modes
    BY <1>1 DEF TypeOK, Modes
  <2>4. \A p \in Paths : files'[p] = NoFile \/ files'[p] \in Seq(Cells)
    BY <1>1 DEF TypeOK
  <2> QED
    BY <1>3, <1>4, <2>1, <2>2, <2>3, <2>4 DEF TypeOK
<1>6. FilesHold'
  BY <1>1 DEF FilesHold
<1>7. NothingRead' /\ NothingHeld' /\ ~InSave' /\ ~InLoad'
  BY <1>2 DEF NothingRead, NothingHeld, InSave, InLoad
<1>8. IInv'
  BY <1>3, <1>5, <1>6, <1>7, AtRest, PTL
<1> QED
  BY <1>8

LEMMA SessionOK ==
    ASSUME IInv, Session
    PROVE  IInv'
<1>1. /\ TypeOK /\ HandlesOK /\ FilesHold
      /\ mode \in {"off", "starting", "idle"} => NothingRead /\ NothingHeld
  BY DEF IInv, AtRestInv, InSave, InLoad
<1>2. ASSUME mode \in {"off", "starting", "idle"}, mode' \in {"starting", "idle"},
             UNCHANGED <<files, path, offset, section, sectionAt, chunkOpen, chunk, chunkAt,
                         callback, index, hadData, written, saved, got, ended, called>>,
             sessions' \in 0 .. MaxSessions, plugins' \in Seq(Plugins),
             DOMAIN callbacks' = 0 .. Cardinality(DOMAIN callbacks') - 1,
             \A h \in DOMAIN callbacks' : callbacks'[h] \subseteq CallbackNames,
             HandlesOK'
      PROVE  IInv'
  <2>1. hadData = {} /\ NothingRead /\ NothingHeld
    BY <1>1, <1>2 DEF NothingHeld
  <2>2. TypeOK'
    <3>1. {offset', sectionAt', chunk', chunkAt', index'} \subseteq Nat
      BY <1>1, <1>2 DEF TypeOK
    <3>2. /\ section' \in [owner : Owners \cup {NoOwner}, numChunks : Nat, length : Nat]
          /\ path' \in Paths \cup {NoFile} /\ callback' \in {"load", "preLoad"}
          /\ chunkOpen' \in BOOLEAN /\ hadData' \subseteq DOMAIN callbacks'
      BY <1>1, <1>2, <2>1 DEF TypeOK
    <3>3. mode' \in Modes
      BY <1>2 DEF Modes
    <3>4. \A p \in Paths : files'[p] = NoFile \/ files'[p] \in Seq(Cells)
      BY <1>1, <1>2 DEF TypeOK
    <3> QED
      BY <1>2, <3>1, <3>2, <3>3, <3>4 DEF TypeOK
  <2>3. FilesHold'
    BY <1>1, <1>2 DEF FilesHold
  <2>4. NothingRead' /\ NothingHeld' /\ ~InSave' /\ ~InLoad'
    BY <1>2, <2>1 DEF NothingRead, NothingHeld, InSave, InLoad
  <2>5. IInv'
    BY <1>2, <2>2, <2>3, <2>4, AtRest, PTL
  <2> QED
    BY <2>5
<1>3. CASE StartSession
  <2>1. /\ mode = "off" /\ sessions < MaxSessions /\ sessions' = sessions + 1
        /\ mode' = "starting" /\ callbacks' = [h \in {0} |-> CallbackNames]
        /\ UNCHANGED <<files, path, offset, section, sectionAt, chunkOpen, chunk, chunkAt,
                       callback, index, hadData, written, saved, got, ended, called>>
    BY <1>3 DEF StartSession, streamVars, sectionVars, chunkVars, loopVars, historyVars, readVars
  <2>2. /\ plugins' \in Seq(Plugins)
        /\ \A i, j \in 1 .. Len(plugins') : plugins'[i] = plugins'[j] => i = j
    <3>1. PICK n \in 0 .. Cardinality(Plugins) :
             plugins' \in {s \in [1 .. n -> Plugins] :
                              \A i, j \in 1 .. n : s[i] = s[j] => i = j}
      BY <1>3 DEF StartSession
    <3>2. n \in Nat
      <4>1. Cardinality(Plugins) \in Nat
        BY OwnersAssumption, FS_CardinalityType
      <4> QED
        BY <4>1
    <3>3. plugins' \in [1 .. n -> Plugins]
      BY <3>1
    <3>4. plugins' \in Seq(Plugins) /\ Len(plugins') = n
      BY <3>2, <3>3
    <3> QED
      BY <3>1, <3>4
  <2>3. DOMAIN callbacks' = {0} /\ 0 .. 1 - 1 = {0} /\ Cardinality({0}) = 1
    <3>1. DOMAIN callbacks' = {0}
      BY <2>1
    <3>2. 0 .. 1 - 1 = {0}
      OBVIOUS
    <3>3. Cardinality({0}) = 1
      BY FS_Singleton
    <3> QED
      BY <3>1, <3>2, <3>3
  <2>4. HandlesOK'
    <3>1. Len(plugins') \in Nat
      BY <2>2
    <3> QED
      BY <2>2, <2>3, <3>1 DEF HandlesOK
  <2>5. sessions' \in 0 .. MaxSessions
    BY <1>1, <2>1, SizesAssumption DEF TypeOK
  <2>6. \A h \in DOMAIN callbacks' : callbacks'[h] \subseteq CallbackNames
    BY <2>1, <2>3
  <2> QED
    BY <1>2, <2>1, <2>2, <2>3, <2>4, <2>5, <2>6
<1>4. ASSUME NEW handle \in 1 .. Len(plugins), NEW name \in CallbackNames,
             SetCallback(handle, name)
      PROVE  IInv'
  <2>1. /\ mode = "starting" /\ mode' = "starting" /\ UNCHANGED <<sessions, plugins>>
        /\ callbacks' = [h \in Entries(handle) |->
                            {n \in CallbackNames : Has(h, n) \/ <<h, n>> = <<handle, name>>}]
        /\ UNCHANGED <<files, path, offset, section, sectionAt, chunkOpen, chunk, chunkAt,
                       callback, index, hadData, written, saved, got, ended, called>>
    BY <1>4 DEF SetCallback, streamVars, sectionVars, chunkVars, loopVars, historyVars, readVars
  <2>2. PICK n \in Nat : DOMAIN callbacks = 0 .. n - 1
    BY <1>1, CallbackEntries
  <2>3. Len(plugins) \in Nat /\ handle \in Nat
    BY <1>1 DEF TypeOK
  <2>4. DOMAIN callbacks' = (0 .. n - 1) \cup 0 .. handle
    BY <2>1, <2>2 DEF Entries
  <2>5. PICK m \in Nat : DOMAIN callbacks' = 0 .. m - 1
    <3>1. CASE n <= handle
      <4>1. DOMAIN callbacks' = 0 .. (handle + 1) - 1 /\ handle + 1 \in Nat
        BY <2>3, <2>4, <3>1
      <4> QED
        BY <4>1
    <3>2. CASE handle < n
      <4>1. DOMAIN callbacks' = 0 .. n - 1
        BY <2>3, <2>4, <3>2
      <4> QED
        BY <4>1
    <3> QED
      BY <2>3, <3>1, <3>2
  <2>6. Cardinality(DOMAIN callbacks') = m
    BY <2>5, EntryCount
  <2>7. HandlesOK'
    <3>1. DOMAIN callbacks' \subseteq 0 .. Len(plugins)
      BY <1>1, <2>2, <2>3, <2>4 DEF HandlesOK
    <3> QED
      BY <1>1, <2>1, <3>1 DEF HandlesOK
  <2>8. \A h \in DOMAIN callbacks' : callbacks'[h] \subseteq CallbackNames
    BY <2>1
  <2>9. plugins' \in Seq(Plugins) /\ sessions' \in 0 .. MaxSessions
    BY <1>1, <2>1 DEF TypeOK
  <2> QED
    BY <1>2, <2>1, <2>5, <2>6, <2>7, <2>8, <2>9
<1>5. CASE StartGame
  <2>1. /\ mode = "starting" /\ mode' = "idle" /\ UNCHANGED <<sessions, plugins, callbacks>>
        /\ UNCHANGED <<files, path, offset, section, sectionAt, chunkOpen, chunk, chunkAt,
                       callback, index, hadData, written, saved, got, ended, called>>
    BY <1>5 DEF StartGame, sessionVars, streamVars, sectionVars, chunkVars, loopVars,
                historyVars, readVars
  <2>2. HandlesOK'
    BY <1>1, <2>1 DEF HandlesOK
  <2>3. /\ plugins' \in Seq(Plugins) /\ sessions' \in 0 .. MaxSessions
        /\ DOMAIN callbacks' = 0 .. Cardinality(DOMAIN callbacks') - 1
        /\ \A h \in DOMAIN callbacks' : callbacks'[h] \subseteq CallbackNames
    BY <1>1, <2>1 DEF TypeOK
  <2> QED
    BY <1>2, <2>1, <2>2, <2>3
<1>6. CASE EndSession
  <2>1. /\ CloseFile /\ mode' \in {"off", "idle"} /\ UNCHANGED <<sessions, files, saved>>
        /\ plugins' = <<>> /\ callbacks' = [h \in {} |-> {}]
    BY <1>6 DEF EndSession
  <2> QED
    BY <2>1, OverOK
<1> QED
  BY <1>3, <1>4, <1>5, <1>6 DEF Session

\* Deleting and renaming take a co-save and what it holds along.
LEMMA FilesOK ==
    ASSUME IInv, Files
    PROVE  IInv'
<1>1. /\ mode = "idle" /\ mode' = "idle"
      /\ UNCHANGED <<sessions, plugins, callbacks, path, offset, section, sectionAt, chunkOpen,
                     chunk, chunkAt, callback, index, hadData, written, got, ended, called>>
  BY DEF Files, HandleDeleteGame, HandleRenameGame, sessionVars, streamVars, sectionVars,
         chunkVars, loopVars, readVars
<1>2. TypeOK /\ HandlesOK /\ FilesHold /\ NothingRead /\ NothingHeld
  BY <1>1 DEF IInv, AtRestInv, InSave, InLoad
<1>3. /\ DOMAIN files' = Paths /\ DOMAIN saved' = Paths
      /\ \A p \in Paths : \/ files'[p] = NoFile /\ saved'[p] = NoFile
                          \/ \E q \in Paths : files'[p] = files[q] /\ saved'[p] = saved[q]
  <2>1. DOMAIN files = Paths /\ DOMAIN saved = Paths
    BY <1>2 DEF FilesHold
  <2>2. ASSUME NEW p \in Paths, HandleDeleteGame(p)
        PROVE  /\ DOMAIN files' = Paths /\ DOMAIN saved' = Paths
               /\ \A q \in Paths : \/ files'[q] = NoFile /\ saved'[q] = NoFile
                                   \/ files'[q] = files[q] /\ saved'[q] = saved[q]
    BY <2>1, <2>2 DEF HandleDeleteGame
  <2>3. ASSUME NEW old \in Paths, NEW new \in Paths \ {old}, HandleRenameGame(old, new)
        PROVE  /\ DOMAIN files' = Paths /\ DOMAIN saved' = Paths
               /\ files'[old] = NoFile /\ saved'[old] = NoFile
               /\ files'[new] = files[old] /\ saved'[new] = saved[old]
               /\ \A q \in Paths \ {old, new} : files'[q] = files[q] /\ saved'[q] = saved[q]
    BY <2>1, <2>3 DEF HandleRenameGame
  <2>4. CASE \E p \in Paths : HandleDeleteGame(p)
    BY <2>2, <2>4
  <2>5. CASE \E old \in Paths : \E new \in Paths \ {old} : HandleRenameGame(old, new)
    <3>1. PICK old \in Paths : \E new \in Paths \ {old} : HandleRenameGame(old, new)
      BY <2>5
    <3>2. PICK new \in Paths \ {old} : HandleRenameGame(old, new)
      BY <3>1
    <3>3. /\ DOMAIN files' = Paths /\ DOMAIN saved' = Paths
          /\ files'[old] = NoFile /\ saved'[old] = NoFile
          /\ files'[new] = files[old] /\ saved'[new] = saved[old]
          /\ \A q \in Paths \ {old, new} : files'[q] = files[q] /\ saved'[q] = saved[q]
      BY <2>3, <3>2
    <3> QED
      BY <3>3
  <2> QED
    BY <2>4, <2>5 DEF Files
<1>4. \A p \in Paths : files'[p] = NoFile \/ files'[p] \in Seq(Cells)
  BY <1>2, <1>3 DEF TypeOK
<1>5. TypeOK'
  BY <1>1, <1>2, <1>4 DEF TypeOK
<1>6. FilesHold'
  <2>1. FileHolds(NoFile, NoFile)
    BY NoFileAssumption DEF FileHolds, HasHeader
  <2>2. \A p \in Paths : FileHolds(files'[p], saved'[p])
    BY <1>2, <1>3, <2>1 DEF FilesHold
  <2> QED
    BY <1>3, <2>2 DEF FilesHold
<1>7. HandlesOK' /\ NothingRead' /\ NothingHeld' /\ ~InSave' /\ ~InLoad'
  BY <1>1, <1>2 DEF HandlesOK, NothingRead, NothingHeld, InSave, InLoad
<1>8. IInv'
  BY <1>5, <1>6, <1>7, AtRest, PTL
<1> QED
  BY <1>8

-----------------------------------------------------------------------------
(* Saving. *)

\* A step of a save: what is left to show when it writes to its own file only.
LEMMA SaveStep ==
    ASSUME IInv, InSave, mode' \in {"save", "saving"}, UNCHANGED keptBySave,
           offset' \in Nat, sectionAt' \in Nat, chunkAt' \in Nat, index' \in Nat,
           section' \in [owner : Owners \cup {NoOwner}, numChunks : Nat, length : Nat],
           chunkOpen' \in BOOLEAN,
           DOMAIN files' = Paths, \A p \in Paths \ {path} : files'[p] = files[p],
           files'[path] \in Seq(Cells), ~HasHeader(files'[path]), 0 \notin Sections(files'[path]),
           written' \in Writings,
           \A h \in DOMAIN callbacks :
              h > index' \/ (mode' = "save" /\ h = index') => written'[OwnerOf(h)] = <<>>,
           SaveLoopInv', SavingInv'
    PROVE  IInv'
<1>1. /\ UNCHANGED <<sessions, plugins, callbacks, path, chunk, callback, hadData, newGame,
                     saved, got, ended, called>>
  BY DEF keptBySave, sessionVars, readVars
<1>2. TypeOK /\ HandlesOK /\ FilesHold /\ SaveInv
  BY DEF IInv
<1>3. path \in Paths /\ saved[path] = NoFile /\ NothingRead /\ hadData = {}
  BY <1>2 DEF SaveInv
<1>4. InSave' /\ ~InLoad' /\ mode' \in Modes
  BY DEF InSave, InLoad, Modes
<1>5. TypeOK'
  <2>1. {offset', sectionAt', chunk', chunkAt', index'} \subseteq Nat
    BY <1>1, <1>2 DEF TypeOK
  <2>2. \A p \in Paths : files'[p] = NoFile \/ files'[p] \in Seq(Cells)
    BY <1>2 DEF TypeOK
  <2>3. /\ path' \in Paths \cup {NoFile} /\ callback' \in {"load", "preLoad"}
        /\ hadData' \subseteq DOMAIN callbacks' /\ sessions' \in 0 .. MaxSessions
        /\ plugins' \in Seq(Plugins)
    BY <1>1, <1>2 DEF TypeOK
  <2>4. /\ DOMAIN callbacks' = 0 .. Cardinality(DOMAIN callbacks') - 1
        /\ \A h \in DOMAIN callbacks' : callbacks'[h] \subseteq CallbackNames
    BY <1>1, <1>2 DEF TypeOK
  <2> QED
    BY <1>4, <2>1, <2>2, <2>3, <2>4 DEF TypeOK
<1>6. HandlesOK'
  BY <1>1, <1>2 DEF HandlesOK
<1>7. FilesHold'
  <2>1. DOMAIN saved' = Paths
    BY <1>1, <1>2 DEF FilesHold
  <2>2. FileHolds(files'[path], saved[path])
    BY <1>3 DEF FileHolds
  <2>3. \A p \in Paths : FileHolds(files'[p], saved[p])
    BY <1>2, <2>2 DEF FilesHold
  <2> QED
    BY <1>1, <2>1, <2>3 DEF FilesHold
<1>8. SaveInv'
  <2>1. NothingRead'
    BY <1>1, <1>3 DEF NothingRead
  <2>2. \A h \in DOMAIN callbacks' :
           h > index' \/ (mode' = "save" /\ h = index') => written'[OwnerOf(h)'] = <<>>
    BY <1>1 DEF OwnerOf
  <2> QED
    BY <1>1, <1>3, <2>1, <2>2 DEF SaveInv, File
<1>9. AtRestInv' /\ LoadInv' /\ LoadLoopInv' /\ LoadingInv' /\ RestInv'
  BY <1>4 DEF AtRestInv, LoadInv, LoadLoopInv, LoadingInv, RestInv, InLoad
<1> QED
  BY <1>5, <1>6, <1>7, <1>8, <1>9 DEF IInv

LEMMA HandleSaveGameOK ==
    ASSUME IInv, NEW p \in Paths, HandleSaveGame(p)
    PROVE  IInv'
<1>1. /\ mode = "idle" /\ mode' = "save"
      /\ files' = [files EXCEPT ![p] = <<>>] /\ saved' = [saved EXCEPT ![p] = NoFile]
      /\ path' = p /\ offset' = 1
      /\ UNCHANGED <<sessions, plugins, callbacks, section, sectionAt, chunkOpen, chunk, chunkAt,
                     callback, index, hadData, newGame, written, got, ended, called>>
  BY DEF HandleSaveGame, MaySave, NewFile, sessionVars, sectionVars, chunkVars, loopVars, readVars
<1>2. TypeOK /\ HandlesOK /\ FilesHold /\ NothingRead /\ NothingHeld
  BY <1>1 DEF IInv, AtRestInv, InSave, InLoad
<1>3. DOMAIN files = Paths /\ DOMAIN saved = Paths
  BY <1>2 DEF FilesHold
<1>4. /\ DOMAIN files' = Paths /\ files'[p] = <<>>
      /\ \A q \in Paths \ {p} : files'[q] = files[q]
  BY <1>1, <1>3
<1>5. /\ DOMAIN saved' = Paths /\ saved'[p] = NoFile
      /\ \A q \in Paths \ {p} : saved'[q] = saved[q]
  BY <1>1, <1>3
<1>6. <<>> \in Seq(Cells) /\ Len(<<>>) = 0
  OBVIOUS
<1>7. Sections(<<>>) = {}
  BY <1>6 DEF Sections
<1>8. written = NothingOfAny /\ index = 0 /\ hadData = {} /\ chunkOpen = FALSE
  BY <1>2 DEF NothingHeld
<1>9. written \in Writings /\ \A o \in Owners : written[o] = <<>>
  BY <1>8 DEF NothingOfAny, Writings
<1>10. InSave' /\ ~InLoad' /\ mode' \in Modes
  BY <1>1 DEF InSave, InLoad, Modes
<1>11. TypeOK'
  <2>1. {offset', sectionAt', chunk', chunkAt', index'} \subseteq Nat
    BY <1>1, <1>2 DEF TypeOK
  <2>2. \A q \in Paths : files'[q] = NoFile \/ files'[q] \in Seq(Cells)
    BY <1>2, <1>4, <1>6 DEF TypeOK
  <2>3. /\ path' \in Paths \cup {NoFile} /\ callback' \in {"load", "preLoad"}
        /\ hadData' \subseteq DOMAIN callbacks' /\ sessions' \in 0 .. MaxSessions
        /\ plugins' \in Seq(Plugins) /\ chunkOpen' \in BOOLEAN
        /\ section' \in [owner : Owners \cup {NoOwner}, numChunks : Nat, length : Nat]
    BY <1>1, <1>2 DEF TypeOK
  <2>4. /\ DOMAIN callbacks' = 0 .. Cardinality(DOMAIN callbacks') - 1
        /\ \A h \in DOMAIN callbacks' : callbacks'[h] \subseteq CallbackNames
    BY <1>1, <1>2 DEF TypeOK
  <2> QED
    BY <1>10, <2>1, <2>2, <2>3, <2>4 DEF TypeOK
<1>12. HandlesOK'
  BY <1>1, <1>2 DEF HandlesOK
<1>13. FilesHold'
  <2>1. FileHolds(<<>>, NoFile)
    BY DEF FileHolds, HasHeader
  <2>2. \A q \in Paths : FileHolds(files'[q], saved'[q])
    BY <1>2, <1>4, <1>5, <2>1 DEF FilesHold
  <2> QED
    BY <1>4, <1>5, <2>2 DEF FilesHold
<1>14. SaveInv'
  <2>1. NothingRead'
    BY <1>1, <1>2 DEF NothingRead
  <2>2. \A h \in DOMAIN callbacks' : written'[OwnerOf(h)'] = <<>>
    <3>1. \A h \in DOMAIN callbacks : OwnerOf(h) \in Owners
      BY <1>2, OwnersOfHandles
    <3> QED
      BY <1>1, <1>9, <3>1 DEF OwnerOf
  <2>3. path' \in Paths /\ File' = <<>> /\ saved'[path'] = NoFile
    BY <1>1, <1>4, <1>5 DEF File
  <2> QED
    BY <1>1, <1>6, <1>7, <1>8, <1>9, <2>1, <2>2, <2>3 DEF SaveInv
<1>15. SaveLoopInv'
  <2>1. File' = <<>>
    BY <1>1, <1>4 DEF File
  <2>2. Holds(<<>>, 1, written)
    BY <1>7, <1>9 DEF Holds
  <2> QED
    BY <1>1, <1>6, <2>1, <2>2 DEF SaveLoopInv, BetweenSections
<1>16. /\ AtRestInv' /\ LoadInv' /\ LoadLoopInv' /\ LoadingInv' /\ RestInv' /\ SavingInv'
  BY <1>1, <1>10 DEF AtRestInv, LoadInv, LoadLoopInv, LoadingInv, RestInv, SavingInv, InLoad
<1> QED
  BY <1>11, <1>12, <1>13, <1>14, <1>15, <1>16 DEF IInv

\* What is known of the file while a save is writing it.
LEMMA SavedFile ==
    ASSUME IInv, InSave
    PROVE  /\ TypeOK /\ HandlesOK /\ SaveInv /\ SaveLoopInv /\ SavingInv
           /\ path \in Paths /\ DOMAIN files = Paths /\ File \in Seq(Cells) /\ ~HasHeader(File)
           /\ 0 \notin Sections(File) /\ written \in Writings /\ saved[path] = NoFile
           /\ offset \in Nat /\ sectionAt \in Nat /\ chunkAt \in Nat /\ index \in Nat
           /\ section \in [owner : Owners \cup {NoOwner}, numChunks : Nat, length : Nat]
<1>1. TypeOK /\ HandlesOK /\ SaveInv /\ SaveLoopInv /\ SavingInv /\ FilesHold
  BY DEF IInv
<1>2. path \in Paths /\ saved[path] = NoFile /\ File \in Seq(Cells) /\ written \in Writings
      /\ 0 \notin Sections(File)
  BY <1>1 DEF SaveInv
<1>3. ~HasHeader(File)
  BY <1>1, <1>2, NoFileAssumption DEF FilesHold, FileHolds, File
<1>4. offset \in Nat /\ sectionAt \in Nat /\ chunkAt \in Nat /\ index \in Nat
  BY <1>1 DEF TypeOK
<1>5. section \in [owner : Owners \cup {NoOwner}, numChunks : Nat, length : Nat]
  BY <1>1 DEF TypeOK
<1> QED
  BY <1>1, <1>2, <1>3, <1>4, <1>5 DEF FilesHold

LEMMA CallSaveOK ==
    ASSUME IInv, CallSave
    PROVE  IInv'
<1>1. /\ mode = "save" /\ mode' = "saving" /\ chunkOpen' = FALSE
      /\ UNCHANGED <<keptBySave, files, offset, sectionAt, chunkAt, written>>
  BY DEF CallSave
<1>2. PICK h \in {i \in DOMAIN callbacks : i >= index /\ Saves(i)} :
         index' = h /\ section' = [owner |-> OwnerOf(h), numChunks |-> 0, length |-> 0]
  BY DEF CallSave
<1>3. InSave
  BY <1>1 DEF InSave
<1>4. /\ TypeOK /\ HandlesOK /\ SaveInv /\ SaveLoopInv
      /\ path \in Paths /\ DOMAIN files = Paths /\ File \in Seq(Cells) /\ ~HasHeader(File)
      /\ 0 \notin Sections(File) /\ written \in Writings
      /\ offset \in Nat /\ sectionAt \in Nat /\ chunkAt \in Nat /\ index \in Nat
  BY <1>3, SavedFile
<1>5. UNCHANGED <<plugins, callbacks, path>>
  BY <1>1 DEF keptBySave, sessionVars
<1>6. h \in DOMAIN callbacks /\ h \in Nat /\ h >= index /\ Saves(h) /\ OwnerOf(h) \in Owners
  BY <1>2, <1>4, OwnersOfHandles
<1>7. section' \in [owner : Owners \cup {NoOwner}, numChunks : Nat, length : Nat]
  BY <1>2, <1>6
<1>8. \A i \in DOMAIN callbacks : i >= index => written[OwnerOf(i)] = <<>>
  <2>1. DOMAIN callbacks \subseteq Nat
    BY <1>4, OwnersOfHandles
  <2> QED
    BY <1>1, <1>3, <1>4, <2>1 DEF SaveInv
<1>9. \A i \in DOMAIN callbacks :
         i > index' \/ (mode' = "save" /\ i = index') => written'[OwnerOf(i)] = <<>>
  <2>1. DOMAIN callbacks \subseteq Nat
    BY <1>4, OwnersOfHandles
  <2> QED
    BY <1>1, <1>2, <1>4, <1>6, <1>8, <2>1
<1>10. SaveLoopInv'
  BY <1>1 DEF SaveLoopInv
<1>11. SavingInv'
  <2>1. written[OwnerOf(h)] = <<>>
    BY <1>6, <1>8
  <2>2. Earlier' = written
    <3>1. [written EXCEPT ![OwnerOf(h)] = <<>>] = written
      BY <1>4, <1>6, <2>1 DEF Writings
    <3> QED
      BY <1>1, <1>2, <3>1 DEF Earlier
  <2>3. index' \in DOMAIN callbacks' /\ Saves(index)' /\ section'.owner = OwnerOf(index)'
    BY <1>2, <1>5, <1>6 DEF Saves, Has, OwnerOf
  <2>4. section'.numChunks = Len(written'[section'.owner])
    BY <1>1, <1>2, <2>1
  <2>5. Holds(File, offset, written) /\ BetweenSections(offset) /\ offset > 0
    BY <1>1, <1>4 DEF SaveLoopInv
  <2>6. File' = File
    BY <1>1, <1>5 DEF File
  <2>7. /\ chunkOpen' = FALSE /\ section'.length = 0 /\ offset' > 0
        /\ Holds(File', offset', Earlier') /\ BetweenSections(offset)'
    BY <1>1, <1>2, <2>2, <2>5, <2>6 DEF BetweenSections
  <2> QED
    BY <1>2, <2>3, <2>4, <2>7 DEF SavingInv
<1>12. files'[path] = File /\ DOMAIN files' = Paths /\ \A p \in Paths \ {path} : files'[p] = files[p]
  BY <1>1, <1>4 DEF File
<1>13. UNCHANGED keptBySave
  BY <1>1
<1> QED
  <2>1. /\ offset' \in Nat /\ sectionAt' \in Nat /\ chunkAt' \in Nat /\ index' \in Nat
        /\ chunkOpen' \in BOOLEAN /\ mode' \in {"save", "saving"}
    BY <1>1, <1>2, <1>4, <1>6
  <2>2. files'[path] \in Seq(Cells) /\ ~HasHeader(files'[path]) /\ 0 \notin Sections(files'[path])
        /\ written' \in Writings
    BY <1>1, <1>4, <1>12
  <2> QED
    BY <1>3, <1>7, <1>9, <1>10, <1>11, <1>12, <1>13, <2>1, <2>2, SaveStep

\* The plugin whose save callback runs, and what it has written.
LEMMA Saver ==
    ASSUME IInv, mode = "saving"
    PROVE  /\ section.owner \in {NVSE} \cup Based /\ section.owner \in Owners
           /\ section.owner = OwnerOf(index) /\ index \in DOMAIN callbacks
           /\ written[section.owner] \in Seq(Seq(Cells))
           /\ section.numChunks = Len(written[section.owner]) /\ section.numChunks \in Nat
           /\ Earlier \in Writings
<1>1. InSave
  BY DEF InSave
<1>2. TypeOK /\ HandlesOK /\ SavingInv /\ written \in Writings
      /\ section \in [owner : Owners \cup {NoOwner}, numChunks : Nat, length : Nat]
  BY <1>1, SavedFile
<1>3. /\ index \in DOMAIN callbacks /\ Saves(index) /\ section.owner = OwnerOf(index)
      /\ section.numChunks = Len(written[section.owner])
  BY <1>2 DEF SavingInv
<1>4. OwnerOf(index) \in Owners
  BY <1>2, <1>3, OwnersOfHandles
<1>5. section.owner \in {NVSE} \cup Based
  BY <1>3 DEF Saves, OwnerOf
<1>6. written[section.owner] \in Seq(Seq(Cells))
  BY <1>2, <1>3, <1>4 DEF Writings
<1>7. Earlier \in Writings
  <2>1. <<>> \in Seq(Seq(Cells))
    OBVIOUS
  <2>2. written \in [Owners -> Seq(Seq(Cells))]
    BY <1>2 DEF Writings
  <2>3. [written EXCEPT ![section.owner] = <<>>] \in [Owners -> Seq(Seq(Cells))]
    BY <2>1, <2>2
  <2> QED
    BY <2>3 DEF Earlier, Writings
<1> QED
  BY <1>2, <1>3, <1>4, <1>5, <1>6, <1>7

\* Sections that end before an offset begin before it.
LEMMA NoSectionFrom ==
    ASSUME NEW f \in Seq(Cells), NEW end \in Nat, NEW writing, Holds(f, end, writing)
    PROVE  \A x \in Sections(f) : x < end
<1> SUFFICES ASSUME NEW x \in Sections(f) PROVE x < end
  OBVIOUS
<1>1. SectionEnd(f, x) <= end
  BY DEF Holds, SectionHolds
<1>2. x \in Nat /\ SectionEnd(f, x) \in Nat /\ x < SectionEnd(f, x)
  BY SectionTypes
<1> QED
  BY <1>1, <1>2

\* One cell written at or behind end that is no section's changes nothing before.
LEMMA HoldsAfterPut ==
    ASSUME NEW f \in Seq(Cells), NEW end \in Nat, NEW writing \in Writings,
           0 \notin Sections(f), Holds(f, end, writing),
           NEW a \in Nat, end <= a, NEW cell \in Cells, cell.kind # "section"
    PROVE  /\ Put(f, a, cell) \in Seq(Cells) /\ Sections(Put(f, a, cell)) = Sections(f)
           /\ Holds(Put(f, a, cell), end, writing)
<1> DEFINE g == Put(f, a, cell)
<1>1. g \in Seq(Cells)
  BY PutCells DEF Overwrites
<1>2. Sections(g) = Sections(f)
  <2>1. Sections(g) = (Sections(f) \ {a}) \cup {}
    BY PutSections
  <2>2. \A x \in Sections(f) : x < end
    BY NoSectionFrom
  <2>3. a \notin Sections(f)
    BY <2>2
  <2> QED
    BY <2>1, <2>3
<1>3. Keeps(f, g, 1, end)
  <2>1. \A x \in 1 .. end - 1 : x \in Nat \ {a}
    OBVIOUS
  <2>2. \A x \in Nat \ {a} : \A c : Is(f, x, c) => Is(g, x, c)
    BY PutIs
  <2> QED
    BY <2>1, <2>2 DEF Keeps
<1> HIDE DEF g
<1>4. Holds(g, end, writing)
  BY <1>1, <1>2, <1>3, HoldsKept, OwnersAssumption
<1> QED
  BY <1>1, <1>2, <1>4 DEF g

\* FlushWriteChunk: all records of the section have their headers.
FlushedAt(at) ==
    /\ at \in [1 .. section.numChunks -> sectionAt + 1 .. offset - 1]
    /\ Places(FlushedFile, sectionAt + 1, offset, written[section.owner], at, section.numChunks)
LEMMA Flushed ==
    ASSUME IInv, mode = "saving", section.numChunks > 0
    PROVE  /\ FlushedFile \in Seq(Cells) /\ ~HasHeader(FlushedFile)
           /\ 0 \notin Sections(FlushedFile)
           /\ Holds(FlushedFile, sectionAt, Earlier)
           /\ Len(FlushedFile) = offset /\ sectionAt < offset /\ sectionAt > 0
           /\ FlushedLength = offset - sectionAt - 1
           /\ \E at : FlushedAt(at)
<1>1. InSave
  BY DEF InSave
<1>2. /\ SavingInv /\ path \in Paths /\ File \in Seq(Cells) /\ ~HasHeader(File)
      /\ 0 \notin Sections(File)
      /\ offset \in Nat /\ sectionAt \in Nat /\ chunkAt \in Nat
      /\ section \in [owner : Owners \cup {NoOwner}, numChunks : Nat, length : Nat]
  BY <1>1, SavedFile
<1> DEFINE W == written[section.owner]
           n == section.numChunks
<1>3. W \in Seq(Seq(Cells)) /\ n = Len(W) /\ n \in Nat /\ Earlier \in Writings
  BY Saver
<1>4. /\ chunkOpen = TRUE /\ sectionAt > 0
      /\ Holds(File, sectionAt, Earlier)
      /\ section.length = chunkAt - sectionAt - 1
      /\ Len(File) = offset \/ (Len(File) <= chunkAt /\ offset = chunkAt + 1)
  BY <1>2 DEF SavingInv
<1>5. PICK at \in [1 .. n -> sectionAt + 1 .. offset - 1] :
         Places(File, sectionAt + 1, offset, W, at, n - 1) /\ chunkAt = at[n]
  BY <1>2 DEF SavingInv
<1> HIDE DEF W, n
<1>6. Ordered(sectionAt + 1, offset, W, at)
  <2>1. sectionAt + 1 \in Nat /\ offset \in Int
    BY <1>2
  <2> QED
    BY <1>3, <1>5, <2>1, PlacesTypes
<1>7. /\ offset = chunkAt + 1 + Len(W[n]) /\ Len(W[n]) \in Nat
      /\ sectionAt + 1 <= chunkAt /\ chunkAt < offset
  <2>1. n \in 1 .. Len(W)
    BY <1>3 DEF n
  <2> QED
    BY <1>3, <1>5, <1>6, <2>1 DEF Ordered
<1>16. PICK last \in Nat : last = Len(W[n])
  BY <1>7
<1>8. Cell("chunk", NoOwner, 0, ChunkSize) = Chunk(W[n])
  <2>1. offset = chunkAt + 1 + last
    BY <1>7, <1>16
  <2>2. ChunkSize = last
    BY <1>2, <2>1 DEF ChunkSize
  <2> QED
    BY <1>16, <2>2 DEF Chunk
<1>9. FlushedFile = Put(File, chunkAt, Chunk(W[n]))
  BY <1>4, <1>8 DEF FlushedFile, File
<1>10. Chunk(W[n]) \in Cells /\ Chunk(W[n]).kind # "section"
  BY <1>7 DEF Chunk, Cell, Cells
<1>11. /\ FlushedFile \in Seq(Cells) /\ Sections(FlushedFile) = Sections(File)
       /\ Holds(FlushedFile, sectionAt, Earlier)
  <2>1. sectionAt <= chunkAt
    BY <1>2, <1>7
  <2> QED
    BY <1>2, <1>3, <1>4, <1>9, <1>10, <2>1, HoldsAfterPut
<1>12. ~HasHeader(FlushedFile)
  <2>1. chunkAt > 0
    BY <1>2, <1>7
  <2> QED
    BY <1>2, <1>9, <1>10, <2>1, PutNoHeader
<1>13. Len(FlushedFile) = offset
  <2>1. Overwrites(Put(File, chunkAt, Chunk(W[n])), File, chunkAt, Chunk(W[n]))
    BY <1>2, <1>10, PutCells
  <2>2. /\ chunkAt < Len(File) => Len(FlushedFile) = Len(File)
        /\ Len(File) <= chunkAt => Len(FlushedFile) = chunkAt + 1
    BY <1>9, <2>1 DEF Overwrites
  <2>3. PICK was \in Nat : was = Len(File)
    BY <1>2
  <2>4. was = offset \/ (was <= chunkAt /\ offset = chunkAt + 1)
    BY <1>4, <2>3
  <2>5. offset = chunkAt + 1 + last
    BY <1>7, <1>16
  <2>6. /\ chunkAt < was => Len(FlushedFile) = was
        /\ was <= chunkAt => Len(FlushedFile) = chunkAt + 1
    BY <2>2, <2>3
  <2>7. CASE chunkAt < was
    BY <1>2, <2>4, <2>6, <2>7
  <2>8. CASE was <= chunkAt
    <3>1. offset = chunkAt + 1
      BY <1>2, <2>4, <2>5, <2>8
    <3> QED
      BY <2>6, <2>8, <3>1
  <2> QED
    BY <1>2, <2>3, <2>7, <2>8
<1>14. FlushedLength = offset - sectionAt - 1
  BY <1>2, <1>4 DEF FlushedLength, ChunkSize
<1>15. FlushedAt(at)
  <2>1. at[Len(W)] = chunkAt
    BY <1>3, <1>5
  <2>2. Places(File, sectionAt + 1, offset, W, at, Len(W) - 1)
    BY <1>3, <1>5
  <2>3. sectionAt + 1 \in Nat
    BY <1>2
  <2>4. Places(Put(File, at[Len(W)], Chunk(W[Len(W)])), sectionAt + 1, offset, W, at, Len(W))
    BY <1>2, <1>3, <2>2, <2>3, FlushPlace
  <2>5. Places(FlushedFile, sectionAt + 1, offset, W, at, n)
    BY <1>3, <1>9, <2>1, <2>4
  <2> QED
    BY <1>5, <2>5 DEF FlushedAt, W, n
<1> QED
  <2>1. sectionAt < offset
    <3>2. sectionAt + 1 <= chunkAt /\ chunkAt < offset
      BY <1>7
    <3>3. offset \in Nat /\ sectionAt \in Nat /\ chunkAt \in Nat
      BY <1>2
    <3> QED
      BY <3>2, <3>3
  <2>2. 0 \notin Sections(FlushedFile)
    BY <1>2, <1>11
  <2>3. \E a : FlushedAt(a)
    BY <1>15
  <2> QED
    BY <1>4, <1>11, <1>12, <1>13, <1>14, <2>1, <2>2, <2>3

LEMMA OpenRecordOK ==
    ASSUME IInv, OpenRecord
    PROVE  IInv'
<1> DEFINE o == section.owner
           W == written[o]
           n == section.numChunks
<1>1. /\ mode = "saving" /\ mode' = "saving" /\ chunkOpen' = TRUE
      /\ files' = [files EXCEPT ![path] = FlushedFile]
      /\ section' = [section EXCEPT !.numChunks = @ + 1, !.length = FlushedLength]
      /\ sectionAt' = IF n = 0 THEN offset ELSE sectionAt
      /\ chunkAt' = IF n = 0 THEN offset + 1 ELSE offset
      /\ offset' = chunkAt' + 1
      /\ written' = [written EXCEPT ![o] = Append(@, <<>>)]
      /\ UNCHANGED keptBySave /\ UNCHANGED index
  BY DEF OpenRecord
<1>2. InSave
  BY <1>1 DEF InSave
<1>3. /\ TypeOK /\ HandlesOK /\ SaveInv /\ SavingInv
      /\ path \in Paths /\ DOMAIN files = Paths /\ File \in Seq(Cells) /\ ~HasHeader(File)
      /\ 0 \notin Sections(File) /\ written \in Writings
      /\ offset \in Nat /\ sectionAt \in Nat /\ chunkAt \in Nat /\ index \in Nat
      /\ section \in [owner : Owners \cup {NoOwner}, numChunks : Nat, length : Nat]
  BY <1>2, SavedFile
<1>4. /\ o \in Owners /\ o = OwnerOf(index) /\ index \in DOMAIN callbacks
      /\ W \in Seq(Seq(Cells)) /\ n = Len(W) /\ n \in Nat /\ Earlier \in Writings
  BY <1>1, Saver
<1>5. UNCHANGED <<plugins, callbacks, path>>
  BY <1>1 DEF keptBySave, sessionVars
<1>6. /\ n = 0 => /\ chunkOpen = FALSE /\ section.length = 0 /\ offset > 0
                  /\ Holds(File, offset, Earlier) /\ BetweenSections(offset)
      /\ Saves(index)
  BY <1>1, <1>3 DEF SavingInv
<1>7. /\ FlushedFile \in Seq(Cells) /\ ~HasHeader(FlushedFile) /\ 0 \notin Sections(FlushedFile)
      /\ FlushedLength \in Nat
      /\ sectionAt' > 0 /\ sectionAt' \in Nat /\ chunkAt' \in Nat
      /\ Holds(FlushedFile, sectionAt', Earlier)
      /\ FlushedLength = chunkAt' - sectionAt' - 1
      /\ Len(FlushedFile) <= chunkAt'
  <2>1. CASE n = 0
    <3>1. chunkOpen = FALSE /\ section.length = 0 /\ FlushedFile = File
      BY <1>6, <2>1 DEF FlushedFile, File
    <3>2. FlushedLength = 0
      BY <3>1 DEF FlushedLength
    <3>3. Len(File) <= offset + 1
      BY <1>3, <1>6, <2>1 DEF BetweenSections
    <3>4. sectionAt' = offset /\ chunkAt' = offset + 1
      BY <1>1, <2>1
    <3> QED
      BY <1>3, <1>6, <2>1, <3>1, <3>2, <3>3, <3>4
  <2>2. CASE n > 0
    <3>1. /\ FlushedFile \in Seq(Cells) /\ ~HasHeader(FlushedFile)
          /\ 0 \notin Sections(FlushedFile)
          /\ Holds(FlushedFile, sectionAt, Earlier)
          /\ Len(FlushedFile) = offset /\ sectionAt < offset /\ sectionAt > 0
          /\ FlushedLength = offset - sectionAt - 1
      BY <1>1, <2>2, Flushed
    <3>2. sectionAt' = sectionAt /\ chunkAt' = offset
      BY <1>1, <1>4, <2>2
    <3> QED
      BY <1>3, <3>1, <3>2
  <2> QED
    BY <1>4, <2>1, <2>2
<1>8. /\ section'.owner = o /\ section'.numChunks = n + 1 /\ section'.length = FlushedLength
      /\ section' \in [owner : Owners \cup {NoOwner}, numChunks : Nat, length : Nat]
  <2>1. section' = [owner |-> o, numChunks |-> n + 1, length |-> FlushedLength]
    BY <1>1, <1>3
  <2>2. o \in Owners /\ n + 1 \in Nat
    BY <1>4
  <2> HIDE DEF o, n
  <2> QED
    BY <1>7, <2>1, <2>2
<1>9. /\ written' \in Writings /\ written'[o] = Append(W, <<>>)
      /\ \A q \in Owners \ {o} : written'[q] = written[q]
      /\ Len(written'[o]) = n + 1
  <2>1. <<>> \in Seq(Cells)
    OBVIOUS
  <2>2. Append(W, <<>>) \in Seq(Seq(Cells)) /\ Len(Append(W, <<>>)) = Len(W) + 1
    BY <1>4, <2>1
  <2>3. written \in [Owners -> Seq(Seq(Cells))]
    BY <1>3 DEF Writings
  <2>4. written' = [written EXCEPT ![o] = Append(W, <<>>)]
    BY <1>1, <1>4, <2>3
  <2> HIDE DEF W, o
  <2>5. written' \in [Owners -> Seq(Seq(Cells))] /\ written'[o] = Append(W, <<>>)
    BY <1>4, <2>2, <2>3, <2>4
  <2> QED
    BY <1>4, <2>2, <2>3, <2>4, <2>5 DEF Writings
<1>10. Earlier' = Earlier
  <2>1. [written' EXCEPT ![o] = <<>>] = [written EXCEPT ![o] = <<>>]
    BY <1>3, <1>4, <1>9 DEF Writings
  <2> QED
    BY <1>8, <2>1 DEF Earlier
<1>11. /\ files'[path] = FlushedFile /\ DOMAIN files' = Paths
       /\ \A p \in Paths \ {path} : files'[p] = files[p]
  BY <1>1, <1>3
<1>12. \E at \in [1 .. n + 1 -> sectionAt' + 1 .. offset' - 1] :
          /\ Places(FlushedFile, sectionAt' + 1, offset', Append(W, <<>>), at, n)
          /\ chunkAt' = at[n + 1]
  <2>1. CASE n = 0
    <3> DEFINE at == [k \in 1 .. 1 |-> offset + 1]
    <3>1. /\ at \in [1 .. 1 -> offset + 1 .. offset + 1]
          /\ Places(FlushedFile, offset + 1, offset + 1 + 1, << <<>> >>, at, 0)
      <4>1. offset + 1 \in Nat
        BY <1>3
      <4> QED
        BY <4>1, FirstPlace
    <3>2. W = <<>>
      <4>1. \A s \in Seq(Seq(Cells)) : Len(s) = 0 => s = <<>>
        OBVIOUS
      <4> HIDE DEF W, n
      <4> QED
        BY <1>4, <2>1, <4>1
    <3>3. Append(W, <<>>) = << <<>> >>
      BY <3>2
    <3>4. sectionAt' = offset /\ chunkAt' = offset + 1 /\ offset' = offset + 1 + 1
      BY <1>1, <2>1
    <3>5. at[1] = offset + 1
      OBVIOUS
    <3>6. offset' - 1 = offset + 1 /\ 1 .. n + 1 = 1 .. 1
      BY <1>3, <2>1, <3>4
    <3> HIDE DEF at
    <3>7. at \in [1 .. n + 1 -> sectionAt' + 1 .. offset' - 1]
      BY <3>1, <3>4, <3>6
    <3>8. at[n + 1] = chunkAt'
      BY <2>1, <3>4, <3>5
    <3> QED
      BY <2>1, <3>1, <3>3, <3>4, <3>7, <3>8
  <2>2. CASE n > 0
    <3>1. sectionAt' = sectionAt /\ chunkAt' = offset /\ offset' = offset + 1
      BY <1>1, <1>4, <2>2
    <3>2. PICK at : FlushedAt(at)
      BY <1>1, <2>2, Flushed
    <3>3. Places(FlushedFile, sectionAt + 1, offset, W, at, Len(W))
      BY <1>4, <3>2 DEF FlushedAt
    <3>4. PICK more \in [1 .. Len(W) + 1 -> sectionAt + 1 .. offset] :
             /\ more[Len(W) + 1] = offset
             /\ Places(FlushedFile, sectionAt + 1, offset + 1, Append(W, <<>>), more, Len(W))
      <4>1. sectionAt + 1 \in Nat
        BY <1>3
      <4> HIDE DEF W
      <4> QED
        BY <1>3, <1>4, <3>3, <4>1, NextPlace
    <3> HIDE DEF W
    <3>5. offset' - 1 = offset
      BY <1>3, <3>1
    <3> QED
      BY <1>4, <3>1, <3>4, <3>5
  <2> QED
    BY <1>4, <2>1, <2>2
<1>13. SavingInv'
  <2>1. File' = FlushedFile
    BY <1>5, <1>11 DEF File
  <2>2. index' \in DOMAIN callbacks' /\ Saves(index)' /\ section'.owner = OwnerOf(index)'
    BY <1>1, <1>4, <1>5, <1>6, <1>8 DEF Saves, Has, OwnerOf
  <2>3. section'.numChunks > 0
    BY <1>4, <1>8
  <2>4. section'.numChunks = Len(written'[section'.owner])
    BY <1>8, <1>9
  <2>5. offset' = chunkAt' + 1 /\ Len(FlushedFile) <= chunkAt'
    BY <1>1, <1>7
  <2>6. \E at \in [1 .. section'.numChunks -> sectionAt' + 1 .. offset' - 1] :
           /\ Places(FlushedFile, sectionAt' + 1, offset', written'[section'.owner], at,
                     section'.numChunks - 1)
           /\ chunkAt' = at[section'.numChunks]
    <3>1. (n + 1) - 1 = n
      BY <1>4
    <3> QED
      BY <1>8, <1>9, <1>12, <3>1
  <2> HIDE DEF o, W, n
  <2>7. section'.length = chunkAt' - sectionAt' - 1 /\ sectionAt' > 0 /\ chunkOpen' = TRUE
        /\ Holds(FlushedFile, sectionAt', Earlier')
    BY <1>1, <1>7, <1>8, <1>10
  <2>8. section'.numChunks # 0
    BY <1>4, <1>8
  <2> QED
    BY <2>1, <2>2, <2>3, <2>4, <2>5, <2>6, <2>7, <2>8 DEF SavingInv
<1>14. \A h \in DOMAIN callbacks :
          h > index' \/ (mode' = "save" /\ h = index') => written'[OwnerOf(h)] = <<>>
  <2> SUFFICES ASSUME NEW h \in DOMAIN callbacks, h > index PROVE written'[OwnerOf(h)] = <<>>
    BY <1>1
  <2>1. written[OwnerOf(h)] = <<>>
    BY <1>2, <1>3 DEF SaveInv
  <2>2. OwnerOf(h) # o /\ OwnerOf(h) \in Owners
    <3>1. h # index
      BY <1>3
    <3>2. DOMAIN callbacks \subseteq Nat
      BY <1>3, OwnersOfHandles
    <3>3. h # index
      BY <1>3, <3>2
    <3> QED
      BY <1>3, <1>4, <3>3, OwnersOfHandles
  <2> QED
    BY <1>9, <2>1, <2>2
<1>15. SaveLoopInv'
  BY <1>1 DEF SaveLoopInv
<1> QED
  <2>1. /\ offset' \in Nat /\ chunkOpen' \in BOOLEAN /\ mode' \in {"save", "saving"}
        /\ index' \in Nat
    BY <1>1, <1>3, <1>7
  <2>2. /\ files'[path] \in Seq(Cells) /\ ~HasHeader(files'[path])
        /\ 0 \notin Sections(files'[path])
    BY <1>7, <1>11
  <2> HIDE DEF o, W, n
  <2>3. UNCHANGED keptBySave /\ sectionAt' \in Nat /\ chunkAt' \in Nat /\ written' \in Writings
    BY <1>1, <1>7, <1>9
  <2> QED
    BY <1>2, <1>8, <1>11, <1>13, <1>14, <1>15, <2>1, <2>2, <2>3, SaveStep

LEMMA WriteRecordDataOK ==
    ASSUME IInv, WriteRecordData
    PROVE  IInv'
<1> DEFINE o == section.owner
           W == written[o]
           n == section.numChunks
           data == Cell("data", o, offset, 0)
           g == Put(File, offset, data)
           longer == [W EXCEPT ![Len(W)] = Append(@, data)]
<1>1. /\ mode = "saving" /\ mode' = "saving" /\ chunkOpen = TRUE
      /\ files' = [files EXCEPT ![path] = Put(@, offset, data)]
      /\ offset' = offset + 1
      /\ written' = [written EXCEPT ![o][Len(W)] = Append(@, data)]
      /\ UNCHANGED <<section, sectionAt, chunkOpen, chunkAt, index>> /\ UNCHANGED keptBySave
  <2>1. InSave
    BY DEF WriteRecordData, InSave
  <2>2. chunkOpen \in BOOLEAN
    BY DEF IInv, TypeOK
  <2> QED
    BY <2>2 DEF WriteRecordData, sectionVars
<1>2. InSave
  BY <1>1 DEF InSave
<1>3. /\ TypeOK /\ HandlesOK /\ SaveInv /\ SavingInv
      /\ path \in Paths /\ DOMAIN files = Paths /\ File \in Seq(Cells) /\ ~HasHeader(File)
      /\ 0 \notin Sections(File) /\ written \in Writings
      /\ offset \in Nat /\ sectionAt \in Nat /\ chunkAt \in Nat /\ index \in Nat
      /\ section \in [owner : Owners \cup {NoOwner}, numChunks : Nat, length : Nat]
  BY <1>2, SavedFile
<1>4. /\ o \in Owners /\ o = OwnerOf(index) /\ index \in DOMAIN callbacks
      /\ W \in Seq(Seq(Cells)) /\ n = Len(W) /\ n \in Nat /\ Earlier \in Writings
  BY <1>1, Saver
<1>5. UNCHANGED <<plugins, callbacks, path>>
  BY <1>1 DEF keptBySave, sessionVars
<1>6. /\ Saves(index) /\ n > 0 /\ sectionAt > 0
      /\ Holds(File, sectionAt, Earlier)
      /\ section.length = chunkAt - sectionAt - 1
      /\ Len(File) = offset \/ (Len(File) <= chunkAt /\ offset = chunkAt + 1)
  <2>1. n # 0
    BY <1>1, <1>3 DEF SavingInv
  <2>2. n > 0
    BY <1>4, <2>1
  <2> QED
    BY <1>1, <1>3, <2>2 DEF SavingInv
<1>7. PICK at \in [1 .. n -> sectionAt + 1 .. offset - 1] :
         Places(File, sectionAt + 1, offset, W, at, n - 1) /\ chunkAt = at[n]
  BY <1>1, <1>3, <1>6 DEF SavingInv
<1>8. sectionAt < offset /\ sectionAt + 1 \in Nat
  <2>1. sectionAt + 1 \in Nat /\ offset \in Int
    BY <1>3
  <2> HIDE DEF W, n
  <2>2. Ordered(sectionAt + 1, offset, W, at)
    BY <1>4, <1>7, <2>1, PlacesTypes
  <2>3. sectionAt + 1 < offset
    BY <2>2 DEF Ordered
  <2> QED
    BY <1>3, <2>1, <2>3
<1>9. data \in Cells /\ data.kind # "section"
  BY <1>3, <1>4 DEF Cell, Cells
<1> HIDE DEF data
<1>10. /\ g \in Seq(Cells) /\ Sections(g) = Sections(File) /\ Holds(g, sectionAt, Earlier)
       /\ 0 \notin Sections(g)
  <2>1. sectionAt <= offset
    BY <1>3, <1>8
  <2>2. /\ g \in Seq(Cells) /\ Sections(g) = Sections(File) /\ Holds(g, sectionAt, Earlier)
    BY <1>3, <1>4, <1>6, <1>9, <2>1, HoldsAfterPut
  <2> QED
    BY <1>3, <2>2
<1>11. ~HasHeader(g)
  <2>1. offset > 0
    BY <1>3, <1>8
  <2> QED
    BY <1>3, <1>9, <2>1, PutNoHeader
<1>12. Len(g) = offset + 1
  <2>1. Overwrites(g, File, offset, data)
    BY <1>3, <1>9, PutCells
  <2>2. Len(File) <= offset
    BY <1>3, <1>6
  <2> QED
    BY <2>1, <2>2 DEF Overwrites
<1>13. Is(g, offset, data) /\ Keeps(File, g, sectionAt + 1, offset)
  <2>1. /\ Is(g, offset, data)
        /\ \A x \in Nat \ {offset} : \A c : Is(File, x, c) => Is(g, x, c)
    BY <1>3, <1>9, PutIs
  <2>2. \A x \in sectionAt + 1 .. offset - 1 : x \in Nat \ {offset}
    BY <1>3, <1>8
  <2> QED
    BY <2>1, <2>2 DEF Keeps
<1>14. files'[path] = g /\ DOMAIN files' = Paths /\ \A p \in Paths \ {path} : files'[p] = files[p]
  BY <1>1, <1>3 DEF File
<1> HIDE DEF g
<1>15. /\ at \in [1 .. n -> sectionAt + 1 .. offset]
       /\ Places(g, sectionAt + 1, offset + 1, longer, at, n - 1)
  <2>1. Places(File, sectionAt + 1, offset, W, at, Len(W) - 1)
    BY <1>4, <1>7
  <2> HIDE DEF W, n
  <2>2. /\ at \in [1 .. Len(W) -> sectionAt + 1 .. offset]
        /\ Places(g, sectionAt + 1, offset + 1, longer, at, Len(W) - 1)
    BY <1>3, <1>4, <1>8, <1>9, <1>13, <2>1, DataPlace
  <2> QED
    BY <1>4, <2>2
<1>16. /\ written' \in Writings /\ written'[o] = longer
       /\ \A q \in Owners \ {o} : written'[q] = written[q]
       /\ Len(longer) = n
  <2> HIDE DEF W, o
  <2>1. longer \in Seq(Seq(Cells)) /\ Len(longer) = Len(W)
    <3>1. Len(W) \in 1 .. Len(W) /\ W[Len(W)] \in Seq(Cells)
      BY <1>4, <1>6
    <3>2. Append(W[Len(W)], data) \in Seq(Cells)
      BY <1>9, <3>1
    <3> QED
      BY <1>4, <3>1, <3>2
  <2>2. written \in [Owners -> Seq(Seq(Cells))]
    BY <1>3 DEF Writings
  <2>3. written' = [written EXCEPT ![o] = longer]
    BY <1>1, <1>4, <2>2 DEF W
  <2> HIDE DEF longer
  <2> QED
    BY <1>4, <2>1, <2>2, <2>3 DEF Writings
<1> HIDE DEF longer
<1>17. Earlier' = Earlier
  <2>1. [written' EXCEPT ![o] = <<>>] = [written EXCEPT ![o] = <<>>]
    BY <1>3, <1>4, <1>16 DEF Writings
  <2> QED
    BY <1>1, <2>1 DEF Earlier
<1>18. SavingInv'
  <2>1. File' = g
    BY <1>5, <1>14 DEF File
  <2>2. index' \in DOMAIN callbacks' /\ Saves(index)' /\ section'.owner = OwnerOf(index)'
    BY <1>1, <1>4, <1>5, <1>6 DEF Saves, Has, OwnerOf
  <2>3. section' = section /\ section.numChunks > 0 /\ section.numChunks # 0
    BY <1>1, <1>4, <1>6
  <2>4. section'.numChunks = Len(written'[section'.owner])
    BY <1>1, <1>16
  <2>5. offset' = offset + 1 /\ Len(g) = offset'
    BY <1>1, <1>12
  <2>6. \E a \in [1 .. section'.numChunks -> sectionAt' + 1 .. offset' - 1] :
           /\ Places(g, sectionAt' + 1, offset', written'[section'.owner], a,
                     section'.numChunks - 1)
           /\ chunkAt' = a[section'.numChunks]
    <3>1. offset' - 1 = offset
      BY <1>1, <1>3
    <3> QED
      BY <1>1, <1>7, <1>15, <1>16, <3>1
  <2> HIDE DEF o, W, n
  <2>7. section'.length = chunkAt' - sectionAt' - 1 /\ sectionAt' > 0 /\ chunkOpen' = TRUE
        /\ Holds(g, sectionAt', Earlier')
    BY <1>1, <1>6, <1>10, <1>17
  <2> QED
    BY <2>1, <2>2, <2>3, <2>4, <2>5, <2>6, <2>7 DEF SavingInv
<1>19. \A h \in DOMAIN callbacks :
          h > index' \/ (mode' = "save" /\ h = index') => written'[OwnerOf(h)] = <<>>
  <2> SUFFICES ASSUME NEW h \in DOMAIN callbacks, h > index PROVE written'[OwnerOf(h)] = <<>>
    BY <1>1
  <2>1. written[OwnerOf(h)] = <<>>
    BY <1>2, <1>3 DEF SaveInv
  <2>2. OwnerOf(h) # o /\ OwnerOf(h) \in Owners
    <3>1. DOMAIN callbacks \subseteq Nat
      BY <1>3, OwnersOfHandles
    <3>2. h # index
      BY <1>3, <3>1
    <3> QED
      BY <1>3, <1>4, <3>2, OwnersOfHandles
  <2> QED
    BY <1>16, <2>1, <2>2
<1>20. SaveLoopInv'
  BY <1>1 DEF SaveLoopInv
<1> QED
  <2>1. /\ offset' \in Nat /\ chunkOpen' \in BOOLEAN /\ mode' \in {"save", "saving"}
        /\ index' \in Nat /\ sectionAt' \in Nat /\ chunkAt' \in Nat
        /\ section' \in [owner : Owners \cup {NoOwner}, numChunks : Nat, length : Nat]
    BY <1>1, <1>3
  <2>2. /\ files'[path] \in Seq(Cells) /\ ~HasHeader(files'[path])
        /\ 0 \notin Sections(files'[path])
    BY <1>10, <1>11, <1>14
  <2> HIDE DEF o, W, n
  <2>3. UNCHANGED keptBySave /\ written' \in Writings
    BY <1>1, <1>16
  <2> QED
    BY <1>2, <1>14, <1>18, <1>19, <1>20, <2>1, <2>2, <2>3, SaveStep

LEMMA SaveReturnsOK ==
    ASSUME IInv, SaveReturns
    PROVE  IInv'
<1> DEFINE o == section.owner
           W == written[o]
           n == section.numChunks
           header == Cell("section", o, n, FlushedLength)
           g == Put(FlushedFile, sectionAt, header)
<1>1. /\ mode = "saving" /\ mode' = "save" /\ chunkOpen' = FALSE /\ index' = index + 1
      /\ files' = IF n = 0 THEN files ELSE [files EXCEPT ![path] = g]
      /\ section' = [section EXCEPT !.length = FlushedLength]
      /\ UNCHANGED <<offset, sectionAt, chunkAt, written>> /\ UNCHANGED keptBySave
  BY DEF SaveReturns
<1>2. InSave
  BY <1>1 DEF InSave
<1>3. /\ TypeOK /\ HandlesOK /\ SaveInv /\ SavingInv
      /\ path \in Paths /\ DOMAIN files = Paths /\ File \in Seq(Cells) /\ ~HasHeader(File)
      /\ 0 \notin Sections(File) /\ written \in Writings
      /\ offset \in Nat /\ sectionAt \in Nat /\ chunkAt \in Nat /\ index \in Nat
      /\ section \in [owner : Owners \cup {NoOwner}, numChunks : Nat, length : Nat]
  BY <1>2, SavedFile
<1>4. /\ o \in Owners /\ o \in {NVSE} \cup Based
      /\ W \in Seq(Seq(Cells)) /\ n = Len(W) /\ n \in Nat
  BY <1>1, Saver
<1>5. UNCHANGED <<plugins, callbacks, path>>
  BY <1>1 DEF keptBySave, sessionVars
<1>6. /\ files'[path] \in Seq(Cells) /\ ~HasHeader(files'[path])
      /\ 0 \notin Sections(files'[path]) /\ FlushedLength \in Nat
      /\ DOMAIN files' = Paths /\ \A p \in Paths \ {path} : files'[p] = files[p]
      /\ Holds(files'[path], offset, written)
      /\ Len(files'[path]) = offset \/ (Len(files'[path]) = 0 /\ offset = 1)
      /\ offset > 0
  <2>1. CASE n = 0
    <3>1. files' = files /\ files'[path] = File
      BY <1>1, <2>1 DEF File
    <3>2. /\ chunkOpen = FALSE /\ section.length = 0 /\ offset > 0
          /\ Holds(File, offset, Earlier) /\ BetweenSections(offset)
      BY <1>1, <1>3, <2>1 DEF SavingInv
    <3>3. FlushedLength = 0
      BY <3>2 DEF FlushedLength
    <3>4. W = <<>>
      <4>1. \A s \in Seq(Seq(Cells)) : Len(s) = 0 => s = <<>>
        OBVIOUS
      <4> HIDE DEF W, n
      <4> QED
        BY <1>4, <2>1, <4>1
    <3>5. Earlier = written
      <4>1. written = [q \in Owners |-> written[q]]
        BY <1>3 DEF Writings
      <4> QED
        BY <1>4, <3>4, <4>1 DEF Earlier
    <3> QED
      BY <1>3, <3>1, <3>2, <3>3, <3>5 DEF BetweenSections
  <2>2. CASE n > 0
    <3>1. /\ FlushedFile \in Seq(Cells) /\ ~HasHeader(FlushedFile)
          /\ 0 \notin Sections(FlushedFile)
          /\ Holds(FlushedFile, sectionAt, Earlier)
          /\ Len(FlushedFile) = offset /\ sectionAt < offset /\ sectionAt > 0
          /\ FlushedLength = offset - sectionAt - 1
          /\ \E at : FlushedAt(at)
      BY <1>1, <2>2, Flushed
    <3>2. files' = [files EXCEPT ![path] = g]
      BY <1>1, <2>2
    <3>3. /\ files'[path] = g /\ DOMAIN files' = Paths
          /\ \A p \in Paths \ {path} : files'[p] = files[p]
      <4> HIDE DEF g
      <4> QED
        BY <1>3, <3>2
    <3>4. FlushedLength \in Nat
      BY <1>3, <3>1
    <3>5. header \in Cells /\ header.kind = "section"
      BY <1>4, <3>4 DEF Cell, Cells
    <3>6. PICK at : Places(FlushedFile, sectionAt + 1, offset, W, at, Len(W))
      BY <1>4, <3>1 DEF FlushedAt
    <3>7. header = Cell("section", o, Len(W), offset - sectionAt - 1)
      BY <1>4, <3>1
    <3>8. Holds(FlushedFile, sectionAt, [written EXCEPT ![o] = <<>>])
      BY <3>1 DEF Earlier
    <3> HIDE DEF header, o, n
    <3>9. Holds(g, offset, written)
      BY <1>3, <1>4, <3>1, <3>6, <3>7, <3>8, SectionAdded
    <3>10. g \in Seq(Cells) /\ ~HasHeader(g)
      <4>1. Overwrites(g, FlushedFile, sectionAt, header)
        BY <1>3, <3>1, <3>5, PutCells
      <4> QED
        BY <1>3, <3>1, <3>5, <4>1, PutNoHeader DEF Overwrites
    <3>11. 0 \notin Sections(g)
      <4>1. Sections(g) = (Sections(FlushedFile) \ {sectionAt}) \cup {sectionAt}
        BY <1>3, <3>1, <3>5, PutSections
      <4> QED
        BY <3>1, <4>1
    <3>12. Len(g) = offset
      <4>1. Overwrites(g, FlushedFile, sectionAt, header)
        BY <1>3, <3>1, <3>5, PutCells
      <4> QED
        BY <3>1, <4>1 DEF Overwrites
    <3>13. offset > 0
      BY <1>3, <3>1
    <3> HIDE DEF g
    <3> QED
      BY <3>3, <3>4, <3>9, <3>10, <3>11, <3>12, <3>13
  <2> QED
    BY <1>4, <2>1, <2>2
<1>7. section' \in [owner : Owners \cup {NoOwner}, numChunks : Nat, length : Nat]
  BY <1>1, <1>3, <1>6
<1>8. SaveLoopInv'
  <2>1. File' = files'[path]
    BY <1>5 DEF File
  <2> QED
    BY <1>1, <1>6, <2>1 DEF SaveLoopInv, BetweenSections
<1>9. SavingInv'
  BY <1>1 DEF SavingInv
<1>10. \A h \in DOMAIN callbacks :
          h > index' \/ (mode' = "save" /\ h = index') => written'[OwnerOf(h)] = <<>>
  <2> SUFFICES ASSUME NEW h \in DOMAIN callbacks, h > index' \/ h = index'
               PROVE written'[OwnerOf(h)] = <<>>
    BY <1>1
  <2>1. h \in Nat
    BY <1>3, OwnersOfHandles
  <2>2. h > index
    BY <1>1, <1>3, <2>1
  <2> QED
    BY <1>1, <1>2, <1>3, <2>2 DEF SaveInv
<1> QED
  <2>1. /\ offset' \in Nat /\ chunkOpen' \in BOOLEAN /\ mode' \in {"save", "saving"}
        /\ index' = index + 1 /\ sectionAt' \in Nat /\ chunkAt' \in Nat
        /\ written' \in Writings /\ UNCHANGED keptBySave
    <3> HIDE DEF o, W, n, g, header
    <3> QED
      BY <1>1, <1>3
  <2>2. index' \in Nat
    BY <1>3, <2>1
  <2> QED
    BY <1>2, <1>6, <1>7, <1>8, <1>9, <1>10, <2>1, <2>2, SaveStep

\* The header makes the file a co-save of what was written.
LEMMA EndSaveOK ==
    ASSUME IInv, EndSave
    PROVE  IInv'
<1> DEFINE header == Cell("header", NVSE, 0, 0)
           g == Put(File, 0, header)
<1>1. /\ mode = "save" /\ mode' = "idle" /\ CloseFile
      /\ files' = [files EXCEPT ![path] = Put(@, 0, header)]
      /\ saved' = [saved EXCEPT ![path] = written]
      /\ UNCHANGED <<sessions, plugins, callbacks>>
  BY DEF EndSave, sessionVars
<1>2. InSave
  BY <1>1 DEF InSave
<1>3. /\ TypeOK /\ HandlesOK /\ SaveInv /\ SaveLoopInv
      /\ path \in Paths /\ DOMAIN files = Paths /\ File \in Seq(Cells)
      /\ 0 \notin Sections(File) /\ written \in Writings /\ offset \in Nat
  BY <1>2, SavedFile
<1>4. /\ FilesHold /\ DOMAIN saved = Paths
  BY DEF IInv, FilesHold
<1>5. header \in Cells /\ header.kind = "header"
  BY DEF Cell, Cells, Owners
<1>6. Overwrites(g, File, 0, header)
  BY <1>3, <1>5, PutCells
<1>7. Holds(File, offset, written) /\ BetweenSections(offset) /\ offset > 0
  BY <1>1, <1>3 DEF SaveLoopInv
<1>8. g \in Seq(Cells) /\ g[1] = header /\ Len(g) = offset
  <2>1. Len(File) = offset \/ (Len(File) = 0 /\ offset = 1)
    BY <1>7 DEF BetweenSections
  <2>2. /\ g \in Seq(Cells) /\ g[0 + 1] = header
        /\ 0 < Len(File) => Len(g) = Len(File)
        /\ Len(File) <= 0 => Len(g) = 0 + 1
    BY <1>6 DEF Overwrites
  <2>3. PICK was \in Nat : was = Len(File)
    BY <1>3
  <2> HIDE DEF g, header
  <2>4. Len(g) = offset
    <3>1. was = offset \/ (was = 0 /\ offset = 1)
      BY <2>1, <2>3
    <3>2. /\ 0 < was => Len(g) = was
          /\ was <= 0 => Len(g) = 1
      BY <2>2, <2>3
    <3>3. offset \in Nat /\ offset > 0
      BY <1>3, <1>7
    <3>4. CASE was = offset
      BY <3>2, <3>3, <3>4
    <3>5. CASE was = 0 /\ offset = 1
      BY <3>2, <3>5
    <3> QED
      BY <3>1, <3>4, <3>5
  <2> QED
    BY <2>2, <2>4
<1>9. HasHeader(g)
  BY <1>3, <1>5, <1>7, <1>8 DEF HasHeader
<1>10. Holds(g, Len(g), written)
  <2>1. Sections(g) = (Sections(File) \ {0}) \cup {}
    BY <1>3, <1>5, PutSections
  <2>2. Sections(g) = Sections(File)
    BY <1>3, <2>1
  <2>3. Keeps(File, g, 1, offset)
    <3>1. \A x \in Nat \ {0} : \A c : Is(File, x, c) => Is(g, x, c)
      BY <1>3, <1>5, PutIs
    <3>2. \A x \in 1 .. offset - 1 : x \in Nat \ {0}
      BY <1>3
    <3> QED
      BY <3>1, <3>2 DEF Keeps
  <2> HIDE DEF g
  <2> QED
    BY <1>3, <1>7, <1>8, <2>2, <2>3, HoldsKept, OwnersAssumption
<1>11. files' = [files EXCEPT ![path] = g]
  BY <1>1, <1>3 DEF File
<1> HIDE DEF g, header
<1>12. FilesHold'
  <2>1. FileHolds(g, written)
    BY <1>3, <1>9, <1>10 DEF FileHolds
  <2>2. \A p \in Paths : FileHolds(files'[p], saved'[p])
    BY <1>1, <1>3, <1>4, <1>11, <2>1 DEF FilesHold
  <2> QED
    BY <1>1, <1>3, <1>4, <1>11, <2>2 DEF FilesHold
<1>13. /\ path' = NoFile /\ offset' = 0 /\ section' = NoSection /\ sectionAt' = 0
       /\ chunkOpen' = FALSE /\ chunk' = 0 /\ chunkAt' = 0
       /\ callback' = "load" /\ index' = 0 /\ hadData' = {}
       /\ written' = NothingOfAny
       /\ got' = NothingOfAny /\ ended' = {} /\ called' = NeverCalled
  BY <1>1 DEF CloseFile
<1>14. TypeOK'
  <2>1. {offset', sectionAt', chunk', chunkAt', index'} \subseteq Nat
    BY <1>13
  <2>2. path' \in Paths \cup {NoFile} /\ callback' \in {"load", "preLoad"}
        /\ chunkOpen' \in BOOLEAN /\ hadData' \subseteq DOMAIN callbacks'
    BY <1>13
  <2>3. mode' \in Modes
    BY <1>1 DEF Modes
  <2>4. \A p \in Paths : files'[p] = NoFile \/ files'[p] \in Seq(Cells)
    BY <1>3, <1>8, <1>11 DEF TypeOK
  <2>5. section' \in [owner : Owners \cup {NoOwner}, numChunks : Nat, length : Nat]
    BY <1>13 DEF NoSection
  <2>6. /\ DOMAIN callbacks' = 0 .. Cardinality(DOMAIN callbacks') - 1
        /\ \A h \in DOMAIN callbacks' : callbacks'[h] \subseteq CallbackNames
        /\ sessions' \in 0 .. MaxSessions /\ plugins' \in Seq(Plugins)
    BY <1>1, <1>3 DEF TypeOK
  <2> QED
    BY <2>1, <2>2, <2>3, <2>4, <2>5, <2>6 DEF TypeOK
<1>15. HandlesOK'
  BY <1>1, <1>3 DEF HandlesOK
<1>16. NothingRead' /\ NothingHeld' /\ ~InSave' /\ ~InLoad'
  BY <1>1, <1>13 DEF NothingRead, NothingHeld, InSave, InLoad
<1>17. IInv'
  BY <1>12, <1>14, <1>15, <1>16, AtRest, PTL
<1> QED
  BY <1>17

LEMMA SaveOK ==
    ASSUME IInv, Save
    PROVE  IInv'
<1>1. ASSUME SaveThrows PROVE IInv'
  <2>1. CloseFile /\ mode' \in {"off", "idle"} /\ UNCHANGED <<sessions, files, saved>>
        /\ UNCHANGED <<plugins, callbacks>>
    BY <1>1 DEF SaveThrows, sessionVars
  <2> QED
    BY <2>1, OverOK
<1> QED
  BY <1>1, HandleSaveGameOK, CallSaveOK, OpenRecordOK, WriteRecordDataOK, SaveReturnsOK,
     EndSaveOK DEF Save

-----------------------------------------------------------------------------
(* Loading. *)

\* A co-save that is loaded is whole, or empty.
LEMMA LoadedFile ==
    ASSUME IInv, InLoad
    PROVE  /\ TypeOK /\ HandlesOK /\ FilesHold /\ LoadInv /\ LoadLoopInv /\ LoadingInv /\ RestInv
           /\ path \in Paths /\ File \in Seq(Cells)
           /\ File # <<>> => /\ HasHeader(File) /\ saved[path] \in Writings
                             /\ Holds(File, Len(File), saved[path])
           /\ \A x \in Sections(File) : File # <<>>
           /\ 0 \notin Sections(File)
           /\ offset \in Nat /\ sectionAt \in Nat /\ chunk \in Nat /\ index \in Nat
           /\ section \in [owner : Owners \cup {NoOwner}, numChunks : Nat, length : Nat]
           /\ got \in [Owners -> Seq(Records)] /\ ended \subseteq Owners
           /\ called \in [Owners -> Nat]
           /\ chunkOpen \in BOOLEAN /\ hadData \subseteq DOMAIN callbacks
<1>1. /\ TypeOK /\ HandlesOK /\ FilesHold /\ LoadInv /\ LoadLoopInv /\ LoadingInv /\ RestInv
  BY DEF IInv
<1>2. /\ path \in Paths /\ (File = <<>> \/ HasHeader(File))
      /\ got \in [Owners -> Seq(Records)] /\ ended \subseteq Owners
      /\ called \in [Owners -> Nat]
  BY <1>1 DEF LoadInv
<1>3. File \in Seq(Cells)
  <2>1. <<>> \in Seq(Cells)
    OBVIOUS
  <2>2. HasHeader(File) => File \in Seq(Cells)
    BY DEF HasHeader
  <2> QED
    BY <1>2, <2>1, <2>2
<1>4. ASSUME File # <<>>
      PROVE  /\ HasHeader(File) /\ saved[path] \in Writings
             /\ Holds(File, Len(File), saved[path])
  BY <1>1, <1>2, <1>4 DEF FilesHold, FileHolds, File
<1>5. \A x \in Sections(File) : File # <<>>
  <2>1. Sections(<<>>) = {}
    BY DEF Sections
  <2> QED
    BY <2>1
<1>6. 0 \notin Sections(File)
  <2>1. CASE File = <<>>
    BY <1>5, <2>1
  <2>2. CASE HasHeader(File)
    BY <2>2 DEF HasHeader, Sections
  <2> QED
    BY <1>2, <2>1, <2>2
<1>7. /\ offset \in Nat /\ sectionAt \in Nat /\ chunk \in Nat /\ index \in Nat
  BY <1>1 DEF TypeOK
<1>8. /\ section \in [owner : Owners \cup {NoOwner}, numChunks : Nat, length : Nat]
      /\ chunkOpen \in BOOLEAN /\ hadData \subseteq DOMAIN callbacks
  BY <1>1 DEF TypeOK
<1> QED
  BY <1>1, <1>2, <1>3, <1>4, <1>5, <1>6, <1>7, <1>8

\* A section of a co-save that is loaded: its owner's, the only one, with all
\* of its records.
LEMMA LoadedSection ==
    ASSUME IInv, InLoad, NEW x \in Sections(File)
    PROVE  LET o == File[x + 1].owner
               records == saved[path][o]
           IN  /\ File # <<>> /\ x \in Nat /\ x > 0 /\ x < Len(File)
               /\ o \in {NVSE} \cup Based /\ o \in Owners
               /\ File[x + 1].count = Len(records) /\ File[x + 1].length \in Nat
               /\ SectionEnd(File, x) \in Nat /\ x < SectionEnd(File, x)
               /\ SectionEnd(File, x) = Len(File) \/ SectionEnd(File, x) \in Sections(File)
               /\ \A y \in Sections(File) : x < y => SectionEnd(File, x) <= y
               /\ \A y \in Sections(File) : File[y + 1].owner = o => y = x
               /\ records \in Seq(Seq(Cells))
               /\ \E at \in [1 .. Len(records) -> x + 1 .. SectionEnd(File, x) - 1] :
                     Places(File, x + 1, SectionEnd(File, x), records, at, Len(records))
<1> DEFINE o == File[x + 1].owner
           records == saved[path][o]
<1>1. /\ File \in Seq(Cells) /\ File # <<>> /\ saved[path] \in Writings
      /\ Holds(File, Len(File), saved[path]) /\ 0 \notin Sections(File)
  BY LoadedFile
<1>2. SectionHolds(File, x, Len(File), records)
  BY <1>1 DEF Holds
<1>3. /\ x \in Nat /\ x < Len(File) /\ File[x + 1].length \in Nat
      /\ SectionEnd(File, x) \in Nat /\ x < SectionEnd(File, x)
  BY <1>1, SectionTypes
<1>4. x > 0
  BY <1>1, <1>3
<1>5. o \in {NVSE} \cup Based
  BY <1>2 DEF SectionHolds
<1>6. o \in Owners
  BY <1>5, OwnersAssumption DEF Owners
<1>7. records \in Seq(Seq(Cells))
  BY <1>1, <1>6 DEF Writings
<1> HIDE DEF records
<1>8. /\ File[x + 1].count = Len(records)
      /\ SectionEnd(File, x) = Len(File) \/ SectionEnd(File, x) \in Sections(File)
      /\ \A y \in Sections(File) : x < y => SectionEnd(File, x) <= y
      /\ \A y \in Sections(File) : File[y + 1].owner = File[x + 1].owner => y = x
      /\ \E at \in [1 .. Len(records) -> x + 1 .. SectionEnd(File, x) - 1] :
            Places(File, x + 1, SectionEnd(File, x), records, at, Len(records))
  BY <1>2 DEF SectionHolds
<1> QED
  BY <1>1, <1>3, <1>4, <1>5, <1>6, <1>7, <1>8 DEF records

\* What passing one more section adds to the plugins that had data.
LEMMA HadDataPast ==
    ASSUME IInv, InLoad, NEW x \in Sections(File)
    PROVE  /\ HadData(File, SectionEnd(File, x))
                 = HadData(File, x) \cup (Handles(File[x + 1].owner) \cap DOMAIN callbacks)
           /\ \A h \in Handles(File[x + 1].owner) : h \notin HadData(File, x)
<1>1. /\ x \in Nat /\ SectionEnd(File, x) \in Nat /\ x < SectionEnd(File, x)
      /\ \A y \in Sections(File) : x < y => SectionEnd(File, x) <= y
      /\ \A y \in Sections(File) : File[y + 1].owner = File[x + 1].owner => y = x
  BY LoadedSection
<1>2. TypeOK /\ HandlesOK /\ File \in Seq(Cells)
  BY LoadedFile
<1>3. \A y \in Sections(File) : y \in Nat
  BY <1>2, SectionTypes
<1>4. \A y \in Sections(File) : y < SectionEnd(File, x) <=> y < x \/ y = x
  BY <1>1, <1>3
<1>5. HadData(File, SectionEnd(File, x))
         = HadData(File, x) \cup (Handles(File[x + 1].owner) \cap DOMAIN callbacks)
  BY <1>4 DEF HadData
<1>6. ASSUME NEW h \in Handles(File[x + 1].owner), h \in HadData(File, x) PROVE FALSE
  <2>1. PICK y \in Sections(File) : y < x /\ h \in Handles(File[y + 1].owner)
    BY <1>6 DEF HadData
  <2>2. OwnerOf(h) = File[y + 1].owner /\ OwnerOf(h) = File[x + 1].owner
    BY <1>2, <2>1, OwnersOfHandles
  <2>3. File[y + 1].owner = File[x + 1].owner
    BY <2>2
  <2>4. y = x
    BY <1>1, <2>1, <2>3
  <2>5. x \in Nat /\ x < x
    BY <1>1, <2>1, <2>4
  <2> QED
    BY <2>5
<1> QED
  BY <1>5, <1>6

\* A step of a load: what is left to show.
LEMMA LoadStep ==
    ASSUME IInv, InLoad, mode' \in {"load", "loading", "rest", "resting"},
           UNCHANGED keptByLoad,
           offset' \in Nat, sectionAt' \in Nat, chunk' \in Nat, index' \in Nat,
           section' \in [owner : Owners \cup {NoOwner}, numChunks : Nat, length : Nat],
           chunkOpen' \in BOOLEAN, hadData' \subseteq DOMAIN callbacks,
           got' \in [Owners -> Seq(Records)], ended' \subseteq Owners, called' \in [Owners -> Nat],
           File = <<>> => got' = NothingOfAny,
           File # <<>> => \A o \in Owners : Offered(o)',
           File # <<>> => \A o \in ended' : Len(got'[o]) = Len(saved[path][o]),
           LoadLoopInv', LoadingInv', RestInv'
    PROVE  IInv'
<1>1. UNCHANGED <<sessions, plugins, callbacks, files, path, chunkAt, callback, newGame,
                  written, saved>>
  BY DEF keptByLoad, sessionVars
<1>2. TypeOK /\ HandlesOK /\ FilesHold /\ LoadInv
  BY LoadedFile
<1>3. InLoad' /\ ~InSave' /\ mode' \in Modes
  BY DEF InSave, InLoad, Modes
<1>4. TypeOK'
  <2>1. {offset', sectionAt', chunk', chunkAt', index'} \subseteq Nat
    BY <1>1, <1>2 DEF TypeOK
  <2>2. \A p \in Paths : files'[p] = NoFile \/ files'[p] \in Seq(Cells)
    BY <1>1, <1>2 DEF TypeOK
  <2>3. /\ path' \in Paths \cup {NoFile} /\ callback' \in {"load", "preLoad"}
        /\ hadData' \subseteq DOMAIN callbacks' /\ sessions' \in 0 .. MaxSessions
        /\ plugins' \in Seq(Plugins)
    BY <1>1, <1>2 DEF TypeOK
  <2>4. /\ DOMAIN callbacks' = 0 .. Cardinality(DOMAIN callbacks') - 1
        /\ \A h \in DOMAIN callbacks' : callbacks'[h] \subseteq CallbackNames
    BY <1>1, <1>2 DEF TypeOK
  <2> QED
    BY <1>3, <2>1, <2>2, <2>3, <2>4 DEF TypeOK
<1>5. HandlesOK' /\ FilesHold'
  BY <1>1, <1>2 DEF HandlesOK, FilesHold
<1>6. LoadInv'
  <2>1. File' = File
    BY <1>1 DEF File
  <2>2. path' \in Paths /\ (File' = <<>> \/ HasHeader(File')) /\ written' = NothingOfAny
    BY <1>1, <1>2, <2>1 DEF LoadInv
  <2> QED
    BY <1>1, <2>1, <2>2 DEF LoadInv
<1>7. AtRestInv' /\ SaveInv' /\ SaveLoopInv' /\ SavingInv'
  BY <1>3 DEF AtRestInv, SaveInv, SaveLoopInv, SavingInv, InSave
<1> QED
  BY <1>4, <1>5, <1>6, <1>7 DEF IInv

LEMMA HandleLoadGameOK ==
    ASSUME IInv, NEW p \in Paths, NEW name \in {"load", "preLoad"}, HandleLoadGame(p, name)
    PROVE  IInv'
<1>1. /\ mode = "idle"
      /\ UNCHANGED <<sessions, plugins, callbacks, files, section, sectionAt, chunkOpen, chunk,
                     chunkAt, index, hadData, written, saved, got, ended, called>>
  BY DEF HandleLoadGame, sessionVars, sectionVars, chunkVars, readVars
<1>2. TypeOK /\ HandlesOK /\ FilesHold /\ NothingRead /\ NothingHeld
  BY <1>1 DEF IInv, AtRestInv, InSave, InLoad
<1>3. HandlesOK' /\ FilesHold' /\ NothingRead' /\ NothingHeld'
  BY <1>1, <1>2 DEF HandlesOK, FilesHold, NothingRead, NothingHeld
<1>4. ASSUME mode' \in Modes, path' \in Paths \cup {NoFile}, callback' \in {"load", "preLoad"},
             offset' \in Nat
      PROVE  TypeOK'
  <2>1. {offset', sectionAt', chunk', chunkAt', index'} \subseteq Nat
    BY <1>1, <1>2, <1>4 DEF TypeOK
  <2>2. \A q \in Paths : files'[q] = NoFile \/ files'[q] \in Seq(Cells)
    BY <1>1, <1>2 DEF TypeOK
  <2>3. /\ hadData' \subseteq DOMAIN callbacks' /\ sessions' \in 0 .. MaxSessions
        /\ plugins' \in Seq(Plugins) /\ chunkOpen' \in BOOLEAN
        /\ section' \in [owner : Owners \cup {NoOwner}, numChunks : Nat, length : Nat]
    BY <1>1, <1>2 DEF TypeOK
  <2>4. /\ DOMAIN callbacks' = 0 .. Cardinality(DOMAIN callbacks') - 1
        /\ \A h \in DOMAIN callbacks' : callbacks'[h] \subseteq CallbackNames
    BY <1>1, <1>2 DEF TypeOK
  <2> QED
    BY <1>4, <2>1, <2>2, <2>3, <2>4 DEF TypeOK
<1>5. CASE UNCHANGED <<mode, path, offset, callback>>
  <2>1. TypeOK'
    <3>1. offset' \in Nat /\ mode' \in Modes /\ path' \in Paths \cup {NoFile}
          /\ callback' \in {"load", "preLoad"}
      BY <1>2, <1>5 DEF TypeOK
    <3> QED
      BY <1>4, <3>1
  <2>2. ~InSave' /\ ~InLoad'
    BY <1>1, <1>5 DEF InSave, InLoad
  <2>3. IInv'
    BY <1>3, <2>1, <2>2, AtRest, PTL
  <2> QED
    BY <2>3
<1>6. ASSUME files[p] # NoFile, NEW valid \in HeaderIsValid(p), valid,
             mode' = "load", path' = p, callback' = name,
             offset' = IF files[p] = <<>> THEN 0 ELSE 1
      PROVE  IInv'
  <2>1. files[p] \in Seq(Cells) /\ FileHolds(files[p], saved[p])
    BY <1>2, <1>6 DEF TypeOK, FilesHold
  <2>2. File' = files[p]
    BY <1>1, <1>6 DEF File
  <2>3. files[p] = <<>> \/ HasHeader(files[p])
    BY <1>6, <2>1 DEF HeaderIsValid, HasHeader
  <2>4. files[p] # <<>> => /\ saved[p] \in Writings /\ Holds(files[p], Len(files[p]), saved[p])
                           /\ HasHeader(files[p])
    BY <2>1, <2>3 DEF FileHolds
  <2>5. got' = NothingOfAny /\ ended' = {} /\ called' = NeverCalled /\ hadData' = {}
        /\ written' = NothingOfAny /\ index' = 0 /\ chunkOpen' = FALSE
    BY <1>3 DEF NothingRead, NothingHeld
  <2>6. \A o \in Owners : got'[o] = <<>> /\ called'[o] = 0
    BY <2>5 DEF NothingOfAny, NeverCalled
  <2>7. TypeOK'
    BY <1>4, <1>6 DEF Modes
  <2>8. InLoad' /\ ~InSave'
    BY <1>6 DEF InLoad, InSave
  <2>9. LoadInv'
    <3>1. got' \in [Owners -> Seq(Records)] /\ called' \in [Owners -> Nat]
      BY <2>5 DEF NothingOfAny, NeverCalled
    <3>2. ASSUME files[p] # <<>>, NEW o \in Owners PROVE Offered(o)'
      <4>1. Len(saved[p][o]) \in Nat
        BY <2>4, <3>2 DEF Writings
      <4>2. Len(got'[o]) = 0
        BY <2>6
      <4>3. Len(got'[o]) <= Len(saved'[path'][o])
        BY <1>1, <1>6, <4>1, <4>2
      <4> QED
        BY <4>2, <4>3 DEF Offered
    <3>3. path' \in Paths /\ ended' = {}
      BY <1>6, <2>5
    <3> QED
      BY <2>2, <2>3, <2>5, <3>1, <3>2, <3>3 DEF LoadInv
  <2>10. LoadLoopInv'
    <3>1. offset' = Len(files[p]) \/ offset' \in Sections(files[p])
      <4>1. CASE files[p] = <<>>
        BY <1>6, <4>1
      <4>2. CASE files[p] # <<>>
        <5>1. Holds(files[p], Len(files[p]), saved[p]) /\ offset' = 1
          BY <1>6, <2>4, <4>2
        <5> QED
          BY <5>1 DEF Holds
      <4> QED
        BY <4>1, <4>2
    <3>2. \A y \in Sections(files[p]) : ~(y < offset')
      <4> SUFFICES ASSUME NEW y \in Sections(files[p]) PROVE ~(y < offset')
        OBVIOUS
      <4>1. y \in Nat /\ y < Len(files[p])
        BY <2>1, SectionTypes
      <4>2. files[p] # <<>>
        BY <4>1
      <4>3. y # 0
        BY <2>4, <4>2 DEF HasHeader, Sections
      <4> QED
        BY <1>6, <4>1, <4>2, <4>3
    <3>3. HadData(File, offset)' = {}
      BY <2>2, <3>2 DEF HadData
    <3>4. \A x \in Sections(File') : x >= offset' => got'[File'[x + 1].owner] = <<>>
      <4> SUFFICES ASSUME NEW x \in Sections(File') PROVE got'[File'[x + 1].owner] = <<>>
        OBVIOUS
      <4>1. x \in Nat /\ x < Len(files[p]) /\ x \in Sections(files[p])
        BY <2>1, <2>2, SectionTypes
      <4>2. files[p] # <<>>
        BY <4>1
      <4>3. SectionHolds(files[p], x, Len(files[p]), saved[p][files[p][x + 1].owner])
        BY <2>4, <4>1, <4>2 DEF Holds
      <4>4. files[p][x + 1].owner \in Owners
        BY <4>3, OwnersAssumption DEF SectionHolds, Owners
      <4> QED
        BY <2>2, <2>6, <4>4
    <3>5. \A h \in DOMAIN callbacks' :
             called'[OwnerOf(h)'] = IF h \in hadData' /\ Has(h, callback)' THEN 1 ELSE 0
      <4>1. \A h \in DOMAIN callbacks : OwnerOf(h) \in Owners
        BY <1>2, OwnersOfHandles
      <4> QED
        BY <1>1, <2>5, <2>6, <4>1 DEF OwnerOf
    <3> QED
      BY <2>2, <2>5, <3>1, <3>3, <3>4, <3>5 DEF LoadLoopInv
  <2>11. AtRestInv' /\ SaveInv' /\ SaveLoopInv' /\ SavingInv' /\ LoadingInv' /\ RestInv'
    BY <1>6, <2>8 DEF AtRestInv, SaveInv, SaveLoopInv, SavingInv, LoadingInv, RestInv, InSave
  <2> QED
    BY <1>3, <2>7, <2>9, <2>10, <2>11 DEF IInv
<1>7. CASE files[p] = NoFile
  BY <1>5, <1>7 DEF HandleLoadGame
<1>8. CASE files[p] # NoFile
  <2>1. PICK valid \in HeaderIsValid(p) :
           IF valid
           THEN mode' = "load" /\ path' = p /\ callback' = name
                    /\ offset' = IF files[p] = <<>> THEN 0 ELSE 1
           ELSE UNCHANGED <<mode, path, offset, callback>>
    BY <1>8 DEF HandleLoadGame
  <2>2. CASE valid
    BY <1>6, <1>8, <2>1, <2>2
  <2>3. CASE ~valid
    BY <1>5, <2>1, <2>3
  <2> QED
    BY <2>2, <2>3
<1> QED
  BY <1>7, <1>8

\* A step of a load that gives no one a record.
LEMMA LoadOn ==
    ASSUME IInv, InLoad, mode' \in {"load", "loading", "rest", "resting"},
           UNCHANGED keptByLoad, UNCHANGED <<got, ended>>,
           offset' \in Nat, sectionAt' \in Nat, chunk' \in Nat, index' \in Nat,
           section' \in [owner : Owners \cup {NoOwner}, numChunks : Nat, length : Nat],
           chunkOpen' \in BOOLEAN, hadData' \subseteq DOMAIN callbacks,
           called' \in [Owners -> Nat],
           LoadLoopInv', LoadingInv', RestInv'
    PROVE  IInv'
<1>1. LoadInv
  BY LoadedFile
<1>2. UNCHANGED <<path, saved>>
  BY DEF keptByLoad
<1>3. /\ got' \in [Owners -> Seq(Records)] /\ ended' \subseteq Owners
      /\ File = <<>> => got' = NothingOfAny
      /\ File # <<>> => \A o \in ended' : Len(got'[o]) = Len(saved[path][o])
  BY <1>1 DEF LoadInv
<1>4. File # <<>> => \A o \in Owners : Offered(o)'
  BY <1>1, <1>2 DEF LoadInv, Offered
<1> QED
  BY <1>3, <1>4, LoadStep

LEMMA CallLoadOK ==
    ASSUME IInv, CallLoad
    PROVE  IInv'
<1> DEFINE header == File[offset + 1]
           o == header.owner
<1>1. mode = "load" /\ offset < Len(File)
  BY DEF CallLoad, SectionAhead, File
<1>2. InLoad
  BY <1>1 DEF InLoad
<1>3. /\ TypeOK /\ HandlesOK /\ LoadLoopInv /\ File \in Seq(Cells) /\ path \in Paths
      /\ offset \in Nat /\ sectionAt \in Nat /\ chunk \in Nat /\ index \in Nat
      /\ called \in [Owners -> Nat] /\ hadData \subseteq DOMAIN callbacks
  BY <1>2, LoadedFile
<1>4. offset \in Sections(File)
  BY <1>1, <1>3 DEF LoadLoopInv
<1>5. SectionHeader = header
  BY <1>1 DEF SectionHeader, CellAt, File
<1>6. /\ mode' = "loading" /\ chunkOpen' = FALSE
      /\ section' = [owner |-> o, numChunks |-> header.count, length |-> header.length]
      /\ offset' = offset + 1 /\ sectionAt' = offset + 1
      /\ called' = [called EXCEPT ![o] = @ + 1]
      /\ UNCHANGED <<chunk, got, ended>> /\ UNCHANGED keptByLoad
  BY <1>5 DEF CallLoad
<1>7. PICK h \in Handles(o) :
         Has(h, callback) /\ index' = h /\ hadData' = hadData \cup {h}
  BY <1>5 DEF CallLoad
<1>8. UNCHANGED <<plugins, callbacks, files, path, callback, saved>>
  BY <1>6 DEF keptByLoad, sessionVars
<1>9. /\ o \in {NVSE} \cup Based /\ o \in Owners
      /\ header.count = Len(saved[path][o]) /\ header.length \in Nat
      /\ saved[path][o] \in Seq(Seq(Cells))
      /\ \A y \in Sections(File) : File[y + 1].owner = o => y = offset
  BY <1>2, <1>4, LoadedSection
<1>10. /\ h \in DOMAIN callbacks /\ h \in Nat /\ OwnerOf(h) = o
       /\ \A i \in DOMAIN callbacks : OwnerOf(i) = o <=> i = h
       /\ \A i \in DOMAIN callbacks : OwnerOf(i) \in Owners
       /\ Handles(o) \cap DOMAIN callbacks = {h}
  <2>1. h \in DOMAIN callbacks
    BY <1>7 DEF Has
  <2>2. OwnerOf(h) = o /\ h \in Nat
    BY <1>3, <1>7, OwnersOfHandles
  <2>3. \A i \in DOMAIN callbacks : OwnerOf(i) = o <=> i = h
    BY <1>3, <2>1, <2>2, OwnersOfHandles
  <2>4. \A i \in DOMAIN callbacks : OwnerOf(i) \in Owners
    BY <1>3, OwnersOfHandles
  <2>5. \A i \in Handles(o) : OwnerOf(i) = o
    BY <1>3, OwnersOfHandles
  <2>6. Handles(o) \cap DOMAIN callbacks = {h}
    BY <1>7, <2>1, <2>3, <2>5
  <2> QED
    BY <2>1, <2>2, <2>3, <2>4, <2>6
<1>11. /\ hadData = HadData(File, offset) /\ h \notin hadData
       /\ \A x \in Sections(File) : x >= offset => got[File[x + 1].owner] = <<>>
       /\ \A i \in DOMAIN callbacks :
             called[OwnerOf(i)] = IF i \in hadData /\ Has(i, callback) THEN 1 ELSE 0
  <2>1. /\ hadData = HadData(File, offset)
        /\ \A x \in Sections(File) : x >= offset => got[File[x + 1].owner] = <<>>
        /\ \A i \in DOMAIN callbacks :
              called[OwnerOf(i)] = IF i \in hadData /\ Has(i, callback) THEN 1 ELSE 0
    BY <1>1, <1>3 DEF LoadLoopInv
  <2>2. h \notin HadData(File, offset)
    BY <1>2, <1>4, <1>7, HadDataPast
  <2> QED
    BY <2>1, <2>2
<1>12. HadData(File, SectionEnd(File, offset)) = hadData'
  BY <1>2, <1>4, <1>7, <1>10, <1>11, HadDataPast
<1>13. LoadingInv'
  <2>1. File' = File
    BY <1>8 DEF File
  <2>2. sectionAt' - 1 \in Sections(File) /\ sectionAt' = offset + 1 /\ sectionAt' - 1 = offset
    BY <1>3, <1>4, <1>6
  <2>3. section'.owner = o /\ section'.length = header.length /\ section'.numChunks = header.count
        /\ File[sectionAt'] = header
    BY <1>6
  <2>4. index' \in Handles(o) /\ index' \in DOMAIN callbacks
    BY <1>7, <1>10
  <2>5. hadData' = HadData(File, sectionAt' + section'.length)
    <3>1. sectionAt' + section'.length = SectionEnd(File, offset)
      BY <1>3, <1>6, <1>9, <2>3 DEF SectionEnd
    <3> QED
      BY <1>12, <3>1
  <2>6. \A x \in Sections(File) : x >= sectionAt' => got[File[x + 1].owner] = <<>>
    <3>1. \A x \in Sections(File) : x \in Nat
      BY <1>3, SectionTypes
    <3>2. \A x \in Sections(File) : x >= sectionAt' => x >= offset
      BY <1>3, <2>2, <3>1
    <3> QED
      BY <1>11, <3>2
  <2>7. \A i \in DOMAIN callbacks :
           called'[OwnerOf(i)] = IF i \in hadData' /\ Has(i, callback) THEN 1 ELSE 0
    <3> SUFFICES ASSUME NEW i \in DOMAIN callbacks
                 PROVE called'[OwnerOf(i)] = IF i \in hadData' /\ Has(i, callback) THEN 1 ELSE 0
      OBVIOUS
    <3>1. CASE i = h
      <4>1. called[o] = 0
        BY <1>10, <1>11
      <4>2. called'[o] = 1
        BY <1>3, <1>6, <1>9, <4>1
      <4> QED
        BY <1>7, <1>10, <3>1, <4>2
    <3>2. CASE i # h
      <4>1. OwnerOf(i) # o /\ OwnerOf(i) \in Owners
        BY <1>10, <3>2
      <4>2. called'[OwnerOf(i)] = called[OwnerOf(i)]
        BY <1>3, <1>6, <4>1
      <4> QED
        BY <1>7, <1>11, <3>2, <4>2
    <3> QED
      BY <3>1, <3>2
  <2>8. got[o] = <<>>
    BY <1>3, <1>4, <1>11
  <2>9. Len(got'[o]) = 0 /\ ~chunkOpen' /\ chunkOpen' = FALSE /\ offset' = sectionAt'
    BY <1>6, <2>8
  <2>10. section'.numChunks = Len(saved'[path'][section'.owner]) - Len(got'[section'.owner])
    <3>1. Len(saved[path][o]) \in Nat
      BY <1>9
    <3> QED
      BY <1>8, <1>9, <2>3, <2>9, <3>1
  <2> HIDE DEF o, header
  <2>11. Len(got'[section'.owner]) = 0
    BY <2>3, <2>9
  <2>12. index' \in Handles(section.owner)' /\ index' \in DOMAIN callbacks'
    BY <1>8, <2>3, <2>4 DEF Handles
  <2>13. hadData' = HadData(File, sectionAt + section.length)'
    BY <1>8, <2>1, <2>5 DEF HadData, Handles
  <2>14. \A i \in DOMAIN callbacks' :
            called'[OwnerOf(i)'] = IF i \in hadData' /\ Has(i, callback)' THEN 1 ELSE 0
    BY <1>8, <2>7 DEF OwnerOf, Has
  <2>15. \A x \in Sections(File') : x >= sectionAt' => got'[File'[x + 1].owner] = <<>>
    BY <1>6, <2>1, <2>6
  <2>16. ReadSoFar'
    <3>1. ~(Len(got'[section'.owner]) > 0)
      BY <2>11
    <3> QED
      BY <2>9, <2>10, <2>11, <3>1 DEF ReadSoFar
  <2>17. section'.owner = File'[sectionAt'].owner /\ section'.length = File'[sectionAt'].length
    BY <2>1, <2>3 DEF o, header
  <2> QED
    BY <2>1, <2>2, <2>12, <2>13, <2>14, <2>15, <2>16, <2>17 DEF LoadingInv
<1>14. LoadLoopInv' /\ RestInv'
  BY <1>6 DEF LoadLoopInv, RestInv
<1> QED
  <2>1. section' \in [owner : Owners \cup {NoOwner}, numChunks : Nat, length : Nat]
    <3>1. Len(saved[path][o]) \in Nat
      BY <1>9
    <3> HIDE DEF o, header
    <3> QED
      BY <1>6, <1>9, <3>1
  <2>2. called' \in [Owners -> Nat]
    BY <1>3, <1>6, <1>9
  <2>3. /\ offset' = offset + 1 /\ sectionAt' = offset + 1 /\ chunk' \in Nat /\ index' \in Nat
        /\ chunkOpen' \in BOOLEAN /\ mode' \in {"load", "loading", "rest", "resting"}
    <3> HIDE DEF o, header
    <3> QED
      BY <1>3, <1>6, <1>7, <1>10
  <2>4. offset' \in Nat /\ sectionAt' \in Nat
    BY <1>3, <2>3
  <2>5. hadData' \subseteq DOMAIN callbacks
    BY <1>3, <1>7, <1>10
  <2> QED
    BY <1>2, <1>6, <1>13, <1>14, <2>1, <2>2, <2>3, <2>4, <2>5, LoadOn

\* A section that no one reads: its plugin, if there is one, had data all the same.
LEMMA SkipSectionOK ==
    ASSUME IInv, SkipSection
    PROVE  IInv'
<1> DEFINE o == File[offset + 1].owner
           next == SectionEnd(File, offset)
<1>1. mode = "load" /\ offset < Len(File)
  BY DEF SkipSection, SectionAhead, File
<1>2. InLoad
  BY <1>1 DEF InLoad
<1>3. /\ TypeOK /\ HandlesOK /\ LoadLoopInv /\ File \in Seq(Cells) /\ path \in Paths
      /\ offset \in Nat /\ sectionAt \in Nat /\ chunk \in Nat /\ index \in Nat
      /\ section \in [owner : Owners \cup {NoOwner}, numChunks : Nat, length : Nat]
      /\ called \in [Owners -> Nat] /\ hadData \subseteq DOMAIN callbacks
      /\ chunkOpen \in BOOLEAN
  BY <1>2, LoadedFile
<1>4. offset \in Sections(File)
  BY <1>1, <1>3 DEF LoadLoopInv
<1>5. SectionHeader = File[offset + 1]
  BY <1>1 DEF SectionHeader, CellAt, File
<1>6. /\ \A h \in Handles(o) : ~Has(h, callback)
      /\ hadData' = hadData \cup (Handles(o) \cap DOMAIN callbacks)
      /\ offset' = next
      /\ UNCHANGED <<mode, section, sectionAt, chunkOpen, chunk, index, got, ended, called>>
      /\ UNCHANGED keptByLoad
  BY <1>5 DEF SkipSection, SectionEnd, sectionVars, readVars
<1>7. UNCHANGED <<plugins, callbacks, files, path, callback, saved>>
  BY <1>6 DEF keptByLoad, sessionVars
<1>8. File' = File
  BY <1>7 DEF File
<1>9. /\ next \in Nat /\ offset < next
      /\ next = Len(File) \/ next \in Sections(File)
  BY <1>2, <1>4, LoadedSection
<1>10. HadData(File, next) = HadData(File, offset) \cup (Handles(o) \cap DOMAIN callbacks)
  BY <1>2, <1>4, HadDataPast
<1> HIDE DEF next, o
<1>11. LoadLoopInv'
  <2>1. /\ hadData = HadData(File, offset)
        /\ \A x \in Sections(File) : x >= offset => got[File[x + 1].owner] = <<>>
        /\ \A i \in DOMAIN callbacks :
              called[OwnerOf(i)] = IF i \in hadData /\ Has(i, callback) THEN 1 ELSE 0
    BY <1>1, <1>3 DEF LoadLoopInv
  <2>2. hadData' = HadData(File, next)
    BY <1>6, <1>10, <2>1
  <2>3. hadData' = HadData(File, offset)'
    BY <1>6, <1>7, <1>8, <2>2 DEF HadData, Handles
  <2>4. \A x \in Sections(File) : x >= offset' => got[File[x + 1].owner] = <<>>
    <3>1. \A x \in Sections(File) : x \in Nat
      BY <1>3, SectionTypes
    <3>2. \A x \in Sections(File) : x >= offset' => x >= offset
      BY <1>3, <1>6, <1>9, <3>1
    <3> QED
      BY <2>1, <3>2
  <2>5. \A i \in DOMAIN callbacks :
           called[OwnerOf(i)] = IF i \in hadData' /\ Has(i, callback) THEN 1 ELSE 0
    BY <1>6, <2>1
  <2>6. \A i \in DOMAIN callbacks' :
           called'[OwnerOf(i)'] = IF i \in hadData' /\ Has(i, callback)' THEN 1 ELSE 0
    BY <1>6, <1>7, <2>5 DEF OwnerOf, Has
  <2>7. \A x \in Sections(File') : x >= offset' => got'[File'[x + 1].owner] = <<>>
    BY <1>6, <1>8, <2>4
  <2>8. offset' = Len(File') \/ offset' \in Sections(File')
    BY <1>6, <1>8, <1>9
  <2>9. index' \in Nat
    BY <1>3, <1>6
  <2> QED
    BY <2>3, <2>6, <2>7, <2>8, <2>9 DEF LoadLoopInv
<1>12. LoadingInv' /\ RestInv'
  BY <1>1, <1>6 DEF LoadingInv, RestInv
<1> QED
  <2>1. /\ offset' \in Nat /\ sectionAt' \in Nat /\ chunk' \in Nat /\ index' \in Nat
        /\ chunkOpen' \in BOOLEAN /\ hadData' \subseteq DOMAIN callbacks
        /\ mode' \in {"load", "loading", "rest", "resting"} /\ called' \in [Owners -> Nat]
        /\ section' \in [owner : Owners \cup {NoOwner}, numChunks : Nat, length : Nat]
        /\ UNCHANGED <<got, ended>> /\ UNCHANGED keptByLoad
    BY <1>1, <1>3, <1>6, <1>9
  <2> QED
    BY <1>2, <1>11, <1>12, <2>1, LoadOn

\* What is known in a load callback about the section it is for.
LEMMA ReadSection ==
    ASSUME IInv, mode = "loading"
    PROVE  /\ sectionAt - 1 \in Sections(File) /\ sectionAt > 0
           /\ section.owner = File[(sectionAt - 1) + 1].owner
           /\ SectionEnd(File, sectionAt - 1) = sectionAt + section.length
           /\ section.owner = OwnerOf(index) /\ section.owner \in Owners
           /\ index \in DOMAIN callbacks
           /\ File # <<>>
           /\ saved[path][section.owner] \in Seq(Seq(Cells))
           /\ \A y \in Sections(File) :
                 File[y + 1].owner = section.owner => y = sectionAt - 1
           /\ \E at \in [1 .. Len(saved[path][section.owner])
                            -> sectionAt .. sectionAt + section.length - 1] :
                 Places(File, sectionAt, sectionAt + section.length, saved[path][section.owner],
                        at, Len(saved[path][section.owner]))
<1> DEFINE x == sectionAt - 1
           records == saved[path][section.owner]
<1>1. InLoad
  BY DEF InLoad
<1>2. /\ LoadingInv /\ sectionAt \in Nat /\ TypeOK /\ HandlesOK
  BY <1>1, LoadedFile
<1>3. /\ x \in Sections(File) /\ section.owner = File[sectionAt].owner
      /\ section.length = File[sectionAt].length
      /\ index \in Handles(section.owner) /\ index \in DOMAIN callbacks
  BY <1>2 DEF LoadingInv
<1>4. x + 1 = sectionAt
  BY <1>2
<1>5. /\ File # <<>> /\ x \in Nat /\ x > 0
      /\ File[x + 1].owner \in Owners
      /\ \A y \in Sections(File) : File[y + 1].owner = File[x + 1].owner => y = x
      /\ saved[path][File[x + 1].owner] \in Seq(Seq(Cells))
      /\ File[x + 1].length \in Nat
      /\ \E at \in [1 .. Len(saved[path][File[x + 1].owner]) -> x + 1 .. SectionEnd(File, x) - 1] :
            Places(File, x + 1, SectionEnd(File, x), saved[path][File[x + 1].owner], at,
                   Len(saved[path][File[x + 1].owner]))
  BY <1>1, <1>3, LoadedSection
<1>6. SectionEnd(File, x) = sectionAt + section.length
  BY <1>2, <1>3, <1>4, <1>5 DEF SectionEnd
<1>7. section.owner = OwnerOf(index)
  BY <1>2, <1>3, OwnersOfHandles
<1>8. sectionAt > 0
  BY <1>2, <1>5
<1> HIDE DEF x
<1>9. section.owner = File[x + 1].owner /\ section.owner \in Owners
  BY <1>3, <1>4, <1>5
<1>10. records \in Seq(Seq(Cells))
  BY <1>5, <1>9
<1>11. \A y \in Sections(File) : File[y + 1].owner = section.owner => y = x
  BY <1>5, <1>9
<1>12. \E at \in [1 .. Len(records) -> sectionAt .. sectionAt + section.length - 1] :
          Places(File, sectionAt, sectionAt + section.length, records, at, Len(records))
  <2>1. saved[path][File[x + 1].owner] = records
    BY <1>9
  <2> HIDE DEF records
  <2>2. \E at \in [1 .. Len(records) -> x + 1 .. SectionEnd(File, x) - 1] :
           Places(File, x + 1, SectionEnd(File, x), records, at, Len(records))
    BY <1>5, <2>1
  <2>3. PICK at \in [1 .. Len(records) -> x + 1 .. SectionEnd(File, x) - 1] :
           Places(File, x + 1, SectionEnd(File, x), records, at, Len(records))
    BY <2>2
  <2>4. /\ at \in [1 .. Len(records) -> sectionAt .. sectionAt + section.length - 1]
        /\ Places(File, sectionAt, sectionAt + section.length, records, at, Len(records))
    <3>1. x + 1 = sectionAt
      BY <1>4
    <3>2. SectionEnd(File, x) = sectionAt + section.length
      BY <1>6
    <3>3. Places(File, sectionAt, SectionEnd(File, x), records, at, Len(records))
      BY <2>3, <3>1
    <3>4. at \in [1 .. Len(records) -> sectionAt .. SectionEnd(File, x) - 1]
      BY <2>3, <3>1
    <3>5. sectionAt \in Nat /\ section.length \in Nat
      BY <1>2, <1>3, <1>4, <1>5
    <3> QED
      BY <3>2, <3>3, <3>4, <3>5
  <2> QED
    BY <2>4
<1> QED
  BY <1>3, <1>5, <1>6, <1>7, <1>8, <1>9, <1>10, <1>11, <1>12 DEF x, records

LEMMA LoadReturnsOK ==
    ASSUME IInv, LoadReturns
    PROVE  IInv'
<1> DEFINE x == sectionAt - 1
           next == SectionEnd(File, x)
<1>1. /\ mode = "loading" /\ mode' = "load" /\ offset' = sectionAt + section.length
      /\ UNCHANGED <<section, sectionAt, chunkOpen, chunk, index, hadData, got, ended, called>>
      /\ UNCHANGED keptByLoad
  BY DEF LoadReturns, sectionVars, readVars
<1>2. InLoad
  BY <1>1 DEF InLoad
<1>3. /\ TypeOK /\ HandlesOK /\ LoadingInv /\ File \in Seq(Cells) /\ path \in Paths
      /\ sectionAt \in Nat /\ chunk \in Nat /\ index \in Nat
      /\ section \in [owner : Owners \cup {NoOwner}, numChunks : Nat, length : Nat]
      /\ called \in [Owners -> Nat] /\ hadData \subseteq DOMAIN callbacks
      /\ chunkOpen \in BOOLEAN
  BY <1>2, LoadedFile
<1>4. UNCHANGED <<plugins, callbacks, files, path, callback, saved>>
  BY <1>1 DEF keptByLoad, sessionVars
<1>5. File' = File
  BY <1>4 DEF File
<1>6. x \in Sections(File) /\ next = sectionAt + section.length
  BY <1>1, ReadSection
<1>7. /\ next \in Nat /\ x < next /\ x \in Nat
      /\ next = Len(File) \/ next \in Sections(File)
  BY <1>2, <1>6, LoadedSection
<1>8. /\ hadData = HadData(File, sectionAt + section.length)
      /\ \A y \in Sections(File) : y >= sectionAt => got[File[y + 1].owner] = <<>>
      /\ \A i \in DOMAIN callbacks :
            called[OwnerOf(i)] = IF i \in hadData /\ Has(i, callback) THEN 1 ELSE 0
  BY <1>1, <1>3 DEF LoadingInv
<1>9. LoadLoopInv'
  <2>1. hadData' = HadData(File, offset)'
    BY <1>1, <1>4, <1>5, <1>8 DEF HadData, Handles
  <2>2. \A y \in Sections(File) : y >= offset' => got[File[y + 1].owner] = <<>>
    <3>1. \A y \in Sections(File) : y \in Nat
      BY <1>3, SectionTypes
    <3>2. offset' >= sectionAt
      BY <1>1, <1>3
    <3>3. \A y \in Sections(File) : y >= offset' => y >= sectionAt
      BY <1>1, <1>3, <1>6, <1>7, <3>1, <3>2
    <3> QED
      BY <1>8, <3>3
  <2>3. \A i \in DOMAIN callbacks' :
           called'[OwnerOf(i)'] = IF i \in hadData' /\ Has(i, callback)' THEN 1 ELSE 0
    BY <1>1, <1>4, <1>8 DEF OwnerOf, Has
  <2>4. \A y \in Sections(File') : y >= offset' => got'[File'[y + 1].owner] = <<>>
    BY <1>1, <1>5, <2>2
  <2>5. offset' = Len(File') \/ offset' \in Sections(File')
    BY <1>1, <1>5, <1>6, <1>7
  <2>6. index' \in Nat
    BY <1>1, <1>3
  <2> QED
    BY <2>1, <2>3, <2>4, <2>5, <2>6 DEF LoadLoopInv
<1>10. LoadingInv' /\ RestInv'
  BY <1>1 DEF LoadingInv, RestInv
<1> HIDE DEF next, x
<1> QED
  <2>1. /\ offset' \in Nat /\ sectionAt' \in Nat /\ chunk' \in Nat /\ index' \in Nat
        /\ chunkOpen' \in BOOLEAN /\ hadData' \subseteq DOMAIN callbacks
        /\ mode' \in {"load", "loading", "rest", "resting"} /\ called' \in [Owners -> Nat]
        /\ section' \in [owner : Owners \cup {NoOwner}, numChunks : Nat, length : Nat]
        /\ UNCHANGED <<got, ended>> /\ UNCHANGED keptByLoad
    BY <1>1, <1>3, <1>6, <1>7
  <2> QED
    BY <1>2, <1>9, <1>10, <2>1, LoadOn

\* Where a read goes on, and what it finds: records up to k were given.
LEMMA ReadPlace ==
    ASSUME IInv, mode = "loading", NEW at,
           Places(File, sectionAt, sectionAt + section.length, saved[path][section.owner], at,
                  Len(saved[path][section.owner]))
    PROVE  /\ at[1] = sectionAt
           /\ \A k \in 1 .. Len(saved[path][section.owner]) :
                 /\ at[k] \in Nat /\ sectionAt <= at[k]
                 /\ Len(saved[path][section.owner][k]) \in Nat
                 /\ k < Len(saved[path][section.owner]) =>
                       at[k + 1] = at[k] + 1 + Len(saved[path][section.owner][k])
                 /\ CellAt(at[k]) = Chunk(saved[path][section.owner][k])
                 /\ \A j \in 1 .. Len(saved[path][section.owner][k]) :
                       CellAt(at[k] + j) = saved[path][section.owner][k][j]
<1> DEFINE records == saved[path][section.owner]
<1>1. InLoad
  BY DEF InLoad
<1>2. /\ sectionAt \in Nat /\ section.length \in Nat
  BY <1>1, LoadedFile
<1>3. records \in Seq(Seq(Cells))
  BY ReadSection
<1> HIDE DEF records
<1>4. Places(File, sectionAt, sectionAt + section.length, records, at, Len(records))
  BY DEF records
<1>5. Ordered(sectionAt, sectionAt + section.length, records, at)
  BY <1>2, <1>3, <1>4, PlacesTypes
<1>6. at[1] = sectionAt
  BY <1>4 DEF Places
<1>7. ASSUME NEW k \in 1 .. Len(records)
      PROVE  /\ at[k] \in Nat /\ sectionAt <= at[k]
             /\ Len(records[k]) \in Nat
             /\ k < Len(records) => at[k + 1] = at[k] + 1 + Len(records[k])
             /\ CellAt(at[k]) = Chunk(records[k])
             /\ \A j \in 1 .. Len(records[k]) : CellAt(at[k] + j) = records[k][j]
  <2>1. at[k] \in Nat /\ sectionAt <= at[k] /\ Len(records[k]) \in Nat /\ Len(records) \in Nat
    BY <1>5 DEF Ordered
  <2>2. k < Len(records) => at[k + 1] = at[k] + 1 + Len(records[k])
    <3>1. k < Len(records) => k \in 1 .. Len(records) - 1
      BY <2>1
    <3> QED
      BY <1>5, <3>1 DEF Ordered
  <2>3. Is(File, at[k], Chunk(records[k]))
    BY <1>4 DEF Places
  <2>4. \A j \in 1 .. Len(records[k]) : Is(File, at[k] + j, records[k][j])
    BY <1>4 DEF Places
  <2> QED
    BY <2>1, <2>2, <2>3, <2>4 DEF Is, CellAt, File
<1> QED
  BY <1>6, <1>7 DEF records

\* Reading in the second loop: such a plugin has no section and gets no record.
LEMMA NothingForRest ==
    ASSUME IInv, mode = "resting"
    PROVE  /\ section.numChunks = 0 /\ chunkOpen = FALSE /\ OwnerOf(index) \in Owners
           /\ File # <<>> => Len(got[OwnerOf(index)]) = Len(saved[path][OwnerOf(index)])
<1>1. InLoad
  BY DEF InLoad
<1>2. /\ TypeOK /\ HandlesOK /\ LoadInv /\ RestInv /\ File \in Seq(Cells)
      /\ got \in [Owners -> Seq(Records)]
  BY <1>1, LoadedFile
<1>3. /\ section.numChunks = 0 /\ chunkOpen = FALSE
      /\ index \in DOMAIN callbacks /\ index \notin hadData /\ hadData = HadData(File, Len(File))
  BY <1>2 DEF RestInv
<1> DEFINE o == OwnerOf(index)
<1>4. o \in Owners
  BY <1>2, <1>3, OwnersOfHandles
<1>5. ASSUME File # <<>> PROVE Len(got[o]) = Len(saved[path][o])
  <2>1. saved[path] \in Writings /\ Holds(File, Len(File), saved[path])
    BY <1>1, <1>5, LoadedFile
  <2>2. saved[path][o] = <<>>
    <3> SUFFICES ASSUME saved[path][o] # <<>> PROVE FALSE
      OBVIOUS
    <3>1. PICK y \in Sections(File) : File[y + 1].owner = o
      BY <1>4, <2>1 DEF Holds
    <3>2. y < Len(File)
      BY <1>2, SectionTypes
    <3>3. o \in {NVSE} \cup Based
      BY <1>1, <3>1, LoadedSection
    <3>4. index \in Handles(o)
      BY <1>2, <1>3, <3>3, OwnersOfHandles
    <3>5. index \in HadData(File, Len(File))
      BY <1>3, <3>1, <3>2, <3>4 DEF HadData
    <3> QED
      BY <1>3, <3>5
  <2>3. Len(got[o]) <= Len(saved[path][o])
    BY <1>1, <1>2, <1>4, <1>5 DEF LoadInv, Offered
  <2>4. Len(got[o]) \in Nat
    BY <1>2, <1>4
  <2>5. Len(saved[path][o]) = 0
    BY <2>2
  <2> QED
    BY <2>3, <2>4, <2>5
<1> QED
  BY <1>3, <1>4, <1>5

LEMMA NoNextRecordOK ==
    ASSUME IInv, NoNextRecord
    PROVE  IInv'
<1> DEFINE o == OwnerOf(index)
<1>1. /\ mode \in {"loading", "resting"} /\ section.numChunks = 0 /\ mode' = mode
      /\ offset' = offset + UnreadRest /\ chunkOpen' = FALSE /\ ended' = ended \cup {o}
      /\ UNCHANGED <<section, sectionAt, chunk, index, hadData, got, called>>
      /\ UNCHANGED keptByLoad
  BY DEF NoNextRecord, InLoadCallback, Reader, sectionVars
<1>2. InLoad
  BY <1>1 DEF InLoad
<1>3. /\ TypeOK /\ HandlesOK /\ LoadInv /\ LoadingInv /\ RestInv
      /\ offset \in Nat /\ sectionAt \in Nat /\ chunk \in Nat /\ index \in Nat
      /\ section \in [owner : Owners \cup {NoOwner}, numChunks : Nat, length : Nat]
      /\ got \in [Owners -> Seq(Records)] /\ ended \subseteq Owners
      /\ called \in [Owners -> Nat] /\ hadData \subseteq DOMAIN callbacks
      /\ chunkOpen \in BOOLEAN
  BY <1>2, LoadedFile
<1>4. UNCHANGED <<plugins, callbacks, files, path, callback, saved>>
  BY <1>1 DEF keptByLoad, sessionVars
<1>5. File' = File
  BY <1>4 DEF File
<1>6. offset' \in Nat
  BY <1>1, <1>3 DEF UnreadRest
<1>7. /\ o \in Owners
      /\ File # <<>> => Len(got[o]) = Len(saved[path][o])
  <2>1. CASE mode = "resting"
    BY <2>1, NothingForRest
  <2>2. CASE mode = "loading"
    <3>1. o = section.owner /\ o \in Owners /\ saved[path][o] \in Seq(Seq(Cells))
      BY <2>2, ReadSection
    <3>2. section.numChunks = Len(saved[path][section.owner]) - Len(got[section.owner])
      BY <1>3, <2>2 DEF LoadingInv, ReadSoFar
    <3>3. PICK mine \in Nat : mine = Len(got[o])
      BY <1>3, <3>1
    <3>4. PICK all \in Nat : all = Len(saved[path][o])
      BY <3>1
    <3>5. 0 = all - mine
      BY <1>1, <3>1, <3>2, <3>3, <3>4
    <3>6. all = mine
      BY <3>5
    <3> QED
      BY <3>1, <3>3, <3>4, <3>6
  <2> QED
    BY <1>1, <2>1, <2>2
<1>8. LoadingInv'
  <2> SUFFICES ASSUME mode = "loading" PROVE LoadingInv'
    BY <1>1 DEF LoadingInv
  <2>1. ReadSoFar
    BY <1>3 DEF LoadingInv
  <2>2. ReadSoFar'
    <3>1. /\ section.numChunks = Len(saved[path][section.owner]) - Len(got[section.owner])
          /\ Len(got[section.owner]) = 0 => chunkOpen = FALSE /\ offset = sectionAt
      BY <2>1 DEF ReadSoFar
    <3>2. chunkOpen = FALSE => offset' = offset
      BY <1>1, <1>3 DEF UnreadRest
    <3>3. section'.numChunks = 0 /\ chunkOpen' = FALSE /\ ~chunkOpen'
      BY <1>1
    <3>4. section' = section /\ saved' = saved /\ got' = got /\ path' = path
          /\ sectionAt' = sectionAt
      BY <1>1, <1>4
    <3> QED
      BY <3>1, <3>2, <3>3, <3>4 DEF ReadSoFar
  <2>3. /\ sectionAt - 1 \in Sections(File)
        /\ section.owner = File[sectionAt].owner /\ section.length = File[sectionAt].length
        /\ index \in Handles(section.owner) /\ index \in DOMAIN callbacks
        /\ hadData = HadData(File, sectionAt + section.length)
        /\ \A x \in Sections(File) : x >= sectionAt => got[File[x + 1].owner] = <<>>
        /\ \A h \in DOMAIN callbacks :
              called[OwnerOf(h)] = IF h \in hadData /\ Has(h, callback) THEN 1 ELSE 0
    BY <1>3 DEF LoadingInv
  <2>4. hadData' = HadData(File, sectionAt + section.length)'
    BY <1>1, <1>4, <1>5, <2>3 DEF HadData, Handles
  <2>5. /\ index' \in Handles(section.owner)' /\ index' \in DOMAIN callbacks'
        /\ \A h \in DOMAIN callbacks' :
              called'[OwnerOf(h)'] = IF h \in hadData' /\ Has(h, callback)' THEN 1 ELSE 0
    BY <1>1, <1>4, <2>3 DEF Handles, OwnerOf, Has
  <2> QED
    BY <1>1, <1>5, <2>2, <2>3, <2>4, <2>5 DEF LoadingInv
<1>9. RestInv'
  <2> SUFFICES ASSUME mode = "resting" PROVE RestInv'
    BY <1>1 DEF RestInv
  <2>1. /\ hadData = HadData(File, Len(File))
        /\ \A h \in DOMAIN callbacks :
              called[OwnerOf(h)] =
                 IF /\ Has(h, callback)
                    /\ h \in hadData \/ h < index \/ (mode = "resting" /\ h = index)
                 THEN 1 ELSE 0
        /\ section.numChunks = 0 /\ chunkOpen = FALSE
        /\ index \in DOMAIN callbacks /\ index \notin hadData
    BY <1>3 DEF RestInv
  <2>2. hadData' = HadData(File, Len(File))'
    BY <1>1, <1>4, <1>5, <2>1 DEF HadData, Handles
  <2>3. \A h \in DOMAIN callbacks' :
              called'[OwnerOf(h)'] =
                 IF /\ Has(h, callback)'
                    /\ h \in hadData' \/ h < index' \/ (mode' = "resting" /\ h = index')
                 THEN 1 ELSE 0
    BY <1>1, <1>4, <2>1 DEF OwnerOf, Has
  <2> QED
    BY <1>1, <1>4, <2>1, <2>2, <2>3 DEF RestInv
<1>10. LoadLoopInv'
  BY <1>1 DEF LoadLoopInv
<1>11. /\ File = <<>> => got' = NothingOfAny
       /\ File # <<>> => \A q \in Owners : Offered(q)'
       /\ File # <<>> => \A q \in ended' : Len(got'[q]) = Len(saved[path][q])
  <2>1. /\ File = <<>> => got = NothingOfAny
        /\ File # <<>> => \A q \in Owners : Offered(q)
        /\ File # <<>> => \A q \in ended : Len(got[q]) = Len(saved[path][q])
    BY <1>2, <1>3 DEF LoadInv
  <2> HIDE DEF o
  <2>2. File # <<>> => \A q \in Owners : Offered(q)'
    BY <1>1, <1>4, <2>1 DEF Offered
  <2> QED
    BY <1>1, <1>7, <2>1, <2>2
<1> HIDE DEF o
<1> QED
  <2>1. /\ sectionAt' \in Nat /\ chunk' \in Nat /\ index' \in Nat
        /\ chunkOpen' \in BOOLEAN /\ hadData' \subseteq DOMAIN callbacks
        /\ mode' \in {"load", "loading", "rest", "resting"} /\ called' \in [Owners -> Nat]
        /\ section' \in [owner : Owners \cup {NoOwner}, numChunks : Nat, length : Nat]
        /\ got' \in [Owners -> Seq(Records)] /\ UNCHANGED keptByLoad
    BY <1>1, <1>3
  <2>2. ended' \subseteq Owners
    BY <1>1, <1>3, <1>7
  <2> QED
    BY <1>2, <1>6, <1>8, <1>9, <1>10, <1>11, <2>1, <2>2, LoadStep

\* The next record is the next one that was saved.
LEMMA GetNextRecordInfoOK ==
    ASSUME IInv, GetNextRecordInfo
    PROVE  IInv'
<1> DEFINE o == section.owner
           mine == got[o]
           k == Len(mine)
           records == saved[path][o]
           place == offset + UnreadRest
<1>1. mode = "loading" /\ section.numChunks > 0
  <2>1. mode = "resting" => section.numChunks = 0
    BY NothingForRest
  <2>2. mode \in {"loading", "resting"} /\ section.numChunks > 0
    BY DEF GetNextRecordInfo, InLoadCallback
  <2>3. section.numChunks # 0
    BY <2>2
  <2> QED
    BY <2>1, <2>2, <2>3
<1>2. InLoad
  BY <1>1 DEF InLoad
<1>3. /\ TypeOK /\ HandlesOK /\ LoadInv /\ LoadingInv
      /\ offset \in Nat /\ sectionAt \in Nat /\ chunk \in Nat /\ index \in Nat
      /\ section \in [owner : Owners \cup {NoOwner}, numChunks : Nat, length : Nat]
      /\ got \in [Owners -> Seq(Records)] /\ ended \subseteq Owners
      /\ called \in [Owners -> Nat] /\ hadData \subseteq DOMAIN callbacks
      /\ chunkOpen \in BOOLEAN /\ path \in Paths /\ File \in Seq(Cells)
  BY <1>2, LoadedFile
<1>4. /\ sectionAt - 1 \in Sections(File)
      /\ o = File[(sectionAt - 1) + 1].owner
      /\ o = OwnerOf(index) /\ o \in Owners /\ index \in DOMAIN callbacks
      /\ File # <<>> /\ records \in Seq(Seq(Cells))
      /\ \A y \in Sections(File) : File[y + 1].owner = o => y = sectionAt - 1
      /\ \E at \in [1 .. Len(records) -> sectionAt .. sectionAt + section.length - 1] :
            Places(File, sectionAt, sectionAt + section.length, records, at, Len(records))
  BY <1>1, ReadSection
<1>5. Reader = o
  BY <1>4 DEF Reader
<1>6. /\ mode' = mode /\ chunkOpen' = TRUE
      /\ section' = [section EXCEPT !.numChunks = @ - 1]
      /\ chunk' = CellAt(place).length
      /\ offset' = place + 1
      /\ got' = [got EXCEPT ![o] = Append(@, [length |-> CellAt(place).length, data |-> <<>>])]
      /\ UNCHANGED <<sectionAt, index, hadData, ended, called>> /\ UNCHANGED keptByLoad
  BY <1>5 DEF GetNextRecordInfo
<1>7. UNCHANGED <<plugins, callbacks, files, path, callback, saved>>
  BY <1>6 DEF keptByLoad, sessionVars
<1>8. File' = File
  BY <1>7 DEF File
<1>9. /\ k \in Nat /\ mine \in Seq(Records) /\ Len(records) \in Nat
      /\ section.numChunks = Len(records) - k
      /\ k = 0 => chunkOpen = FALSE /\ offset = sectionAt
      /\ k > 0 /\ chunkOpen = FALSE => section.numChunks = 0
      /\ chunkOpen =>
            /\ chunk <= Len(records[k])
            /\ \E at \in [1 .. Len(records) -> sectionAt .. sectionAt + section.length - 1] :
                  /\ Places(File, sectionAt, sectionAt + section.length, records, at,
                            Len(records))
                  /\ offset + chunk = at[k] + 1 + Len(records[k])
  <2>1. ReadSoFar
    BY <1>1, <1>3 DEF LoadingInv
  <2>2. k \in Nat /\ mine \in Seq(Records) /\ Len(records) \in Nat
    BY <1>3, <1>4
  <2> QED
    BY <2>1, <2>2 DEF ReadSoFar
<1> HIDE DEF o, mine, k, records, place
<1>10. k + 1 \in 1 .. Len(records)
  BY <1>1, <1>3, <1>9
<1>11. PICK at \in [1 .. Len(records) -> sectionAt .. sectionAt + section.length - 1] :
          /\ Places(File, sectionAt, sectionAt + section.length, records, at, Len(records))
          /\ place = at[k + 1]
  <2>1. CASE chunkOpen = FALSE
    <3>1. k = 0 /\ offset = sectionAt
      BY <1>1, <1>3, <1>9, <2>1
    <3>2. PICK at \in [1 .. Len(records) -> sectionAt .. sectionAt + section.length - 1] :
             Places(File, sectionAt, sectionAt + section.length, records, at, Len(records))
      BY <1>4
    <3>3. at[1] = sectionAt
      BY <3>2 DEF Places
    <3>4. place = offset
      BY <1>3, <2>1 DEF UnreadRest, place
    <3> QED
      BY <3>1, <3>2, <3>3, <3>4
  <2>2. CASE chunkOpen = TRUE
    <3>1. PICK at \in [1 .. Len(records) -> sectionAt .. sectionAt + section.length - 1] :
             /\ Places(File, sectionAt, sectionAt + section.length, records, at, Len(records))
             /\ offset + chunk = at[k] + 1 + Len(records[k])
      BY <1>9, <2>2
    <3>2. place = offset + chunk
      BY <2>2 DEF UnreadRest, place
    <3>3. k # 0 /\ k \in 1 .. Len(records) /\ k < Len(records)
      BY <1>9, <1>10, <2>2
    <3>4. at[k + 1] = at[k] + 1 + Len(records[k])
      BY <1>1, <3>1, <3>3, ReadPlace DEF records, o
    <3> QED
      BY <3>1, <3>2, <3>4
  <2> QED
    BY <1>3, <2>1, <2>2
<1>12. PICK size \in Nat : size = Len(records[k + 1])
  <2>1. records[k + 1] \in Seq(Cells)
    BY <1>4, <1>10
  <2> QED
    BY <2>1
<1>13. CellAt(place).length = size /\ place \in Nat
  <2>1. CellAt(at[k + 1]) = Chunk(records[k + 1]) /\ at[k + 1] \in Nat
    BY <1>1, <1>10, <1>11, ReadPlace DEF records, o
  <2>2. Chunk(records[k + 1]).length = Len(records[k + 1])
    BY DEF Chunk, Cell
  <2> QED
    BY <1>11, <1>12, <2>1, <2>2
<1> DEFINE new == [length |-> size, data |-> <<>>]
<1>14. new \in Records /\ new.length = size /\ new.data = <<>> /\ Len(new.data) = 0
  BY <1>12 DEF Records
<1> HIDE DEF new
<1>15. /\ got' \in [Owners -> Seq(Records)] /\ got'[o] = Append(mine, new)
       /\ \A q \in Owners \ {o} : got'[q] = got[q]
  <2>1. got' = [got EXCEPT ![o] = Append(mine, new)]
    BY <1>6, <1>13 DEF mine, new
  <2>2. Append(mine, new) \in Seq(Records)
    BY <1>9, <1>14
  <2> QED
    BY <1>3, <1>4, <2>1, <2>2
<1>16. /\ Len(got'[o]) = k + 1 /\ got'[o][k + 1] = new
       /\ \A i \in 1 .. k : got'[o][i] = mine[i]
  <2>1. /\ Len(Append(mine, new)) = Len(mine) + 1
        /\ Append(mine, new)[Len(mine) + 1] = new
        /\ \A i \in 1 .. Len(mine) : Append(mine, new)[i] = mine[i]
    BY <1>9, <1>14
  <2> QED
    BY <1>15, <2>1 DEF k
<1>17. /\ section'.owner = o /\ section'.numChunks = section.numChunks - 1
       /\ section'.length = section.length
       /\ section' \in [owner : Owners \cup {NoOwner}, numChunks : Nat, length : Nat]
  <2>1. section' = [owner |-> section.owner, numChunks |-> section.numChunks - 1,
                    length |-> section.length]
    BY <1>3, <1>6
  <2>2. section.numChunks - 1 \in Nat
    BY <1>1, <1>3
  <2> QED
    BY <1>3, <2>1, <2>2 DEF o
<1>18. ReadSoFar'
  <2>1. saved'[path'][section'.owner] = records /\ got'[section'.owner] = got'[o]
    BY <1>7, <1>17 DEF records, o
  <2>2. section'.numChunks = Len(records) - Len(got'[o])
    BY <1>9, <1>16, <1>17
  <2>3. ~(Len(got'[o]) = 0) /\ chunkOpen' = TRUE /\ chunkOpen' # FALSE
    BY <1>6, <1>9, <1>16
  <2>4. chunk' = size /\ chunk' <= Len(records[Len(got'[o])])
    BY <1>6, <1>12, <1>13, <1>16
  <2>5. Len(got'[o][Len(got'[o])].data) = Len(records[Len(got'[o])]) - chunk'
    <3>1. Len(got'[o][Len(got'[o])].data) = 0
      BY <1>14, <1>16
    <3>2. Len(records[Len(got'[o])]) = size /\ chunk' = size
      BY <1>6, <1>12, <1>13, <1>16
    <3>3. size - size = 0
      BY <1>12
    <3> QED
      BY <3>1, <3>2, <3>3
  <2>6. /\ at \in [1 .. Len(records) -> sectionAt' .. sectionAt' + section'.length - 1]
        /\ Places(File', sectionAt', sectionAt' + section'.length, records, at, Len(records))
        /\ offset' + chunk' = at[Len(got'[o])] + 1 + Len(records[Len(got'[o])])
    <3>1. sectionAt' = sectionAt /\ section'.length = section.length
      BY <1>6, <1>17
    <3>2. offset' + chunk' = at[k + 1] + 1 + size
      BY <1>6, <1>11, <1>12, <1>13
    <3> QED
      BY <1>8, <1>11, <1>12, <1>16, <3>1, <3>2
  <2> QED
    BY <2>1, <2>2, <2>3, <2>4, <2>5, <2>6 DEF ReadSoFar
<1>19. LoadingInv'
  <2>1. /\ sectionAt - 1 \in Sections(File)
        /\ section.owner = File[sectionAt].owner /\ section.length = File[sectionAt].length
        /\ index \in Handles(section.owner) /\ index \in DOMAIN callbacks
        /\ hadData = HadData(File, sectionAt + section.length)
        /\ \A x \in Sections(File) : x >= sectionAt => got[File[x + 1].owner] = <<>>
        /\ \A h \in DOMAIN callbacks :
              called[OwnerOf(h)] = IF h \in hadData /\ Has(h, callback) THEN 1 ELSE 0
    BY <1>1, <1>3 DEF LoadingInv
  <2>2. hadData' = HadData(File, sectionAt + section.length)'
    BY <1>6, <1>7, <1>8, <1>17, <2>1 DEF HadData, Handles
  <2>3. section'.owner = section.owner
    BY <1>17 DEF o
  <2>4. index' \in Handles(section.owner)' /\ index' \in DOMAIN callbacks'
    BY <1>6, <1>7, <2>1, <2>3 DEF Handles
  <2>5. \A h \in DOMAIN callbacks' :
              called'[OwnerOf(h)'] = IF h \in hadData' /\ Has(h, callback)' THEN 1 ELSE 0
    BY <1>6, <1>7, <2>1 DEF OwnerOf, Has
  <2>6. \A x \in Sections(File') : x >= sectionAt' => got'[File'[x + 1].owner] = <<>>
    <3> SUFFICES ASSUME NEW x \in Sections(File), x >= sectionAt
                 PROVE got'[File[x + 1].owner] = <<>>
      BY <1>6, <1>8
    <3>1. got[File[x + 1].owner] = <<>>
      BY <2>1
    <3>2. x \in Nat
      BY <1>3, SectionTypes
    <3>3. x # sectionAt - 1
      BY <1>3, <3>2
    <3>4. File[x + 1].owner # o
      BY <1>4, <3>3
    <3>5. File[x + 1].owner \in Owners
      BY <1>2, LoadedSection
    <3> QED
      BY <1>15, <3>1, <3>4, <3>5
  <2>7. /\ sectionAt' - 1 \in Sections(File')
        /\ section'.owner = File'[sectionAt'].owner /\ section'.length = File'[sectionAt'].length
    BY <1>6, <1>8, <1>17, <2>1, <2>3
  <2> QED
    BY <1>18, <2>2, <2>4, <2>5, <2>6, <2>7 DEF LoadingInv
<1>20. LoadLoopInv' /\ RestInv'
  BY <1>1, <1>6 DEF LoadLoopInv, RestInv
<1>21. \A q \in Owners : Offered(q)'
  <2> SUFFICES ASSUME NEW q \in Owners PROVE Offered(q)'
    OBVIOUS
  <2>1. Offered(q)
    BY <1>2, <1>3, <1>4 DEF LoadInv
  <2>2. CASE q # o
    BY <1>7, <1>15, <2>1, <2>2 DEF Offered
  <2>3. CASE q = o
    <3>1. saved'[path'][q] = records /\ got[q] = mine
      BY <1>7, <2>3 DEF records, mine
    <3>2. Len(got'[q]) <= Len(records)
      BY <1>10, <1>16, <2>3
    <3>3. ASSUME NEW i \in 1 .. Len(got'[q])
          PROVE  /\ got'[q][i].length = Len(records[i])
                 /\ Len(got'[q][i].data) <= Len(records[i])
                 /\ \A j \in 1 .. Len(got'[q][i].data) : got'[q][i].data[j] = records[i][j]
      <4>1. i \in 1 .. k \/ i = k + 1
        BY <1>9, <1>16, <2>3
      <4>2. CASE i \in 1 .. k
        <5>1. got'[q][i] = mine[i]
          BY <1>16, <2>3, <4>2
        <5>2. /\ mine[i].length = Len(records[i])
              /\ Len(mine[i].data) <= Len(records[i])
              /\ \A j \in 1 .. Len(mine[i].data) : mine[i].data[j] = records[i][j]
          BY <1>7, <2>1, <2>3, <3>1, <4>2 DEF Offered, k, mine, records
        <5> QED
          BY <5>1, <5>2
      <4>3. CASE i = k + 1
        BY <1>12, <1>14, <1>16, <2>3, <4>3
      <4> QED
        BY <4>1, <4>2, <4>3
    <3> QED
      BY <3>1, <3>2, <3>3 DEF Offered
  <2> QED
    BY <2>2, <2>3
<1>22. \A q \in ended' : Len(got'[q]) = Len(saved[path][q])
  <2> SUFFICES ASSUME NEW q \in ended PROVE Len(got'[q]) = Len(saved[path][q])
    BY <1>6
  <2>1. q \in Owners /\ Len(got[q]) = Len(saved[path][q])
    BY <1>2, <1>3, <1>4 DEF LoadInv
  <2>2. q # o
    <3> SUFFICES ASSUME q = o PROVE FALSE
      OBVIOUS
    <3>1. k = Len(records)
      BY <2>1 DEF k, mine, records
    <3> QED
      BY <1>9, <1>10, <3>1
  <2> QED
    BY <1>15, <2>1, <2>2
<1> QED
  <2>1. /\ sectionAt' \in Nat /\ index' \in Nat
        /\ chunkOpen' \in BOOLEAN /\ hadData' \subseteq DOMAIN callbacks
        /\ mode' \in {"load", "loading", "rest", "resting"} /\ called' \in [Owners -> Nat]
        /\ ended' \subseteq Owners /\ UNCHANGED keptByLoad
    BY <1>1, <1>3, <1>6
  <2>2. chunk' \in Nat /\ offset' \in Nat
    BY <1>6, <1>12, <1>13
  <2> QED
    BY <1>2, <1>4, <1>15, <1>17, <1>19, <1>20, <1>21, <1>22, <2>1, <2>2, LoadStep

\* A portion that is read is the next one of the record.
LEMMA ReadRecordDataOK ==
    ASSUME IInv, ReadRecordData
    PROVE  IInv'
<1> DEFINE o == section.owner
           mine == got[o]
           k == Len(mine)
           records == saved[path][o]
           data == mine[k].data
<1>1. mode = "loading" /\ chunkOpen /\ chunk > 0
  <2>1. mode = "resting" => chunkOpen = FALSE
    BY NothingForRest
  <2> QED
    BY <2>1 DEF ReadRecordData, InLoadCallback
<1>2. InLoad
  BY <1>1 DEF InLoad
<1>3. /\ TypeOK /\ HandlesOK /\ LoadInv /\ LoadingInv
      /\ offset \in Nat /\ sectionAt \in Nat /\ chunk \in Nat /\ index \in Nat
      /\ section \in [owner : Owners \cup {NoOwner}, numChunks : Nat, length : Nat]
      /\ got \in [Owners -> Seq(Records)] /\ ended \subseteq Owners
      /\ called \in [Owners -> Nat] /\ hadData \subseteq DOMAIN callbacks
      /\ chunkOpen \in BOOLEAN /\ path \in Paths /\ File \in Seq(Cells)
  BY <1>2, LoadedFile
<1>4. /\ sectionAt - 1 \in Sections(File)
      /\ o = File[(sectionAt - 1) + 1].owner
      /\ o = OwnerOf(index) /\ o \in Owners /\ index \in DOMAIN callbacks
      /\ File # <<>> /\ records \in Seq(Seq(Cells))
      /\ \A y \in Sections(File) : File[y + 1].owner = o => y = sectionAt - 1
  BY <1>1, ReadSection
<1>5. Reader = o
  BY <1>4 DEF Reader
<1>6. /\ mode' = mode /\ offset' = offset + 1 /\ chunk' = chunk - 1
      /\ got' = [got EXCEPT ![o][k].data = Append(@, CellAt(offset))]
      /\ UNCHANGED <<section, sectionAt, chunkOpen, index, hadData, ended, called>>
      /\ UNCHANGED keptByLoad
  BY <1>5 DEF ReadRecordData, sectionVars
<1>7. UNCHANGED <<plugins, callbacks, files, path, callback, saved>>
  BY <1>6 DEF keptByLoad, sessionVars
<1>8. File' = File
  BY <1>7 DEF File
<1>9. /\ k \in Nat /\ mine \in Seq(Records) /\ Len(records) \in Nat
      /\ section.numChunks = Len(records) - k
      /\ k # 0 /\ chunk <= Len(records[k])
      /\ Len(data) = Len(records[k]) - chunk
  <2>1. ReadSoFar
    BY <1>1, <1>3 DEF LoadingInv
  <2>2. k \in Nat /\ mine \in Seq(Records) /\ Len(records) \in Nat
    BY <1>3, <1>4
  <2>3. k # 0
    BY <1>1, <2>1 DEF ReadSoFar
  <2> QED
    BY <1>1, <2>1, <2>2, <2>3 DEF ReadSoFar
<1>10. PICK at \in [1 .. Len(records) -> sectionAt .. sectionAt + section.length - 1] :
          /\ Places(File, sectionAt, sectionAt + section.length, records, at, Len(records))
          /\ offset + chunk = at[k] + 1 + Len(records[k])
  <2>1. ReadSoFar
    BY <1>1, <1>3 DEF LoadingInv
  <2> QED
    BY <1>1, <2>1 DEF ReadSoFar
<1>11. /\ k \in 1 .. Len(records) /\ k \in 1 .. Len(mine)
       /\ mine[k] \in Records /\ data \in Seq(Cells)
  <2>1. k <= Len(records)
    <3>1. Len(mine) <= Len(records)
      BY <1>2, <1>3, <1>4 DEF LoadInv, Offered
    <3> QED
      BY <3>1
  <2>2. k \in 1 .. Len(records) /\ k \in 1 .. Len(mine)
    BY <1>9, <2>1
  <2>3. mine[k] \in Records
    BY <1>9, <2>2
  <2> QED
    BY <2>2, <2>3 DEF Records
<1> HIDE DEF o, mine, k, records, data
<1>12. PICK size \in Nat : size = Len(records[k])
  <2>1. records[k] \in Seq(Cells)
    BY <1>4, <1>11
  <2> QED
    BY <2>1
<1>13. PICK done \in Nat : done = Len(data)
  BY <1>11
<1>14. done = size - chunk /\ chunk <= size /\ done + 1 \in 1 .. size
  <2>1. done = size - chunk /\ chunk <= size
    BY <1>9, <1>12, <1>13
  <2> QED
    BY <1>1, <1>3, <2>1
<1>15. CellAt(offset) = records[k][done + 1] /\ records[k][done + 1] \in Cells
  <2>1. at[k] \in Nat
    BY <1>1, <1>10, <1>11, ReadPlace DEF records, o
  <2>2. \A j \in 1 .. Len(records[k]) : CellAt(at[k] + j) = records[k][j]
    BY <1>1, <1>10, <1>11, ReadPlace DEF records, o
  <2>3. offset + chunk = at[k] + 1 + size
    BY <1>10, <1>12
  <2>4. offset = at[k] + (done + 1)
    <3>1. offset \in Nat /\ chunk \in Nat /\ size \in Nat /\ done \in Nat
      BY <1>3, <1>12, <1>13
    <3>2. done = size - chunk
      BY <1>14
    <3>3. PICK here \in Nat : here = at[k]
      BY <2>1
    <3>4. offset + chunk = here + 1 + size
      BY <2>3, <3>3
    <3>5. offset = here + (done + 1)
      BY <3>1, <3>2, <3>3, <3>4
    <3> QED
      BY <3>3, <3>5
  <2>5. records[k] \in Seq(Cells) /\ done + 1 \in 1 .. Len(records[k])
    BY <1>4, <1>11, <1>12, <1>14
  <2> QED
    BY <2>2, <2>4, <2>5
<1> DEFINE cell == records[k][done + 1]
           more == Append(data, cell)
           new == [mine[k] EXCEPT !.data = more]
<1>16. /\ more \in Seq(Cells) /\ Len(more) = done + 1 /\ more[done + 1] = cell
       /\ \A j \in 1 .. done : more[j] = data[j]
  <2> HIDE DEF cell
  <2>1. cell \in Cells
    BY <1>15 DEF cell
  <2> QED
    BY <1>11, <1>13, <2>1
<1>17. new \in Records /\ new.data = more /\ new.length = mine[k].length
  <2> HIDE DEF more
  <2> QED
    BY <1>11, <1>16 DEF Records
<1>18. /\ got' \in [Owners -> Seq(Records)]
       /\ Len(got'[o]) = k /\ got'[o][k] = new
       /\ \A i \in 1 .. k - 1 : got'[o][i] = mine[i]
       /\ \A q \in Owners \ {o} : got'[q] = got[q]
  <2> DEFINE mine2 == [mine EXCEPT ![k] = new]
  <2>1. got' = [got EXCEPT ![o] = mine2]
    BY <1>6, <1>15 DEF mine, data
  <2> HIDE DEF new, more, cell
  <2>2. /\ mine2 \in Seq(Records) /\ Len(mine2) = Len(mine) /\ mine2[k] = new
        /\ \A i \in 1 .. Len(mine) : i # k => mine2[i] = mine[i]
    BY <1>9, <1>11, <1>17
  <2>3. Len(mine) = k
    BY DEF k
  <2> HIDE DEF mine2
  <2>4. /\ got' \in [Owners -> Seq(Records)] /\ got'[o] = mine2
        /\ \A q \in Owners \ {o} : got'[q] = got[q]
    BY <1>3, <1>4, <2>1, <2>2
  <2> QED
    BY <1>9, <2>2, <2>3, <2>4
<1> HIDE DEF new, more, cell
<1>19. ReadSoFar'
  <2>1. saved'[path'][section'.owner] = records /\ section'.owner = o /\ section' = section
    BY <1>6, <1>7 DEF records, o
  <2>2. section'.numChunks = Len(records) - Len(got'[o])
    BY <1>6, <1>9, <1>18
  <2>3. ~(Len(got'[o]) = 0) /\ chunkOpen' = TRUE /\ chunkOpen' # FALSE
    BY <1>1, <1>3, <1>6, <1>9, <1>18
  <2>4. chunk' <= Len(records[k])
    BY <1>3, <1>6, <1>12, <1>14
  <2>5. Len(got'[o][k].data) = Len(records[k]) - chunk'
    <3>1. Len(got'[o][k].data) = done + 1
      BY <1>16, <1>17, <1>18
    <3>2. done + 1 = size - chunk'
      <4>1. chunk' = chunk - 1 /\ chunk \in Nat /\ size \in Nat /\ done \in Nat
        BY <1>3, <1>6, <1>12, <1>13
      <4>2. done = size - chunk
        BY <1>14
      <4> QED
        BY <4>1, <4>2
    <3> QED
      BY <1>12, <3>1, <3>2
  <2>6. /\ at \in [1 .. Len(records) -> sectionAt' .. sectionAt' + section'.length - 1]
        /\ Places(File', sectionAt', sectionAt' + section'.length, records, at, Len(records))
        /\ offset' + chunk' = at[k] + 1 + Len(records[k])
    <3>1. offset' + chunk' = offset + chunk
      BY <1>1, <1>3, <1>6
    <3>2. sectionAt' = sectionAt /\ section' = section
      BY <1>6
    <3> QED
      BY <1>8, <1>10, <3>1, <3>2
  <2>7. Len(got'[o]) = k
    BY <1>18
  <2> QED
    BY <2>1, <2>2, <2>3, <2>4, <2>5, <2>6, <2>7 DEF ReadSoFar
<1>20. LoadingInv'
  <2>1. /\ sectionAt - 1 \in Sections(File)
        /\ section.owner = File[sectionAt].owner /\ section.length = File[sectionAt].length
        /\ index \in Handles(section.owner) /\ index \in DOMAIN callbacks
        /\ hadData = HadData(File, sectionAt + section.length)
        /\ \A x \in Sections(File) : x >= sectionAt => got[File[x + 1].owner] = <<>>
        /\ \A h \in DOMAIN callbacks :
              called[OwnerOf(h)] = IF h \in hadData /\ Has(h, callback) THEN 1 ELSE 0
    BY <1>1, <1>3 DEF LoadingInv
  <2>2. hadData' = HadData(File, sectionAt + section.length)'
    BY <1>6, <1>7, <1>8, <2>1 DEF HadData, Handles
  <2>3. index' \in Handles(section.owner)' /\ index' \in DOMAIN callbacks'
    BY <1>6, <1>7, <2>1 DEF Handles
  <2>4. \A h \in DOMAIN callbacks' :
              called'[OwnerOf(h)'] = IF h \in hadData' /\ Has(h, callback)' THEN 1 ELSE 0
    BY <1>6, <1>7, <2>1 DEF OwnerOf, Has
  <2>5. \A x \in Sections(File') : x >= sectionAt' => got'[File'[x + 1].owner] = <<>>
    <3> SUFFICES ASSUME NEW x \in Sections(File), x >= sectionAt
                 PROVE got'[File[x + 1].owner] = <<>>
      BY <1>6, <1>8
    <3>1. got[File[x + 1].owner] = <<>>
      BY <2>1
    <3>2. x \in Nat
      BY <1>3, SectionTypes
    <3>3. x # sectionAt - 1
      BY <1>3, <3>2
    <3>4. File[x + 1].owner # o
      BY <1>4, <3>3
    <3>5. File[x + 1].owner \in Owners
      BY <1>2, LoadedSection
    <3> QED
      BY <1>18, <3>1, <3>4, <3>5
  <2>6. /\ sectionAt' - 1 \in Sections(File')
        /\ section'.owner = File'[sectionAt'].owner /\ section'.length = File'[sectionAt'].length
    BY <1>6, <1>8, <2>1
  <2> QED
    BY <1>19, <2>2, <2>3, <2>4, <2>5, <2>6 DEF LoadingInv
<1>21. LoadLoopInv' /\ RestInv'
  BY <1>1, <1>6 DEF LoadLoopInv, RestInv
<1>22. \A q \in Owners : Offered(q)'
  <2> SUFFICES ASSUME NEW q \in Owners PROVE Offered(q)'
    OBVIOUS
  <2>1. Offered(q)
    BY <1>2, <1>3, <1>4 DEF LoadInv
  <2>2. CASE q # o
    <3>1. got'[q] = got[q] /\ saved'[path'][q] = saved[path][q]
      BY <1>7, <1>18, <2>2
    <3> QED
      BY <2>1, <3>1 DEF Offered
  <2>3. CASE q = o
    <3>1. saved'[path'][q] = records /\ got[q] = mine
      BY <1>7, <2>3 DEF records, mine
    <3>2. Len(got'[q]) <= Len(records)
      BY <1>9, <1>11, <1>18, <2>3
    <3>3. ASSUME NEW i \in 1 .. Len(got'[q])
          PROVE  /\ got'[q][i].length = Len(records[i])
                 /\ Len(got'[q][i].data) <= Len(records[i])
                 /\ \A j \in 1 .. Len(got'[q][i].data) : got'[q][i].data[j] = records[i][j]
      <4>1. i \in 1 .. k - 1 \/ i = k
        BY <1>9, <1>18, <2>3
      <4>2. i \in 1 .. Len(mine)
        BY <1>18, <2>3 DEF k
      <4>3. /\ mine[i].length = Len(records[i])
            /\ Len(mine[i].data) <= Len(records[i])
            /\ \A j \in 1 .. Len(mine[i].data) : mine[i].data[j] = records[i][j]
        BY <1>7, <2>1, <2>3, <3>1, <4>2 DEF Offered, mine, records
      <4>4. CASE i \in 1 .. k - 1
        BY <1>18, <2>3, <4>3, <4>4
      <4>5. CASE i = k
        <5>1. got'[q][i].length = Len(records[i])
          BY <1>17, <1>18, <2>3, <4>3, <4>5
        <5>2. got'[q][i].data = more /\ Len(more) = done + 1
          BY <1>16, <1>17, <1>18, <2>3, <4>5
        <5>3. done + 1 <= Len(records[i])
          BY <1>12, <1>14, <4>5
        <5>4. ASSUME NEW j \in 1 .. done + 1 PROVE more[j] = records[i][j]
          <6>1. CASE j = done + 1
            BY <1>16, <4>5, <6>1 DEF cell
          <6>2. CASE j \in 1 .. done
            BY <1>13, <1>16, <4>3, <4>5, <6>2 DEF data
          <6> QED
            BY <1>13, <6>1, <6>2
        <5> QED
          BY <5>1, <5>2, <5>3, <5>4
      <4> QED
        BY <4>1, <4>4, <4>5
    <3> QED
      BY <3>1, <3>2, <3>3 DEF Offered
  <2> QED
    BY <2>2, <2>3
<1>23. \A q \in ended' : Len(got'[q]) = Len(saved[path][q])
  <2> SUFFICES ASSUME NEW q \in ended PROVE Len(got'[q]) = Len(saved[path][q])
    BY <1>6
  <2>1. q \in Owners /\ Len(got[q]) = Len(saved[path][q])
    BY <1>2, <1>3, <1>4 DEF LoadInv
  <2>2. Len(got'[q]) = Len(got[q])
    BY <1>18, <2>1 DEF k, mine
  <2> QED
    BY <2>1, <2>2
<1> QED
  <2>1. /\ sectionAt' \in Nat /\ index' \in Nat /\ chunkOpen' \in BOOLEAN
        /\ section' \in [owner : Owners \cup {NoOwner}, numChunks : Nat, length : Nat]
        /\ mode' \in {"load", "loading", "rest", "resting"} /\ called' \in [Owners -> Nat]
        /\ hadData' \subseteq DOMAIN callbacks /\ ended' \subseteq Owners /\ UNCHANGED keptByLoad
    BY <1>1, <1>3, <1>6
  <2>2. chunk' \in Nat /\ offset' \in Nat
    BY <1>1, <1>3, <1>6
  <2> QED
    BY <1>2, <1>4, <1>18, <1>20, <1>21, <1>22, <1>23, <2>1, <2>2, LoadStep

\* No section is left: now the plugins that had none.
LEMMA EndSectionsOK ==
    ASSUME IInv, EndSections
    PROVE  IInv'
<1>1. /\ mode = "load" /\ mode' = "rest" /\ index' = 0 /\ ~(offset < Len(File))
      /\ UNCHANGED <<offset, section, sectionAt, chunkOpen, chunk, hadData, got, ended, called>>
      /\ UNCHANGED keptByLoad
  BY DEF EndSections, SectionAhead, File, sectionVars, readVars
<1>2. InLoad
  BY <1>1 DEF InLoad
<1>3. /\ TypeOK /\ HandlesOK /\ LoadLoopInv /\ File \in Seq(Cells)
      /\ offset \in Nat /\ sectionAt \in Nat /\ chunk \in Nat
      /\ section \in [owner : Owners \cup {NoOwner}, numChunks : Nat, length : Nat]
      /\ called \in [Owners -> Nat] /\ hadData \subseteq DOMAIN callbacks
      /\ chunkOpen \in BOOLEAN
  BY <1>2, LoadedFile
<1>4. UNCHANGED <<plugins, callbacks, files, path, callback>>
  BY <1>1 DEF keptByLoad, sessionVars
<1>5. File' = File
  BY <1>4 DEF File
<1>6. /\ offset = Len(File) \/ offset \in Sections(File)
      /\ hadData = HadData(File, offset)
      /\ \A h \in DOMAIN callbacks :
            called[OwnerOf(h)] = IF h \in hadData /\ Has(h, callback) THEN 1 ELSE 0
  BY <1>1, <1>3 DEF LoadLoopInv
<1>7. offset = Len(File)
  BY <1>1, <1>3, <1>6, SectionTypes
<1>8. RestInv'
  <2>1. hadData' = HadData(File, Len(File))'
    BY <1>1, <1>4, <1>5, <1>6, <1>7 DEF HadData, Handles
  <2>2. \A h \in DOMAIN callbacks : ~(h < index')
    BY <1>1, <1>3, OwnersOfHandles
  <2>3. \A h \in DOMAIN callbacks' :
              called'[OwnerOf(h)'] =
                 IF /\ Has(h, callback)'
                    /\ h \in hadData' \/ h < index' \/ (mode' = "resting" /\ h = index')
                 THEN 1 ELSE 0
    BY <1>1, <1>4, <1>6, <2>2 DEF OwnerOf, Has
  <2> QED
    BY <1>1, <2>1, <2>3 DEF RestInv
<1>9. LoadLoopInv' /\ LoadingInv'
  BY <1>1 DEF LoadLoopInv, LoadingInv
<1> QED
  <2>1. /\ offset' \in Nat /\ sectionAt' \in Nat /\ chunk' \in Nat /\ index' \in Nat
        /\ chunkOpen' \in BOOLEAN /\ hadData' \subseteq DOMAIN callbacks
        /\ mode' \in {"load", "loading", "rest", "resting"} /\ called' \in [Owners -> Nat]
        /\ section' \in [owner : Owners \cup {NoOwner}, numChunks : Nat, length : Nat]
        /\ UNCHANGED <<got, ended>> /\ UNCHANGED keptByLoad
    BY <1>1, <1>3
  <2> QED
    BY <1>2, <1>8, <1>9, <2>1, LoadOn

\* The next plugin without data: those the loop passed over had data or no callback.
LEMMA CallRestOK ==
    ASSUME IInv, CallRest
    PROVE  IInv'
<1>1. /\ mode = "rest" /\ mode' = "resting" /\ chunkOpen' = FALSE
      /\ section' = [section EXCEPT !.numChunks = 0]
      /\ UNCHANGED <<offset, sectionAt, chunk, hadData, got, ended>> /\ UNCHANGED keptByLoad
  BY DEF CallRest
<1>2. PICK h \in {i \in DOMAIN callbacks : i >= index /\ LeftOut(i)} :
         /\ \A i \in index .. h - 1 : ~LeftOut(i)
         /\ index' = h /\ called' = [called EXCEPT ![OwnerOf(h)] = @ + 1]
  BY DEF CallRest
<1>3. InLoad
  BY <1>1 DEF InLoad
<1>4. /\ TypeOK /\ HandlesOK /\ RestInv /\ offset \in Nat /\ sectionAt \in Nat /\ chunk \in Nat
      /\ index \in Nat
      /\ section \in [owner : Owners \cup {NoOwner}, numChunks : Nat, length : Nat]
      /\ called \in [Owners -> Nat] /\ hadData \subseteq DOMAIN callbacks
  BY <1>3, LoadedFile
<1>5. UNCHANGED <<plugins, callbacks, files, path, callback>>
  BY <1>1 DEF keptByLoad, sessionVars
<1>6. File' = File
  BY <1>5 DEF File
<1>7. /\ h \in DOMAIN callbacks /\ h \in Nat /\ index <= h
      /\ h \notin hadData /\ Has(h, callback)
      /\ DOMAIN callbacks \subseteq Nat
      /\ \A i \in DOMAIN callbacks : OwnerOf(i) \in Owners
      /\ \A i \in DOMAIN callbacks : OwnerOf(i) = OwnerOf(h) => i = h
  BY <1>2, <1>4, OwnersOfHandles DEF LeftOut
<1>8. /\ hadData = HadData(File, Len(File))
      /\ \A i \in DOMAIN callbacks :
            called[OwnerOf(i)] = IF Has(i, callback) /\ (i \in hadData \/ i < index)
                                 THEN 1 ELSE 0
  BY <1>1, <1>4 DEF RestInv
<1>9. \A i \in DOMAIN callbacks :
         called'[OwnerOf(i)] = IF Has(i, callback) /\ (i \in hadData \/ i < h \/ i = h)
                               THEN 1 ELSE 0
  <2> SUFFICES ASSUME NEW i \in DOMAIN callbacks
               PROVE called'[OwnerOf(i)] =
                        IF Has(i, callback) /\ (i \in hadData \/ i < h \/ i = h) THEN 1 ELSE 0
    OBVIOUS
  <2>1. CASE i = h
    <3>1. called[OwnerOf(h)] = 0
      <4>1. ~(h < index)
        BY <1>4, <1>7
      <4> QED
        BY <1>7, <1>8, <4>1
    <3>2. called'[OwnerOf(h)] = 1
      BY <1>2, <1>4, <1>7, <3>1
    <3> QED
      BY <1>7, <2>1, <3>2
  <2>2. CASE i # h
    <3>1. OwnerOf(i) # OwnerOf(h) /\ i \in Nat
      BY <1>7, <2>2
    <3>2. called'[OwnerOf(i)] = called[OwnerOf(i)]
      BY <1>2, <1>4, <1>7, <3>1
    <3>3. CASE i < index
      <4>1. i < h
        BY <1>4, <1>7, <3>1, <3>3
      <4> QED
        BY <1>8, <3>2, <3>3, <4>1
    <3>4. CASE ~(i < index) /\ i < h
      <4>1. i \in index .. h - 1
        BY <1>4, <1>7, <3>1, <3>4
      <4>2. i \in hadData \/ ~Has(i, callback)
        BY <1>2, <4>1 DEF LeftOut
      <4> QED
        BY <1>8, <3>2, <3>4, <4>2
    <3>5. CASE ~(i < index) /\ ~(i < h)
      BY <1>8, <2>2, <3>2, <3>5
    <3> QED
      BY <3>3, <3>4, <3>5
  <2> QED
    BY <2>1, <2>2
<1>10. section'.numChunks = 0
       /\ section' \in [owner : Owners \cup {NoOwner}, numChunks : Nat, length : Nat]
  BY <1>1, <1>4
<1>11. RestInv'
  <2>1. hadData' = HadData(File, Len(File))'
    BY <1>1, <1>5, <1>6, <1>8 DEF HadData, Handles
  <2>2. \A i \in DOMAIN callbacks' :
              called'[OwnerOf(i)'] =
                 IF /\ Has(i, callback)'
                    /\ i \in hadData' \/ i < index' \/ (mode' = "resting" /\ i = index')
                 THEN 1 ELSE 0
    BY <1>1, <1>2, <1>5, <1>9 DEF OwnerOf, Has
  <2>3. index' \in DOMAIN callbacks' /\ index' \notin hadData'
    BY <1>1, <1>2, <1>5, <1>7
  <2> QED
    BY <1>1, <1>10, <2>1, <2>2, <2>3 DEF RestInv
<1>12. LoadLoopInv' /\ LoadingInv'
  BY <1>1 DEF LoadLoopInv, LoadingInv
<1> QED
  <2>1. /\ offset' \in Nat /\ sectionAt' \in Nat /\ chunk' \in Nat /\ index' \in Nat
        /\ chunkOpen' \in BOOLEAN /\ hadData' \subseteq DOMAIN callbacks
        /\ mode' \in {"load", "loading", "rest", "resting"}
        /\ UNCHANGED <<got, ended>> /\ UNCHANGED keptByLoad
    BY <1>1, <1>2, <1>4, <1>7
  <2>2. called' \in [Owners -> Nat]
    BY <1>2, <1>4, <1>7
  <2> QED
    BY <1>3, <1>10, <1>11, <1>12, <2>1, <2>2, LoadOn

LEMMA RestReturnsOK ==
    ASSUME IInv, RestReturns
    PROVE  IInv'
<1>1. /\ mode = "resting" /\ mode' = "rest" /\ index' = index + 1
      /\ UNCHANGED <<offset, section, sectionAt, chunkOpen, chunk, hadData, got, ended, called>>
      /\ UNCHANGED keptByLoad
  BY DEF RestReturns, sectionVars, readVars
<1>2. InLoad
  BY <1>1 DEF InLoad
<1>3. /\ TypeOK /\ HandlesOK /\ RestInv /\ offset \in Nat /\ sectionAt \in Nat /\ chunk \in Nat
      /\ index \in Nat /\ chunkOpen \in BOOLEAN
      /\ section \in [owner : Owners \cup {NoOwner}, numChunks : Nat, length : Nat]
      /\ called \in [Owners -> Nat] /\ hadData \subseteq DOMAIN callbacks
  BY <1>2, LoadedFile
<1>4. UNCHANGED <<plugins, callbacks, files, path, callback>>
  BY <1>1 DEF keptByLoad, sessionVars
<1>5. File' = File
  BY <1>4 DEF File
<1>6. /\ hadData = HadData(File, Len(File))
      /\ \A i \in DOMAIN callbacks :
            called[OwnerOf(i)] = IF Has(i, callback) /\ (i \in hadData \/ i < index \/ i = index)
                                 THEN 1 ELSE 0
  BY <1>1, <1>3 DEF RestInv
<1>7. RestInv'
  <2>1. hadData' = HadData(File, Len(File))'
    BY <1>1, <1>4, <1>5, <1>6 DEF HadData, Handles
  <2>2. \A i \in DOMAIN callbacks : i < index' <=> i < index \/ i = index
    <3>1. DOMAIN callbacks \subseteq Nat
      BY <1>3, OwnersOfHandles
    <3> QED
      BY <1>1, <1>3, <3>1
  <2>3. \A i \in DOMAIN callbacks' :
              called'[OwnerOf(i)'] =
                 IF /\ Has(i, callback)'
                    /\ i \in hadData' \/ i < index' \/ (mode' = "resting" /\ i = index')
                 THEN 1 ELSE 0
    BY <1>1, <1>4, <1>6, <2>2 DEF OwnerOf, Has
  <2> QED
    BY <1>1, <2>1, <2>3 DEF RestInv
<1>8. LoadLoopInv' /\ LoadingInv'
  BY <1>1 DEF LoadLoopInv, LoadingInv
<1> QED
  <2>1. /\ offset' \in Nat /\ sectionAt' \in Nat /\ chunk' \in Nat
        /\ chunkOpen' \in BOOLEAN /\ hadData' \subseteq DOMAIN callbacks
        /\ mode' \in {"load", "loading", "rest", "resting"} /\ called' \in [Owners -> Nat]
        /\ section' \in [owner : Owners \cup {NoOwner}, numChunks : Nat, length : Nat]
        /\ UNCHANGED <<got, ended>> /\ UNCHANGED keptByLoad
    BY <1>1, <1>3
  <2>2. index' \in Nat
    BY <1>1, <1>3
  <2> QED
    BY <1>2, <1>7, <1>8, <2>1, <2>2, LoadOn

LEMMA LoadOK ==
    ASSUME IInv, Load
    PROVE  IInv'
<1>1. ASSUME MissCallbacks \/ EndLoad \/ LoadThrows PROVE IInv'
  <2>1. /\ CloseFile /\ mode' \in {"off", "idle"} /\ UNCHANGED <<sessions, files, saved>>
        /\ \/ UNCHANGED <<plugins, callbacks>>
           \/ plugins' = <<>> /\ callbacks' = [h \in {} |-> {}]
    BY <1>1 DEF MissCallbacks, EndLoad, LoadThrows, sessionVars
  <2> QED
    BY <2>1, OverOK
<1> QED
  BY <1>1, HandleLoadGameOK, CallLoadOK, SkipSectionOK, GetNextRecordInfoOK, NoNextRecordOK,
     ReadRecordDataOK, LoadReturnsOK, EndSectionsOK, CallRestOK, RestReturnsOK DEF Load

-----------------------------------------------------------------------------
(* Theorems. *)

LEMMA StutterOK ==
    ASSUME IInv, UNCHANGED vars
    PROVE  IInv'
<1>1. UNCHANGED <<sessions, plugins, callbacks, mode, files, path, offset, section, sectionAt,
                  chunkOpen, chunk, chunkAt, callback, index, hadData, newGame, written, saved,
                  got, ended, called>>
  BY DEF vars, sessionVars, streamVars, sectionVars, chunkVars, loopVars, historyVars, readVars
<1>2. TypeOK' /\ HandlesOK' /\ FilesHold' /\ AtRestInv'
  BY <1>1 DEF IInv, TypeOK, HandlesOK, FilesHold, AtRestInv, InSave, InLoad, NothingRead,
              NothingHeld
<1>3. File' = File /\ (InSave' <=> InSave) /\ (InLoad' <=> InLoad)
  BY <1>1 DEF File, InSave, InLoad
<1>4. SaveInv'
  BY <1>1, <1>3 DEF IInv, SaveInv, NothingRead, OwnerOf
<1>5. SaveLoopInv'
  BY <1>1, <1>3 DEF IInv, SaveLoopInv, BetweenSections
<1>6. SavingInv'
  BY <1>1, <1>3 DEF IInv, SavingInv, BetweenSections, Saves, Has, OwnerOf, Earlier
<1>7. LoadInv'
  BY <1>1, <1>3 DEF IInv, LoadInv, Offered
<1>8. LoadLoopInv'
  BY <1>1, <1>3 DEF IInv, LoadLoopInv, HadData, Handles, Has, OwnerOf
<1>9. LoadingInv'
  <2>1. ReadSoFar' <=> ReadSoFar
    BY <1>1, <1>3 DEF ReadSoFar
  <2> QED
    BY <1>1, <1>3, <2>1 DEF IInv, LoadingInv, HadData, Handles, Has, OwnerOf
<1>10. RestInv'
  BY <1>1, <1>3 DEF IInv, RestInv, HadData, Handles, Has, OwnerOf
<1> QED
  BY <1>2, <1>4, <1>5, <1>6, <1>7, <1>8, <1>9, <1>10 DEF IInv

\* The inductive invariant holds throughout.
THEOREM Invariance == Spec => []IInv
<1>1. Init => IInv
  BY InitOK
<1>2. IInv /\ [Next]_vars => IInv'
  BY SessionOK, SaveOK, LoadOK, FilesOK, StutterOK DEF Next
<1> QED
  BY <1>1, <1>2, PTL DEF Spec

\* Variables have the types TypeOK says.
THEOREM TypeCorrect == Spec => []TypeOK
<1>1. IInv => TypeOK
  BY DEF IInv
<1> QED
  BY <1>1, Invariance, PTL

\* However a save or the process ended, a file that has the header of a co-save
\* was completed: HandleSaveGame writes it last.
THEOREM WholeIfHeader == Spec => []HeaderMeansWhole
<1>1. IInv => HeaderMeansWhole
  <2> SUFFICES ASSUME IInv, NEW p \in Paths, files[p] # NoFile, files[p] # <<>>,
                      files[p][1].kind = "header"
               PROVE  saved[p] # NoFile
    BY DEF HeaderMeansWhole
  <2>1. files[p] \in Seq(Cells) /\ FileHolds(files[p], saved[p])
    BY DEF IInv, TypeOK, FilesHold
  <2>2. saved[p] \in Writings
    BY <2>1 DEF FileHolds, HasHeader
  <2> QED
    BY <2>2, NoFileAssumption
<1> QED
  BY <1>1, Invariance, PTL

\* Whatever other plugins saved or left unread, whichever are loaded and in
\* whichever order, what HandleLoadGame gives a plugin is what it wrote in the save
\* that made the file.
THEOREM ReadsWhatWasSaved == Spec => []RecordsAreTheSaved
<1>1. IInv => RecordsAreTheSaved
  <2> SUFFICES ASSUME IInv, NEW o \in Owners, got[o] # <<>>
               PROVE  /\ saved[path] # NoFile
                      /\ Len(got[o]) <= Len(saved[path][o])
                      /\ \A k \in 1 .. Len(got[o]) :
                            /\ got[o][k].length = Len(saved[path][o][k])
                            /\ IsPrefix(got[o][k].data, saved[path][o][k])
    BY DEF RecordsAreTheSaved
  <2>1. got # NothingOfAny
    BY DEF NothingOfAny
  <2>2. InLoad
    BY <2>1 DEF IInv, AtRestInv, SaveInv, NothingRead
  <2>3. LoadInv /\ got \in [Owners -> Seq(Records)]
    BY <2>2, LoadedFile
  <2>4. File # <<>> /\ Offered(o)
    BY <2>1, <2>2, <2>3 DEF LoadInv
  <2>5. saved[path] \in Writings
    BY <2>2, <2>4, LoadedFile
  <2>6. ASSUME NEW k \in 1 .. Len(got[o])
        PROVE  IsPrefix(got[o][k].data, saved[path][o][k])
    <3> DEFINE s == got[o][k].data
               t == saved[path][o][k]
    <3>1. s \in Seq(Cells)
      <4>1. got[o][k] \in Records
        BY <2>3
      <4> QED
        BY <4>1 DEF Records
    <3>2. t \in Seq(Cells)
      <4>1. saved[path][o] \in Seq(Seq(Cells))
        BY <2>5 DEF Writings
      <4>2. Len(got[o]) \in Nat /\ Len(got[o]) <= Len(saved[path][o])
        BY <2>3, <2>4 DEF Offered
      <4>3. k \in 1 .. Len(saved[path][o])
        BY <4>1, <4>2
      <4> QED
        BY <4>1, <4>3
    <3>3. Len(s) <= Len(t) /\ \A j \in 1 .. Len(s) : s[j] = t[j]
      BY <2>4 DEF Offered
    <3> HIDE DEF s, t
    <3>4. SubSeq(s, 1, Len(s)) = SubSeq(t, 1, Len(s))
      BY <3>1, <3>2, <3>3
    <3>5. IsPrefix(s, t)
      BY <3>3, <3>4 DEF IsPrefix
    <3> QED
      BY <3>5 DEF s, t
  <2> QED
    BY <2>4, <2>5, <2>6, NoFileAssumption DEF Offered
<1> QED
  BY <1>1, Invariance, PTL

\* GetNextRecordInfo says that there are no more records only to a plugin that was
\* offered every record it saved.
THEOREM AllOffered == Spec => []AllRecordsOffered
<1>1. IInv => AllRecordsOffered
  <2> SUFFICES ASSUME IInv, NEW o \in ended, path # NoFile, saved[path] # NoFile
               PROVE  Len(got[o]) = Len(saved[path][o])
    BY DEF AllRecordsOffered
  <2>1. InLoad
    BY DEF IInv, AtRestInv, SaveInv, NothingRead
  <2>2. LoadInv /\ FilesHold /\ path \in Paths
    BY <2>1, LoadedFile
  <2>3. File # <<>>
    BY <2>2 DEF FilesHold, FileHolds, HasHeader, File
  <2> QED
    BY <2>1, <2>2, <2>3 DEF LoadInv
<1> QED
  BY <1>1, Invariance, PTL

\* The two loops of HandleLoadGame call every plugin once: in the first those with
\* a section, in the second those without.
THEOREM CalledOnce == Spec => EachIsCalledOnce
<1>1. ASSUME IInv, [Next]_vars, Loading, mode' = "idle"
      PROVE  \/ AllCalledOnce
             \/ callback = "load" /\ newGame'
             \/ callback = "preLoad" /\ InLoadCallback
  <2>1. EndLoad \/ LoadThrows
    <3>1. mode \in {"load", "loading", "rest", "resting"}
      BY <1>1 DEF Loading, InLoadCallback
    <3>2. ~UNCHANGED vars
      BY <1>1, <3>1 DEF vars
    <3>3. ~Session
      BY <1>1, <3>1 DEF Session, StartSession, SetCallback, StartGame, EndSession
    <3>4. ~Save
      BY <1>1, <3>1 DEF Save, HandleSaveGame, MaySave, CallSave, OpenRecord, WriteRecordData,
                        SaveReturns, EndSave, SaveThrows
    <3>5. ~Files
      BY <3>1 DEF Files, HandleDeleteGame, HandleRenameGame
    <3>6. Load
      BY <1>1, <3>2, <3>3, <3>4, <3>5 DEF Next
    <3>7. /\ \A p, name : ~HandleLoadGame(p, name)
          /\ ~CallLoad /\ ~SkipSection /\ ~MissCallbacks
      BY <1>1, <3>1 DEF HandleLoadGame, CallLoad, SkipSection, MissCallbacks, SectionAhead,
                        keptByLoad
    <3>8. ~GetNextRecordInfo /\ ~NoNextRecord /\ ~ReadRecordData
      BY <1>1, <3>1 DEF GetNextRecordInfo, NoNextRecord, ReadRecordData
    <3>9. ~LoadReturns /\ ~EndSections /\ ~CallRest /\ ~RestReturns
      BY <1>1 DEF LoadReturns, EndSections, CallRest, RestReturns
    <3> QED
      BY <3>6, <3>7, <3>8, <3>9 DEF Load
  <2>2. callback \in {"load", "preLoad"} /\ TypeOK /\ HandlesOK /\ RestInv
    BY <1>1 DEF IInv, TypeOK
  <2>3. CASE EndLoad
    <3>1. mode = "rest" /\ \A h \in DOMAIN callbacks : h >= index => ~LeftOut(h)
      BY <2>3 DEF EndLoad
    <3>2. DOMAIN callbacks \subseteq Nat /\ index \in Nat
      BY <2>2, OwnersOfHandles DEF TypeOK
    <3>3. \A h \in DOMAIN callbacks : Has(h, callback) => h \in hadData \/ h < index
      BY <3>1, <3>2 DEF LeftOut
    <3>4. \A h \in DOMAIN callbacks : Has(h, callback) => called[OwnerOf(h)] = 1
      BY <2>2, <3>1, <3>3 DEF RestInv
    <3> QED
      BY <3>4 DEF AllCalledOnce
  <2>4. CASE LoadThrows
    BY <2>2, <2>4 DEF LoadThrows
  <2> QED
    BY <2>1, <2>3, <2>4
<1>2. IInv /\ [Next]_vars =>
         [Loading /\ mode' = "idle" =>
             \/ AllCalledOnce
             \/ callback = "load" /\ newGame'
             \/ callback = "preLoad" /\ InLoadCallback]_vars
  BY <1>1
<1> QED
  BY <1>2, Invariance, PTL DEF Spec, EachIsCalledOnce

=============================================================================

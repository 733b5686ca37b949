------------------------------- MODULE FramFs -------------------------------
(***************************************************************************)
(* The FRAM filesystem of the EEPROM kernel (kernel/fs.s, with the chunk   *)
(* transfers of fram.s and the cursors of iter.s).  One kernel call runs   *)
(* at a time on the 6502; each call is a sequence of FRAM_WRITE_CHUNK      *)
(* transactions, and one action is one such transaction.  The power may    *)
(* fail between any two bytes of a transaction: the FRAM keeps the prefix  *)
(* it was sent, which may end inside a two-byte number or an entry.        *)
(*                                                                         *)
(* Scale: an address is a cell.  An index entry (24 bytes in the code), a  *)
(* super block pointer and one byte of file data take one cell each, so    *)
(* SbSize is 2 where the code has 5 bytes; what a cut inside a cell leaves *)
(* of it is worked out field by field (Torn).  CRC bytes are left out: the *)
(* kernel writes them and never checks one.                                *)
(***************************************************************************)
EXTENDS Integers, Sequences

CONSTANTS
  MemSize,       \* cells of FRAM (65536 bytes in the code)
  PageSize,      \* values of the low byte of a number (256 in the code)
  Names,         \* non-empty file names
  NoName,        \* the name of a start marker, or one no caller asks for
  MaxWrites,     \* bound: how many times a caller writes a file
  Lens,          \* lengths of the files callers write
  CopyChunk,     \* COMPACT_CHUNK
  SpaceChecked,  \* TRUE: callers only write what fits; the kernel never checks
  CrashPoints    \* the transactions inside which the power may fail

WritePCs   == {"write_data", "write_index", "write_sb"}
FormatPCs  == {"format_sb", "format_stub", "format_vol"}
DeletePCs  == {"delete", "update_delete"}
CompactPCs == {"compact_next", "compact_copy", "compact_entry", "compact_stub", "compact_sb"}
PCs == {"idle"} \cup WritePCs \cup FormatPCs \cup DeletePCs \cup CompactPCs

ASSUME ConstantsAssumption ==
  /\ MemSize \in Nat /\ MemSize >= 5
  /\ PageSize \in Nat \ {0} /\ MemSize % PageSize = 0
  /\ NoName \notin Names
  /\ Lens \subseteq 0 .. MemSize - 1 /\ 0 \in Lens
  /\ MaxWrites \in Nat \ {0}
  /\ CopyChunk \in Nat \ {0}
  /\ SpaceChecked \in BOOLEAN
  /\ CrashPoints \subseteq PCs \ {"idle"}

SbSize    == 2              \* DATA_PTR in cell 0, INDEX_PTR in cell 1
VolSlot   == MemSize - 1    \* $FFE8
FirstSlot == MemSize - 2    \* $FFD0, the oldest file entry
Addr      == 0 .. MemSize - 1
NoId      == 0              \* "the caller holds no file ID"

-----------------------------------------------------------------------------
(* The contents of a cell. *)

\* The contents given to the v-th write: no two writes write the same bytes.
Payload == [v : 1 .. MaxWrites, len : Lens]

AnyPayload == [v |-> 1, len |-> 0]

Blank     == [type |-> "blank"]
Vol       == [type |-> "VOL_ID"]
Stub      == [type |-> "START", name |-> NoName, start |-> 0, len |-> 0,
              what |-> AnyPayload, sound |-> FALSE]
Ptr(a)    == [type |-> "ptr", to |-> a]
Byte(p, i) == [type |-> "data", v |-> p.v, off |-> i]

\* An index entry.  "what" and "sound" are history, not bytes of the entry: the
\* contents FS_WRITE was given for it, and whether it was committed.  A torn
\* entry can have any type with any name, place and length.
Entry == [type : {"START", "FILE", "FILE_DEL"}, name : Names \cup {NoName},
          start : Addr, len : Addr, what : Payload, sound : BOOLEAN]
FileEntry(n, a, p) == [type |-> "FILE", name |-> n, start |-> a, len |-> p.len,
                       what |-> p, sound |-> TRUE]

Cell == {Blank, Vol} \cup [type : {"ptr"}, to : Addr] \cup Entry
          \cup [type : {"data"}, v : 1 .. MaxWrites, off : Addr]

IsFile(c)   == c.type = "FILE"
IsRecord(c) == c.type \in {"FILE", "FILE_DEL"}
IsEntry(c)  == c.type \in {"START", "FILE", "FILE_DEL"}

\* 16-bit arithmetic on addresses (ADD16, SUB16).
Wrap(x) == IF x >= MemSize THEN x - MemSize ELSE IF x < 0 THEN x + MemSize ELSE x

\* FRAM_WRITE_CHUNK and FRAM_READ_CHUNK; the device address counter wraps.
Put(m, at, cells) ==
  [a \in Addr |-> IF a - at \in 0 .. Len(cells) - 1 THEN cells[a - at + 1]
                  ELSE IF a + MemSize - at \in 0 .. Len(cells) - 1 THEN cells[a + MemSize - at + 1]
                  ELSE m[a]]
Fetch(m, at, n) == [i \in 1 .. n |-> m[Wrap(at + i - 1)]]

Bytes(p) == [i \in 1 .. p.len |-> Byte(p, i - 1)]

-----------------------------------------------------------------------------
VARIABLES
  mem,    \* the FRAM: survives a power failure
  pc,     \* the next transaction of the running call; "idle" between calls
  held,   \* the file ID the caller got from FS_FIND
  sb,     \* the super block as read into K_BUF
  name, what,     \* the file being written
  target,         \* the file ID being deleted
  ent, to, off,   \* compaction: entry in K_BUF, its new start, bytes copied
  cur, wi, ws,    \* compaction: index read and write cursors, slab write cursor
  writes, \* history: how many writes were started
  snap,   \* history: the FRAM when the running compaction started
  torn    \* history: a cut left a number outside its old and its new value

ramVars == <<sb, name, what, target, ent, to, off, cur, wi, ws>>
vars == <<mem, pc, held, ramVars, writes, snap, torn>>

\* The super block on the FRAM.
Free == mem[0].to
Idx  == mem[1].to

AnyName    == CHOOSE n \in Names : TRUE
AnyEntry   == FileEntry(AnyName, 0, AnyPayload)

\* What FS_FORMAT leaves on a blank FRAM.
Fresh == [a \in Addr |-> IF a = 0 THEN Ptr(SbSize)
                         ELSE IF a = 1 THEN Ptr(FirstSlot)
                         ELSE IF a = FirstSlot THEN Stub
                         ELSE IF a = VolSlot THEN Vol
                         ELSE Blank]

Init ==
  /\ mem = Fresh
  /\ pc = "idle"
  /\ held = NoId
  /\ sb = [free |-> 0, idx |-> 0]
  /\ name = AnyName /\ what = AnyPayload
  /\ target = 0
  /\ ent = AnyEntry /\ to = 0 /\ off = 0
  /\ cur = 0 /\ wi = 0 /\ ws = 0
  /\ writes = 0
  /\ snap = Fresh
  /\ torn = FALSE

\* A call that returns leaves nothing in RAM that a later call reads; the
\* model puts the dead scratch back to fixed values.
Return ==
  /\ pc' = "idle"
  /\ sb' = [free |-> 0, idx |-> 0]
  /\ name' = AnyName /\ what' = AnyPayload
  /\ target' = 0
  /\ ent' = AnyEntry /\ to' = 0 /\ off' = 0
  /\ cur' = 0 /\ wi' = 0 /\ ws' = 0
  /\ snap' = Fresh

ReadSb == [free |-> mem[0].to, idx |-> mem[1].to]

-----------------------------------------------------------------------------
(* Calls: what the CPU does up to the first FRAM write.  What a call does on *)
(* a torn volume depends on what the bytes around a stray number happen to   *)
(* be and is not modelled: nothing is claimed of such a volume until         *)
(* FS_FORMAT has rewritten all of it that is ever read.                      *)

\* The walk of FS_FIND: upwards from INDEX_PTR, newest entry first, comparing
\* names only, so a tombstone matches too, and a marker with a name left in it.
Matches(m, n) == {a \in m[1].to .. VolSlot : IsEntry(m[a]) /\ m[a].name = n}
\* Mutant: the walk goes from the oldest entry to the newest.
FsFindOldest(m, n, id) == IF Matches(m, n) = {} THEN id = NoId
                          ELSE id \in Matches(m, n) /\ \A b \in Matches(m, n) : b <= id
FsFind(m, n, id) == IF Matches(m, n) = {} THEN id = NoId
                    ELSE id \in Matches(m, n) /\ \A b \in Matches(m, n) : id <= b

FsRead(m, id) == Fetch(m, m[id].start, m[id].len)

Find(n) ==
  /\ pc = "idle"
  /\ ~torn
  /\ held' \in Addr /\ FsFind(mem, n, held')
  /\ UNCHANGED <<mem, pc, ramVars, writes, snap, torn>>

\* What a careful caller makes sure of; the kernel itself has no such test.
Fits(len) == SpaceChecked => mem[0].to + len <= mem[1].to - 1

Format ==
  /\ pc = "idle"
  /\ pc' = "format_sb"
  /\ held' = NoId
  /\ UNCHANGED <<mem, ramVars, writes, snap, torn>>

Write(n, len) ==
  /\ pc = "idle"
  /\ ~torn
  /\ writes < MaxWrites
  /\ Fits(len)
  /\ pc' = "write_data"
  /\ sb' = ReadSb
  /\ name' = n
  /\ what' = [v |-> writes + 1, len |-> len]
  /\ writes' = writes + 1
  /\ UNCHANGED <<mem, held, target, ent, to, off, cur, wi, ws, snap, torn>>

Delete ==
  /\ pc = "idle"
  /\ ~torn
  /\ held # NoId
  /\ pc' = "delete"
  /\ target' = held
  /\ UNCHANGED <<mem, held, sb, name, what, ent, to, off, cur, wi, ws, writes, snap, torn>>

\* FS_UPDATE keeps the name of the old entry, deletes it, then writes. The old
\* file ID is of no more use (fs_test.s).
Update(len) ==
  /\ pc = "idle"
  /\ ~torn
  /\ held # NoId
  /\ writes < MaxWrites
  /\ Fits(len)
  /\ pc' = "update_delete"
  /\ target' = held
  /\ name' = mem[held].name
  /\ what' = [v |-> writes + 1, len |-> len]
  /\ writes' = writes + 1
  /\ held' = NoId
  /\ UNCHANGED <<mem, sb, ent, to, off, cur, wi, ws, snap, torn>>

\* Compaction moves entries: a file ID is of no use after it (fs_test.s).
Compact ==
  /\ pc = "idle"
  /\ ~torn
  /\ pc' = "compact_next"
  /\ sb' = ReadSb
  /\ cur' = FirstSlot
  /\ wi' = FirstSlot
  /\ ws' = SbSize
  /\ snap' = mem
  /\ held' = NoId
  /\ UNCHANGED <<mem, name, what, target, ent, to, off, writes, torn>>

-----------------------------------------------------------------------------
(* The FRAM transactions: where each one writes, and what. *)

\* Mutants: the last chunk is copied whole; the last chunk is never copied.
CopyLenWhole == CopyChunk
CopyLenRounded == IF ent.len - off < CopyChunk THEN 0 ELSE CopyChunk
CopyLen == IF ent.len - off <= CopyChunk THEN ent.len - off ELSE CopyChunk

\* The slot of the new start marker; the new entry takes the old one's.
\* Mutant: the index pointer is not moved down before the index is written.
StubSlotHigh == sb.idx
StubSlot == Wrap(sb.idx - 1)

\* The new index and the new super block of FS_WRITE.
WrittenIndex == <<Stub, FileEntry(name, sb.free, what)>>

\* Mutants: the two pointers are swapped; the free pointer is not advanced.
WrittenSbSwapped == <<Ptr(Wrap(sb.idx - 1)), Ptr(Wrap(sb.free + what.len))>>
WrittenSbStale   == <<Ptr(sb.free), Ptr(Wrap(sb.idx - 1))>>
WrittenSb    == <<Ptr(Wrap(sb.free + what.len)), Ptr(Wrap(sb.idx - 1))>>

\* The entry and the super block FS_COMPACT writes back.
\* Mutants: the new start is taken after the copy; the free pointer is the old one.
MovedEntryLate == [ent EXCEPT !.start = ws]
PackedSbStale  == <<Ptr(sb.free), Ptr(wi)>>
MovedEntry == [ent EXCEPT !.start = to]
PackedSb   == <<Ptr(ws), Ptr(wi)>>

ChunkAt ==
  CASE pc \in {"format_sb", "write_sb", "compact_sb"} -> 0
    [] pc = "format_stub"   -> FirstSlot
    [] pc = "format_vol"    -> VolSlot
    [] pc = "write_data"    -> sb.free
    [] pc = "write_index"   -> StubSlot
    [] pc \in DeletePCs     -> target
    [] pc = "compact_copy"  -> ws
    [] pc \in {"compact_entry", "compact_stub"} -> wi
    [] OTHER -> 0

ChunkCells ==
  CASE pc = "format_sb"     -> <<Ptr(SbSize), Ptr(FirstSlot)>>
    [] pc = "format_stub"   -> <<Stub>>
    [] pc = "format_vol"    -> <<Vol>>
    [] pc = "write_data"    -> Bytes(what)
    [] pc = "write_index"   -> WrittenIndex
    [] pc = "write_sb"      -> WrittenSb
    [] pc \in DeletePCs     -> <<[mem[target] EXCEPT !.type = "FILE_DEL"]>>
    [] pc = "compact_copy"  -> Fetch(mem, ent.start + off, CopyLen)
    [] pc = "compact_entry" -> <<MovedEntry>>
    [] pc = "compact_stub"  -> <<Stub>>
    [] pc = "compact_sb"    -> PackedSb
    [] OTHER -> <<>>

Transmit == mem' = Put(mem, ChunkAt, ChunkCells)

FormatSb ==
  /\ pc = "format_sb"
  /\ Transmit
  /\ pc' = "format_stub"
  /\ UNCHANGED <<held, ramVars, writes, snap, torn>>

FormatStub ==
  /\ pc = "format_stub"
  /\ Transmit
  /\ pc' = "format_vol"
  /\ UNCHANGED <<held, ramVars, writes, snap, torn>>

FormatVol ==
  /\ pc = "format_vol"
  /\ Transmit
  /\ Return
  /\ torn' = FALSE
  /\ UNCHANGED <<held, writes>>

WriteData ==
  /\ pc = "write_data"
  /\ Transmit
  /\ pc' = "write_index"
  /\ UNCHANGED <<held, ramVars, writes, snap, torn>>

WriteIndex ==
  /\ pc = "write_index"
  /\ Transmit
  /\ pc' = "write_sb"
  /\ UNCHANGED <<held, ramVars, writes, snap, torn>>

WriteSb ==
  /\ pc = "write_sb"
  /\ Transmit
  /\ Return
  /\ UNCHANGED <<held, writes, torn>>

DeleteEntry ==
  /\ pc = "delete"
  /\ Transmit
  /\ Return
  /\ UNCHANGED <<held, writes, torn>>

\* The second half of FS_UPDATE is FS_WRITE, which reads the super block anew.
UpdateDelete ==
  /\ pc = "update_delete"
  /\ Transmit
  /\ pc' = "write_data"
  /\ sb' = ReadSb
  /\ UNCHANGED <<held, name, what, target, ent, to, off, cur, wi, ws, writes, snap, torn>>

\* Mutant: the walk stops one entry short.
AdvanceFromEarly(c) ==
  IF c - 1 <= sb.idx + 1
  THEN pc' = "compact_stub" /\ UNCHANGED cur
  ELSE pc' = "compact_next" /\ cur' = c - 1

\* ITER_NEXT_DOWN: the boundary itself is not visited, the seed always is.
AdvanceFrom(c) ==
  IF c - 1 <= sb.idx
  THEN pc' = "compact_stub" /\ UNCHANGED cur
  ELSE pc' = "compact_next" /\ cur' = c - 1

CompactSkip ==
  /\ pc = "compact_next"
  /\ ~IsFile(mem[cur])
  /\ AdvanceFrom(cur)
  /\ UNCHANGED <<mem, held, sb, name, what, target, ent, to, off, wi, ws, writes, snap, torn>>

\* An entry read from the boundary slot was never committed.
CompactTake ==
  /\ pc = "compact_next"
  /\ IsFile(mem[cur])
  /\ ent' = [mem[cur] EXCEPT !.sound = @ /\ cur # sb.idx]
  /\ to' = ws
  /\ off' = 0
  /\ pc' = IF mem[cur].len = 0 THEN "compact_entry" ELSE "compact_copy"
  /\ UNCHANGED <<mem, held, sb, name, what, target, cur, wi, ws, writes, snap, torn>>

CompactCopy ==
  /\ pc = "compact_copy"
  /\ Transmit
  /\ off' = off + CopyLen
  /\ ws' = ws + CopyLen
  /\ pc' = IF off + CopyLen = ent.len THEN "compact_entry" ELSE "compact_copy"
  /\ UNCHANGED <<held, sb, name, what, target, ent, to, cur, wi, writes, snap, torn>>

CompactEntry ==
  /\ pc = "compact_entry"
  /\ Transmit
  /\ wi' = wi - 1
  /\ AdvanceFrom(cur)
  /\ UNCHANGED <<held, sb, name, what, target, ent, to, off, ws, writes, snap, torn>>

CompactStub ==
  /\ pc = "compact_stub"
  /\ Transmit
  /\ pc' = "compact_sb"
  /\ UNCHANGED <<held, ramVars, writes, snap, torn>>

CompactSb ==
  /\ pc = "compact_sb"
  /\ Transmit
  /\ Return
  /\ UNCHANGED <<held, writes, torn>>

\* A two-byte number cut after its low byte, which is sent first: the low byte
\* of the new number under the high byte of the old one.
Half(old, new) == (old \div PageSize) * PageSize + (new % PageSize)

\* An entry cut at any byte: its type, start, length and name are sent in this
\* order.  A name cut in the middle may read as any name, or as none.
TornEntries(old, new) ==
  LET names == IF new.name = old.name THEN {old.name} ELSE Names \cup {NoName}
      start == {<<s, old.len, old.name>> : s \in {old.start, Half(old.start, new.start)}}
      len   == {<<new.start, l, old.name>> : l \in {old.len, Half(old.len, new.len)}}
      rest  == {<<new.start, new.len, n>> : n \in names}
  IN {[old EXCEPT !.type = new.type, !.start = f[1], !.len = f[2], !.name = f[3]] :
        f \in start \cup len \cup rest}

\* What a cut inside a cell leaves there.  A cell that held neither an entry
\* nor a pointer is not read before it is written again.
Torn(old, new) ==
  CASE old.type = "ptr" /\ new.type = "ptr" -> {Ptr(Half(old.to, new.to))}
    [] IsEntry(old) /\ IsEntry(new) -> TornEntries(old, new)
    [] OTHER -> {}

\* The cut left a number that does not lie between the old one and the new.
Outside(x, a, b) == (x < a /\ x < b) \/ (a < x /\ b < x)
Astray(c, old, new) ==
  \/ c.type = "ptr" /\ Outside(c.to, old.to, new.to)
  \/ IsEntry(c) /\ Outside(c.len, old.len, new.len)

\* The transaction stops after k cells, or inside the one after them.
CutBetween(k) ==
  /\ mem' = Put(mem, ChunkAt, SubSeq(ChunkCells, 1, k))
  /\ UNCHANGED torn
CutInside(k) ==
  /\ k < Len(ChunkCells)
  /\ LET old == mem[Wrap(ChunkAt + k)]
         new == ChunkCells[k + 1]
     IN \E c \in Torn(old, new) :
          /\ mem' = Put(mem, ChunkAt, Append(SubSeq(ChunkCells, 1, k), c))
          /\ torn' = (torn \/ Astray(c, old, new))

\* The power fails inside a transaction, or just before or after it; the
\* machine comes back with its FRAM and nothing else.
PowerLoss ==
  /\ pc \in CrashPoints
  /\ \E k \in 0 .. Len(ChunkCells) : CutBetween(k) \/ CutInside(k)
  /\ Return
  /\ held' = NoId
  /\ UNCHANGED writes

Call ==
  \/ Format
  \/ \E n \in Names : Find(n)
  \/ \E n \in Names, len \in Lens : Write(n, len)
  \/ Delete
  \/ \E len \in Lens : Update(len)
  \/ Compact

Step ==
  \/ FormatSb \/ FormatStub \/ FormatVol
  \/ WriteData \/ WriteIndex \/ WriteSb
  \/ DeleteEntry \/ UpdateDelete
  \/ CompactSkip \/ CompactTake \/ CompactCopy \/ CompactEntry \/ CompactStub \/ CompactSb

Next == Call \/ Step \/ PowerLoss

Spec == Init /\ [][Next]_vars

\* The CPU runs a call to its end; callers need not make another one.
FairSpec == Spec /\ WF_vars(Step)

-----------------------------------------------------------------------------
(* Properties. *)

TypeOK ==
  /\ mem \in [Addr -> Cell]
  /\ pc \in PCs
  /\ held \in Addr
  /\ sb \in [free : Addr, idx : Addr]
  /\ name \in Names
  /\ what \in Payload
  /\ target \in Addr
  /\ ent \in Entry
  /\ to \in Addr
  /\ off \in Addr
  /\ cur \in Addr
  /\ wi \in Addr
  /\ ws \in Addr
  /\ writes \in 0 .. MaxWrites
  /\ torn \in BOOLEAN

\* The index slots the super block makes part of the volume, newest first.
Slots == mem[1].to + 1 .. FirstSlot

End(e) == e.start + e.len

\* "$0005 to FREE data slab, FREE to IDX free area, IDX to $FFFF index"
\* (fs.s:6-8): the slab never reaches the index, wherever the power failed,
\* unless the cut left a number that is neither near the old nor the new one.
PointersOrdered == SbSize <= Free /\ Free <= Idx /\ Idx <= FirstSlot
SlabBelowIndex == ~torn => PointersOrdered

\* Every entry of the index owns a piece of the slab of its own, in the order
\* the files were written; FS_COMPACT relies on this order when it moves data
\* downwards in place.
ExtentsOrdered ==
  pc \notin CompactPCs /\ ~torn =>
    /\ \A a \in Slots : IsRecord(mem[a]) /\ SbSize <= mem[a].start /\ End(mem[a]) <= Free
    /\ \A a, b \in Slots : a < b => End(mem[b]) <= mem[a].start

Holds(m, e, from) == \A i \in from .. e.len - 1 : m[e.start + i] = Byte(e.what, i)

\* A file the super block reaches reads back as the bytes its FS_WRITE was
\* given, whatever calls and power failures came in between (fs_write writes
\* the super block last; fs_delete leaves data alone; fs_compact moves it).
FilesIntact ==
  pc \notin CompactPCs /\ ~torn =>
    \A a \in Slots : IsFile(mem[a]) /\ mem[a].sound => Holds(mem, mem[a], 0)

\* "data slab (append-only, grows up)" (fs.s:7): a call that writes or deletes
\* never moves FREE down.
GrowsUp == pc \in WritePCs \cup DeletePCs => mem'[0].to >= Free

SlabAppendOnly == [][GrowsUp]_vars

\* When FS_WRITE commits, FS_FIND of the name gives the new file and FS_READ
\* of that ID gives the bytes written, also when older files have the name.
FindsWritten ==
  pc = "write_sb" /\ mem'[1] # mem[1] /\ ~torn' =>
    \E id \in Addr :
      /\ FsFind(mem', name, id)
      /\ IsFile(mem'[id])
      /\ FsRead(mem', id) = Bytes(what)

WriteIsFound == [][FindsWritten]_vars

\* A file ID names the same file until the caller's next FS_UPDATE, FS_COMPACT
\* or FS_FORMAT (fs.s:11 "file ID = FRAM address of index entry"), unless it
\* is the ID of an entry that no FS_WRITE ever committed.
KeepsFileId ==
  held' = held /\ held # NoId /\ held > mem[1].to =>
    mem'[held] \in {mem[held], [mem[held] EXCEPT !.type = "FILE_DEL"]}

FileIdStable == [][KeepsFileId]_vars

\* A compaction that ran to its end leaves live files only, packed from the
\* start of the slab, with the free area directly above them.
CompactPacks ==
  [][ pc = "compact_sb" /\ pc' = "idle" =>
        LET first == mem'[1].to + 1 IN
        /\ \A a \in first .. FirstSlot : IsFile(mem'[a])
        /\ \A a \in first .. FirstSlot :
             mem'[a].start = IF a = FirstSlot THEN SbSize ELSE End(mem'[a + 1])
        /\ mem'[0].to = IF first > FirstSlot THEN SbSize ELSE End(mem'[first]) ]_vars

\* A volume as FS_WRITE builds it when nothing was deleted or interrupted.
Pristine(m) ==
  LET first == m[1].to + 1 IN
  /\ m[m[1].to] = Stub
  /\ \A a \in first .. FirstSlot :
       /\ IsFile(m[a])
       /\ m[a].start = IF a = FirstSlot THEN SbSize ELSE End(m[a + 1])
  /\ m[0].to = IF first > FirstSlot THEN SbSize ELSE End(m[first])

\* Compacting a volume without deletions changes no byte, not even on the way
\* (test_compact.py: "compacting with no deletions is a no-op").
CompactNoOp == pc \in CompactPCs /\ Pristine(snap) => mem = snap

\* Every call returns, whatever the volume holds.
CallsReturn == []<>(pc = "idle")

-----------------------------------------------------------------------------
(* The inductive invariant behind SlabBelowIndex, ExtentsOrdered and         *)
(* FilesIntact, in named parts. It says what the index, the slab and the RAM *)
(* of the running call have to do with each other between two transactions.  *)

\* The slots lo .. hi hold records whose extents lie in floor .. ceiling - 1,
\* the lower slot (the newer file) above the higher one, data in place.
Filed(m, lo, hi, floor, ceiling) ==
  /\ \A a \in lo .. hi :
       /\ IsRecord(m[a])
       /\ floor <= m[a].start
       /\ End(m[a]) <= ceiling
       /\ IsFile(m[a]) /\ m[a].sound => m[a].len = m[a].what.len /\ Holds(m, m[a], 0)
  /\ \A a, b \in lo .. hi : a < b => End(m[b]) <= m[a].start

SuperBlockOK ==
  /\ mem[0].type = "ptr"
  /\ mem[1].type = "ptr"
  /\ PointersOrdered
  /\ pc \in WritePCs \cup CompactPCs => sb = ReadSb
  /\ pc \in {"format_stub", "format_vol"} => Free = SbSize /\ Idx = FirstSlot

\* The slot under the index is the start marker, or an entry nobody committed,
\* torn or whole: it starts anywhere, but is no longer than the free area.
BoundaryOK ==
  /\ IsEntry(mem[Idx])
  /\ mem[Idx] # Stub => SbSize + mem[Idx].len <= Idx - 1

IndexOK == pc \notin CompactPCs => Filed(mem, Idx + 1, FirstSlot, SbSize, Free)

\* What FS_FIND can return the ID of.
Findable(c) == IsEntry(c) /\ c.name \in Names

HeldOK ==
  /\ held # NoId => /\ pc \notin FormatPCs \cup CompactPCs
                    /\ held \in Idx .. VolSlot
                    /\ Findable(mem[held])
  /\ pc \in DeletePCs => /\ target \in Idx .. VolSlot
                         /\ Findable(mem[target])

WriteOK ==
  /\ pc \in WritePCs \cup {"update_delete"} => Free + what.len <= Idx - 1
  /\ pc \in {"write_index", "write_sb"} =>
       \A i \in 0 .. what.len - 1 : mem[Free + i] = Byte(what, i)
  /\ pc = "write_sb" => mem[Idx] = FileEntry(name, Free, what) /\ mem[Idx - 1] = Stub

\* The entry being moved: off bytes of it are at their new place, the others
\* still at the old one.
MovingOK ==
  /\ ent.type = "FILE"
  /\ SbSize <= to
  /\ ws = to + off
  /\ off <= ent.len
  /\ to + ent.len <= cur - 1
  /\ Idx < cur => to <= ent.start /\ End(ent) <= Free
  /\ ent.sound =>
       /\ Idx < cur
       /\ ent.len = ent.what.len
       /\ \A i \in 0 .. off - 1 : mem[to + i] = Byte(ent.what, i)
       /\ Holds(mem, ent, off)

CompactOK ==
  /\ pc \in {"compact_next", "compact_copy", "compact_entry"} =>
       /\ Idx <= cur /\ (Idx < cur \/ cur = FirstSlot)
       /\ cur <= wi /\ wi <= FirstSlot
  /\ pc = "compact_next" =>
       /\ SbSize <= ws /\ ws <= Free
       /\ cur = FirstSlot => ws = SbSize
       /\ Filed(mem, Idx + 1, cur, ws, Free)
       /\ Filed(mem, wi + 1, FirstSlot, SbSize, ws)
  /\ pc \in {"compact_copy", "compact_entry"} =>
       /\ MovingOK
       /\ Idx < cur => Filed(mem, Idx + 1, cur - 1, End(ent), Free)
       /\ Filed(mem, wi + 1, FirstSlot, SbSize, to)
  /\ pc = "compact_entry" => off = ent.len
  /\ pc \in {"compact_stub", "compact_sb"} =>
       /\ SbSize <= ws /\ ws <= wi /\ wi <= FirstSlot
       /\ Filed(mem, wi + 1, FirstSlot, SbSize, ws)
  /\ pc = "compact_sb" => mem[wi] = Stub

Whole == /\ TypeOK /\ ~torn
         /\ SuperBlockOK /\ BoundaryOK /\ IndexOK /\ HeldOK /\ WriteOK /\ CompactOK

\* A torn volume: FS_FORMAT, which reads nothing, is the only way on.
Astrayed ==
  /\ TypeOK /\ torn
  /\ pc \in {"idle"} \cup FormatPCs
  /\ held = NoId
  /\ pc \in {"format_stub", "format_vol"} => mem[0] = Ptr(SbSize) /\ mem[1] = Ptr(FirstSlot)
  /\ pc = "format_vol" => mem[FirstSlot] = Stub

IInv == Whole \/ Astrayed

-----------------------------------------------------------------------------
(* The log of files a volume stands for. *)

View(m) ==
  [i \in 1 .. FirstSlot - m[1].to |->
     LET e == m[FirstSlot + 1 - i] IN
     [name |-> e.name, live |-> IsFile(e), data |-> FsRead(m, FirstSlot + 1 - i)]]

\* While a compaction runs the volume still stands for what it found.
Volume == View(IF pc \in CompactPCs THEN snap ELSE mem)

Page(x) == x \div PageSize

\* The transaction under way changes the high byte of a two-byte number.
Crossing ==
  \/ /\ pc = "write_sb"
     /\ \E i \in {0, 1} : Page(WrittenSb[i + 1].to) # Page(mem[i].to)
  \/ /\ pc = "write_index"
     /\ IsEntry(mem[sb.idx]) /\ Page(what.len) # Page(mem[sb.idx].len)

Log == INSTANCE FileLog WITH
         log      <- IF torn THEN <<>> ELSE Volume,
         broken   <- torn,
         crossing <- Crossing,
         Files    <- {Bytes(p) : p \in Payload}

\* The kernel's calls are the operations of a log of files: each takes effect
\* in one FRAM transaction, or not at all when the power fails; only a cut in a
\* transaction that changes the high byte of a number can break the log.
ImplementsLog == Log!Spec
=============================================================================

---------------------------- MODULE FramFs_proofs ----------------------------
(***************************************************************************)
(* Proofs about FramFs: IInv is an invariant for every size of the FRAM,   *)
(* every chunk size and any number of files, when callers write only what  *)
(* fits and the power fails, between two bytes or inside a number or an    *)
(* entry, anywhere but inside a compaction or inside the super block write *)
(* of a format.  IInv has two halves.  Whole holds until a cut leaves a    *)
(* number outside its old and its new value: everything else a cut can     *)
(* leave under the index is harmless, as nothing but the next write's own  *)
(* bytes takes its place.  From then on Astrayed holds, until FS_FORMAT    *)
(* has rewritten the volume and Whole holds again.                         *)
(***************************************************************************)
EXTENDS FramFs, SequenceTheorems, TLAPS

\* Where a power failure is survived.
Survivable == WritePCs \cup DeletePCs \cup {"format_stub", "format_vol"}

-----------------------------------------------------------------------------
(* Cells. *)

\* A cell whose type says "start", "file" or "deleted file" is an index entry.
LEMMA EntryIsEntry ==
  ASSUME NEW c \in Cell, IsEntry(c)
  PROVE  /\ c \in Entry
         /\ c.start \in Addr
         /\ c.len \in Addr
         /\ c.name \in Names \cup {NoName}
         /\ c.what \in Payload
         /\ c.sound \in BOOLEAN
         /\ c.start \in Int /\ c.len \in Int /\ 0 <= c.len
<1>1. c \in Entry
  BY DEF Cell, IsEntry, Blank, Vol
<1>2. \A a \in Addr : a \in Int /\ 0 <= a
  BY ConstantsAssumption DEF Addr
<1> QED
  BY <1>1, <1>2 DEF Entry

LEMMA RecordIsEntry ==
  ASSUME NEW c \in Cell, IsRecord(c)
  PROVE  /\ c \in Entry
         /\ c.start \in Addr
         /\ c.len \in Addr
         /\ c.what \in Payload
         /\ c.sound \in BOOLEAN
         /\ c.start \in Int /\ c.len \in Int /\ 0 <= c.len
BY EntryIsEntry DEF IsEntry, IsRecord

\* A file a caller writes fits into the addresses.
LEMMA PayloadLen ==
  ASSUME NEW p \in Payload
  PROVE  /\ p.len \in Lens /\ p.len \in Addr /\ p.len \in Nat /\ p.len \in Int /\ 0 <= p.len
         /\ p.v \in 1 .. MaxWrites
<1>1. p.len \in Lens /\ p.v \in 1 .. MaxWrites
  BY DEF Payload
<1>2. p.len \in Addr
  BY <1>1, ConstantsAssumption DEF Addr
<1>3. p.len \in Int /\ 0 <= p.len
  BY <1>2, ConstantsAssumption DEF Addr
<1> QED
  BY <1>1, <1>2, <1>3

\* A cell whose type says "pointer" holds an address.
LEMMA PtrIsAddress ==
  ASSUME NEW c \in Cell, c.type = "ptr"
  PROVE  c.to \in Addr
BY DEF Cell, Entry, Blank, Vol

\* An array of n cells is a sequence of n cells.
LEMMA ArrayIsSeq ==
  ASSUME NEW S, NEW n \in Nat, NEW s \in [1 .. n -> S]
  PROVE  s \in Seq(S) /\ Len(s) = n
<1>1. s \in Seq(S)
  BY SeqDef
<1>2. Len(s) \in Nat /\ DOMAIN s = 1 .. Len(s) /\ DOMAIN s = 1 .. n
  BY <1>1, LenProperties
<1>3. Len(s) = n
  BY <1>2
<1> QED
  BY <1>1, <1>3

\* What the FRAM got of a chunk when the transfer stopped after k cells.
LEMMA PrefixOfChunk ==
  ASSUME NEW S, NEW s \in Seq(S), NEW k \in 0 .. Len(s)
  PROVE  /\ SubSeq(s, 1, k) \in Seq(S)
         /\ Len(SubSeq(s, 1, k)) = k
         /\ \A i \in 1 .. k : SubSeq(s, 1, k)[i] = s[i]
<1>1. Len(s) \in Nat /\ k \in Nat /\ k <= Len(s)
  OBVIOUS
<1>2. \A i \in 1 .. k : s[i] \in S
  BY <1>1
<1>3. SubSeq(s, 1, k) = [i \in 1 .. k |-> s[i]]
  BY <1>1
<1>4. SubSeq(s, 1, k) \in [1 .. k -> S]
  BY <1>2, <1>3
<1>5. SubSeq(s, 1, k) \in Seq(S) /\ Len(SubSeq(s, 1, k)) = k
  BY <1>1, <1>4, ArrayIsSeq
<1> QED
  BY <1>3, <1>5

\* A cell of the chunk where the chunk was written, the old one elsewhere.
LEMMA PutCell ==
  ASSUME NEW m, NEW at \in Nat, NEW cells \in Seq(Cell), at + Len(cells) <= MemSize,
         NEW a \in Addr
  PROVE  Put(m, at, cells)[a] = IF at <= a /\ a < at + Len(cells) THEN cells[a - at + 1] ELSE m[a]
<1>1. Len(cells) \in Nat
  OBVIOUS
<1>2. ~(a + MemSize - at \in 0 .. Len(cells) - 1)
  BY <1>1, ConstantsAssumption DEF Addr
<1>3. a - at \in 0 .. Len(cells) - 1 <=> at <= a /\ a < at + Len(cells)
  BY <1>1, ConstantsAssumption DEF Addr
<1> QED
  BY <1>2, <1>3 DEF Put

LEMMA PutType ==
  ASSUME NEW m \in [Addr -> Cell], NEW at \in Nat, NEW cells \in Seq(Cell),
         at + Len(cells) <= MemSize
  PROVE  Put(m, at, cells) \in [Addr -> Cell]
<1>1. ASSUME NEW a \in Addr
      PROVE  Put(m, at, cells)[a] \in Cell
  <2>1. at <= a /\ a < at + Len(cells) => a - at + 1 \in 1 .. Len(cells)
    BY ConstantsAssumption DEF Addr
  <2> QED
    BY <2>1, PutCell
<1> QED
  BY <1>1 DEF Put

-----------------------------------------------------------------------------
(* Runs of index slots. *)

\* A run of slots survives any change outside of it and outside of its data.
LEMMA FiledFrame ==
  ASSUME NEW m \in [Addr -> Cell], NEW n \in [Addr -> Cell],
         NEW lo \in Int, NEW hi \in Int, NEW floor \in Int, NEW ceiling \in Int,
         NEW lo2 \in Int, NEW hi2 \in Int, NEW floor2 \in Int, NEW ceiling2 \in Int,
         0 <= lo2, hi2 <= FirstSlot,
         Filed(m, lo, hi, floor, ceiling),
         lo <= lo2, hi2 <= hi, floor2 <= floor, ceiling <= ceiling2,
         \A a \in lo2 .. hi2 : n[a] = m[a],
         \A x \in floor .. ceiling - 1 : n[x] = m[x]
  PROVE  Filed(n, lo2, hi2, floor2, ceiling2)
<1>0. \A a \in lo2 .. hi2 : a \in lo .. hi /\ a \in Addr
  BY ConstantsAssumption DEF Addr, FirstSlot
<1>1. ASSUME NEW a \in lo2 .. hi2
      PROVE  /\ IsRecord(n[a])
             /\ floor2 <= n[a].start
             /\ End(n[a]) <= ceiling2
             /\ IsFile(n[a]) /\ n[a].sound => n[a].len = n[a].what.len /\ Holds(n, n[a], 0)
  <2>1. /\ IsRecord(m[a])
        /\ floor <= m[a].start
        /\ End(m[a]) <= ceiling
        /\ IsFile(m[a]) /\ m[a].sound => m[a].len = m[a].what.len /\ Holds(m, m[a], 0)
    BY <1>0 DEF Filed
  <2>2. m[a].start \in Int /\ m[a].len \in Int
    BY <1>0, <2>1, RecordIsEntry
  <2>3. ASSUME IsFile(m[a]), m[a].sound
        PROVE  Holds(n, m[a], 0)
    BY <2>1, <2>2, <2>3 DEF Holds, End
  <2> QED
    BY <2>1, <2>2, <2>3 DEF End
<1>2. ASSUME NEW a \in lo2 .. hi2, NEW b \in lo2 .. hi2, a < b
      PROVE  End(n[b]) <= n[a].start
  BY <1>0, <1>2 DEF Filed
<1> QED
  BY <1>1, <1>2 DEF Filed

\* A newer file joins a run: its slot is the next lower one, its data above.
LEMMA FiledExtend ==
  ASSUME NEW m \in [Addr -> Cell],
         NEW lo \in Int, NEW hi \in Int, NEW floor \in Int, NEW ceiling \in Int,
         NEW ceiling2 \in Int,
         0 <= lo, lo <= FirstSlot, hi <= FirstSlot,
         Filed(m, lo + 1, hi, floor, ceiling),
         IsRecord(m[lo]),
         floor <= m[lo].start, ceiling <= m[lo].start, End(m[lo]) <= ceiling2,
         ceiling <= ceiling2,
         IsFile(m[lo]) /\ m[lo].sound =>
           m[lo].len = m[lo].what.len /\ Holds(m, m[lo], 0)
  PROVE  Filed(m, lo, hi, floor, ceiling2)
<1>0. lo \in Addr /\ \A a \in lo + 1 .. hi : a \in Addr
  BY ConstantsAssumption DEF Addr, FirstSlot
<1>1. \A a \in lo + 1 .. hi : IsRecord(m[a]) /\ m[a].start \in Int /\ m[a].len \in Int
  BY <1>0, RecordIsEntry DEF Filed
<1>2. m[lo].start \in Int /\ m[lo].len \in Int
  BY <1>0, RecordIsEntry
<1>3. ASSUME NEW a \in lo .. hi
      PROVE  /\ IsRecord(m[a])
             /\ floor <= m[a].start
             /\ End(m[a]) <= ceiling2
             /\ IsFile(m[a]) /\ m[a].sound => m[a].len = m[a].what.len /\ Holds(m, m[a], 0)
  <2>1. CASE a = lo
    BY <2>1
  <2>2. CASE a \in lo + 1 .. hi
    BY <2>2, <1>1 DEF Filed, End
  <2> QED
    BY <2>1, <2>2
<1>4. ASSUME NEW a \in lo .. hi, NEW b \in lo .. hi, a < b
      PROVE  End(m[b]) <= m[a].start
  <2>1. b \in lo + 1 .. hi
    BY <1>4
  <2>2. CASE a = lo
    BY <2>1, <2>2, <1>1, <1>2 DEF Filed, End
  <2>3. CASE a \in lo + 1 .. hi
    BY <2>1, <2>3, <1>4 DEF Filed
  <2> QED
    BY <2>2, <2>3
<1> QED
  BY <1>3, <1>4 DEF Filed

\* The oldest slot of a run, and the run without it, whose data lies above.
LEMMA FiledSplit ==
  ASSUME NEW m \in [Addr -> Cell],
         NEW lo \in Int, NEW hi \in Int, NEW floor \in Int, NEW ceiling \in Int,
         0 <= lo, lo <= hi, hi <= FirstSlot,
         Filed(m, lo, hi, floor, ceiling)
  PROVE  /\ IsRecord(m[hi])
         /\ floor <= m[hi].start
         /\ End(m[hi]) <= ceiling
         /\ IsFile(m[hi]) /\ m[hi].sound => m[hi].len = m[hi].what.len /\ Holds(m, m[hi], 0)
         /\ Filed(m, lo, hi - 1, End(m[hi]), ceiling)
<1>1. hi \in lo .. hi /\ \A a \in lo .. hi - 1 : a \in lo .. hi /\ a < hi
  OBVIOUS
<1> QED
  BY <1>1 DEF Filed

LEMMA FiledEmpty ==
  ASSUME NEW m, NEW lo \in Int, NEW hi \in Int, NEW floor, NEW ceiling, hi < lo
  PROVE  Filed(m, lo, hi, floor, ceiling)
BY DEF Filed

\* Tombstoning an entry leaves the data and the extents of every file alone.
LEMMA FiledTombstone ==
  ASSUME NEW m \in [Addr -> Cell], NEW n \in [Addr -> Cell],
         NEW lo \in Int, NEW hi \in Int, NEW floor \in Int, NEW ceiling \in Int,
         NEW t \in Addr,
         0 <= lo, hi <= FirstSlot, ceiling <= t,
         IsEntry(m[t]),
         Filed(m, lo, hi, floor, ceiling),
         n[t] = [m[t] EXCEPT !.type = "FILE_DEL"],
         \A a \in Addr : a # t => n[a] = m[a]
  PROVE  Filed(n, lo, hi, floor, ceiling)
<1>0. \A a \in lo .. hi : a \in Addr
  BY ConstantsAssumption DEF Addr, FirstSlot
<1>1. /\ n[t].type = "FILE_DEL"
      /\ n[t].start = m[t].start
      /\ n[t].len = m[t].len
  BY EntryIsEntry DEF Entry
<1>2. ASSUME NEW a \in lo .. hi
      PROVE  /\ IsRecord(n[a])
             /\ n[a].start = m[a].start
             /\ n[a].len = m[a].len
             /\ m[a].start \in Int
             /\ m[a].len \in Int
             /\ floor <= m[a].start
             /\ End(m[a]) <= ceiling
             /\ IsFile(n[a]) => n[a] = m[a]
  <2>1. /\ IsRecord(m[a])
        /\ floor <= m[a].start
        /\ End(m[a]) <= ceiling
    BY DEF Filed
  <2>2. m[a].start \in Int /\ m[a].len \in Int
    BY <1>0, <2>1, RecordIsEntry
  <2> QED
    BY <1>0, <1>1, <2>1, <2>2 DEF IsRecord, IsFile
<1>3. ASSUME NEW a \in lo .. hi, IsFile(n[a]), n[a].sound
      PROVE  n[a].len = n[a].what.len /\ Holds(n, n[a], 0)
  <2>1. n[a] = m[a] /\ m[a].start \in Int /\ m[a].len \in Int /\ End(m[a]) <= ceiling
    BY <1>2, <1>3
  <2>2. m[a].len = m[a].what.len /\ Holds(m, m[a], 0)
    BY <1>3, <2>1 DEF Filed
  <2>3. ASSUME NEW i \in 0 .. m[a].len - 1
        PROVE  n[m[a].start + i] = m[m[a].start + i]
    <3>1. floor <= m[a].start /\ m[a].start \in Addr
      BY <1>0, <1>2, <2>1, <1>3, RecordIsEntry DEF IsRecord, IsFile
    <3>2. m[a].start + i < ceiling
      BY <2>1 DEF End
    <3>4. 0 <= m[a].start
      BY <3>1 DEF Addr
    <3>3. t \in Int /\ t <= MemSize - 1 /\ MemSize \in Int
      BY ConstantsAssumption DEF Addr
    <3>5. m[a].start + i \in Int /\ 0 <= m[a].start + i
      BY <2>1, <3>4
    <3>6. m[a].start + i < t
      BY <3>2, <3>3, <3>5
    <3>7. m[a].start + i \in Addr
      BY <3>3, <3>5, <3>6 DEF Addr
    <3> QED
      BY <3>3, <3>5, <3>6, <3>7
  <2> QED
    BY <2>1, <2>2, <2>3 DEF Holds
<1> QED
  BY <1>2, <1>3 DEF Filed, End

-----------------------------------------------------------------------------
(* The invariant. *)

\* The super block's pointers are addresses, in the order of the layout.
LEMMA Pointers ==
  ASSUME TypeOK, SuperBlockOK
  PROVE  /\ Free \in Addr /\ Free \in Int
         /\ Idx \in Addr /\ Idx \in Int
         /\ 2 <= Free /\ Free <= Idx /\ Idx <= FirstSlot
         /\ FirstSlot \in Addr /\ VolSlot \in Addr /\ FirstSlot = VolSlot - 1
         /\ VolSlot \in Int /\ MemSize \in Int /\ VolSlot = MemSize - 1
         /\ MemSize >= 5
<1>1. 0 \in Addr /\ 1 \in Addr
  BY ConstantsAssumption DEF Addr
<1>2. mem[0] \in Cell /\ mem[1] \in Cell
  BY <1>1 DEF TypeOK
<1>3. Free \in Addr /\ Idx \in Addr
  BY <1>2, PtrIsAddress DEF SuperBlockOK, Free, Idx
<1>4. FirstSlot \in Addr /\ VolSlot \in Addr
  BY ConstantsAssumption DEF Addr, FirstSlot, VolSlot
<1> QED
  BY <1>3, <1>4, ConstantsAssumption DEF SuperBlockOK, PointersOrdered, SbSize, Addr, FirstSlot, VolSlot

\* Values of the dead scratch, and the bytes of a fresh volume, have their types.
LEMMA Defaults ==
  ASSUME Names # {}
  PROVE  AnyName \in Names /\ AnyPayload \in Payload /\ AnyEntry \in Entry /\ 0 \in Addr
<1>1. AnyName \in Names
  BY DEF AnyName
<1>2. AnyPayload \in Payload
  BY ConstantsAssumption DEF AnyPayload, Payload
<1>3. 0 \in Addr
  BY ConstantsAssumption DEF Addr
<1>4. AnyEntry \in Entry
  BY <1>1, <1>2, <1>3 DEF AnyEntry, AnyPayload, Entry, FileEntry
<1> QED
  BY <1>1, <1>2, <1>3, <1>4

LEMMA ReturnType ==
  ASSUME Names # {}, Return
  PROVE  /\ pc' = "idle" /\ pc' \in PCs
         /\ sb' \in [free : Addr, idx : Addr]
         /\ name' \in Names /\ what' \in Payload
         /\ target' \in Addr
         /\ ent' \in Entry /\ to' \in Addr /\ off' \in Addr
         /\ cur' \in Addr /\ wi' \in Addr /\ ws' \in Addr
BY Defaults, ConstantsAssumption DEF Return, PCs

\* A freshly formatted volume.
LEMMA InitInv == Names # {} /\ Init => Whole
<1> SUFFICES ASSUME Names # {}, Init
             PROVE  Whole
  OBVIOUS
<1>1. /\ Fresh[0] = Ptr(2) /\ Fresh[1] = Ptr(FirstSlot)
      /\ Fresh[FirstSlot] = Stub
      /\ Fresh \in [Addr -> Cell]
  <2>1. 0 \in Addr /\ 1 \in Addr /\ 2 \in Addr /\ FirstSlot \in Addr
    BY ConstantsAssumption DEF Addr, FirstSlot
  <2>2. Ptr(2) \in Cell /\ Ptr(FirstSlot) \in Cell /\ Stub \in Cell /\ Vol \in Cell /\ Blank \in Cell
    <3>1. Stub \in Entry
      BY <2>1, ConstantsAssumption DEF Stub, Entry, AnyPayload, Payload, Addr
    <3> QED
      BY <2>1, <3>1 DEF Cell, Ptr
  <2>3. FirstSlot # 0 /\ FirstSlot # 1
    BY ConstantsAssumption DEF FirstSlot
  <2>4. Fresh[0] = Ptr(2) /\ Fresh[1] = Ptr(FirstSlot) /\ Fresh[FirstSlot] = Stub
    BY <2>1, <2>3 DEF Fresh, SbSize
  <2>5. ASSUME NEW a \in Addr
        PROVE  Fresh[a] \in Cell
    BY <2>2 DEF Fresh, SbSize
  <2> QED
    BY <2>4, <2>5 DEF Fresh
<1>2. mem = Fresh /\ Free = 2 /\ Idx = FirstSlot
  BY <1>1 DEF Init, Free, Idx, Ptr
<1>3. TypeOK
  <2>1. 0 \in 0 .. MaxWrites
    BY ConstantsAssumption
  <2>2. /\ mem = Fresh /\ pc = "idle" /\ held = 0 /\ sb = [free |-> 0, idx |-> 0]
        /\ name = AnyName /\ what = AnyPayload /\ target = 0 /\ ent = AnyEntry
        /\ to = 0 /\ off = 0 /\ cur = 0 /\ wi = 0 /\ ws = 0 /\ writes = 0 /\ torn = FALSE
    BY DEF Init, NoId
  <2> QED
    BY <1>1, <2>1, <2>2, Defaults DEF TypeOK, PCs
<1>4. SuperBlockOK
  <2>1. FirstSlot \in Int /\ 2 <= FirstSlot
    BY ConstantsAssumption DEF FirstSlot
  <2> QED
    BY <1>1, <1>2, <2>1 DEF Init, SuperBlockOK, PointersOrdered, Ptr, WritePCs, CompactPCs, SbSize
<1>5. BoundaryOK
  BY <1>1, <1>2 DEF BoundaryOK, Stub, IsEntry
<1>6. IndexOK
  <2>1. FirstSlot \in Int /\ FirstSlot + 1 \in Int /\ FirstSlot < FirstSlot + 1
    BY ConstantsAssumption DEF FirstSlot
  <2> QED
    BY <1>2, <2>1, FiledEmpty DEF IndexOK
<1>7. HeldOK /\ WriteOK /\ CompactOK /\ ~torn
  BY DEF Init, HeldOK, WriteOK, CompactOK, DeletePCs, WritePCs, NoId
<1> QED
  BY <1>3, <1>4, <1>5, <1>6, <1>7 DEF Whole

-----------------------------------------------------------------------------
(* Calls: the FRAM does not change. *)

\* Finding a file gives an ID that names a record of the index, or none.
LEMMA FindInv == ASSUME Whole, NEW n \in Names, Find(n) PROVE Whole'
<1> USE DEF Whole
<1>1. mem' = mem /\ pc' = pc /\ pc = "idle"
  BY DEF Find
<1>2. TypeOK' /\ ~torn' /\ SuperBlockOK' /\ BoundaryOK' /\ IndexOK' /\ WriteOK' /\ CompactOK'
  BY DEF Find, ramVars, TypeOK, SuperBlockOK, PointersOrdered, ReadSb, BoundaryOK, IndexOK, WriteOK,
         CompactOK, Free, Idx, CompactPCs, WritePCs
<1>3. HeldOK'
  <2>1. held' # NoId => held' \in Idx .. VolSlot /\ Findable(mem[held'])
    BY DEF Find, FsFind, Matches, Idx, Findable
  <2> QED
    BY <1>1, <2>1 DEF HeldOK, FormatPCs, CompactPCs, DeletePCs, Idx
<1> QED
  BY <1>2, <1>3

LEMMA FormatInv == ASSUME Whole, Format PROVE Whole'
<1> USE DEF Whole
<1>1. mem' = mem /\ pc = "idle" /\ pc' = "format_sb" /\ held' = NoId /\ UNCHANGED ramVars /\ torn' = torn
  BY DEF Format
<1>2. TypeOK' /\ ~torn'
  BY <1>1, ConstantsAssumption DEF TypeOK, ramVars, PCs, FormatPCs, NoId, Addr, Format
<1>3. SuperBlockOK' /\ BoundaryOK' /\ IndexOK'
  BY <1>1 DEF SuperBlockOK, PointersOrdered, BoundaryOK, IndexOK, Free, Idx, CompactPCs, WritePCs
<1>4. HeldOK' /\ WriteOK' /\ CompactOK'
  BY <1>1 DEF HeldOK, WriteOK, CompactOK, DeletePCs, WritePCs
<1> QED
  BY <1>2, <1>3, <1>4

LEMMA WriteInv ==
  ASSUME Whole, SpaceChecked, NEW n \in Names, NEW len \in Lens, Write(n, len)
  PROVE  Whole'
<1> USE DEF Whole
<1>1. /\ mem' = mem /\ pc = "idle" /\ pc' = "write_data" /\ held' = held
      /\ sb' = ReadSb /\ name' = n /\ what' = [v |-> writes + 1, len |-> len]
      /\ writes < MaxWrites /\ writes' = writes + 1
      /\ UNCHANGED <<target, ent, to, off, cur, wi, ws, torn>>
  BY DEF Write
<1>2. TypeOK' /\ ~torn'
  <2>1. what' \in Payload /\ writes' \in 0 .. MaxWrites
    BY <1>1, ConstantsAssumption DEF TypeOK, Payload
  <2>2. sb' \in [free : Addr, idx : Addr]
    BY <1>1, Pointers DEF ReadSb, Free, Idx
  <2> QED
    BY <1>1, <2>1, <2>2 DEF TypeOK, PCs, WritePCs
<1>3. SuperBlockOK' /\ BoundaryOK' /\ IndexOK'
  BY <1>1 DEF SuperBlockOK, PointersOrdered, BoundaryOK, IndexOK, Free, Idx, CompactPCs, WritePCs, ReadSb
<1>4. WriteOK'
  BY <1>1 DEF WriteOK, Write, Fits, WritePCs, Free, Idx
<1>5. HeldOK' /\ CompactOK'
  BY <1>1 DEF HeldOK, CompactOK, DeletePCs, FormatPCs, CompactPCs, Idx
<1> QED
  BY <1>2, <1>3, <1>4, <1>5

LEMMA DeleteInv == ASSUME Whole, Delete PROVE Whole'
<1> USE DEF Whole
<1>1. /\ mem' = mem /\ pc = "idle" /\ pc' = "delete" /\ held' = held
      /\ held # NoId /\ target' = held
      /\ UNCHANGED <<sb, name, what, ent, to, off, cur, wi, ws, writes, torn>>
  BY DEF Delete
<1>2. TypeOK' /\ ~torn'
  BY <1>1 DEF TypeOK, PCs, DeletePCs
<1>3. SuperBlockOK' /\ BoundaryOK' /\ IndexOK'
  BY <1>1 DEF SuperBlockOK, PointersOrdered, BoundaryOK, IndexOK, Free, Idx, CompactPCs, WritePCs
<1>4. HeldOK' /\ WriteOK' /\ CompactOK'
  BY <1>1 DEF HeldOK, WriteOK, CompactOK, DeletePCs, WritePCs, FormatPCs, CompactPCs, Idx
<1> QED
  BY <1>2, <1>3, <1>4

LEMMA UpdateInv ==
  ASSUME Whole, SpaceChecked, NEW len \in Lens, Update(len)
  PROVE  Whole'
<1> USE DEF Whole
<1>1. /\ mem' = mem /\ pc = "idle" /\ pc' = "update_delete" /\ held' = NoId
      /\ held # NoId /\ target' = held /\ name' = mem[held].name
      /\ what' = [v |-> writes + 1, len |-> len]
      /\ writes < MaxWrites /\ writes' = writes + 1
      /\ UNCHANGED <<sb, ent, to, off, cur, wi, ws, torn>>
  BY DEF Update
<1>2. TypeOK' /\ ~torn'
  <2>1. what' \in Payload /\ writes' \in 0 .. MaxWrites
    BY <1>1, ConstantsAssumption DEF TypeOK, Payload
  <2>2. name' \in Names
    BY <1>1 DEF HeldOK, Findable
  <2>3. NoId \in Addr
    BY ConstantsAssumption DEF NoId, Addr
  <2> QED
    BY <1>1, <2>1, <2>2, <2>3 DEF TypeOK, PCs, DeletePCs
<1>3. SuperBlockOK' /\ BoundaryOK' /\ IndexOK'
  BY <1>1 DEF SuperBlockOK, PointersOrdered, BoundaryOK, IndexOK, Free, Idx, CompactPCs, WritePCs
<1>4. WriteOK'
  BY <1>1 DEF WriteOK, Update, Fits, WritePCs, Free, Idx
<1>5. HeldOK' /\ CompactOK'
  BY <1>1 DEF HeldOK, CompactOK, DeletePCs, Idx
<1> QED
  BY <1>2, <1>3, <1>4, <1>5

LEMMA CompactInv == ASSUME Whole, Compact PROVE Whole'
<1> USE DEF Whole
<1>1. /\ mem' = mem /\ pc = "idle" /\ pc' = "compact_next" /\ held' = NoId
      /\ sb' = ReadSb /\ cur' = FirstSlot /\ wi' = FirstSlot /\ ws' = SbSize
      /\ UNCHANGED <<name, what, target, ent, to, off, writes, torn>>
  BY DEF Compact
<1>2. /\ Free \in Int /\ Idx \in Int /\ 2 <= Free /\ Idx <= FirstSlot
      /\ FirstSlot \in Int /\ FirstSlot \in Addr /\ 0 \in Addr /\ 2 \in Addr
  BY Pointers, ConstantsAssumption DEF Addr
<1>3. TypeOK' /\ ~torn'
  <2>1. sb' \in [free : Addr, idx : Addr]
    BY <1>1, Pointers DEF ReadSb, Free, Idx
  <2> QED
    BY <1>1, <1>2, <2>1 DEF TypeOK, PCs, CompactPCs, NoId, SbSize
<1>4. SuperBlockOK' /\ BoundaryOK' /\ IndexOK'
  BY <1>1 DEF SuperBlockOK, PointersOrdered, BoundaryOK, IndexOK, Free, Idx, CompactPCs, WritePCs, ReadSb
<1>5. HeldOK' /\ WriteOK'
  BY <1>1 DEF HeldOK, WriteOK, DeletePCs, WritePCs
<1>6. CompactOK'
  <2>1. Filed(mem, Idx + 1, FirstSlot, 2, Free)
    BY <1>1 DEF IndexOK, CompactPCs, SbSize
  <2>2. Filed(mem, FirstSlot + 1, FirstSlot, 2, 2)
    BY <1>2, FiledEmpty
  <2> QED
    BY <1>1, <1>2, <2>1, <2>2 DEF CompactOK, Free, Idx, SbSize
<1> QED
  BY <1>3, <1>4, <1>5, <1>6

-----------------------------------------------------------------------------
(* Transactions. *)

\* What a transaction of the cells "cells" at address "at" does to the FRAM.
LEMMA Transmitted ==
  ASSUME TypeOK, NEW at \in Nat, NEW cells \in Seq(Cell), at + Len(cells) <= MemSize,
         mem' = Put(mem, at, cells)
  PROVE  /\ mem' \in [Addr -> Cell]
         /\ \A a \in Addr : a < at \/ at + Len(cells) <= a => mem'[a] = mem[a]
         /\ \A i \in 1 .. Len(cells) : at + i - 1 \in Addr /\ mem'[at + i - 1] = cells[i]
<1>1. Len(cells) \in Nat /\ MemSize \in Nat /\ mem \in [Addr -> Cell]
  BY ConstantsAssumption DEF TypeOK
<1>2. mem' \in [Addr -> Cell]
  BY <1>1, PutType
<1>3. ASSUME NEW a \in Addr, a < at \/ at + Len(cells) <= a
      PROVE  mem'[a] = mem[a]
  BY <1>1, <1>3, PutCell DEF Addr
<1>4. ASSUME NEW i \in 1 .. Len(cells)
      PROVE  at + i - 1 \in Addr /\ mem'[at + i - 1] = cells[i]
  <2>1. at + i - 1 \in Addr /\ at <= at + i - 1 /\ at + i - 1 < at + Len(cells)
    BY <1>1 DEF Addr
  <2> DEFINE a == at + i - 1
  <2>2. a \in Addr /\ at <= a /\ a < at + Len(cells) /\ a - at + 1 = i
    BY <1>1, <2>1
  <2>3. Put(mem, at, cells)[a] = IF at <= a /\ a < at + Len(cells) THEN cells[a - at + 1] ELSE mem[a]
    BY <2>2, PutCell
  <2> QED
    BY <2>1, <2>2, <2>3
<1> QED
  BY <1>2, <1>3, <1>4

\* The persistent part of the invariant: a volume as it may be between calls.
VolumeOK ==
  /\ mem \in [Addr -> Cell]
  /\ mem[0].type = "ptr" /\ mem[1].type = "ptr"
  /\ PointersOrdered
  /\ BoundaryOK
  /\ Filed(mem, Idx + 1, FirstSlot, SbSize, Free)

\* Between calls the invariant is about the FRAM and the caller's file ID.
LEMMA IdleInv ==
  ASSUME TypeOK, VolumeOK', Return, UNCHANGED writes, torn' = FALSE, held' \in Addr,
         held' # NoId => held' \in Idx' .. VolSlot /\ Findable(mem'[held'])
  PROVE  Whole'
<1>1. Names # {}
  BY DEF TypeOK
<1>2. pc' = "idle"
  BY DEF Return
<1>3. TypeOK' /\ ~torn'
  BY <1>1, ReturnType DEF TypeOK, VolumeOK
<1>4. SuperBlockOK' /\ BoundaryOK' /\ IndexOK'
  BY <1>2 DEF VolumeOK, SuperBlockOK, IndexOK, WritePCs, CompactPCs
<1>5. HeldOK' /\ WriteOK' /\ CompactOK'
  BY <1>2 DEF HeldOK, WriteOK, CompactOK, FormatPCs, DeletePCs, WritePCs, CompactPCs
<1> QED
  BY <1>3, <1>4, <1>5 DEF Whole

LEMMA VolumeFromInv == ASSUME Whole, pc \notin CompactPCs PROVE VolumeOK
BY DEF Whole, TypeOK, SuperBlockOK, IndexOK, VolumeOK

\* A transfer into the free area and up to the boundary slot, not into it,
\* leaves the volume as it was.
LEMMA FreeAreaWrite ==
  ASSUME TypeOK, SuperBlockOK, BoundaryOK, Filed(mem, Idx + 1, FirstSlot, SbSize, Free),
         NEW at \in Nat, NEW cells \in Seq(Cell),
         Free <= at, at + Len(cells) <= Idx, mem' = Put(mem, at, cells)
  PROVE  VolumeOK' /\ Free' = Free /\ Idx' = Idx
<1>1. /\ Free \in Int /\ Idx \in Int /\ Idx \in Addr /\ 2 <= Free /\ Free <= Idx /\ Idx <= FirstSlot
      /\ FirstSlot \in Int /\ FirstSlot < MemSize /\ MemSize \in Int /\ MemSize >= 5
  BY Pointers DEF FirstSlot
<1>2. at + Len(cells) <= MemSize /\ Len(cells) \in Nat
  BY <1>1
<1>3. /\ mem' \in [Addr -> Cell]
      /\ \A a \in Addr : a < at \/ at + Len(cells) <= a => mem'[a] = mem[a]
  BY <1>2, Transmitted
<1>4. 0 \in Addr /\ 1 \in Addr
  BY <1>1 DEF Addr
<1>5. mem'[0] = mem[0] /\ mem'[1] = mem[1] /\ mem'[Idx] = mem[Idx]
  BY <1>1, <1>2, <1>3, <1>4
<1>6. Free' = Free /\ Idx' = Idx
  BY <1>5 DEF Free, Idx
<1>7. Filed(mem', Idx + 1, FirstSlot, SbSize, Free)
  <2>1. \A a \in Idx + 1 .. FirstSlot : mem'[a] = mem[a]
    BY <1>1, <1>2, <1>3 DEF Addr
  <2>2. \A x \in SbSize .. Free - 1 : mem'[x] = mem[x]
    BY <1>1, <1>2, <1>3 DEF Addr, SbSize
  <2>3. mem \in [Addr -> Cell] /\ SbSize \in Int /\ Idx + 1 \in Int /\ 0 <= Idx + 1
    BY <1>1 DEF TypeOK, SbSize
  <2> QED
    BY <1>1, <1>3, <2>1, <2>2, <2>3, FiledFrame
<1>8. BoundaryOK' /\ PointersOrdered'
  BY <1>5, <1>6 DEF BoundaryOK, SuperBlockOK, PointersOrdered
<1> QED
  BY <1>3, <1>5, <1>6, <1>7, <1>8 DEF VolumeOK, SuperBlockOK

\* The bytes of a file are cells.
LEMMA BytesAreCells ==
  ASSUME NEW p \in Payload
  PROVE  /\ Bytes(p) \in Seq(Cell) /\ Len(Bytes(p)) = p.len
         /\ \A i \in 1 .. p.len : Bytes(p)[i] = Byte(p, i - 1)
<1>1. p.len \in Addr /\ p.len \in Nat /\ p.v \in 1 .. MaxWrites
  BY PayloadLen
<1>2. ASSUME NEW i \in 1 .. p.len
      PROVE  Byte(p, i - 1) \in Cell
  <2>1. i - 1 \in Addr
    BY <1>1, ConstantsAssumption DEF Addr
  <2> QED
    BY <1>1, <2>1 DEF Byte, Cell
<1>3. Bytes(p) \in [1 .. p.len -> Cell]
  BY <1>2 DEF Bytes
<1> QED
  BY <1>1, <1>3, ArrayIsSeq DEF Bytes

\* The data goes to the free area: nothing the index knows is touched.
LEMMA WriteDataVolume ==
  ASSUME Whole, pc = "write_data", NEW k \in 0 .. Len(ChunkCells),
         mem' = Put(mem, ChunkAt, SubSeq(ChunkCells, 1, k))
  PROVE  /\ VolumeOK' /\ Free' = Free /\ Idx' = Idx
         /\ \A a \in Idx .. VolSlot : mem'[a] = mem[a]
         /\ k = what.len => \A i \in 0 .. what.len - 1 : mem'[Free + i] = Byte(what, i)
<1>1. /\ ChunkAt = Free /\ ChunkCells = Bytes(what)
  BY DEF ChunkAt, ChunkCells, Whole, SuperBlockOK, ReadSb, Free, Idx, WritePCs, DeletePCs
<1>2. /\ what \in Payload /\ what.len \in Nat /\ Free + what.len <= Idx - 1
      /\ Free \in Nat /\ Idx \in Int /\ Idx <= FirstSlot /\ FirstSlot < MemSize /\ MemSize \in Int
      /\ FirstSlot \in Int /\ VolSlot = MemSize - 1
  <2>1. what \in Payload /\ Free + what.len <= Idx - 1
    BY DEF Whole, TypeOK, WriteOK, WritePCs
  <2> QED
    BY <2>1, Pointers, PayloadLen DEF Whole, FirstSlot
<1> DEFINE sent == SubSeq(ChunkCells, 1, k)
<1>3. /\ k \in 0 .. what.len
      /\ sent \in Seq(Cell) /\ Len(sent) = k
      /\ \A i \in 1 .. k : sent[i] = Byte(what, i - 1)
  <2>1. ChunkCells \in Seq(Cell) /\ Len(ChunkCells) = what.len
    BY <1>1, <1>2, BytesAreCells
  <2>2. sent \in Seq(Cell) /\ Len(sent) = k /\ \A i \in 1 .. k : sent[i] = ChunkCells[i]
    BY <2>1, PrefixOfChunk
  <2>3. k \in 0 .. what.len
    BY <2>1
  <2>4. ASSUME NEW i \in 1 .. k
        PROVE  sent[i] = Byte(what, i - 1)
    <3>1. i \in 1 .. what.len
      BY <1>2, <2>3
    <3>2. sent[i] = ChunkCells[i]
      BY <2>2
    <3> QED
      BY <1>1, <1>2, <3>1, <3>2, BytesAreCells
  <2> QED
    BY <2>2, <2>3, <2>4
<1>4. mem' = Put(mem, Free, sent) /\ Free + Len(sent) <= Idx /\ Free + Len(sent) <= MemSize
  BY <1>1, <1>2, <1>3
<1> HIDE DEF sent
<1>5. VolumeOK' /\ Free' = Free /\ Idx' = Idx
  BY <1>2, <1>3, <1>4, FreeAreaWrite DEF Whole, IndexOK, CompactPCs
<1>6. /\ \A a \in Addr : a < Free \/ Free + Len(sent) <= a => mem'[a] = mem[a]
      /\ \A i \in 1 .. Len(sent) : mem'[Free + i - 1] = sent[i]
  BY <1>2, <1>3, <1>4, Transmitted DEF Whole
<1>7. \A a \in Idx .. VolSlot : mem'[a] = mem[a]
  BY <1>2, <1>3, <1>4, <1>6 DEF Addr
<1>8. ASSUME k = what.len, NEW i \in 0 .. what.len - 1
      PROVE  mem'[Free + i] = Byte(what, i)
  <2>1. i + 1 \in 1 .. Len(sent) /\ Free + (i + 1) - 1 = Free + i /\ i + 1 - 1 = i
    BY <1>2, <1>3, <1>8
  <2> QED
    BY <1>3, <1>6, <1>8, <2>1
<1> QED
  BY <1>5, <1>7, <1>8

\* A whole chunk is its longest prefix.
LEMMA WholeChunk ==
  ASSUME NEW s \in Seq(Cell)
  PROVE  Len(s) \in 0 .. Len(s) /\ SubSeq(s, 1, Len(s)) = s
BY PrefixOfChunk, SeqEqual

LEMMA WriteDataInv == ASSUME Whole, WriteData PROVE Whole'
<1>1. /\ pc = "write_data" /\ pc' = "write_index" /\ mem' = Put(mem, ChunkAt, ChunkCells)
      /\ UNCHANGED <<held, sb, name, what, target, ent, to, off, cur, wi, ws, writes, torn>>
  BY DEF WriteData, Transmit, ramVars
<1>2. ChunkCells = Bytes(what)
  BY <1>1 DEF ChunkCells, DeletePCs
<1>3. /\ Len(ChunkCells) \in 0 .. Len(ChunkCells)
      /\ SubSeq(ChunkCells, 1, Len(ChunkCells)) = ChunkCells
      /\ Len(ChunkCells) = what.len
  BY <1>2, BytesAreCells, WholeChunk DEF Whole, TypeOK
<1>4. /\ VolumeOK' /\ Free' = Free /\ Idx' = Idx
      /\ \A a \in Idx .. VolSlot : mem'[a] = mem[a]
      /\ \A i \in 0 .. what.len - 1 : mem'[Free + i] = Byte(what, i)
  BY <1>1, <1>3, WriteDataVolume
<1>5. TypeOK' /\ ~torn'
  BY <1>1, <1>4 DEF Whole, TypeOK, VolumeOK, PCs, WritePCs
<1>6. SuperBlockOK' /\ BoundaryOK' /\ IndexOK'
  BY <1>1, <1>4 DEF Whole, VolumeOK, SuperBlockOK, IndexOK, ReadSb, Free, Idx, WritePCs, CompactPCs
<1>7. HeldOK'
  BY <1>1, <1>4 DEF Whole, HeldOK, FormatPCs, CompactPCs, DeletePCs
<1>8. WriteOK' /\ CompactOK'
  BY <1>1, <1>4 DEF Whole, WriteOK, CompactOK, WritePCs
<1> QED
  BY <1>5, <1>6, <1>7, <1>8 DEF Whole

\* A one-cell chunk and a two-cell chunk.
LEMMA OneCell ==
  ASSUME NEW x \in Cell
  PROVE  <<x>> \in Seq(Cell) /\ Len(<<x>>) = 1 /\ <<x>>[1] = x
OBVIOUS

LEMMA TwoCells ==
  ASSUME NEW x \in Cell, NEW y \in Cell
  PROVE  <<x, y>> \in Seq(Cell) /\ Len(<<x, y>>) = 2 /\ <<x, y>>[1] = x /\ <<x, y>>[2] = y
OBVIOUS

\* The kernel's records and markers are cells.
LEMMA KernelCells ==
  /\ Stub \in Cell /\ Vol \in Cell
  /\ \A a \in Addr : Ptr(a) \in Cell /\ Ptr(a).type = "ptr" /\ Ptr(a).to = a
  /\ \A n \in Names, a \in Addr, p \in Payload :
       FileEntry(n, a, p) \in Entry /\ FileEntry(n, a, p) \in Cell
<1>1. Stub \in Cell /\ Vol \in Cell
  <2>1. Stub \in Entry
    BY ConstantsAssumption DEF Stub, Entry, AnyPayload, Payload, Addr
  <2> QED
    BY <2>1 DEF Cell
<1>2. ASSUME NEW a \in Addr
      PROVE  Ptr(a) \in Cell /\ Ptr(a).type = "ptr" /\ Ptr(a).to = a
  BY DEF Cell, Ptr
<1>3. ASSUME NEW n \in Names, NEW a \in Addr, NEW p \in Payload
      PROVE  FileEntry(n, a, p) \in Entry /\ FileEntry(n, a, p) \in Cell
  BY PayloadLen DEF Cell, FileEntry, Entry
<1> QED
  BY <1>1, <1>2, <1>3

\* The stub and the new entry go to the boundary slot and the one below it:
\* the super block does not reach them yet.
LEMMA WriteIndexVolume ==
  ASSUME Whole, pc = "write_index", NEW k \in 0 .. Len(ChunkCells),
         mem' = Put(mem, ChunkAt, SubSeq(ChunkCells, 1, k))
  PROVE  /\ VolumeOK' /\ Free' = Free /\ Idx' = Idx
         /\ Len(ChunkCells) = 2 /\ ChunkCells \in Seq(Cell)
         /\ \A a \in Idx + 1 .. VolSlot : mem'[a] = mem[a]
         /\ Findable(mem[Idx]) => Findable(mem'[Idx])
         /\ k = 2 => /\ mem'[Idx] = FileEntry(name, Free, what) /\ mem'[Idx - 1] = Stub
                     /\ \A i \in 0 .. what.len - 1 : mem'[Free + i] = Byte(what, i)
<1>1. /\ sb.free = Free /\ sb.idx = Idx
      /\ what \in Payload /\ what.len \in Nat /\ name \in Names
      /\ Free + what.len <= Idx - 1
      /\ \A i \in 0 .. what.len - 1 : mem[Free + i] = Byte(what, i)
  BY PayloadLen DEF Whole, TypeOK, WriteOK, WritePCs, SuperBlockOK, ReadSb, Free, Idx
<1>2. /\ Free \in Nat /\ Free \in Addr /\ 2 <= Free /\ Idx \in Int /\ Idx \in Addr /\ Idx <= FirstSlot
      /\ FirstSlot < MemSize /\ MemSize \in Int /\ FirstSlot \in Int /\ VolSlot = MemSize - 1
  BY Pointers DEF Whole, FirstSlot, Addr
<1> DEFINE e == FileEntry(name, Free, what)
           sent == SubSeq(ChunkCells, 1, k)
<1>3. ChunkAt = Idx - 1 /\ Idx - 1 \in Nat
  <2>1. ChunkAt = Wrap(Idx - 1)
    BY <1>1 DEF ChunkAt, StubSlot, DeletePCs
  <2> QED
    BY <2>1, <1>1, <1>2 DEF Wrap
<1>4. /\ ChunkCells = <<Stub, e>> /\ Stub \in Cell /\ e \in Cell /\ e \in Entry
  BY <1>1, <1>2, KernelCells DEF ChunkCells, WrittenIndex, DeletePCs
<1>5. /\ ChunkCells \in Seq(Cell) /\ Len(ChunkCells) = 2
      /\ ChunkCells[1] = Stub /\ ChunkCells[2] = e
  BY <1>4, TwoCells
<1>6. /\ sent \in Seq(Cell) /\ Len(sent) = k /\ k \in 0 .. 2
      /\ \A i \in 1 .. k : sent[i] = ChunkCells[i]
  BY <1>5, PrefixOfChunk
<1>7. mem' = Put(mem, Idx - 1, sent) /\ Idx - 1 + Len(sent) <= MemSize
  BY <1>2, <1>3, <1>6
<1> HIDE DEF sent
<1>8. /\ mem' \in [Addr -> Cell]
      /\ \A a \in Addr : a < Idx - 1 \/ Idx - 1 + k <= a => mem'[a] = mem[a]
      /\ \A i \in 1 .. k : mem'[Idx - 1 + i - 1] = sent[i]
  BY <1>3, <1>6, <1>7, Transmitted DEF Whole
<1>9. /\ mem'[0] = mem[0] /\ mem'[1] = mem[1]
      /\ \A a \in Idx + 1 .. VolSlot : mem'[a] = mem[a]
      /\ \A a \in SbSize .. Free + what.len - 1 : mem'[a] = mem[a]
  BY <1>1, <1>2, <1>6, <1>8 DEF Addr, SbSize
<1>10. Free' = Free /\ Idx' = Idx
  BY <1>9 DEF Free, Idx
<1>11. k = 2 => mem'[Idx] = e /\ mem'[Idx - 1] = Stub
  <2>1. ASSUME k = 2
        PROVE  /\ 1 \in 1 .. k /\ Idx - 1 + 1 - 1 = Idx - 1
               /\ 2 \in 1 .. k /\ Idx - 1 + 2 - 1 = Idx
    BY <1>2, <2>1
  <2> QED
    BY <2>1, <1>5, <1>6, <1>8
<1>12. k # 2 => mem'[Idx] = mem[Idx]
  BY <1>2, <1>6, <1>8
<1>13. BoundaryOK' /\ (Findable(mem[Idx]) => Findable(mem'[Idx]))
  <2>1. CASE k = 2
    <3>1. e.type = "FILE" /\ e.name = name /\ e.len = what.len
      BY DEF FileEntry
    <3>2. SbSize + what.len <= Idx - 1
      BY <1>1, <1>2 DEF SbSize
    <3> HIDE DEF e
    <3> QED
      BY <2>1, <3>1, <3>2, <1>1, <1>10, <1>11 DEF BoundaryOK, IsEntry, Findable
  <2>2. CASE k # 2
    BY <2>2, <1>10, <1>12 DEF Whole, BoundaryOK
  <2> QED
    BY <2>1, <2>2
<1>14. Filed(mem', Idx + 1, FirstSlot, SbSize, Free)
  <2>1. Filed(mem, Idx + 1, FirstSlot, SbSize, Free)
    BY DEF Whole, IndexOK, CompactPCs
  <2>2. \A a \in Idx + 1 .. FirstSlot : mem'[a] = mem[a]
    BY <1>2, <1>9
  <2>3. \A x \in SbSize .. Free - 1 : mem'[x] = mem[x]
    BY <1>1, <1>2, <1>9 DEF SbSize
  <2>4. mem \in [Addr -> Cell] /\ SbSize \in Int /\ Idx + 1 \in Int /\ 0 <= Idx + 1
    BY <1>2 DEF Whole, TypeOK, SbSize, Addr
  <2> QED
    BY <1>2, <1>8, <2>1, <2>2, <2>3, <2>4, FiledFrame
<1>15. VolumeOK'
  BY <1>8, <1>9, <1>10, <1>13, <1>14 DEF Whole, SuperBlockOK, PointersOrdered, VolumeOK
<1>16. \A i \in 0 .. what.len - 1 : mem'[Free + i] = Byte(what, i)
  BY <1>1, <1>2, <1>9 DEF SbSize
<1> QED
  BY <1>5, <1>9, <1>10, <1>11, <1>13, <1>15, <1>16

LEMMA WriteIndexInv == ASSUME Whole, WriteIndex PROVE Whole'
<1>1. /\ pc = "write_index" /\ pc' = "write_sb" /\ mem' = Put(mem, ChunkAt, ChunkCells)
      /\ UNCHANGED <<held, sb, name, what, target, ent, to, off, cur, wi, ws, writes, torn>>
  BY DEF WriteIndex, Transmit, ramVars
<1>2. ChunkCells \in Seq(Cell) /\ Len(ChunkCells) = 2
  BY <1>1, KernelCells, TwoCells, Pointers
  DEF ChunkCells, WrittenIndex, DeletePCs, Whole, TypeOK, SuperBlockOK, ReadSb, Free, WritePCs
<1>3. mem' = Put(mem, ChunkAt, SubSeq(ChunkCells, 1, 2)) /\ 2 \in 0 .. Len(ChunkCells)
  BY <1>1, <1>2, WholeChunk
<1>4. /\ VolumeOK' /\ Free' = Free /\ Idx' = Idx
      /\ \A a \in Idx + 1 .. VolSlot : mem'[a] = mem[a]
      /\ Findable(mem[Idx]) => Findable(mem'[Idx])
      /\ mem'[Idx] = FileEntry(name, Free, what) /\ mem'[Idx - 1] = Stub
      /\ \A i \in 0 .. what.len - 1 : mem'[Free + i] = Byte(what, i)
  BY <1>1, <1>3, WriteIndexVolume
<1>5. TypeOK' /\ ~torn'
  BY <1>1, <1>4 DEF Whole, TypeOK, VolumeOK, PCs, WritePCs
<1>6. SuperBlockOK' /\ BoundaryOK' /\ IndexOK'
  BY <1>1, <1>4 DEF Whole, VolumeOK, SuperBlockOK, IndexOK, ReadSb, Free, Idx, WritePCs, CompactPCs
<1>7. HeldOK'
  <2>1. Idx \in Int /\ VolSlot \in Int
    BY Pointers DEF Whole
  <2>2. ASSUME held # NoId
        PROVE  held \in Idx .. VolSlot /\ Findable(mem'[held])
    <3>1. held \in Idx .. VolSlot /\ Findable(mem[held])
      BY <2>2 DEF Whole, HeldOK
    <3>2. held = Idx \/ held \in Idx + 1 .. VolSlot
      BY <2>1, <3>1
    <3> QED
      BY <1>4, <3>1, <3>2
  <2> QED
    BY <1>1, <1>4, <2>2 DEF HeldOK, FormatPCs, CompactPCs, DeletePCs
<1>8. WriteOK'
  BY <1>1, <1>4 DEF Whole, WriteOK, WritePCs
<1>9. CompactOK'
  BY <1>1, <1>4 DEF CompactOK
<1> QED
  BY <1>5, <1>6, <1>7, <1>8, <1>9 DEF Whole

\* The new file is in the slab and its entry in the boundary slot: whatever the
\* super block says between the old volume and the new one is a volume.
LEMMA WriteSbCells ==
  ASSUME Whole, pc = "write_sb", mem' \in [Addr -> Cell], NEW f \in Int, NEW x \in Int,
         mem'[0].type = "ptr", mem'[0].to = f, mem'[1].type = "ptr", mem'[1].to = x,
         Free <= f, f <= Free + what.len,
         x = Idx \/ (x = Idx - 1 /\ f = Free + what.len),
         \A a \in SbSize .. VolSlot : mem'[a] = mem[a]
  PROVE  VolumeOK'
<1>1. /\ what \in Payload /\ what.len \in Nat /\ name \in Names
      /\ Free + what.len <= Idx - 1
      /\ \A i \in 0 .. what.len - 1 : mem[Free + i] = Byte(what, i)
      /\ mem[Idx] = FileEntry(name, Free, what) /\ mem[Idx - 1] = Stub
  BY PayloadLen DEF Whole, TypeOK, WriteOK, WritePCs
<1>2. /\ Free \in Int /\ 2 <= Free /\ Idx \in Int /\ Idx <= FirstSlot
      /\ FirstSlot < MemSize /\ MemSize \in Int /\ FirstSlot \in Int /\ VolSlot = MemSize - 1
  BY Pointers DEF Whole, FirstSlot
<1>3. Free' = f /\ Idx' = x /\ f <= Idx - 1
  BY <1>1, <1>2 DEF Free, Idx
<1>4. Filed(mem', Idx + 1, FirstSlot, SbSize, Free) /\ Filed(mem', Idx + 1, FirstSlot, SbSize, f)
  <2>1. \A a \in Idx + 1 .. FirstSlot : mem'[a] = mem[a]
    BY <1>1, <1>2 DEF SbSize
  <2>2. \A y \in SbSize .. Free - 1 : mem'[y] = mem[y]
    BY <1>1, <1>2 DEF SbSize
  <2>3. mem \in [Addr -> Cell] /\ SbSize \in Int /\ Idx + 1 \in Int /\ 0 <= Idx + 1
    BY <1>1, <1>2 DEF Whole, TypeOK, SbSize
  <2>4. Filed(mem, Idx + 1, FirstSlot, SbSize, Free)
    BY DEF Whole, IndexOK, CompactPCs, WritePCs
  <2> QED
    BY <1>2, <2>1, <2>2, <2>3, <2>4, FiledFrame
<1>5. mem'[Idx] = mem[Idx] /\ mem'[Idx - 1] = Stub /\ mem[Idx].type = "FILE"
  <2>1. Idx \in SbSize .. VolSlot /\ Idx - 1 \in SbSize .. VolSlot
    BY <1>1, <1>2 DEF SbSize
  <2> QED
    BY <1>1, <2>1 DEF FileEntry
<1>6. PointersOrdered'
  BY <1>1, <1>2, <1>3 DEF PointersOrdered, SbSize
<1>7. CASE x = Idx
  <2>1. BoundaryOK'
    BY <1>3, <1>5, <1>7 DEF Whole, BoundaryOK
  <2> QED
    BY <1>3, <1>4, <1>6, <1>7, <2>1 DEF VolumeOK
<1>8. CASE x = Idx - 1 /\ f = Free + what.len
  <2>1. BoundaryOK'
    BY <1>3, <1>5, <1>8 DEF BoundaryOK, Stub, IsEntry
  <2>2. /\ IsRecord(mem'[Idx]) /\ mem'[Idx].start = Free /\ mem'[Idx].len = what.len
        /\ mem'[Idx].what = what
    BY <1>1, <1>5 DEF IsRecord, FileEntry
  <2>3. End(mem'[Idx]) = f
    BY <2>2, <1>8 DEF End
  <2>4. Holds(mem', mem'[Idx], 0)
    <3>1. ASSUME NEW i \in 0 .. what.len - 1
          PROVE  mem'[Free + i] = Byte(what, i)
      <4>1. Free + i \in SbSize .. VolSlot
        BY <1>1, <1>2 DEF SbSize
      <4> QED
        BY <1>1, <4>1
    <3> QED
      BY <2>2, <3>1 DEF Holds
  <2>5. Filed(mem', Idx, FirstSlot, SbSize, f)
    <3>1. SbSize <= Free /\ SbSize \in Int /\ 0 <= Idx /\ FirstSlot <= FirstSlot
      BY <1>1, <1>2 DEF SbSize
    <3>2. End(mem'[Idx]) <= f
      BY <2>3
    <3>3. SbSize <= mem'[Idx].start /\ Free <= mem'[Idx].start
      BY <1>2, <2>2, <3>1
    <3>4. mem'[Idx].len = mem'[Idx].what.len
      BY <2>2
    <3>5. Idx \in Int /\ Free \in Int /\ FirstSlot \in Int /\ Idx <= FirstSlot
      BY <1>2
    <3> QED
      BY <1>4, <2>2, <2>4, <3>1, <3>2, <3>3, <3>4, <3>5, FiledExtend
  <2>6. Filed(mem', Idx' + 1, FirstSlot, SbSize, Free')
    BY <1>2, <1>3, <1>8, <2>5
  <2> QED
    BY <1>6, <2>1, <2>6 DEF VolumeOK
<1> QED
  BY <1>7, <1>8

\* The super block goes from the old volume to the one with the new file; in
\* between, the slab is longer and the index is not.
LEMMA WriteSbVolume ==
  ASSUME Whole, pc = "write_sb", NEW k \in 0 .. Len(ChunkCells),
         mem' = Put(mem, ChunkAt, SubSeq(ChunkCells, 1, k))
  PROVE  /\ VolumeOK' /\ Idx' <= Idx /\ Idx' \in Int
         /\ Len(ChunkCells) = 2 /\ ChunkCells \in Seq(Cell)
         /\ mem'[1] = mem[1] \/ Idx' = Idx - 1
         /\ \A a \in SbSize .. VolSlot : mem'[a] = mem[a]
<1>1. /\ sb.free = Free /\ sb.idx = Idx
      /\ what \in Payload /\ what.len \in Nat /\ name \in Names
      /\ Free + what.len <= Idx - 1
      /\ \A i \in 0 .. what.len - 1 : mem[Free + i] = Byte(what, i)
      /\ mem[Idx] = FileEntry(name, Free, what) /\ mem[Idx - 1] = Stub
  BY PayloadLen DEF Whole, TypeOK, WriteOK, WritePCs, SuperBlockOK, ReadSb, Free, Idx
<1>2. /\ Free \in Int /\ 2 <= Free /\ Idx \in Int /\ Idx \in Addr /\ Idx <= FirstSlot
      /\ FirstSlot < MemSize /\ MemSize \in Int /\ FirstSlot \in Int /\ VolSlot = MemSize - 1
      /\ MemSize >= 5
  BY Pointers DEF Whole, FirstSlot
<1> DEFINE free2 == Free + what.len
           sent == SubSeq(ChunkCells, 1, k)
<1>3. free2 \in Addr /\ Idx - 1 \in Addr /\ free2 \in Int /\ free2 <= Idx - 1 /\ Free <= free2
  BY <1>1, <1>2 DEF Addr
<1>4. ChunkAt = 0 /\ ChunkCells = <<Ptr(free2), Ptr(Idx - 1)>>
  BY <1>1, <1>2, <1>3 DEF ChunkAt, ChunkCells, WrittenSb, DeletePCs, Wrap
<1>5. /\ ChunkCells \in Seq(Cell) /\ Len(ChunkCells) = 2
      /\ ChunkCells[1] = Ptr(free2) /\ ChunkCells[2] = Ptr(Idx - 1)
  BY <1>3, <1>4, KernelCells, TwoCells
<1>6. /\ sent \in Seq(Cell) /\ Len(sent) = k /\ k \in 0 .. 2
      /\ \A i \in 1 .. k : sent[i] = ChunkCells[i]
  BY <1>5, PrefixOfChunk
<1>7. mem' = Put(mem, 0, sent) /\ 0 + Len(sent) <= MemSize /\ 0 \in Nat
  BY <1>2, <1>4, <1>6
<1> HIDE DEF sent
<1>8. /\ mem' \in [Addr -> Cell]
      /\ \A a \in Addr : a < 0 \/ 0 + k <= a => mem'[a] = mem[a]
      /\ \A i \in 1 .. k : mem'[0 + i - 1] = sent[i]
  BY <1>6, <1>7, Transmitted DEF Whole
<1>9. ASSUME NEW a \in SbSize .. VolSlot
      PROVE  mem'[a] = mem[a]
  <2>1. a \in Addr /\ a \in Int /\ 0 + k <= a
    BY <1>2, <1>6 DEF Addr, SbSize
  <2> QED
    BY <2>1, <1>8
<1>10. k = 0 => mem'[0] = mem[0] /\ mem'[1] = mem[1]
  BY <1>2, <1>8 DEF Addr
<1>11. k = 1 => mem'[0] = Ptr(free2) /\ mem'[1] = mem[1]
  <2>1. ASSUME k = 1
        PROVE  mem'[0] = Ptr(free2)
    <3>1. 1 \in 1 .. k /\ 0 + 1 - 1 = 0
      BY <2>1
    <3> QED
      BY <3>1, <1>5, <1>6, <1>8
  <2> QED
    BY <2>1, <1>2, <1>8 DEF Addr
<1>12. k = 2 => mem'[0] = Ptr(free2) /\ mem'[1] = Ptr(Idx - 1)
  <2>1. ASSUME k = 2
        PROVE  /\ 1 \in 1 .. k /\ 0 + 1 - 1 = 0
               /\ 2 \in 1 .. k /\ 0 + 2 - 1 = 1
    BY <2>1
  <2> QED
    BY <2>1, <1>5, <1>6, <1>8
<1>13. CASE k = 2
  <2>1. Free' = free2 /\ Idx' = Idx - 1
    BY <1>13, <1>3, <1>12, KernelCells DEF Free, Idx
  <2>2. /\ mem'[0].type = "ptr" /\ mem'[0].to = free2
        /\ mem'[1].type = "ptr" /\ mem'[1].to = Idx - 1
    BY <1>13, <1>12 DEF Ptr
  <2>3. VolumeOK'
    BY <1>1, <1>2, <1>3, <1>8, <1>9, <2>2, WriteSbCells
  <2> QED
    BY <1>2, <1>5, <1>9, <2>1, <2>3
<1>14. CASE k # 2
  <2>1. mem'[1] = mem[1] /\ mem'[0] \in {mem[0], Ptr(free2)}
    BY <1>14, <1>6, <1>10, <1>11
  <2>2. /\ mem'[0].type = "ptr" /\ mem'[0].to \in {Free, free2}
        /\ mem'[1].type = "ptr" /\ mem'[1].to = Idx
    BY <2>1 DEF Ptr, Whole, SuperBlockOK, Free, Idx
  <2>3. VolumeOK'
    BY <1>1, <1>2, <1>3, <1>8, <1>9, <2>2, WriteSbCells
  <2> QED
    BY <1>2, <1>5, <1>9, <2>1, <2>3 DEF Idx
<1> QED
  BY <1>13, <1>14

LEMMA WriteSbChunk ==
  ASSUME Whole, pc = "write_sb"
  PROVE  ChunkCells \in Seq(Cell) /\ Len(ChunkCells) = 2
<1>1. ChunkCells = <<Ptr(Wrap(sb.free + what.len)), Ptr(Wrap(sb.idx - 1))>>
  BY DEF ChunkCells, WrittenSb, DeletePCs
<1>2. /\ sb.free = Free /\ sb.idx = Idx /\ Free + what.len <= Idx - 1
      /\ what.len \in Nat
  BY PayloadLen DEF Whole, TypeOK, WriteOK, WritePCs, SuperBlockOK, ReadSb, Free, Idx
<1>3. Wrap(sb.free + what.len) \in Addr /\ Wrap(sb.idx - 1) \in Addr
  BY <1>2, Pointers DEF Whole, Wrap, Addr
<1> QED
  BY <1>1, <1>3, KernelCells, TwoCells

LEMMA WriteSbInv == ASSUME Whole, WriteSb PROVE Whole'
<1>1. /\ pc = "write_sb" /\ mem' = Put(mem, ChunkAt, ChunkCells)
      /\ Return /\ UNCHANGED <<held, writes, torn>>
  BY DEF WriteSb, Transmit
<1>2. ChunkCells \in Seq(Cell) /\ Len(ChunkCells) = 2
  BY <1>1, WriteSbChunk
<1>3. mem' = Put(mem, ChunkAt, SubSeq(ChunkCells, 1, 2)) /\ 2 \in 0 .. Len(ChunkCells)
  BY <1>1, <1>2, WholeChunk
<1>4. VolumeOK' /\ Idx' <= Idx /\ Idx' \in Int /\ \A a \in SbSize .. VolSlot : mem'[a] = mem[a]
  BY <1>1, <1>3, WriteSbVolume
<1>5. ASSUME held' # NoId
      PROVE  held' \in Idx' .. VolSlot /\ Findable(mem'[held'])
  <2>1. held \in Idx .. VolSlot /\ Findable(mem[held]) /\ held' = held
    BY <1>1, <1>5 DEF Whole, HeldOK
  <2>2. held \in SbSize .. VolSlot /\ Idx \in Int /\ VolSlot \in Int
    BY <2>1, Pointers DEF Whole, SbSize
  <2> QED
    BY <1>4, <2>1, <2>2
<1>6. held' \in Addr /\ torn' = FALSE
  BY <1>1 DEF Whole, TypeOK
<1> QED
  BY <1>1, <1>4, <1>5, <1>6, IdleInv DEF Whole

\* One entry becomes a tombstone, or nothing happens.
LEMMA TombstoneVolume ==
  ASSUME Whole, pc \in DeletePCs, NEW k \in 0 .. Len(ChunkCells),
         mem' = Put(mem, ChunkAt, SubSeq(ChunkCells, 1, k))
  PROVE  /\ VolumeOK' /\ Free' = Free /\ Idx' = Idx /\ mem'[0] = mem[0] /\ mem'[1] = mem[1]
         /\ Len(ChunkCells) = 1 /\ ChunkCells \in Seq(Cell)
         /\ \A a \in Idx .. VolSlot : Findable(mem[a]) => Findable(mem'[a])
         /\ \A a \in Idx .. VolSlot : mem'[a] \in {mem[a], [mem[a] EXCEPT !.type = "FILE_DEL"]}
<1>1. /\ target \in Idx .. VolSlot /\ Findable(mem[target])
      /\ ChunkAt = target
      /\ ChunkCells = <<[mem[target] EXCEPT !.type = "FILE_DEL"]>>
  BY DEF Whole, HeldOK, ChunkAt, ChunkCells, DeletePCs
<1>2. /\ Free \in Int /\ 2 <= Free /\ Free <= Idx /\ Idx \in Int /\ Idx \in Addr /\ Idx <= FirstSlot
      /\ FirstSlot < MemSize /\ MemSize \in Int /\ FirstSlot \in Int /\ VolSlot = MemSize - 1
      /\ FirstSlot = VolSlot - 1
  BY Pointers DEF Whole, FirstSlot
<1>3. target \in Addr /\ target \in Nat /\ target + 1 <= MemSize /\ Idx <= target
  BY <1>1, <1>2 DEF Addr
<1> DEFINE e == mem[target]
           d == [e EXCEPT !.type = "FILE_DEL"]
           sent == SubSeq(ChunkCells, 1, k)
<1>4. mem \in [Addr -> Cell] /\ e \in Cell /\ e \in Entry
  BY <1>1, <1>3, EntryIsEntry DEF Whole, TypeOK, Findable
<1>5. d \in Cell /\ d.type = "FILE_DEL" /\ d.start = e.start /\ d.len = e.len /\ d.name = e.name
  BY <1>4 DEF Entry, Cell
<1>6. ChunkCells \in Seq(Cell) /\ Len(ChunkCells) = 1 /\ ChunkCells[1] = d
  BY <1>1, <1>5, OneCell
<1> HIDE DEF d
<1>7. /\ sent \in Seq(Cell) /\ Len(sent) = k /\ k \in 0 .. 1
      /\ \A i \in 1 .. k : sent[i] = ChunkCells[i]
  BY <1>6, PrefixOfChunk
<1> HIDE DEF sent
<1>8. mem' = Put(mem, target, sent) /\ target + Len(sent) <= MemSize
  BY <1>1, <1>2, <1>3, <1>7 DEF sent
<1>9. /\ mem' \in [Addr -> Cell]
      /\ \A a \in Addr : a < target \/ target + k <= a => mem'[a] = mem[a]
      /\ \A i \in 1 .. k : mem'[target + i - 1] = sent[i]
  BY <1>3, <1>7, <1>8, Transmitted DEF Whole
<1>10. \A a \in Addr : a # target => mem'[a] = mem[a]
  BY <1>3, <1>7, <1>9 DEF Addr
<1>11. mem'[target] = mem[target] \/ mem'[target] = d
  <2>1. CASE k = 0
    BY <2>1, <1>3, <1>9
  <2>2. CASE k = 1
    <3>1. 1 \in 1 .. k /\ target + 1 - 1 = target
      BY <2>2, <1>3
    <3> QED
      BY <3>1, <1>6, <1>7, <1>9
  <2> QED
    BY <2>1, <2>2, <1>7
<1>12. 0 \in Addr /\ 1 \in Addr /\ mem'[0] = mem[0] /\ mem'[1] = mem[1]
  BY <1>2, <1>3, <1>10 DEF Addr
<1>13. Free' = Free /\ Idx' = Idx
  BY <1>12 DEF Free, Idx
<1>14. Filed(mem, Idx + 1, FirstSlot, SbSize, Free)
  BY DEF Whole, IndexOK, CompactPCs, DeletePCs
<1>15. Filed(mem', Idx + 1, FirstSlot, SbSize, Free)
  <2>1. CASE mem'[target] = mem[target]
    <3>1. \A a \in Addr : mem'[a] = mem[a]
      BY <2>1, <1>10
    <3>2. mem' = mem
      BY <3>1, <1>4, <1>9
    <3> QED
      BY <3>2, <1>14
  <2>2. CASE mem'[target] = d
    <3>1. /\ Idx + 1 \in Int /\ SbSize \in Int /\ 0 <= Idx + 1 /\ Free <= target
          /\ FirstSlot <= FirstSlot
      BY <1>2, <1>3 DEF SbSize
    <3>2. mem'[target] = [mem[target] EXCEPT !.type = "FILE_DEL"]
      BY <2>2 DEF d
    <3>3. IsEntry(mem[target]) /\ mem' \in [Addr -> Cell] /\ FirstSlot \in Int /\ Free \in Int
      BY <1>1, <1>2, <1>9 DEF Findable
    <3> QED
      BY <3>1, <3>2, <3>3, <1>3, <1>4, <1>10, <1>14, FiledTombstone
  <2> QED
    BY <2>1, <2>2, <1>11
<1>16. ASSUME NEW a \in Idx .. VolSlot, Findable(mem[a])
       PROVE  Findable(mem'[a])
  <2>1. a \in Addr
    BY <1>2 DEF Addr
  <2> QED
    BY <2>1, <1>5, <1>10, <1>11, <1>16 DEF Findable, IsEntry
<1>17. BoundaryOK'
  <2>1. /\ IsEntry(mem[Idx])
        /\ mem[Idx] # Stub => SbSize + mem[Idx].len <= Idx - 1
    BY DEF Whole, BoundaryOK
  <2>2. mem'[Idx] = mem[Idx] \/ (Idx = target /\ mem'[Idx] = d)
    BY <1>2, <1>10, <1>11
  <2>3. CASE mem'[Idx] = mem[Idx]
    BY <2>1, <2>3, <1>13 DEF BoundaryOK
  <2>4. CASE Idx = target /\ mem'[Idx] = d
    <3>1. mem[Idx] # Stub
      BY <2>4, <1>1, ConstantsAssumption DEF Findable, Stub
    <3> QED
      BY <2>1, <2>4, <3>1, <1>5, <1>13 DEF BoundaryOK, IsEntry
  <2> QED
    BY <2>2, <2>3, <2>4
<1>18. VolumeOK'
  BY <1>9, <1>12, <1>13, <1>15, <1>17 DEF Whole, SuperBlockOK, PointersOrdered, VolumeOK
<1>19. ASSUME NEW a \in Idx .. VolSlot
       PROVE  mem'[a] \in {mem[a], [mem[a] EXCEPT !.type = "FILE_DEL"]}
  <2>1. a \in Addr
    BY <1>2 DEF Addr
  <2>2. CASE a = target
    BY <2>2, <1>11 DEF d
  <2>3. CASE a # target
    BY <2>1, <2>3, <1>10
  <2> QED
    BY <2>2, <2>3
<1> QED
  BY <1>6, <1>12, <1>13, <1>16, <1>18, <1>19

LEMMA TombstoneChunk ==
  ASSUME Whole, pc \in DeletePCs
  PROVE  ChunkCells \in Seq(Cell) /\ Len(ChunkCells) = 1
<1>1. mem[target] \in Entry
  BY Pointers, EntryIsEntry DEF Whole, TypeOK, HeldOK, Findable
<1>2. [mem[target] EXCEPT !.type = "FILE_DEL"] \in Cell
  BY <1>1 DEF Entry, Cell
<1>3. ChunkCells = <<[mem[target] EXCEPT !.type = "FILE_DEL"]>>
  BY DEF ChunkCells, DeletePCs
<1> QED
  BY <1>2, <1>3, OneCell

LEMMA DeleteEntryInv == ASSUME Whole, DeleteEntry PROVE Whole'
<1>1. /\ pc = "delete" /\ pc \in DeletePCs /\ mem' = Put(mem, ChunkAt, ChunkCells)
      /\ Return /\ UNCHANGED <<held, writes, torn>>
  BY DEF DeleteEntry, Transmit, DeletePCs
<1>2. /\ 1 \in 0 .. Len(ChunkCells) /\ mem' = Put(mem, ChunkAt, SubSeq(ChunkCells, 1, 1))
  BY <1>1, TombstoneChunk, WholeChunk
<1>3. /\ VolumeOK' /\ Idx' = Idx
      /\ \A a \in Idx .. VolSlot : Findable(mem[a]) => Findable(mem'[a])
  BY <1>1, <1>2, TombstoneVolume
<1>4. held' \in Addr /\ torn' = FALSE /\ (held' # NoId => held' \in Idx' .. VolSlot /\ Findable(mem'[held']))
  BY <1>1, <1>3 DEF Whole, TypeOK, HeldOK
<1> QED
  BY <1>1, <1>3, <1>4, IdleInv DEF Whole

LEMMA UpdateDeleteInv == ASSUME Whole, UpdateDelete PROVE Whole'
<1>1. /\ pc = "update_delete" /\ pc \in DeletePCs /\ mem' = Put(mem, ChunkAt, ChunkCells)
      /\ pc' = "write_data" /\ sb' = ReadSb
      /\ UNCHANGED <<held, name, what, target, ent, to, off, cur, wi, ws, writes, torn>>
  BY DEF UpdateDelete, Transmit, DeletePCs
<1>2. /\ 1 \in 0 .. Len(ChunkCells) /\ mem' = Put(mem, ChunkAt, SubSeq(ChunkCells, 1, 1))
  BY <1>1, TombstoneChunk, WholeChunk
<1>3. /\ VolumeOK' /\ Free' = Free /\ Idx' = Idx /\ mem'[0] = mem[0] /\ mem'[1] = mem[1]
      /\ \A a \in Idx .. VolSlot : Findable(mem[a]) => Findable(mem'[a])
  BY <1>1, <1>2, TombstoneVolume
<1>4. TypeOK' /\ ~torn'
  <2>1. sb' \in [free : Addr, idx : Addr]
    BY <1>1, Pointers DEF Whole, ReadSb, Free, Idx
  <2> QED
    BY <1>1, <1>3, <2>1 DEF Whole, TypeOK, VolumeOK, PCs, WritePCs
<1>5. SuperBlockOK' /\ BoundaryOK' /\ IndexOK'
  BY <1>1, <1>3 DEF VolumeOK, SuperBlockOK, IndexOK, ReadSb, WritePCs, CompactPCs
<1>6. HeldOK'
  BY <1>1, <1>3 DEF Whole, HeldOK, FormatPCs, CompactPCs, DeletePCs
<1>7. WriteOK' /\ CompactOK'
  BY <1>1, <1>3 DEF Whole, WriteOK, CompactOK, WritePCs
<1> QED
  BY <1>4, <1>5, <1>6, <1>7 DEF Whole

\* The super block of a format empties the volume in one transaction.
LEMMA FormatSbInv == ASSUME Whole, FormatSb PROVE Whole'
<1>1. /\ pc = "format_sb" /\ pc' = "format_stub" /\ mem' = Put(mem, ChunkAt, ChunkCells)
      /\ UNCHANGED <<held, sb, name, what, target, ent, to, off, cur, wi, ws, writes, torn>>
  BY DEF FormatSb, Transmit, ramVars
<1>2. ChunkAt = 0 /\ ChunkCells = <<Ptr(2), Ptr(FirstSlot)>>
  BY <1>1 DEF ChunkAt, ChunkCells, SbSize, DeletePCs
<1>3. /\ Free \in Int /\ 2 <= Free /\ Free <= Idx /\ Idx \in Int /\ Idx \in Addr /\ Idx <= FirstSlot
      /\ FirstSlot < MemSize /\ MemSize \in Int /\ FirstSlot \in Int /\ FirstSlot \in Addr
      /\ 2 \in Addr /\ 2 < MemSize /\ 2 <= FirstSlot /\ MemSize >= 5
  BY Pointers DEF Whole, FirstSlot, Addr
<1>4. /\ ChunkCells \in Seq(Cell) /\ Len(ChunkCells) = 2
      /\ ChunkCells[1] = Ptr(2) /\ ChunkCells[2] = Ptr(FirstSlot)
  BY <1>2, <1>3, KernelCells, TwoCells
<1>5. /\ mem' \in [Addr -> Cell]
      /\ \A a \in Addr : a < 0 \/ 0 + 2 <= a => mem'[a] = mem[a]
      /\ \A i \in 1 .. 2 : mem'[0 + i - 1] = ChunkCells[i]
  <2>1. 0 \in Nat /\ 0 + Len(ChunkCells) <= MemSize /\ mem' = Put(mem, 0, ChunkCells)
    BY <1>1, <1>2, <1>3, <1>4
  <2> QED
    BY <2>1, <1>4, Transmitted DEF Whole
<1>6. mem'[0] = Ptr(2) /\ mem'[1] = Ptr(FirstSlot) /\ mem'[FirstSlot] = mem[FirstSlot]
  <2>1. 1 \in 1 .. 2 /\ 0 + 1 - 1 = 0 /\ 2 \in 1 .. 2 /\ 0 + 2 - 1 = 1 /\ 0 + 2 <= FirstSlot
    BY <1>3
  <2> QED
    BY <2>1, <1>3, <1>4, <1>5
<1>7. Free' = 2 /\ Idx' = FirstSlot /\ mem'[0].type = "ptr" /\ mem'[1].type = "ptr"
  BY <1>6 DEF Free, Idx, Ptr
<1>8. BoundaryOK'
  <2>1. CASE Idx = FirstSlot
    BY <2>1, <1>6, <1>7 DEF Whole, BoundaryOK
  <2>2. CASE Idx < FirstSlot
    <3>1. /\ Filed(mem, Idx + 1, FirstSlot, SbSize, Free)
          /\ FirstSlot \in Idx + 1 .. FirstSlot
      BY <2>2, <1>1, <1>3 DEF Whole, IndexOK, CompactPCs
    <3>2. /\ IsRecord(mem[FirstSlot]) /\ SbSize <= mem[FirstSlot].start
          /\ End(mem[FirstSlot]) <= Free
      BY <3>1 DEF Filed
    <3>3. mem[FirstSlot].start \in Int /\ mem[FirstSlot].len \in Int
      BY <1>3, <3>2, RecordIsEntry, ConstantsAssumption DEF Whole, TypeOK, Addr
    <3>4. mem[FirstSlot].start + mem[FirstSlot].len <= Free /\ 2 <= mem[FirstSlot].start
      BY <3>2 DEF End, SbSize
    <3>5. SbSize + mem[FirstSlot].len <= FirstSlot - 1
      BY <1>3, <2>2, <3>3, <3>4 DEF SbSize
    <3> QED
      BY <1>6, <1>7, <3>2, <3>5 DEF BoundaryOK, IsRecord, IsEntry
  <2> QED
    BY <1>3, <2>1, <2>2
<1>9. SuperBlockOK' /\ IndexOK'
  <2>1. Filed(mem', FirstSlot + 1, FirstSlot, SbSize, 2)
    BY <1>3, FiledEmpty
  <2> QED
    BY <1>1, <1>3, <1>7, <2>1 DEF SuperBlockOK, PointersOrdered, IndexOK, SbSize, WritePCs, CompactPCs
<1>10. TypeOK' /\ ~torn'
  BY <1>1, <1>5 DEF Whole, TypeOK, PCs, FormatPCs
<1>11. HeldOK' /\ WriteOK' /\ CompactOK'
  BY <1>1 DEF Whole, HeldOK, WriteOK, CompactOK, FormatPCs, DeletePCs, WritePCs
<1> QED
  BY <1>8, <1>9, <1>10, <1>11 DEF Whole

\* The two markers of a format go outside of what the volume uses.
LEMMA MarkerVolume ==
  ASSUME Whole, pc \in {"format_stub", "format_vol"}, NEW k \in 0 .. Len(ChunkCells),
         mem' = Put(mem, ChunkAt, SubSeq(ChunkCells, 1, k))
  PROVE  /\ VolumeOK' /\ Free' = SbSize /\ Idx' = FirstSlot
         /\ Len(ChunkCells) = 1 /\ ChunkCells \in Seq(Cell)
<1>1. /\ Free = SbSize /\ Idx = FirstSlot
      /\ FirstSlot < MemSize /\ MemSize \in Int /\ FirstSlot \in Int /\ FirstSlot \in Addr
      /\ VolSlot \in Addr /\ VolSlot = MemSize - 1 /\ FirstSlot = VolSlot - 1 /\ MemSize >= 5
      /\ VolSlot \in Int
  BY Pointers DEF Whole, SuperBlockOK, FirstSlot
<1> DEFINE at == ChunkAt
           sent == SubSeq(ChunkCells, 1, k)
<1>2. /\ at \in {FirstSlot, VolSlot}
      /\ at = FirstSlot => ChunkCells = <<Stub>>
      /\ at = VolSlot => ChunkCells = <<Vol>>
  <2>1. CASE pc = "format_stub"
    <3>1. ChunkAt = FirstSlot /\ ChunkCells = <<Stub>>
      BY <2>1 DEF ChunkAt, ChunkCells, DeletePCs
    <3> QED
      BY <3>1, <1>1
  <2>2. CASE pc = "format_vol"
    <3>1. ChunkAt = VolSlot /\ ChunkCells = <<Vol>>
      BY <2>2 DEF ChunkAt, ChunkCells, DeletePCs
    <3> QED
      BY <3>1, <1>1
  <2> QED
    BY <2>1, <2>2
<1>3. /\ ChunkCells \in Seq(Cell) /\ Len(ChunkCells) = 1
      /\ at = FirstSlot => ChunkCells[1] = Stub
  BY <1>2, KernelCells, OneCell
<1>4. /\ sent \in Seq(Cell) /\ Len(sent) = k /\ k \in 0 .. 1
      /\ \A i \in 1 .. k : sent[i] = ChunkCells[i]
  BY <1>3, PrefixOfChunk
<1> HIDE DEF sent, at
<1>5. mem' = Put(mem, at, sent) /\ at \in Nat /\ at + Len(sent) <= MemSize
  BY <1>1, <1>2, <1>4 DEF sent, at
<1>6. /\ mem' \in [Addr -> Cell]
      /\ \A a \in Addr : a < at \/ at + k <= a => mem'[a] = mem[a]
      /\ \A i \in 1 .. k : mem'[at + i - 1] = sent[i]
  BY <1>4, <1>5, Transmitted DEF Whole
<1>7. mem'[0] = mem[0] /\ mem'[1] = mem[1]
  BY <1>1, <1>2, <1>6 DEF Addr
<1>8. Free' = SbSize /\ Idx' = FirstSlot
  BY <1>1, <1>7 DEF Free, Idx
<1>9. mem'[FirstSlot] = mem[FirstSlot] \/ mem'[FirstSlot] = Stub
  <2>1. CASE k = 1 /\ at = FirstSlot
    <3>1. 1 \in 1 .. k /\ at + 1 - 1 = at
      BY <2>1, <1>5
    <3> QED
      BY <2>1, <3>1, <1>3, <1>4, <1>6
  <2>2. CASE k = 0 \/ at = VolSlot
    BY <2>2, <1>1, <1>2, <1>5, <1>6
  <2> QED
    BY <2>1, <2>2, <1>2, <1>4
<1>10. BoundaryOK'
  BY <1>1, <1>8, <1>9 DEF Whole, BoundaryOK, Stub, IsEntry
<1>11. Filed(mem', FirstSlot + 1, FirstSlot, SbSize, SbSize)
  BY <1>1, FiledEmpty
<1>12. PointersOrdered'
  BY <1>1, <1>8 DEF PointersOrdered, SbSize
<1> QED
  BY <1>3, <1>6, <1>7, <1>8, <1>10, <1>11, <1>12 DEF Whole, SuperBlockOK, VolumeOK

LEMMA FormatStubInv == ASSUME Whole, FormatStub PROVE Whole'
<1>1. /\ pc = "format_stub" /\ pc' = "format_vol" /\ mem' = Put(mem, ChunkAt, ChunkCells)
      /\ UNCHANGED <<held, sb, name, what, target, ent, to, off, cur, wi, ws, writes, torn>>
  BY DEF FormatStub, Transmit, ramVars
<1>2. ChunkCells \in Seq(Cell) /\ Len(ChunkCells) = 1
  BY <1>1, KernelCells, OneCell DEF ChunkCells, DeletePCs
<1>3. VolumeOK' /\ Free' = SbSize /\ Idx' = FirstSlot
  BY <1>1, <1>2, WholeChunk, MarkerVolume
<1>4. TypeOK' /\ ~torn'
  BY <1>1, <1>3 DEF Whole, TypeOK, VolumeOK, PCs, FormatPCs
<1>5. SuperBlockOK' /\ BoundaryOK' /\ IndexOK'
  BY <1>1, <1>3 DEF VolumeOK, SuperBlockOK, IndexOK, WritePCs, CompactPCs
<1>6. HeldOK' /\ WriteOK' /\ CompactOK'
  BY <1>1 DEF Whole, HeldOK, WriteOK, CompactOK, FormatPCs, DeletePCs, WritePCs
<1> QED
  BY <1>4, <1>5, <1>6 DEF Whole

LEMMA FormatVolInv == ASSUME Whole, FormatVol PROVE Whole'
<1>1. /\ pc = "format_vol" /\ mem' = Put(mem, ChunkAt, ChunkCells)
      /\ Return /\ UNCHANGED <<held, writes>> /\ torn' = FALSE
  BY DEF FormatVol, Transmit
<1>2. ChunkCells \in Seq(Cell) /\ Len(ChunkCells) = 1
  BY <1>1, KernelCells, OneCell DEF ChunkCells, DeletePCs
<1>3. VolumeOK'
  BY <1>1, <1>2, WholeChunk, MarkerVolume
<1>4. held' = NoId /\ held' \in Addr
  BY <1>1 DEF Whole, TypeOK, HeldOK, FormatPCs
<1> QED
  BY <1>1, <1>3, <1>4, IdleInv DEF Whole

-----------------------------------------------------------------------------
(* Compaction. *)

\* A step inside a compaction leaves the super block and the caller alone; the
\* invariant then is about the boundary slot and the cursors.
LEMMA CompactStep ==
  ASSUME Whole, pc \in CompactPCs, pc' \in CompactPCs,
         mem' \in [Addr -> Cell], mem'[0] = mem[0], mem'[1] = mem[1],
         UNCHANGED <<held, sb, name, what, target, writes, torn>>,
         ent' \in Entry, to' \in Addr, off' \in Addr,
         cur' \in Addr, wi' \in Addr, ws' \in Addr,
         BoundaryOK', CompactOK'
  PROVE  Whole'
<1>1. TypeOK' /\ ~torn'
  BY DEF Whole, TypeOK, PCs
<1>2. SuperBlockOK' /\ IndexOK'
  BY DEF Whole, SuperBlockOK, PointersOrdered, IndexOK, ReadSb, Free, Idx, CompactPCs, WritePCs
<1>3. HeldOK' /\ WriteOK'
  BY DEF Whole, HeldOK, WriteOK, FormatPCs, CompactPCs, WritePCs, DeletePCs
<1> QED
  BY <1>1, <1>2, <1>3 DEF Whole

\* The numbers a compaction works with.
LEMMA Cursors ==
  ASSUME Whole, pc \in CompactPCs
  PROVE  /\ Free \in Int /\ 2 <= Free /\ Free <= Idx /\ Idx \in Int /\ Idx <= FirstSlot
         /\ Idx \in Addr /\ Free \in Addr /\ FirstSlot \in Int /\ FirstSlot < MemSize
         /\ MemSize \in Int /\ Addr = 0 .. MemSize - 1 /\ SbSize = 2 /\ MemSize >= 5
         /\ sb.idx = Idx
         /\ cur \in Int /\ wi \in Int /\ ws \in Int /\ to \in Int /\ off \in Int
         /\ 0 <= off /\ 0 <= cur /\ 0 <= wi /\ 0 <= ws
         /\ mem \in [Addr -> Cell]
<1>1. /\ cur \in Addr /\ wi \in Addr /\ ws \in Addr /\ to \in Addr /\ off \in Addr
      /\ mem \in [Addr -> Cell]
  BY ConstantsAssumption DEF Whole, TypeOK
<1>2. sb.idx = Idx
  BY DEF Whole, SuperBlockOK, ReadSb, Idx
<1> QED
  BY <1>1, <1>2, Pointers DEF Whole, FirstSlot, Addr, SbSize

\* An entry that FS_COMPACT drops: the two runs meet one slot lower.
LEMMA CompactSkipInv == ASSUME Whole, CompactSkip PROVE Whole'
<1>1. /\ pc = "compact_next" /\ pc \in CompactPCs /\ mem' = mem /\ AdvanceFrom(cur)
      /\ UNCHANGED <<held, sb, name, what, target, ent, to, off, wi, ws, writes, torn>>
  BY DEF CompactSkip, CompactPCs
<1>2. /\ Idx <= cur /\ (Idx < cur \/ cur = FirstSlot) /\ cur <= wi /\ wi <= FirstSlot
      /\ 2 <= ws /\ ws <= Free
      /\ Filed(mem, Idx + 1, cur, ws, Free) /\ Filed(mem, wi + 1, FirstSlot, 2, ws)
  BY <1>1 DEF Whole, CompactOK, SbSize
<1>n. /\ Idx \in Int /\ cur \in Int /\ wi \in Int /\ ws \in Int /\ Free \in Int /\ FirstSlot \in Int
      /\ 2 <= Free /\ Free <= Idx /\ SbSize = 2 /\ mem \in [Addr -> Cell]
  BY <1>1, Cursors
<1>3. Idx' = Idx /\ Free' = Free
  BY <1>1 DEF Idx, Free
<1>4. CASE cur - 1 <= Idx
  <2>1. pc' = "compact_stub" /\ cur' = cur
    BY <1>1, <1>4, Cursors DEF AdvanceFrom
  <2>2. CompactOK'
    BY <1>1, <1>2, <1>n, <2>1 DEF CompactOK
  <2> QED
    BY <1>1, <1>3, <2>1, <2>2, CompactStep DEF Whole, TypeOK, BoundaryOK, CompactPCs
<1>5. CASE cur - 1 > Idx
  <2>1. pc' = "compact_next" /\ cur' = cur - 1 /\ cur - 1 \in Addr
    BY <1>1, <1>2, <1>5, Cursors DEF AdvanceFrom
  <2>2. Filed(mem, Idx + 1, cur - 1, ws, Free)
    <3>1. /\ Idx + 1 \in Int /\ cur - 1 \in Int /\ cur - 1 <= cur /\ cur - 1 <= FirstSlot
          /\ 0 <= Idx + 1 /\ cur \in Int /\ ws \in Int /\ Free \in Int /\ mem \in [Addr -> Cell]
      BY <1>2, <1>n
    <3> QED
      BY <3>1, <1>2, FiledFrame
  <2>3. CompactOK'
    BY <1>1, <1>2, <1>3, <1>5, <1>n, <2>1, <2>2 DEF CompactOK
  <2> QED
    BY <1>1, <1>3, <2>1, <2>3, CompactStep DEF Whole, TypeOK, BoundaryOK, CompactPCs
<1> QED
  BY <1>n, <1>4, <1>5

\* The entry at the read cursor is put aside: its data lies below what the
\* index still has, and above what was already moved.
LEMMA CompactTakeInv == ASSUME Whole, CompactTake PROVE Whole'
<1>1. /\ pc = "compact_next" /\ pc \in CompactPCs /\ mem' = mem /\ IsFile(mem[cur])
      /\ ent' = [mem[cur] EXCEPT !.sound = @ /\ cur # sb.idx]
      /\ to' = ws /\ off' = 0
      /\ pc' = IF mem[cur].len = 0 THEN "compact_entry" ELSE "compact_copy"
      /\ UNCHANGED <<held, sb, name, what, target, cur, wi, ws, writes, torn>>
  BY DEF CompactTake, CompactPCs
<1>2. /\ Idx <= cur /\ (Idx < cur \/ cur = FirstSlot) /\ cur <= wi /\ wi <= FirstSlot
      /\ 2 <= ws /\ ws <= Free /\ (cur = FirstSlot => ws = 2)
      /\ Filed(mem, Idx + 1, cur, ws, Free) /\ Filed(mem, wi + 1, FirstSlot, 2, ws)
  BY <1>1 DEF Whole, CompactOK, SbSize
<1>3. Idx' = Idx /\ Free' = Free
  BY <1>1 DEF Idx, Free
<1>4. /\ mem[cur] \in Entry /\ mem[cur].type = "FILE" /\ mem[cur].sound \in BOOLEAN
      /\ mem[cur].start \in Int /\ mem[cur].len \in Int /\ 0 <= mem[cur].len
      /\ IsRecord(mem[cur])
  <2>1. mem[cur] \in Cell /\ IsRecord(mem[cur])
    BY <1>1 DEF Whole, TypeOK, IsFile, IsRecord
  <2> QED
    BY <1>1, <2>1, RecordIsEntry, Cursors DEF IsFile
<1>5. /\ ent' \in Entry /\ ent'.type = "FILE"
      /\ ent'.start = mem[cur].start /\ ent'.len = mem[cur].len /\ ent'.what = mem[cur].what
      /\ ent'.sound => mem[cur].sound /\ cur # Idx
  BY <1>1, <1>4, Cursors DEF Entry
<1>6. End(ent') = End(mem[cur]) /\ End(ent') \in Int
  BY <1>4, <1>5 DEF End
<1>7. /\ ws + mem[cur].len <= cur - 1
      /\ Idx < cur => /\ ws <= mem[cur].start /\ End(mem[cur]) <= Free
                      /\ Filed(mem, Idx + 1, cur - 1, End(mem[cur]), Free)
      /\ ent'.sound => /\ Idx < cur
                       /\ mem[cur].len = mem[cur].what.len /\ Holds(mem, mem[cur], 0)
  <2>1. CASE Idx < cur
    <3>1. /\ Idx + 1 \in Int /\ 0 <= Idx + 1 /\ Idx + 1 <= cur /\ cur <= FirstSlot
          /\ cur \in Int /\ ws \in Int /\ Free \in Int /\ mem \in [Addr -> Cell]
      BY <1>1, <1>2, <2>1, Cursors
    <3>2. /\ ws <= mem[cur].start /\ End(mem[cur]) <= Free
          /\ IsFile(mem[cur]) /\ mem[cur].sound => mem[cur].len = mem[cur].what.len /\ Holds(mem, mem[cur], 0)
          /\ Filed(mem, Idx + 1, cur - 1, End(mem[cur]), Free)
      BY <3>1, <1>2, FiledSplit
    <3>3. mem[cur].start + mem[cur].len <= Free
      BY <3>2 DEF End
    <3>n. Free <= Idx /\ Idx \in Int /\ mem[cur].start \in Int /\ mem[cur].len \in Int
      BY <1>1, <1>4, Cursors
    <3>4. ws + mem[cur].len <= cur - 1
      BY <3>1, <3>2, <3>3, <3>n, <2>1
    <3> QED
      BY <1>1, <1>5, <2>1, <3>2, <3>4
  <2>2. CASE cur = Idx
    <3>1. mem[Idx] # Stub
      BY <2>2, <1>4 DEF Stub
    <3>2. 2 + mem[cur].len <= cur - 1
      BY <2>2, <3>1 DEF Whole, BoundaryOK, SbSize
    <3>3. ws = 2
      BY <1>1, <1>2, <2>2, Cursors
    <3>4. ~ent'.sound /\ ~(Idx < cur)
      BY <2>2, <1>1, <1>5, Cursors
    <3> QED
      BY <3>2, <3>3, <3>4
  <2> QED
    BY <1>1, <1>2, <2>1, <2>2, Cursors
<1>8. MovingOK'
  <2>1. ent'.sound => Holds(mem', ent', 0)
    BY <1>1, <1>5, <1>7 DEF Holds
  <2>2. ws' = to' + off' /\ off' <= ent'.len
    BY <1>1, <1>4, <1>5, Cursors DEF Addr
  <2>3. \A i \in 0 .. off' - 1 : mem'[to' + i] = Byte(ent'.what, i)
    BY <1>1
  <2> QED
    BY <1>1, <1>2, <1>3, <1>5, <1>6, <1>7, <2>1, <2>2, <2>3 DEF MovingOK, SbSize
<1>9. CompactOK'
  <2>1. /\ Idx' < cur' => Filed(mem', Idx' + 1, cur' - 1, End(ent'), Free')
        /\ Filed(mem', wi' + 1, FirstSlot, SbSize, to')
    BY <1>1, <1>2, <1>3, <1>6, <1>7 DEF SbSize
  <2>2. pc' \in {"compact_copy", "compact_entry"} /\ (pc' = "compact_entry" => off' = ent'.len)
    BY <1>1, <1>5
  <2> QED
    BY <1>1, <1>2, <1>3, <1>8, <2>1, <2>2 DEF CompactOK
<1>10. pc' \in CompactPCs /\ off' \in Addr
  BY <1>1, ConstantsAssumption DEF CompactPCs, Addr
<1> QED
  BY <1>1, <1>3, <1>5, <1>9, <1>10, CompactStep DEF Whole, TypeOK, BoundaryOK

\* What the entry being moved promises, in numbers.
LEMMA Moving ==
  ASSUME Whole, pc \in {"compact_copy", "compact_entry"}
  PROVE  /\ ent \in Entry /\ ent.start \in Int /\ ent.len \in Int /\ ent.what \in Payload
         /\ 0 <= ent.len /\ ent.start \in Addr
         /\ Idx <= cur /\ (Idx < cur \/ cur = FirstSlot) /\ cur <= wi /\ wi <= FirstSlot
         /\ MovingOK
         /\ 2 <= to /\ ws = to + off /\ off <= ent.len
         /\ to + ent.len <= cur - 1 /\ to + ent.len <= Idx
         /\ Idx < cur => /\ to <= ent.start /\ ent.start + ent.len <= Free
                         /\ Filed(mem, Idx + 1, cur - 1, End(ent), Free)
         /\ Filed(mem, wi + 1, FirstSlot, 2, to)
<1>1. /\ Idx <= cur /\ (Idx < cur \/ cur = FirstSlot) /\ cur <= wi /\ wi <= FirstSlot
      /\ MovingOK
      /\ Idx < cur => Filed(mem, Idx + 1, cur - 1, End(ent), Free)
      /\ Filed(mem, wi + 1, FirstSlot, 2, to)
  BY DEF Whole, CompactOK, SbSize
<1>2. /\ ent \in Entry /\ ent.start \in Addr /\ ent.len \in Addr /\ ent.what \in Payload
  BY DEF Whole, TypeOK, Entry
<1>3. pc \in CompactPCs
  BY DEF CompactPCs
<1>4. ent.start \in Int /\ ent.len \in Int /\ 0 <= ent.len
  BY <1>2, <1>3, Cursors
<1>5. /\ 2 <= to /\ ws = to + off /\ off <= ent.len /\ to + ent.len <= cur - 1
      /\ Idx < cur => to <= ent.start /\ ent.start + ent.len <= Free
  BY <1>1 DEF MovingOK, End, SbSize
<1>6. to + ent.len <= Idx
  <2>n. Idx \in Int /\ cur \in Int /\ Free \in Int /\ Free <= Idx /\ to \in Int
    BY <1>3, Cursors
  <2>1. CASE Idx < cur
    BY <1>4, <1>5, <2>n, <2>1
  <2>2. CASE Idx = cur
    BY <1>4, <1>5, <2>n, <2>2
  <2> QED
    BY <1>1, <2>n, <2>1, <2>2
<1> QED
  BY <1>1, <1>2, <1>4, <1>5, <1>6

LEMMA MovingNumbers ==
  ASSUME Whole, pc \in {"compact_copy", "compact_entry"}
  PROVE  /\ Free \in Int /\ Idx \in Int /\ FirstSlot \in Int /\ VolSlot \in Int /\ MemSize \in Int
         /\ cur \in Int /\ wi \in Int /\ ws \in Int /\ to \in Int /\ off \in Int
         /\ ent.start \in Int /\ ent.len \in Int
         /\ 2 <= Free /\ Free <= Idx /\ Idx <= FirstSlot /\ FirstSlot < VolSlot /\ VolSlot < MemSize
         /\ 0 <= off /\ off <= ent.len
         /\ 2 <= to /\ ws = to + off
         /\ to + ent.len <= cur - 1 /\ to + ent.len <= Idx
         /\ Idx < cur => to <= ent.start /\ ent.start + ent.len <= Free
         /\ Idx <= cur /\ cur <= wi /\ wi <= FirstSlot
<1>1. pc \in CompactPCs
  BY DEF CompactPCs
<1>2. /\ ent.start \in Int /\ ent.len \in Int
      /\ Idx <= cur /\ cur <= wi /\ wi <= FirstSlot
      /\ 2 <= to /\ ws = to + off /\ off <= ent.len
      /\ to + ent.len <= cur - 1 /\ to + ent.len <= Idx
      /\ Idx < cur => to <= ent.start /\ ent.start + ent.len <= Free
  BY Moving
<1>3. VolSlot \in Int /\ FirstSlot < VolSlot /\ VolSlot < MemSize
  BY <1>1, Cursors DEF VolSlot, FirstSlot
<1> QED
  BY <1>1, <1>2, <1>3, Cursors

\* What a chunk of a compaction does. The data of an entry read from the boundary
\* slot may be anything.
LEMMA ChunkCopied ==
  ASSUME Whole, CompactCopy
  PROVE  /\ CopyLen \in Nat /\ off + CopyLen <= ent.len
         /\ mem' \in [Addr -> Cell]
         /\ \A a \in Addr : a < ws \/ ws + CopyLen <= a => mem'[a] = mem[a]
         /\ Idx < cur => \A i \in 1 .. CopyLen : mem'[ws + i - 1] = mem[ent.start + off + i - 1]
<1>1. /\ pc = "compact_copy" /\ pc \in CompactPCs /\ mem' = Put(mem, ChunkAt, ChunkCells)
      /\ off' = off + CopyLen /\ ws' = ws + CopyLen
      /\ pc' = IF off + CopyLen = ent.len THEN "compact_entry" ELSE "compact_copy"
      /\ UNCHANGED <<held, sb, name, what, target, ent, to, cur, wi, writes, torn>>
  BY DEF CompactCopy, CompactPCs, Transmit
<1>2. /\ ChunkAt = ws /\ ChunkCells = Fetch(mem, ent.start + off, CopyLen)
  BY <1>1 DEF ChunkAt, ChunkCells, DeletePCs
<1>0. pc \in {"compact_copy", "compact_entry"} /\ Addr = 0 .. MemSize - 1 /\ mem \in [Addr -> Cell]
  BY <1>1, Cursors
<1>n. /\ Free \in Int /\ Idx \in Int /\ FirstSlot \in Int /\ VolSlot \in Int /\ MemSize \in Int
      /\ cur \in Int /\ wi \in Int /\ ws \in Int /\ to \in Int /\ off \in Int
      /\ ent.start \in Int /\ ent.len \in Int
      /\ 2 <= Free /\ Free <= Idx /\ Idx <= FirstSlot /\ FirstSlot < VolSlot /\ VolSlot < MemSize
      /\ 0 <= off /\ off <= ent.len
      /\ 2 <= to /\ ws = to + off
      /\ to + ent.len <= cur - 1 /\ to + ent.len <= Idx
      /\ Idx < cur => to <= ent.start /\ ent.start + ent.len <= Free
      /\ Idx <= cur /\ cur <= wi /\ wi <= FirstSlot
  BY <1>0, MovingNumbers
<1> DEFINE n == CopyLen
           from == ent.start + off
<1>3. n \in Nat /\ off + n <= ent.len
  BY <1>0, <1>n, ConstantsAssumption DEF CopyLen
<1> HIDE DEF n
<1>4. /\ from \in Int /\ 2 <= ws /\ ws + n <= to + ent.len
      /\ ws + n <= Idx /\ ws + n <= cur - 1 /\ ws + n <= MemSize
      /\ Idx < cur => ws <= from /\ from + n <= Free
  BY <1>3, <1>n
<1>5. ASSUME NEW i \in 1 .. n
      PROVE  /\ Fetch(mem, from, n)[i] = mem[Wrap(from + i - 1)] /\ Wrap(from + i - 1) \in Addr
             /\ Idx < cur => Wrap(from + i - 1) = from + i - 1
  <2>1. ent.start \in 0 .. MemSize - 1 /\ ent.len <= MemSize /\ i \in Int /\ 1 <= i /\ i <= n
    BY <1>0, <1>n, <1>3, Moving
  <2>2. 0 <= from + i - 1 /\ from + i - 1 < MemSize + MemSize
    BY <1>n, <1>3, <2>1
  <2>3. Wrap(from + i - 1) \in Addr
    <3>1. from + i - 1 \in Int
      BY <1>4, <2>1
    <3> HIDE DEF from
    <3> QED
      BY <1>0, <1>n, <2>2, <3>1 DEF Wrap
  <2>4. ASSUME Idx < cur
        PROVE  Wrap(from + i - 1) = from + i - 1
    <3>1. from + i - 1 < MemSize /\ from + i - 1 \in Int
      BY <1>4, <1>n, <1>3, <2>1, <2>4
    <3> HIDE DEF from
    <3> QED
      BY <1>n, <2>2, <3>1 DEF Wrap
  <2> QED
    BY <2>3, <2>4 DEF Fetch
<1>6. /\ ChunkCells \in Seq(Cell) /\ Len(ChunkCells) = n
      /\ Idx < cur => \A i \in 1 .. n : ChunkCells[i] = mem[from + i - 1]
  <2>1. ASSUME NEW i \in 1 .. n
        PROVE  mem[Wrap(from + i - 1)] \in Cell
    BY <1>0, <1>5
  <2>2. Fetch(mem, from, n) = [i \in 1 .. n |-> mem[Wrap(from + i - 1)]]
    BY DEF Fetch
  <2>3. Fetch(mem, from, n) \in [1 .. n -> Cell]
    BY <2>1, <2>2
  <2>4. ChunkCells = Fetch(mem, from, n)
    BY <1>2 DEF n
  <2> HIDE DEF from
  <2> QED
    BY <1>3, <1>5, <2>3, <2>4, ArrayIsSeq
<1>7. /\ mem' \in [Addr -> Cell]
      /\ \A a \in Addr : a < ws \/ ws + n <= a => mem'[a] = mem[a]
      /\ Idx < cur => \A i \in 1 .. n : mem'[ws + i - 1] = mem[from + i - 1]
  <2>1. ws \in Nat /\ ws + Len(ChunkCells) <= MemSize /\ mem' = Put(mem, ws, ChunkCells)
    BY <1>1, <1>2, <1>4, <1>6, <1>n
  <2>2. /\ mem' \in [Addr -> Cell]
        /\ \A a \in Addr : a < ws \/ ws + Len(ChunkCells) <= a => mem'[a] = mem[a]
        /\ \A i \in 1 .. Len(ChunkCells) : mem'[ws + i - 1] = ChunkCells[i]
    BY <1>6, <2>1, Transmitted DEF Whole
  <2> QED
    BY <1>6, <2>2
<1> QED
  BY <1>3, <1>7 DEF n, from

\* A chunk of data moves down. It may overlap the place it comes from: what it
\* overwrites was copied before, and lies below all data that still has to move.
LEMMA CompactCopyInv == ASSUME Whole, CompactCopy PROVE Whole'
<1>1. /\ pc = "compact_copy" /\ pc \in CompactPCs /\ mem' = Put(mem, ChunkAt, ChunkCells)
      /\ off' = off + CopyLen /\ ws' = ws + CopyLen
      /\ pc' = IF off + CopyLen = ent.len THEN "compact_entry" ELSE "compact_copy"
      /\ UNCHANGED <<held, sb, name, what, target, ent, to, cur, wi, writes, torn>>
  BY DEF CompactCopy, CompactPCs, Transmit
<1>2. /\ ChunkAt = ws /\ ChunkCells = Fetch(mem, ent.start + off, CopyLen)
  BY <1>1 DEF ChunkAt, ChunkCells, DeletePCs
<1>0. pc \in {"compact_copy", "compact_entry"} /\ Addr = 0 .. MemSize - 1 /\ mem \in [Addr -> Cell]
  BY <1>1, Cursors
<1>n. /\ Free \in Int /\ Idx \in Int /\ FirstSlot \in Int /\ VolSlot \in Int /\ MemSize \in Int
      /\ cur \in Int /\ wi \in Int /\ ws \in Int /\ to \in Int /\ off \in Int
      /\ ent.start \in Int /\ ent.len \in Int
      /\ 2 <= Free /\ Free <= Idx /\ Idx <= FirstSlot /\ FirstSlot < VolSlot /\ VolSlot < MemSize
      /\ 0 <= off /\ off <= ent.len
      /\ 2 <= to /\ ws = to + off
      /\ to + ent.len <= cur - 1 /\ to + ent.len <= Idx
      /\ Idx < cur => to <= ent.start /\ ent.start + ent.len <= Free
      /\ Idx <= cur /\ cur <= wi /\ wi <= FirstSlot
  BY <1>0, MovingNumbers
<1> DEFINE n == CopyLen
           from == ent.start + off
<1>3. n \in Nat /\ off + n <= ent.len
  BY ChunkCopied DEF n
<1> HIDE DEF n
<1>4. /\ from \in Int /\ 2 <= ws /\ ws + n <= to + ent.len
      /\ ws + n <= Idx /\ ws + n <= cur - 1 /\ ws + n <= MemSize
      /\ Idx < cur => ws <= from /\ from + n <= Free
  BY <1>3, <1>n
<1>7. /\ mem' \in [Addr -> Cell]
      /\ \A a \in Addr : a < ws \/ ws + n <= a => mem'[a] = mem[a]
      /\ Idx < cur => \A i \in 1 .. n : mem'[ws + i - 1] = mem[from + i - 1]
  BY ChunkCopied DEF n, from
<1>8. mem'[0] = mem[0] /\ mem'[1] = mem[1] /\ \A a \in Idx .. VolSlot : mem'[a] = mem[a]
  <2>1. 0 \in Addr /\ 1 \in Addr /\ 0 < ws /\ 1 < ws
    BY <1>0, <1>4, <1>n
  <2>2. ASSUME NEW a \in Idx .. VolSlot
        PROVE  a \in Addr /\ ws + n <= a
    BY <1>0, <1>3, <1>4, <1>n
  <2> QED
    BY <1>7, <2>1, <2>2
<1>9. Idx' = Idx /\ Free' = Free
  BY <1>8 DEF Idx, Free
<1>10. BoundaryOK'
  <2>1. Idx \in Idx .. VolSlot
    BY <1>0, <1>n
  <2> QED
    BY <1>8, <1>9, <2>1 DEF Whole, BoundaryOK
<1>11. ASSUME ent.sound
       PROVE  /\ Idx < cur /\ ent.len = ent.what.len
              /\ \A i \in 0 .. off + n - 1 : mem'[to + i] = Byte(ent.what, i)
              /\ Holds(mem', ent, off + n)
  <2>1. /\ Idx < cur /\ ent.len = ent.what.len
        /\ \A i \in 0 .. off - 1 : mem[to + i] = Byte(ent.what, i)
        /\ \A i \in off .. ent.len - 1 : mem[ent.start + i] = Byte(ent.what, i)
    BY <1>1, <1>11, Moving DEF MovingOK, Holds
  <2>2. ASSUME NEW i \in 0 .. off + n - 1
        PROVE  mem'[to + i] = Byte(ent.what, i)
    <3>1. CASE i < off
      <4>1. to + i \in Addr /\ to + i < ws /\ i \in 0 .. off - 1
        BY <1>0, <1>3, <1>4, <3>1, <1>n
      <4> QED
        BY <1>7, <2>1, <4>1
    <3>2. CASE off <= i
      <4> DEFINE j == i - off + 1
      <4>1. j \in 1 .. n /\ ws + j - 1 = to + i /\ from + j - 1 = ent.start + i
        BY <1>0, <1>3, <3>2, <1>n
      <4>2. i \in off .. ent.len - 1
        BY <1>0, <1>3, <3>2, <1>n
      <4>3. mem'[ws + j - 1] = mem[from + j - 1]
        BY <1>7, <2>1, <4>1
      <4> QED
        BY <2>1, <4>1, <4>2, <4>3
    <3> QED
      BY <1>0, <1>3, <3>1, <3>2, <1>n
  <2>3. ASSUME NEW i \in off + n .. ent.len - 1
        PROVE  mem'[ent.start + i] = Byte(ent.what, i)
    <3> DEFINE x == ent.start + i
    <3>a. i \in Int /\ n \in Int /\ off + n <= i /\ i <= ent.len - 1 /\ off <= i
      BY <1>3, <1>n
    <3>b. x \in Int /\ 0 <= x /\ x < MemSize /\ ws + n <= x
      BY <1>n, <2>1, <3>a
    <3>1. ent.start + i \in Addr /\ ws + n <= ent.start + i /\ i \in off .. ent.len - 1
      BY <1>0, <1>n, <3>a, <3>b
    <3> QED
      BY <1>7, <2>1, <3>1
  <2> QED
    BY <2>1, <2>2, <2>3 DEF Holds
<1>12. off' = off + n /\ ws' = ws + n
  BY <1>1 DEF n
<1>13. MovingOK'
  <2>1. /\ ent.type = "FILE" /\ SbSize <= to /\ to + ent.len <= cur - 1
        /\ Idx < cur => to <= ent.start /\ End(ent) <= Free
    BY <1>0, Moving DEF MovingOK
  <2>2. ws' = to + off' /\ off' <= ent.len
    BY <1>0, <1>3, <1>12, <1>n
  <2>3. ent' = ent /\ to' = to /\ cur' = cur
    BY <1>1
  <2>4. Idx' < cur' => to' <= ent'.start /\ End(ent') <= Free'
    BY <1>9, <2>1, <2>3 DEF End
  <2>5. to' + ent'.len <= cur' - 1
    BY <2>1, <2>3
  <2>6. ent'.sound =>
          /\ Idx' < cur'
          /\ ent'.len = ent'.what.len
          /\ \A i \in 0 .. off' - 1 : mem'[to' + i] = Byte(ent'.what, i)
          /\ Holds(mem', ent', off')
    <3>1. ASSUME ent.sound
          PROVE  /\ Idx' < cur /\ ent.len = ent.what.len
                 /\ \A i \in 0 .. off' - 1 : mem'[to + i] = Byte(ent.what, i)
                 /\ Holds(mem', ent, off')
      <4>1. off' = off + n
        BY <1>12
      <4>2. Idx' < cur /\ ent.len = ent.what.len /\ Holds(mem', ent, off + n)
        BY <1>9, <1>11, <3>1
      <4>3. \A i \in 0 .. off + n - 1 : mem'[to + i] = Byte(ent.what, i)
        BY <1>11, <3>1
      <4>4. ASSUME NEW i \in 0 .. off' - 1
            PROVE  mem'[to + i] = Byte(ent.what, i)
        <5>1. i \in 0 .. off + n - 1
          BY <4>1, <1>3, <1>n
        <5> QED
          BY <4>3, <5>1
      <4>5. Holds(mem', ent, off')
        BY <4>1, <4>2 DEF Holds
      <4> QED
        BY <4>2, <4>4, <4>5
    <3> QED
      BY <3>1, <2>3 DEF Holds
  <2> QED
    BY <2>1, <2>2, <2>3, <2>4, <2>5, <2>6 DEF MovingOK
<1>14. ASSUME Idx < cur
       PROVE  Filed(mem', Idx + 1, cur - 1, End(ent), Free)
  <2>1. Filed(mem, Idx + 1, cur - 1, End(ent), Free) /\ End(ent) = ent.start + ent.len
    BY <1>0, <1>14, Moving DEF End
  <2>2. \A a \in Idx + 1 .. cur - 1 : mem'[a] = mem[a]
    <3>1. \A a \in Idx + 1 .. cur - 1 : a \in Idx .. VolSlot
      BY <1>0, <1>n
    <3> QED
      BY <1>8, <3>1
  <2>3. ASSUME NEW x \in End(ent) .. Free - 1
        PROVE  mem'[x] = mem[x]
    <3>a. x \in Int /\ ent.start + ent.len <= x /\ x <= Free - 1
      BY <1>n, <2>1
    <3>n. /\ Free \in Int /\ Idx \in Int /\ FirstSlot \in Int /\ VolSlot \in Int /\ MemSize \in Int
          /\ Free <= Idx /\ Idx <= FirstSlot /\ FirstSlot < VolSlot /\ VolSlot < MemSize
      BY <1>n
    <3>b. ws \in Int /\ n \in Int /\ 2 <= ws /\ 0 <= n /\ ws + n <= ent.start + ent.len
      BY <1>3, <1>4, <1>14, <1>n
    <3>c. ent.start + ent.len \in Int
      BY <1>n
    <3>1. x \in Addr /\ ws + n <= x
      BY <1>0, <3>a, <3>b, <3>c, <3>n
    <3> QED
      BY <1>7, <3>1
  <2>4. /\ Idx + 1 \in Int /\ cur - 1 \in Int /\ 0 <= Idx + 1 /\ cur - 1 <= FirstSlot
        /\ End(ent) \in Int /\ Free \in Int /\ mem \in [Addr -> Cell]
    BY <1>0, <2>1, <1>n
  <2> QED
    BY <1>7, <2>1, <2>2, <2>3, <2>4, FiledFrame
<1>15. Filed(mem', wi + 1, FirstSlot, 2, to)
  <2>1. Filed(mem, wi + 1, FirstSlot, 2, to)
    BY <1>0, Moving
  <2>2. \A a \in wi + 1 .. FirstSlot : mem'[a] = mem[a]
    <3>1. \A a \in wi + 1 .. FirstSlot : a \in Idx .. VolSlot
      BY <1>0, <1>n
    <3> QED
      BY <1>8, <3>1
  <2>3. ASSUME NEW x \in 2 .. to - 1
        PROVE  mem'[x] = mem[x]
    <3>1. x \in Addr /\ x < ws
      BY <1>0, <1>3, <1>4, <1>n
    <3> QED
      BY <1>7, <3>1
  <2>4. wi + 1 \in Int /\ FirstSlot \in Int /\ 0 <= wi + 1 /\ to \in Int /\ mem \in [Addr -> Cell]
    BY <1>0, <1>n
  <2> QED
    BY <1>7, <2>1, <2>2, <2>3, <2>4, FiledFrame
<1>16. CompactOK'
  <2>1. pc' \in {"compact_copy", "compact_entry"} /\ (pc' = "compact_entry" => off' = ent'.len)
    BY <1>1
  <2>2. Idx <= cur /\ (Idx < cur \/ cur = FirstSlot) /\ cur <= wi /\ wi <= FirstSlot
    BY <1>0, Moving
  <2> QED
    BY <1>1, <1>9, <1>13, <1>14, <1>15, <2>1, <2>2 DEF CompactOK, SbSize, End
<1>17. /\ pc' \in CompactPCs /\ off' \in Addr /\ ws' \in Addr
       /\ ent' \in Entry /\ to' \in Addr /\ cur' \in Addr /\ wi' \in Addr
  <2>1. pc' \in CompactPCs
    BY <1>1 DEF CompactPCs
  <2>2. off' \in Addr /\ ws' \in Addr
    BY <1>0, <1>3, <1>4, <1>12, <1>n
  <2> QED
    BY <1>1, <2>1, <2>2 DEF Whole, TypeOK
<1> QED
  BY <1>1, <1>7, <1>8, <1>10, <1>16, <1>17, CompactStep

\* The moved entry joins the new index, under the one written before it.
LEMMA CompactEntryInv == ASSUME Whole, CompactEntry PROVE Whole'
<1>1. /\ pc = "compact_entry" /\ pc \in CompactPCs /\ mem' = Put(mem, ChunkAt, ChunkCells)
      /\ wi' = wi - 1 /\ AdvanceFrom(cur)
      /\ UNCHANGED <<held, sb, name, what, target, ent, to, off, ws, writes, torn>>
  BY DEF CompactEntry, CompactPCs, Transmit
<1> DEFINE e == [ent EXCEPT !.start = to]
<1>2. ChunkAt = wi /\ ChunkCells = <<e>>
  BY <1>1 DEF ChunkAt, ChunkCells, MovedEntry, DeletePCs
<1>3. /\ pc \in {"compact_copy", "compact_entry"} /\ Addr = 0 .. MemSize - 1
      /\ mem \in [Addr -> Cell] /\ sb.idx = Idx /\ SbSize = 2
  BY <1>1, Cursors
<1>4. /\ Free \in Int /\ Idx \in Int /\ FirstSlot \in Int /\ VolSlot \in Int /\ MemSize \in Int
      /\ cur \in Int /\ wi \in Int /\ ws \in Int /\ to \in Int /\ off \in Int
      /\ ent.start \in Int /\ ent.len \in Int
      /\ 2 <= Free /\ Free <= Idx /\ Idx <= FirstSlot /\ FirstSlot < VolSlot /\ VolSlot < MemSize
      /\ 0 <= off /\ off <= ent.len
      /\ 2 <= to /\ ws = to + off
      /\ to + ent.len <= cur - 1 /\ to + ent.len <= Idx
      /\ Idx < cur => to <= ent.start /\ ent.start + ent.len <= Free
      /\ Idx <= cur /\ cur <= wi /\ wi <= FirstSlot
  BY <1>3, MovingNumbers
<1>5. off = ent.len
  BY <1>1 DEF Whole, CompactOK
<1>6. /\ ent.type = "FILE" /\ ent \in Entry /\ to \in Addr
      /\ Idx < cur \/ cur = FirstSlot
      /\ ent.sound => /\ ent.len = ent.what.len
                      /\ \A i \in 0 .. ent.len - 1 : mem[to + i] = Byte(ent.what, i)
      /\ Idx < cur => Filed(mem, Idx + 1, cur - 1, End(ent), Free)
      /\ Filed(mem, wi + 1, FirstSlot, 2, to)
  BY <1>3, <1>5, Moving DEF MovingOK, End, Whole, TypeOK
<1>7. /\ e \in Cell /\ e.type = "FILE" /\ e.start = to /\ e.len = ent.len
      /\ e.what = ent.what /\ e.sound = ent.sound
  BY <1>6 DEF Entry, Cell
<1> HIDE DEF e
<1>8. /\ mem' \in [Addr -> Cell] /\ mem'[wi] = e
      /\ \A a \in Addr : a # wi => mem'[a] = mem[a]
  <2>1. ChunkCells \in Seq(Cell) /\ Len(ChunkCells) = 1 /\ ChunkCells[1] = e
    BY <1>2, <1>7, OneCell
  <2>2. wi \in Nat /\ wi + Len(ChunkCells) <= MemSize /\ mem' = Put(mem, wi, ChunkCells)
    BY <1>1, <1>2, <1>4, <2>1
  <2>3. /\ mem' \in [Addr -> Cell]
        /\ \A a \in Addr : a < wi \/ wi + 1 <= a => mem'[a] = mem[a]
        /\ \A i \in 1 .. 1 : mem'[wi + i - 1] = ChunkCells[i]
    BY <2>1, <2>2, Transmitted DEF Whole
  <2>4. 1 \in 1 .. 1 /\ wi + 1 - 1 = wi
    BY <1>4
  <2>5. \A a \in Addr : a # wi => a < wi \/ wi + 1 <= a
    BY <1>3, <1>4
  <2> QED
    BY <2>1, <2>3, <2>4, <2>5
<1>9. mem'[0] = mem[0] /\ mem'[1] = mem[1]
  BY <1>3, <1>4, <1>8
<1>10. Idx' = Idx /\ Free' = Free
  BY <1>9 DEF Idx, Free
<1>11. BoundaryOK'
  <2>1. CASE wi = Idx
    <3>1. mem'[Idx] = e
      BY <2>1, <1>8
    <3>2. SbSize + ent.len <= Idx - 1
      BY <2>1, <1>3, <1>4
    <3> QED
      BY <3>1, <3>2, <1>7, <1>10 DEF BoundaryOK, IsEntry
  <2>2. CASE wi # Idx
    <3>1. Idx \in Addr
      BY <1>3, <1>4
    <3>2. mem'[Idx] = mem[Idx]
      BY <2>2, <3>1, <1>8
    <3> QED
      BY <3>2, <1>10 DEF Whole, BoundaryOK
  <2> QED
    BY <2>1, <2>2
<1>12. Filed(mem', wi, FirstSlot, 2, ws)
  <2>1. ASSUME NEW x \in 2 .. ws - 1
        PROVE  mem'[x] = mem[x]
    <3>1. x \in Addr /\ x # wi
      <4>0. ws \in Int /\ wi \in Int /\ wi <= FirstSlot /\ ws <= to + ent.len
        BY <1>4
      <4>1. ws <= wi
        BY <1>4, <4>0
      <4>2. FirstSlot \in Int /\ FirstSlot < MemSize /\ MemSize \in Int /\ Addr = 0 .. MemSize - 1
        BY <1>3, <1>4
      <4> QED
        BY <4>0, <4>1, <4>2
    <3> QED
      BY <3>1, <1>8
  <2>2. Filed(mem', wi + 1, FirstSlot, 2, to)
    <3>1. \A a \in wi + 1 .. FirstSlot : a \in Addr /\ a # wi
      BY <1>3, <1>4
    <3>2. \A a \in wi + 1 .. FirstSlot : mem'[a] = mem[a]
      BY <3>1, <1>8
    <3>3. \A x \in 2 .. to - 1 : mem'[x] = mem[x]
      BY <2>1, <1>4
    <3>4. wi + 1 \in Int /\ 0 <= wi + 1
      BY <1>4
    <3>5. /\ FirstSlot \in Int /\ to \in Int /\ Filed(mem, wi + 1, FirstSlot, 2, to)
          /\ mem \in [Addr -> Cell] /\ mem' \in [Addr -> Cell]
      BY <1>3, <1>4, <1>6, <1>8
    <3> QED
      BY <3>2, <3>3, <3>4, <3>5, FiledFrame
  <2>3. /\ IsRecord(mem'[wi]) /\ mem'[wi].start = to /\ End(mem'[wi]) = ws
        /\ mem'[wi].sound = ent.sound /\ mem'[wi].len = ent.len /\ mem'[wi].what = ent.what
    BY <1>4, <1>5, <1>7, <1>8 DEF IsRecord, End
  <2>4. ASSUME ent.sound
        PROVE  mem'[wi].len = mem'[wi].what.len /\ Holds(mem', mem'[wi], 0)
    <3>1. ASSUME NEW i \in 0 .. ent.len - 1
          PROVE  mem'[to + i] = Byte(ent.what, i)
      <4>1. to + i \in 2 .. ws - 1
        BY <1>4, <1>5
      <4> QED
        BY <4>1, <2>1, <2>4, <1>6
    <3> QED
      BY <3>1, <2>3, <2>4, <1>6 DEF Holds
  <2>5. 2 \in Int /\ 0 <= wi /\ to <= ws /\ 2 <= to
    BY <1>4
  <2> QED
    <3>1. /\ wi \in Int /\ FirstSlot \in Int /\ to \in Int /\ ws \in Int /\ wi <= FirstSlot
          /\ mem' \in [Addr -> Cell] /\ FirstSlot <= FirstSlot /\ to <= to
          /\ 2 <= mem'[wi].start /\ to <= mem'[wi].start /\ End(mem'[wi]) <= ws
      BY <2>3, <1>4, <1>8
    <3>2. IsFile(mem'[wi]) /\ mem'[wi].sound =>
            mem'[wi].len = mem'[wi].what.len /\ Holds(mem', mem'[wi], 0)
      BY <2>3, <2>4
    <3>3. IsRecord(mem'[wi])
      BY <2>3
    <3> QED
      BY <3>1, <3>2, <3>3, <2>2, <2>5, FiledExtend
<1>13. wi' = wi - 1 /\ wi' \in Addr /\ ws <= wi' /\ wi' + 1 = wi
  BY <1>1, <1>3, <1>4, <1>5
<1>14. /\ ent' \in Entry /\ to' \in Addr /\ off' \in Addr /\ ws' \in Addr
  BY <1>1 DEF Whole, TypeOK
<1>15. CASE cur - 1 <= Idx
  <2>1. pc' = "compact_stub" /\ cur' = cur
    BY <1>1, <1>3, <1>15 DEF AdvanceFrom
  <2>2. CompactOK'
    BY <1>1, <1>3, <1>4, <1>12, <1>13, <2>1 DEF CompactOK
  <2>3. cur' \in Addr /\ pc' \in CompactPCs
    BY <2>1 DEF Whole, TypeOK, CompactPCs
  <2> QED
    BY <1>1, <1>8, <1>9, <1>11, <1>13, <1>14, <2>2, <2>3, CompactStep
<1>16. CASE ~(cur - 1 <= Idx)
  <2>1. pc' = "compact_next" /\ cur' = cur - 1
    BY <1>1, <1>3, <1>16 DEF AdvanceFrom
  <2>2. cur' \in Addr /\ pc' \in CompactPCs
    BY <2>1, <1>3, <1>4 DEF CompactPCs
  <2>3. Idx < cur - 1 /\ ent.start + ent.len <= Free /\ ws <= End(ent) /\ ws <= Free /\ End(ent) \in Int
    BY <1>4, <1>5, <1>6, <1>16 DEF End
  <2>4. Filed(mem', Idx + 1, cur - 1, ws, Free)
    <3>1. \A a \in Idx + 1 .. cur - 1 : a \in Addr /\ a # wi
      BY <1>3, <1>4
    <3>2. \A a \in Idx + 1 .. cur - 1 : mem'[a] = mem[a]
      BY <3>1, <1>8
    <3>3. ASSUME NEW x \in End(ent) .. Free - 1
          PROVE  mem'[x] = mem[x]
      <4>1. ws <= x /\ x \in Int /\ x <= Free - 1
        BY <2>3, <1>4
      <4>2. x \in Addr /\ x # wi
        BY <4>1, <1>3, <1>4, <1>16
      <4> QED
        BY <4>2, <1>8
    <3>4. Idx + 1 \in Int /\ 0 <= Idx + 1 /\ cur - 1 \in Int /\ cur - 1 <= FirstSlot
      BY <1>4
    <3>5. /\ Free \in Int /\ ws \in Int /\ Filed(mem, Idx + 1, cur - 1, End(ent), Free)
          /\ mem \in [Addr -> Cell] /\ mem' \in [Addr -> Cell] /\ End(ent) \in Int /\ ws <= End(ent)
      <4>1. Idx < cur
        BY <2>3, <1>4
      <4>2. Filed(mem, Idx + 1, cur - 1, End(ent), Free)
        BY <4>1, <1>6
      <4>3. Free \in Int /\ ws \in Int
        BY <1>4
      <4> QED
        BY <2>3, <4>2, <4>3, <1>3, <1>8
    <3> QED
      BY <3>2, <3>3, <3>4, <3>5, FiledFrame
  <2>5. CompactOK'
    <3>1. /\ Idx' <= cur' /\ Idx' < cur' /\ cur' <= wi' /\ wi' <= FirstSlot
          /\ SbSize <= ws' /\ ws' <= Free' /\ cur' # FirstSlot
      BY <1>1, <1>3, <1>4, <1>10, <1>13, <2>1, <2>3
    <3>2. Filed(mem', Idx' + 1, cur', ws', Free') /\ Filed(mem', wi' + 1, FirstSlot, SbSize, ws')
      BY <1>1, <1>3, <1>10, <1>12, <1>13, <2>1, <2>4
    <3> QED
      BY <2>1, <3>1, <3>2 DEF CompactOK
  <2> QED
    BY <1>1, <1>8, <1>9, <1>11, <1>13, <1>14, <2>2, <2>5, CompactStep
<1> QED
  BY <1>15, <1>16

\* The start marker goes under the new index.
LEMMA CompactStubInv == ASSUME Whole, CompactStub PROVE Whole'
<1>1. /\ pc = "compact_stub" /\ pc' = "compact_sb" /\ pc \in CompactPCs /\ pc' \in CompactPCs
      /\ mem' = Put(mem, ChunkAt, ChunkCells)
      /\ UNCHANGED <<held, sb, name, what, target, ent, to, off, cur, wi, ws, writes, torn>>
  BY DEF CompactStub, CompactPCs, Transmit, ramVars
<1>2. ChunkAt = wi /\ ChunkCells = <<Stub>>
  BY <1>1 DEF ChunkAt, ChunkCells, DeletePCs
<1>3. /\ 2 <= ws /\ ws <= wi /\ wi <= FirstSlot /\ Filed(mem, wi + 1, FirstSlot, 2, ws)
  BY <1>1 DEF Whole, CompactOK, SbSize
<1>4. /\ Idx \in Int /\ Idx \in Addr /\ FirstSlot \in Int /\ FirstSlot < MemSize /\ MemSize \in Int
      /\ Addr = 0 .. MemSize - 1 /\ SbSize = 2 /\ wi \in Int /\ ws \in Int
      /\ mem \in [Addr -> Cell]
  BY <1>1, Cursors
<1>5. /\ mem' \in [Addr -> Cell] /\ mem'[wi] = Stub
      /\ \A a \in Addr : a # wi => mem'[a] = mem[a]
  <2>1. ChunkCells \in Seq(Cell) /\ Len(ChunkCells) = 1 /\ ChunkCells[1] = Stub
    BY <1>2, KernelCells, OneCell
  <2>2. wi \in Nat /\ wi + Len(ChunkCells) <= MemSize /\ mem' = Put(mem, wi, ChunkCells)
    BY <1>1, <1>2, <1>3, <1>4, <2>1
  <2>3. /\ mem' \in [Addr -> Cell]
        /\ \A a \in Addr : a < wi \/ wi + 1 <= a => mem'[a] = mem[a]
        /\ \A i \in 1 .. 1 : mem'[wi + i - 1] = ChunkCells[i]
    BY <2>1, <2>2, Transmitted DEF Whole
  <2>4. 1 \in 1 .. 1 /\ wi + 1 - 1 = wi
    BY <1>4
  <2>5. \A a \in Addr : a # wi => a < wi \/ wi + 1 <= a
    BY <1>4
  <2> QED
    BY <2>1, <2>3, <2>4, <2>5
<1>6. mem'[0] = mem[0] /\ mem'[1] = mem[1]
  BY <1>3, <1>4, <1>5
<1>7. Idx' = Idx
  BY <1>6 DEF Idx
<1>8. BoundaryOK'
  <2>1. mem'[Idx] = mem[Idx] \/ mem'[Idx] = Stub
    BY <1>4, <1>5
  <2> QED
    BY <2>1, <1>7 DEF Whole, BoundaryOK, Stub, IsEntry
<1>9. Filed(mem', wi + 1, FirstSlot, 2, ws)
  <2>1. \A a \in wi + 1 .. FirstSlot : a \in Addr /\ a # wi
    BY <1>3, <1>4
  <2>2. \A a \in wi + 1 .. FirstSlot : mem'[a] = mem[a]
    BY <2>1, <1>5
  <2>3. \A x \in 2 .. ws - 1 : x \in Addr /\ x # wi
    BY <1>3, <1>4
  <2>4. \A x \in 2 .. ws - 1 : mem'[x] = mem[x]
    BY <2>3, <1>5
  <2>5. wi + 1 \in Int /\ 0 <= wi + 1
    BY <1>3, <1>4
  <2> QED
    BY <2>2, <2>4, <2>5, <1>3, <1>4, <1>5, FiledFrame
<1>10. CompactOK'
  BY <1>1, <1>3, <1>4, <1>5, <1>9 DEF CompactOK
<1> QED
  BY <1>1, <1>5, <1>6, <1>8, <1>10, CompactStep DEF Whole, TypeOK

\* The super block switches to the new index and the packed slab.
LEMMA CompactSbInv == ASSUME Whole, CompactSb PROVE Whole'
<1>1. /\ pc = "compact_sb" /\ pc \in CompactPCs /\ mem' = Put(mem, ChunkAt, ChunkCells)
      /\ Return /\ UNCHANGED <<held, writes, torn>>
  BY DEF CompactSb, CompactPCs, Transmit
<1>2. ChunkAt = 0 /\ ChunkCells = <<Ptr(ws), Ptr(wi)>>
  BY <1>1 DEF ChunkAt, ChunkCells, PackedSb, DeletePCs
<1>3. /\ 2 <= ws /\ ws <= wi /\ wi <= FirstSlot /\ Filed(mem, wi + 1, FirstSlot, 2, ws)
      /\ mem[wi] = Stub
  BY <1>1 DEF Whole, CompactOK, SbSize
<1>4. /\ FirstSlot \in Int /\ FirstSlot < MemSize /\ MemSize \in Int /\ MemSize >= 5
      /\ Addr = 0 .. MemSize - 1 /\ SbSize = 2 /\ wi \in Int /\ ws \in Int
      /\ mem \in [Addr -> Cell]
  BY <1>1, Cursors
<1>5. wi \in Addr /\ ws \in Addr
  BY <1>3, <1>4
<1>6. /\ mem' \in [Addr -> Cell] /\ mem'[0] = Ptr(ws) /\ mem'[1] = Ptr(wi)
      /\ \A a \in Addr : 2 <= a => mem'[a] = mem[a]
  <2>1. /\ ChunkCells \in Seq(Cell) /\ Len(ChunkCells) = 2
        /\ ChunkCells[1] = Ptr(ws) /\ ChunkCells[2] = Ptr(wi)
    BY <1>2, <1>5, KernelCells, TwoCells
  <2>2. 0 \in Nat /\ 0 + Len(ChunkCells) <= MemSize /\ mem' = Put(mem, 0, ChunkCells)
    BY <1>1, <1>2, <1>4, <2>1
  <2>3. /\ mem' \in [Addr -> Cell]
        /\ \A a \in Addr : a < 0 \/ 0 + 2 <= a => mem'[a] = mem[a]
        /\ \A i \in 1 .. 2 : mem'[0 + i - 1] = ChunkCells[i]
    BY <2>1, <2>2, Transmitted DEF Whole
  <2>4. 1 \in 1 .. 2 /\ 0 + 1 - 1 = 0 /\ 2 \in 1 .. 2 /\ 0 + 2 - 1 = 1 /\ 0 + 2 = 2
    OBVIOUS
  <2> QED
    BY <2>1, <2>3, <2>4
<1>7. Free' = ws /\ Idx' = wi /\ mem'[0].type = "ptr" /\ mem'[1].type = "ptr"
  BY <1>6 DEF Free, Idx, Ptr
<1>8. mem'[wi] = Stub
  BY <1>3, <1>4, <1>5, <1>6
<1>9. Filed(mem', wi + 1, FirstSlot, 2, ws)
  <2>1. \A a \in wi + 1 .. FirstSlot : a \in Addr /\ 2 <= a
    BY <1>3, <1>4
  <2>2. \A x \in 2 .. ws - 1 : x \in Addr /\ 2 <= x
    BY <1>3, <1>4
  <2>3. wi + 1 \in Int /\ 0 <= wi + 1
    BY <1>3, <1>4
  <2> QED
    BY <2>1, <2>2, <2>3, <1>3, <1>4, <1>6, FiledFrame
<1>10. VolumeOK'
  <2>1. BoundaryOK'
    BY <1>7, <1>8 DEF BoundaryOK, Stub, IsEntry
  <2>2. PointersOrdered'
    BY <1>3, <1>4, <1>7 DEF PointersOrdered
  <2> QED
    BY <1>4, <1>6, <1>7, <1>9, <2>1, <2>2 DEF VolumeOK
<1>11. held' = NoId /\ held' \in Addr /\ torn' = FALSE
  BY <1>1 DEF Whole, TypeOK, HeldOK
<1> QED
  BY <1>1, <1>10, <1>11, IdleInv DEF Whole

-----------------------------------------------------------------------------
(* What a cut inside a number or an entry leaves. *)

LEMMA DivMod ==
  ASSUME NEW x \in Nat, NEW p \in Nat \ {0}
  PROVE  /\ x \div p \in Nat /\ x % p \in 0 .. p - 1
         /\ x = p * (x \div p) + (x % p)
OBVIOUS

\* A number below a multiple of the page size stays below it when it is cut.
LEMMA CutBelow ==
  ASSUME NEW x \in Nat, NEW y \in Nat, NEW p \in Nat \ {0}, NEW m \in Nat, m % p = 0, x < m
  PROVE  (x \div p) * p + (y % p) \in 0 .. m - 1
<1> DEFINE q == x \div p
           n == m \div p
           r == y % p
<1>1. q \in Nat /\ n \in Nat /\ r \in 0 .. p - 1
  BY DivMod
<1>2. m = p * n /\ x = p * q + (x % p) /\ x % p >= 0 /\ x % p \in Int
  BY DivMod
<1> HIDE DEF q, n, r
<1>3. p * q < p * n
  BY <1>1, <1>2
<1>4. q <= n - 1
  BY <1>1, <1>3
<1>5. p * q <= p * (n - 1)
  BY <1>1, <1>4
<1>6. p * (n - 1) = p * n - p
  BY <1>1
<1>7. q * p + r <= m - 1 /\ q * p + r >= 0
  BY <1>1, <1>2, <1>5, <1>6
<1> QED
  BY <1>7, <1>1 DEF q, r

\* A cut number is an address; it is the new one when both lie on one page, and
\* a number cut on its way to zero only gets smaller.
LEMMA HalfAddr ==
  ASSUME NEW x \in Addr, NEW y \in Addr
  PROVE  /\ Half(x, y) \in Addr
         /\ x \div PageSize = y \div PageSize => Half(x, y) = y
         /\ y = 0 => Half(x, y) <= x
<1>1. /\ x \in Nat /\ y \in Nat /\ x < MemSize /\ MemSize \in Nat
      /\ PageSize \in Nat \ {0} /\ MemSize % PageSize = 0
  BY ConstantsAssumption DEF Addr
<1>2. Half(x, y) \in Addr
  BY <1>1, CutBelow DEF Half, Addr
<1>3. /\ y = PageSize * (y \div PageSize) + (y % PageSize)
      /\ x = PageSize * (x \div PageSize) + (x % PageSize)
      /\ x % PageSize \in 0 .. PageSize - 1 /\ y % PageSize \in 0 .. PageSize - 1
      /\ x \div PageSize \in Nat /\ y \div PageSize \in Nat
  BY <1>1, DivMod
<1>4. x \div PageSize = y \div PageSize => Half(x, y) = y
  BY <1>1, <1>3 DEF Half
<1>5. ASSUME y = 0
      PROVE  Half(x, y) <= x
  <2>1. y % PageSize = 0
    BY <1>1, <1>5
  <2> QED
    BY <1>1, <1>3, <2>1 DEF Half
<1> QED
  BY <1>2, <1>4, <1>5

\* A torn entry is an entry; its length is the old one, the new one, or the old
\* one cut on its way to the new one.
LEMMA TornEntryIsEntry ==
  ASSUME NEW old \in Entry, NEW new \in Entry, NEW c \in TornEntries(old, new)
  PROVE  /\ c \in Entry /\ c.type = new.type
         /\ c.len \in {old.len, Half(old.len, new.len), new.len}
         /\ c.start \in {old.start, Half(old.start, new.start), new.start}
         /\ c.what = old.what /\ c.sound = old.sound
         /\ new.name = old.name => c.name = old.name
<1>1. /\ old.start \in Addr /\ old.len \in Addr /\ old.name \in Names \cup {NoName}
      /\ new.start \in Addr /\ new.len \in Addr /\ new.name \in Names \cup {NoName}
      /\ new.type \in {"START", "FILE", "FILE_DEL"}
      /\ old.what \in Payload /\ old.sound \in BOOLEAN
  BY DEF Entry
<1>2. Half(old.start, new.start) \in Addr /\ Half(old.len, new.len) \in Addr
  BY <1>1, HalfAddr
<1> DEFINE F == {old.start, Half(old.start, new.start), new.start}
           L == {old.len, Half(old.len, new.len), new.len}
<1>3. PICK s \in F, l \in L, n \in Names \cup {NoName} :
        /\ c = [old EXCEPT !.type = new.type, !.start = s, !.len = l, !.name = n]
        /\ new.name = old.name => n = old.name
  <2> DEFINE names == IF new.name = old.name THEN {old.name} ELSE Names \cup {NoName}
             Goal == \E s \in F, l \in L, n \in Names \cup {NoName} :
                       /\ c = [old EXCEPT !.type = new.type, !.start = s, !.len = l, !.name = n]
                       /\ new.name = old.name => n = old.name
  <2>0. \A n \in names : n \in Names \cup {NoName} /\ (new.name = old.name => n = old.name)
    BY <1>1
  <2>1. PICK f \in {<<s, old.len, old.name>> : s \in {old.start, Half(old.start, new.start)}}
                   \cup {<<new.start, l, old.name>> : l \in {old.len, Half(old.len, new.len)}}
                   \cup {<<new.start, new.len, n>> : n \in names} :
          c = [old EXCEPT !.type = new.type, !.start = f[1], !.len = f[2], !.name = f[3]]
    BY DEF TornEntries
  <2>2. CASE f \in {<<s, old.len, old.name>> : s \in {old.start, Half(old.start, new.start)}}
    <3>1. PICK s \in {old.start, Half(old.start, new.start)} : f = <<s, old.len, old.name>>
      BY <2>2
    <3> QED
      BY <2>1, <3>1, <1>1
  <2>3. CASE f \in {<<new.start, l, old.name>> : l \in {old.len, Half(old.len, new.len)}}
    <3>1. PICK l \in {old.len, Half(old.len, new.len)} : f = <<new.start, l, old.name>>
      BY <2>3
    <3> QED
      BY <2>1, <3>1, <1>1
  <2>4. CASE f \in {<<new.start, new.len, n>> : n \in names}
    <3>1. PICK n \in names : f = <<new.start, new.len, n>>
      BY <2>4
    <3> QED
      BY <2>0, <2>1, <3>1, <1>1
  <2> QED
    BY <2>1, <2>2, <2>3, <2>4
<1>4. s \in Addr /\ l \in Addr
  BY <1>1, <1>2
<1>5. /\ c.type = new.type /\ c.len = l /\ c.start = s /\ c.name = n
      /\ c.what = old.what /\ c.sound = old.sound
  BY <1>3 DEF Entry
<1>6. c \in Entry
  BY <1>1, <1>3, <1>4 DEF Entry
<1> QED
  BY <1>3, <1>5, <1>6

\* What a cut leaves in a cell is a cell of the same kind.
LEMMA TornIsCell ==
  ASSUME NEW old \in Cell, NEW new \in Cell, NEW c \in Torn(old, new)
  PROVE  /\ c \in Cell
         /\ \/ /\ old.type = "ptr" /\ new.type = "ptr"
               /\ c = Ptr(Half(old.to, new.to))
            \/ /\ IsEntry(old) /\ IsEntry(new) /\ old \in Entry /\ new \in Entry
               /\ c \in TornEntries(old, new) /\ IsEntry(c)
<1>1. CASE old.type = "ptr" /\ new.type = "ptr"
  <2>1. c = Ptr(Half(old.to, new.to))
    <3>1. ~IsEntry(old)
      BY <1>1 DEF IsEntry
    <3>2. Torn(old, new) = {Ptr(Half(old.to, new.to))}
      BY <1>1, <3>1 DEF Torn
    <3> QED
      BY <3>2
  <2>2. Half(old.to, new.to) \in Addr
    BY <1>1, PtrIsAddress, HalfAddr
  <2> QED
    BY <1>1, <2>1, <2>2, KernelCells
<1>2. CASE IsEntry(old) /\ IsEntry(new)
  <2>1. ~(old.type = "ptr" /\ new.type = "ptr")
    BY <1>2 DEF IsEntry
  <2>2. c \in TornEntries(old, new)
    BY <1>2, <2>1 DEF Torn
  <2>3. old \in Entry /\ new \in Entry
    BY <1>2, EntryIsEntry
  <2>4. c \in Entry /\ c.type = new.type
    BY <2>2, <2>3, TornEntryIsEntry
  <2> QED
    BY <1>2, <2>2, <2>3, <2>4 DEF Cell, IsEntry
<1>3. (old.type = "ptr" /\ new.type = "ptr") \/ (IsEntry(old) /\ IsEntry(new))
  BY DEF Torn
<1> QED
  BY <1>1, <1>2, <1>3

\* The FRAM after a cut inside the cell that follows the first k.
LEMMA CutCells ==
  ASSUME TypeOK, NEW at \in Nat, NEW cells \in Seq(Cell), at + Len(cells) <= MemSize,
         NEW k \in Nat, k < Len(cells), NEW c \in Cell,
         mem' = Put(mem, at, Append(SubSeq(cells, 1, k), c))
  PROVE  /\ mem' \in [Addr -> Cell]
         /\ \A a \in Addr : a < at \/ at + k < a => mem'[a] = mem[a]
         /\ \A i \in 1 .. k : mem'[at + i - 1] = cells[i]
         /\ mem'[at + k] = c
         /\ Append(SubSeq(cells, 1, k), c) \in Seq(Cell)
         /\ Len(Append(SubSeq(cells, 1, k), c)) = k + 1
<1> DEFINE sent == SubSeq(cells, 1, k)
           cut == Append(sent, c)
<1>1. Len(cells) \in Nat /\ k \in 0 .. Len(cells)
  OBVIOUS
<1>2. sent \in Seq(Cell) /\ Len(sent) = k /\ \A i \in 1 .. k : sent[i] = cells[i]
  BY <1>1, PrefixOfChunk
<1> HIDE DEF sent
<1>3. /\ cut \in Seq(Cell) /\ Len(cut) = k + 1 /\ cut[k + 1] = c
      /\ \A i \in 1 .. k : cut[i] = sent[i]
  BY <1>2
<1>4. mem' = Put(mem, at, cut) /\ at + Len(cut) <= MemSize
  <2>1. mem' = Put(mem, at, cut)
    BY DEF sent
  <2>2. MemSize \in Int
    BY ConstantsAssumption
  <2> QED
    BY <2>1, <2>2, <1>1, <1>3
<1> HIDE DEF cut
<1>5. /\ mem' \in [Addr -> Cell]
      /\ \A a \in Addr : a < at \/ at + (k + 1) <= a => mem'[a] = mem[a]
      /\ \A i \in 1 .. k + 1 : mem'[at + i - 1] = cut[i]
  BY <1>3, <1>4, Transmitted
<1>6. \A a \in Addr : at + k < a => at + (k + 1) <= a
  BY ConstantsAssumption DEF Addr
<1>7. \A i \in 1 .. k : i \in 1 .. k + 1
  OBVIOUS
<1>8. k + 1 \in 1 .. k + 1 /\ at + (k + 1) - 1 = at + k
  OBVIOUS
<1>9. mem'[at + k] = c
  BY <1>3, <1>5, <1>8
<1>10. cut \in Seq(Cell) /\ Len(cut) = k + 1
  BY <1>3
<1> QED
  BY <1>2, <1>3, <1>5, <1>6, <1>7, <1>9, <1>10 DEF cut, sent

\* The cell a cut tears, in the transactions a volume survives.
LEMMA CutInsideCell ==
  ASSUME TypeOK, NEW k \in Nat, CutInside(k), ChunkAt \in Nat, ChunkCells \in Seq(Cell),
         ChunkAt + Len(ChunkCells) <= MemSize
  PROVE  /\ k < Len(ChunkCells) /\ ChunkAt + k \in Addr /\ mem[ChunkAt + k] \in Cell
         /\ ChunkCells[k + 1] \in Cell
         /\ \E c \in Torn(mem[ChunkAt + k], ChunkCells[k + 1]) :
              /\ mem' = Put(mem, ChunkAt, Append(SubSeq(ChunkCells, 1, k), c))
              /\ torn' = (torn \/ Astray(c, mem[ChunkAt + k], ChunkCells[k + 1]))
              /\ ~torn => torn' = Astray(c, mem[ChunkAt + k], ChunkCells[k + 1])
<1>1. k < Len(ChunkCells) /\ Len(ChunkCells) \in Nat /\ MemSize \in Int
  BY ConstantsAssumption DEF CutInside
<1>2. ChunkAt + k \in Addr /\ k + 1 \in 1 .. Len(ChunkCells) /\ ChunkAt + k < MemSize
  BY <1>1 DEF Addr
<1>3. Wrap(ChunkAt + k) = ChunkAt + k
  BY <1>2, <1>1 DEF Wrap
<1>4. ChunkCells[k + 1] \in Cell /\ mem[ChunkAt + k] \in Cell
  BY <1>2 DEF TypeOK
<1>5. PICK c \in Torn(mem[ChunkAt + k], ChunkCells[k + 1]) :
        /\ mem' = Put(mem, ChunkAt, Append(SubSeq(ChunkCells, 1, k), c))
        /\ torn' = (torn \/ Astray(c, mem[ChunkAt + k], ChunkCells[k + 1]))
  BY <1>3 DEF CutInside
<1>6. ~torn => torn' = Astray(c, mem[ChunkAt + k], ChunkCells[k + 1])
  BY <1>5 DEF TypeOK, Astray
<1> QED
  BY <1>1, <1>2, <1>4, <1>5, <1>6

\* A cut inside a byte of data leaves that byte as it was.
LEMMA NoTornData ==
  ASSUME NEW old \in Cell, NEW new \in Cell, new.type \notin {"ptr", "START", "FILE", "FILE_DEL"}
  PROVE  Torn(old, new) = {}
BY DEF Torn, IsEntry

\* The data of a file: there is nothing to tear.
LEMMA CutWriteData ==
  ASSUME Whole, pc = "write_data", NEW k \in Nat, CutInside(k)
  PROVE  FALSE
<1>1. ChunkAt = sb.free /\ ChunkCells = Bytes(what)
  BY DEF ChunkAt, ChunkCells, DeletePCs
<1>2. what \in Payload /\ Free + what.len <= Idx - 1 /\ sb.free = Free
  BY DEF Whole, TypeOK, WriteOK, WritePCs, SuperBlockOK, ReadSb, Free
<1>3. /\ ChunkCells \in Seq(Cell) /\ Len(ChunkCells) = what.len
      /\ \A i \in 1 .. what.len : ChunkCells[i] = Byte(what, i - 1)
  BY <1>1, <1>2, BytesAreCells
<1>4. ChunkAt \in Nat /\ ChunkAt + Len(ChunkCells) <= MemSize
  <2>1. what.len \in Int
    BY <1>2, PayloadLen
  <2> QED
    BY <1>1, <1>2, <1>3, <2>1, Pointers DEF Whole, FirstSlot
<1>5. /\ k < Len(ChunkCells) /\ mem[ChunkAt + k] \in Cell /\ ChunkCells[k + 1] \in Cell
      /\ Torn(mem[ChunkAt + k], ChunkCells[k + 1]) # {}
  BY <1>3, <1>4, CutInsideCell DEF Whole
<1>6. ChunkCells[k + 1].type = "data"
  <2>1. k + 1 \in 1 .. what.len
    BY <1>2, <1>3, <1>5, PayloadLen
  <2>2. ChunkCells[k + 1] = Byte(what, k + 1 - 1)
    BY <1>3, <2>1
  <2> QED
    BY <2>2 DEF Byte
<1> QED
  BY <1>5, <1>6, NoTornData

\* The boundary slot holds an entry of some length; all else is as it was.
LEMMA BoundaryVolume ==
  ASSUME Whole, pc \notin CompactPCs, mem' \in [Addr -> Cell],
         \A a \in Addr : a \notin {Idx - 1, Idx} => mem'[a] = mem[a],
         Free <= Idx - 1 \/ mem'[Idx - 1] = mem[Idx - 1],
         IsEntry(mem'[Idx]), mem'[Idx] # Stub => SbSize + mem'[Idx].len <= Idx - 1
  PROVE  VolumeOK' /\ Free' = Free /\ Idx' = Idx
<1>1. /\ Free \in Int /\ Idx \in Int /\ Idx \in Addr /\ 2 <= Free /\ Free <= Idx /\ Idx <= FirstSlot
      /\ FirstSlot \in Int /\ FirstSlot < MemSize /\ MemSize \in Int /\ MemSize >= 5
  BY Pointers DEF Whole, FirstSlot
<1>2. \A a \in Addr : a < Free \/ Idx < a => mem'[a] = mem[a]
  BY <1>1 DEF Addr
<1>3. mem'[0] = mem[0] /\ mem'[1] = mem[1]
  BY <1>1, <1>2 DEF Addr
<1>4. Free' = Free /\ Idx' = Idx
  BY <1>3 DEF Free, Idx
<1>5. Filed(mem', Idx + 1, FirstSlot, SbSize, Free)
  <2>1. \A a \in Idx + 1 .. FirstSlot : mem'[a] = mem[a]
    BY <1>1, <1>2 DEF Addr
  <2>2. \A x \in SbSize .. Free - 1 : mem'[x] = mem[x]
    BY <1>1, <1>2 DEF Addr, SbSize
  <2>3. mem \in [Addr -> Cell] /\ SbSize \in Int /\ Idx + 1 \in Int /\ 0 <= Idx + 1
    BY <1>1 DEF Whole, TypeOK, SbSize
  <2>4. Filed(mem, Idx + 1, FirstSlot, SbSize, Free)
    BY DEF Whole, IndexOK
  <2> QED
    BY <1>1, <2>1, <2>2, <2>3, <2>4, FiledFrame
<1>6. BoundaryOK' /\ PointersOrdered'
  BY <1>4 DEF Whole, BoundaryOK, SuperBlockOK, PointersOrdered
<1> QED
  BY <1>3, <1>4, <1>5, <1>6 DEF Whole, VolumeOK, SuperBlockOK

\* The new index: a torn start marker lies in the free area, a torn entry in
\* the boundary slot, with a length between the old one and the new.
LEMMA CutWriteIndex ==
  ASSUME Whole, pc = "write_index", NEW k \in Nat, CutInside(k)
  PROVE  /\ mem' \in [Addr -> Cell] /\ torn' \in BOOLEAN
         /\ ~torn' => VolumeOK' /\ Idx' = Idx
         /\ \A a \in Addr : a \notin {Idx - 1, Idx} => mem'[a] = mem[a]
         /\ torn' => IsEntry(mem[Idx]) /\ what.len \div PageSize # mem[Idx].len \div PageSize
<1>1. /\ sb.free = Free /\ sb.idx = Idx
      /\ what \in Payload /\ what.len \in Nat /\ what.len \in Addr /\ name \in Names
      /\ Free + what.len <= Idx - 1
  BY PayloadLen DEF Whole, TypeOK, WriteOK, WritePCs, SuperBlockOK, ReadSb, Free, Idx
<1>2. /\ Free \in Int /\ Free \in Addr /\ 2 <= Free /\ Idx \in Int /\ Idx \in Addr /\ Idx <= FirstSlot
      /\ FirstSlot < MemSize /\ MemSize \in Int /\ FirstSlot \in Int
  BY Pointers DEF Whole, FirstSlot
<1> DEFINE e == FileEntry(name, Free, what)
<1>3. ChunkAt = Idx - 1 /\ Idx - 1 \in Nat /\ Idx - 1 \in Addr
  <2>1. ChunkAt = Wrap(Idx - 1)
    BY <1>1 DEF ChunkAt, StubSlot, DeletePCs
  <2> QED
    BY <2>1, <1>1, <1>2 DEF Wrap, Addr
<1>4. ChunkCells = <<Stub, e>> /\ Stub \in Cell /\ e \in Cell /\ e \in Entry
  BY <1>1, <1>2, KernelCells DEF ChunkCells, WrittenIndex, DeletePCs
<1>5. e.type = "FILE" /\ e.len = what.len
  BY DEF FileEntry
<1> HIDE DEF e
<1>6. /\ ChunkCells \in Seq(Cell) /\ Len(ChunkCells) = 2
      /\ ChunkCells[1] = Stub /\ ChunkCells[2] = e
      /\ Idx - 1 + Len(ChunkCells) <= MemSize
  BY <1>2, <1>4, TwoCells
<1>7. /\ k < 2 /\ mem[Idx - 1 + k] \in Cell /\ ChunkCells[k + 1] \in Cell
      /\ \E c \in Torn(mem[Idx - 1 + k], ChunkCells[k + 1]) :
           /\ mem' = Put(mem, Idx - 1, Append(SubSeq(ChunkCells, 1, k), c))
           /\ torn' = Astray(c, mem[Idx - 1 + k], ChunkCells[k + 1])
  BY <1>3, <1>6, CutInsideCell DEF Whole
<1> DEFINE old == mem[Idx - 1 + k]
           new == ChunkCells[k + 1]
<1>8. PICK c \in Torn(old, new) :
        /\ mem' = Put(mem, Idx - 1, Append(SubSeq(ChunkCells, 1, k), c))
        /\ torn' = Astray(c, old, new)
  BY <1>7
<1>9. /\ c \in Cell
      /\ \/ old.type = "ptr" /\ new.type = "ptr"
         \/ old \in Entry /\ new \in Entry /\ c \in TornEntries(old, new) /\ IsEntry(c) /\ IsEntry(old)
  BY <1>7, TornIsCell
<1>10. new.type # "ptr"
  BY <1>5, <1>6, <1>7 DEF Stub
<1>11. /\ old \in Entry /\ new \in Entry /\ IsEntry(c) /\ IsEntry(old)
       /\ c \in Entry /\ c.len \in {old.len, Half(old.len, new.len), new.len}
  BY <1>9, <1>10, TornEntryIsEntry
<1>12. /\ mem' \in [Addr -> Cell]
       /\ \A a \in Addr : a < Idx - 1 \/ Idx - 1 + k < a => mem'[a] = mem[a]
       /\ mem'[Idx - 1 + k] = c
  <2>1. TypeOK /\ k < Len(ChunkCells) /\ Idx - 1 + Len(ChunkCells) <= MemSize
    BY <1>6, <1>7 DEF Whole
  <2>2. ChunkCells \in Seq(Cell) /\ c \in Cell /\ Idx - 1 \in Nat
    BY <1>3, <1>6, <1>9
  <2>3. mem' = Put(mem, Idx - 1, Append(SubSeq(ChunkCells, 1, k), c))
    BY <1>8
  <2> QED
    BY ONLY <2>1, <2>2, <2>3, k \in Nat, CutCells
<1>13. torn' <=> Outside(c.len, old.len, new.len)
  BY <1>8, <1>10, <1>11 DEF Astray, IsEntry
<1>14. old.len \in Addr /\ new.len \in Addr /\ c.len \in Addr
  BY <1>11 DEF Entry
<1>15. torn' => new.len \div PageSize # old.len \div PageSize
  <2>1. ASSUME new.len \div PageSize = old.len \div PageSize
        PROVE  c.len = old.len \/ c.len = new.len
    BY <2>1, <1>11, <1>14, HalfAddr
  <2> QED
    BY <2>1, <1>13, <1>14 DEF Outside, Addr
<1>16. CASE k = 0
  <2>1. new.len = 0 /\ Idx - 1 + k = Idx - 1
    BY <1>16, <1>2, <1>6 DEF Stub
  <2>2. Half(old.len, new.len) <= old.len /\ 0 <= c.len /\ c.len <= old.len
    <3>1. Half(old.len, new.len) <= old.len
      BY <1>14, <2>1, HalfAddr
    <3>2. old.len \in Int /\ 0 <= old.len /\ c.len \in Int /\ 0 <= c.len
      BY <1>7, <1>11, <1>9, EntryIsEntry
    <3> QED
      BY <1>11, <2>1, <3>1, <3>2
  <2>3. ~torn'
    BY <1>13, <1>14, <2>1, <2>2 DEF Outside, Addr
  <2>4. \A a \in Addr : a # Idx - 1 => mem'[a] = mem[a]
    BY <1>2, <1>12, <2>1 DEF Addr
  <2>5. mem'[Idx] = mem[Idx]
    BY <1>2, <2>4
  <2>6. VolumeOK' /\ Idx' = Idx
    BY <1>1, <1>2, <1>12, <2>4, <2>5, BoundaryVolume DEF Whole, BoundaryOK, CompactPCs
  <2> QED
    BY <1>8, <1>12, <2>3, <2>4, <2>6 DEF Astray
<1>17. CASE k = 1
  <2>1. new = e /\ Idx - 1 + k = Idx /\ old = mem[Idx]
    BY <1>17, <1>2, <1>6
  <2>2. \A a \in Addr : a \notin {Idx - 1, Idx} => mem'[a] = mem[a]
    BY <1>2, <1>12, <2>1 DEF Addr
  <2>3. ASSUME ~torn'
        PROVE  SbSize + c.len <= Idx - 1
    <3>1. old.len = 0 \/ SbSize + old.len <= Idx - 1
      BY <2>1 DEF Whole, BoundaryOK, Stub
    <3>2. SbSize + new.len <= Idx - 1
      BY <1>1, <1>2, <1>5, <2>1 DEF SbSize
    <3>3. c.len <= old.len \/ c.len <= new.len
      BY <1>13, <1>14, <2>3 DEF Outside, Addr
    <3>4. old.len \in Int /\ new.len \in Int /\ c.len \in Int /\ SbSize = 2 /\ 0 <= new.len
      BY <1>14, <1>2 DEF Addr, SbSize
    <3> QED
      BY <3>1, <3>2, <3>3, <3>4, <1>2
  <2>4. ASSUME ~torn'
        PROVE  VolumeOK' /\ Idx' = Idx
    <3>1. Free <= Idx - 1 /\ pc \notin CompactPCs
      BY <1>1, <1>2 DEF CompactPCs
    <3>2. IsEntry(mem'[Idx]) /\ SbSize + mem'[Idx].len <= Idx - 1
      BY <1>11, <1>12, <2>1, <2>3, <2>4
    <3> QED
      BY <1>12, <2>2, <3>1, <3>2, BoundaryVolume
  <2>5. torn' => IsEntry(mem[Idx]) /\ what.len \div PageSize # mem[Idx].len \div PageSize
    BY <1>5, <1>11, <1>15, <2>1
  <2> QED
    BY <1>8, <1>12, <2>2, <2>4, <2>5 DEF Astray
<1> QED
  BY <1>7, <1>16, <1>17

\* The super block: a pointer cut between its old and its new value keeps the
\* order of the layout, because the new entry and its data are in place.
LEMMA CutWriteSb ==
  ASSUME Whole, pc = "write_sb", NEW k \in Nat, CutInside(k)
  PROVE  /\ mem' \in [Addr -> Cell] /\ torn' \in BOOLEAN
         /\ ~torn' => VolumeOK' /\ mem'[1].to \in {Idx - 1, Idx}
         /\ ~torn' /\ mem'[1] # mem[1] => Idx' = Idx - 1
         /\ \A a \in SbSize .. VolSlot : mem'[a] = mem[a]
         /\ ChunkCells[1] = Ptr(Free + what.len) /\ ChunkCells[2] = Ptr(Idx - 1)
         /\ torn' => \/ (Free + what.len) \div PageSize # Free \div PageSize
                     \/ (Idx - 1) \div PageSize # Idx \div PageSize
<1>1. /\ sb.free = Free /\ sb.idx = Idx
      /\ what \in Payload /\ what.len \in Nat
      /\ Free + what.len <= Idx - 1
  BY PayloadLen DEF Whole, TypeOK, WriteOK, WritePCs, SuperBlockOK, ReadSb, Free, Idx
<1>2. /\ Free \in Int /\ Free \in Addr /\ 2 <= Free /\ Idx \in Int /\ Idx \in Addr /\ Idx <= FirstSlot
      /\ FirstSlot < MemSize /\ MemSize \in Int /\ FirstSlot \in Int /\ VolSlot = MemSize - 1
      /\ MemSize >= 5
  BY Pointers DEF Whole, FirstSlot
<1> DEFINE free2 == Free + what.len
<1>3. free2 \in Addr /\ Idx - 1 \in Addr /\ free2 \in Int /\ free2 <= Idx - 1 /\ Free <= free2
  BY <1>1, <1>2 DEF Addr
<1>4. ChunkAt = 0 /\ ChunkCells = <<Ptr(free2), Ptr(Idx - 1)>>
  BY <1>1, <1>2, <1>3 DEF ChunkAt, ChunkCells, WrittenSb, DeletePCs, Wrap
<1> HIDE DEF free2
<1>5. /\ ChunkCells \in Seq(Cell) /\ Len(ChunkCells) = 2
      /\ ChunkCells[1] = Ptr(free2) /\ ChunkCells[2] = Ptr(Idx - 1)
      /\ 0 + Len(ChunkCells) <= MemSize /\ 0 \in Nat
  BY <1>2, <1>3, <1>4, KernelCells, TwoCells
<1>6. /\ k < 2 /\ mem[0 + k] \in Cell /\ ChunkCells[k + 1] \in Cell
      /\ \E c \in Torn(mem[0 + k], ChunkCells[k + 1]) :
           /\ mem' = Put(mem, 0, Append(SubSeq(ChunkCells, 1, k), c))
           /\ torn' = Astray(c, mem[0 + k], ChunkCells[k + 1])
  BY <1>4, <1>5, CutInsideCell DEF Whole
<1> DEFINE old == mem[0 + k]
           new == ChunkCells[k + 1]
<1>7. PICK c \in Torn(old, new) :
        /\ mem' = Put(mem, 0, Append(SubSeq(ChunkCells, 1, k), c))
        /\ torn' = Astray(c, old, new)
  BY <1>6
<1>8. new.type = "ptr" /\ k \in {0, 1}
  BY <1>5, <1>6 DEF Ptr
<1>9. c \in Cell /\ old.type = "ptr" /\ c = Ptr(Half(old.to, new.to))
  BY <1>6, <1>8, TornIsCell DEF IsEntry
<1>10. old.to \in Addr /\ new.to \in Addr /\ c.type = "ptr" /\ c.to = Half(old.to, new.to) /\ c.to \in Addr
  BY <1>6, <1>8, <1>9, PtrIsAddress DEF Ptr
<1>11. /\ mem' \in [Addr -> Cell]
       /\ \A a \in Addr : a < 0 \/ 0 + k < a => mem'[a] = mem[a]
       /\ \A i \in 1 .. k : mem'[0 + i - 1] = ChunkCells[i]
       /\ mem'[0 + k] = c
  <2>1. TypeOK /\ k < Len(ChunkCells) /\ 0 + Len(ChunkCells) <= MemSize
    BY <1>5, <1>6 DEF Whole
  <2>2. ChunkCells \in Seq(Cell) /\ c \in Cell /\ 0 \in Nat
    BY <1>5, <1>9
  <2>3. mem' = Put(mem, 0, Append(SubSeq(ChunkCells, 1, k), c))
    BY <1>7
  <2> QED
    BY ONLY <2>1, <2>2, <2>3, k \in Nat, CutCells
<1>12. torn' <=> Outside(c.to, old.to, new.to)
  BY <1>7, <1>8, <1>10 DEF Astray, IsEntry
<1>13. torn' => new.to \div PageSize # old.to \div PageSize
  <2>1. ASSUME new.to \div PageSize = old.to \div PageSize
        PROVE  c.to = new.to
    BY <2>1, <1>10, HalfAddr
  <2> QED
    BY <2>1, <1>10, <1>12 DEF Outside, Addr
<1>14. ASSUME NEW a \in SbSize .. VolSlot
       PROVE  mem'[a] = mem[a]
  <2>1. a \in Addr /\ 0 + k < a
    BY <1>2, <1>8 DEF Addr, SbSize
  <2> QED
    BY <2>1, <1>11
<1>15. CASE k = 0
  <2>1. old.to = Free /\ new.to = free2 /\ mem'[0] = c /\ mem'[1] = mem[1]
    BY <1>15, <1>2, <1>3, <1>5, <1>11, KernelCells DEF Free, Addr
  <2>2. ASSUME ~torn'
        PROVE  VolumeOK'
    <3>1. Free <= c.to /\ c.to <= free2 /\ c.to \in Int
      BY <2>1, <2>2, <1>2, <1>3, <1>10, <1>12 DEF Outside, Addr
    <3>2. mem'[1].type = "ptr" /\ mem'[1].to = Idx
      BY <2>1 DEF Whole, SuperBlockOK, Idx
    <3> QED
      BY <1>1, <1>2, <1>10, <1>11, <1>14, <2>1, <3>1, <3>2, WriteSbCells DEF free2
  <2> QED
    BY <1>5, <1>7, <1>11, <1>13, <1>14, <2>1, <2>2 DEF Astray, Idx, free2
<1>16. CASE k = 1
  <2>0. 0 + k = 1 /\ k + 1 = 2
    BY <1>16
  <2>1. old.to = Idx /\ new.to = Idx - 1 /\ mem'[1] = c
    <3>1. old = mem[1] /\ new = Ptr(Idx - 1)
      BY <2>0, <1>5
    <3>2. new.to = Idx - 1
      BY <3>1 DEF Ptr
    <3> QED
      BY <2>0, <3>1, <3>2, <1>11 DEF Idx
  <2>2. mem'[0] = Ptr(free2)
    <3>1. 1 \in 1 .. k /\ 0 + 1 - 1 = 0
      BY <1>16
    <3> QED
      BY <3>1, <1>5, <1>11
  <2>3. ASSUME ~torn'
        PROVE  VolumeOK' /\ c.to \in {Idx - 1, Idx}
    <3>1. c.to = Idx \/ c.to = Idx - 1
      BY <2>1, <2>3, <1>2, <1>3, <1>10, <1>12 DEF Outside, Addr
    <3>2. mem'[0].type = "ptr" /\ mem'[0].to = free2
      BY <2>2 DEF Ptr
    <3> QED
      BY <1>1, <1>2, <1>3, <1>10, <1>11, <1>14, <2>1, <3>1, <3>2, WriteSbCells DEF free2
  <2>4. ASSUME ~torn', mem'[1] # mem[1]
        PROVE  Idx' = Idx - 1
    <3>1. c.to # Idx
      <4>1. mem[1] = old /\ old \in Cell /\ old.type = "ptr"
        BY <1>16, <1>6, <1>9
      <4>2. old = Ptr(Idx)
        BY <4>1, <2>1 DEF Cell, Ptr, Entry, Blank, Vol
      <4> QED
        BY <2>1, <2>4, <4>1, <4>2, <1>9, <1>10 DEF Ptr
    <3> QED
      BY <2>1, <2>3, <2>4, <3>1 DEF Idx
  <2> QED
    BY <1>5, <1>7, <1>11, <1>13, <1>14, <2>1, <2>3, <2>4 DEF Astray, free2
<1> QED
  BY <1>8, <1>15, <1>16

\* A delete rewrites the bytes of the entry but its type: a cut inside of them
\* is the whole delete.
LEMMA CutDelete ==
  ASSUME Whole, pc \in DeletePCs, NEW k \in Nat, CutInside(k)
  PROVE  torn' = FALSE /\ mem' = Put(mem, ChunkAt, ChunkCells)
<1>1. /\ target \in Idx .. VolSlot /\ IsEntry(mem[target])
      /\ ChunkAt = target
      /\ ChunkCells = <<[mem[target] EXCEPT !.type = "FILE_DEL"]>>
  BY DEF Whole, HeldOK, Findable, ChunkAt, ChunkCells, DeletePCs
<1>2. target \in Nat /\ target \in Addr /\ target + 1 <= MemSize
  <2>1. Idx \in Addr /\ VolSlot = MemSize - 1 /\ MemSize \in Int
    BY Pointers DEF Whole
  <2> QED
    BY <1>1, <2>1 DEF Addr
<1> DEFINE old == mem[target]
           new == [mem[target] EXCEPT !.type = "FILE_DEL"]
<1>3. old \in Entry /\ old \in Cell
  BY <1>1, <1>2, EntryIsEntry DEF Whole, TypeOK
<1>4. /\ new \in Entry /\ new \in Cell /\ new.type = "FILE_DEL"
      /\ new.start = old.start /\ new.len = old.len /\ new.name = old.name
      /\ new.what = old.what /\ new.sound = old.sound
  BY <1>3 DEF Entry, Cell
<1>5. /\ ChunkCells \in Seq(Cell) /\ Len(ChunkCells) = 1 /\ ChunkCells[1] = new
      /\ target + Len(ChunkCells) <= MemSize
  BY <1>1, <1>2, <1>4, OneCell
<1> HIDE DEF old, new
<1>6. /\ k < 1
      /\ \E c \in Torn(mem[target + k], ChunkCells[k + 1]) :
           /\ mem' = Put(mem, target, Append(SubSeq(ChunkCells, 1, k), c))
           /\ torn' = Astray(c, mem[target + k], ChunkCells[k + 1])
  BY <1>1, <1>2, <1>5, CutInsideCell DEF Whole
<1>7. k = 0 /\ target + k = target /\ k + 1 = 1
  BY <1>2, <1>6
<1>8. PICK c \in Torn(old, new) :
        /\ mem' = Put(mem, target, Append(SubSeq(ChunkCells, 1, 0), c))
        /\ torn' = Astray(c, old, new)
  BY <1>5, <1>6, <1>7 DEF old
<1>9. c \in TornEntries(old, new)
  BY <1>3, <1>4, <1>8, TornIsCell
<1>10. /\ c \in Entry /\ c.type = new.type /\ c.name = new.name
       /\ c.what = new.what /\ c.sound = new.sound
       /\ c.len \in {old.len, Half(old.len, new.len), new.len}
       /\ c.start \in {old.start, Half(old.start, new.start), new.start}
  BY <1>3, <1>4, <1>9, TornEntryIsEntry
<1>11. c.len = new.len /\ c.start = new.start
  <2>1. old.len \in Addr /\ old.start \in Addr
    BY <1>3 DEF Entry
  <2>2. Half(old.len, old.len) = old.len /\ Half(old.start, old.start) = old.start
    BY <2>1, HalfAddr
  <2> QED
    BY <1>4, <1>10, <2>2
<1>12. c = new
  BY <1>4, <1>10, <1>11 DEF Entry
<1>13. SubSeq(ChunkCells, 1, 0) = <<>> /\ Append(<<>>, c) = <<c>> /\ ChunkCells = <<new>>
  BY <1>1, <1>5 DEF new
<1>14. torn' = FALSE
  <2>1. c.type # "ptr"
    BY <1>4, <1>10
  <2>2. ~Outside(c.len, old.len, new.len)
    <3>1. old.len \in Int
      BY <1>3, <1>1, EntryIsEntry DEF old
    <3> QED
      BY <1>4, <1>11, <3>1 DEF Outside
  <2> QED
    BY <1>8, <2>1, <2>2 DEF Astray
<1> QED
  BY <1>1, <1>8, <1>12, <1>13, <1>14

\* The markers of a format: a torn start marker keeps a length no longer than
\* the one it had; the volume marker holds no number.
LEMMA CutMarker ==
  ASSUME Whole, pc \in {"format_stub", "format_vol"}, NEW k \in Nat, CutInside(k)
  PROVE  torn' = FALSE /\ VolumeOK' /\ Idx' = Idx
<1>1. /\ Free = SbSize /\ Idx = FirstSlot
      /\ FirstSlot < MemSize /\ MemSize \in Int /\ FirstSlot \in Int /\ FirstSlot \in Addr
      /\ VolSlot \in Addr /\ VolSlot = MemSize - 1 /\ FirstSlot = VolSlot - 1 /\ MemSize >= 5
      /\ VolSlot \in Int /\ SbSize = 2
  BY Pointers DEF Whole, SuperBlockOK, FirstSlot, SbSize
<1> DEFINE at == ChunkAt
           new == IF pc = "format_stub" THEN Stub ELSE Vol
<1>2. /\ at = (IF pc = "format_stub" THEN FirstSlot ELSE VolSlot)
      /\ ChunkCells = <<new>> /\ new \in Cell
  BY KernelCells DEF ChunkAt, ChunkCells, DeletePCs
<1> HIDE DEF new
<1>3. /\ ChunkCells \in Seq(Cell) /\ Len(ChunkCells) = 1 /\ ChunkCells[1] = new
      /\ at \in Nat /\ at \in Addr /\ at + Len(ChunkCells) <= MemSize
  <2>1. ChunkCells \in Seq(Cell) /\ Len(ChunkCells) = 1 /\ ChunkCells[1] = new
    BY <1>2, OneCell
  <2> HIDE DEF at
  <2> QED
    BY <1>1, <1>2, <2>1 DEF Addr
<1>4. /\ k < 1 /\ mem[at + k] \in Cell
      /\ \E c \in Torn(mem[at + k], ChunkCells[k + 1]) :
           /\ mem' = Put(mem, at, Append(SubSeq(ChunkCells, 1, k), c))
           /\ torn' = Astray(c, mem[at + k], ChunkCells[k + 1])
  BY <1>3, CutInsideCell DEF Whole
<1>5. k = 0 /\ at + k = at /\ k + 1 = 1
  BY <1>3, <1>4
<1>6. PICK c \in Torn(mem[at], new) :
        /\ mem' = Put(mem, at, Append(SubSeq(ChunkCells, 1, k), c))
        /\ torn' = Astray(c, mem[at], new)
  BY <1>3, <1>4, <1>5
<1>7. pc = "format_stub"
  <2>1. ASSUME pc = "format_vol"
        PROVE  FALSE
    <3>1. new.type = "VOL_ID" /\ mem[at] \in Cell
      BY <2>1, <1>4, <1>5 DEF new, Vol
    <3> QED
      BY <3>1, <1>2, <1>6, NoTornData
  <2> QED
    BY <2>1
<1>8. at = Idx /\ new = Stub
  BY <1>1, <1>2, <1>7 DEF new
<1>9. /\ c \in Cell /\ IsEntry(c) /\ mem[Idx] \in Entry /\ Stub \in Entry
      /\ c \in TornEntries(mem[Idx], Stub)
  <2>1. Stub.type # "ptr"
    BY DEF Stub
  <2> QED
    BY <2>1, <1>2, <1>4, <1>5, <1>6, <1>8, TornIsCell
<1>10. c.len \in {mem[Idx].len, Half(mem[Idx].len, 0), 0}
  <2>1. Stub.len = 0
    BY DEF Stub
  <2> QED
    BY <1>9, <2>1, TornEntryIsEntry
<1>11. /\ c.len \in Int /\ mem[Idx].len \in Int /\ 0 <= c.len /\ c.len <= mem[Idx].len
  <2>1. mem[Idx].len \in Addr /\ 0 \in Addr
    BY <1>9, ConstantsAssumption DEF Entry, Addr
  <2>2. Half(mem[Idx].len, 0) <= mem[Idx].len
    BY <2>1, HalfAddr
  <2>3. c.len \in Int /\ 0 <= c.len
    BY <1>9, EntryIsEntry
  <2>4. mem[Idx].len \in Int /\ 0 <= mem[Idx].len
    BY <2>1, ConstantsAssumption DEF Addr
  <2> QED
    BY <1>10, <2>2, <2>3, <2>4
<1>12. torn' = FALSE
  <2>1. c.type # "ptr" /\ Stub.len = 0
    BY <1>9 DEF IsEntry, Stub
  <2>2. ~Outside(c.len, mem[Idx].len, Stub.len)
    BY <1>11, <2>1 DEF Outside
  <2> QED
    BY <1>6, <1>8, <2>1, <2>2 DEF Astray
<1>13. /\ mem' \in [Addr -> Cell] /\ mem'[Idx] = c
       /\ \A a \in Addr : a < at \/ at + k < a => mem'[a] = mem[a]
  <2>1. TypeOK /\ k < Len(ChunkCells) /\ at + Len(ChunkCells) <= MemSize
    BY <1>3, <1>4 DEF Whole
  <2>2. ChunkCells \in Seq(Cell) /\ c \in Cell /\ at \in Nat
    BY <1>3, <1>9
  <2>3. mem' = Put(mem, at, Append(SubSeq(ChunkCells, 1, k), c))
    BY <1>6
  <2> HIDE DEF at
  <2>4. /\ mem' \in [Addr -> Cell] /\ mem'[at + k] = c
        /\ \A a \in Addr : a < at \/ at + k < a => mem'[a] = mem[a]
    BY ONLY <2>1, <2>2, <2>3, k \in Nat, CutCells
  <2> QED
    BY <2>4, <1>5, <1>8
<1>14. \A a \in Addr : a # Idx => mem'[a] = mem[a]
  BY <1>1, <1>5, <1>8, <1>13 DEF Addr
<1>15. SbSize + c.len <= Idx - 1
  <2>1. mem[Idx] = Stub \/ SbSize + mem[Idx].len <= Idx - 1
    BY DEF Whole, BoundaryOK
  <2>2. Stub.len = 0 /\ 2 <= Idx - 1 /\ Idx \in Int
    BY <1>1 DEF Stub, FirstSlot
  <2> QED
    BY <1>1, <1>11, <2>1, <2>2
<1>16. Idx - 1 \in Addr
  BY <1>1 DEF Addr
<1>17. mem'[Idx - 1] = mem[Idx - 1]
  BY <1>1, <1>14, <1>16
<1>18. VolumeOK' /\ Idx' = Idx
  BY <1>7, <1>9, <1>13, <1>14, <1>15, <1>17, BoundaryVolume DEF CompactPCs
<1> QED
  BY <1>12, <1>18

\* Whatever the cut left, the volume is sound or known to be torn.
LEMMA CutInsideVolume ==
  ASSUME Whole, pc \in Survivable, NEW k \in Nat, CutInside(k)
  PROVE  /\ mem' \in [Addr -> Cell] /\ torn' \in BOOLEAN
         /\ ~torn' => VolumeOK'
<1>1. CASE pc = "write_data"
  BY <1>1, CutWriteData
<1>2. CASE pc = "write_index"
  BY <1>2, CutWriteIndex
<1>3. CASE pc = "write_sb"
  BY <1>3, CutWriteSb
<1>4. CASE pc \in DeletePCs
  <2>1. torn' = FALSE /\ mem' = Put(mem, ChunkAt, SubSeq(ChunkCells, 1, 1)) /\ 1 \in 0 .. Len(ChunkCells)
    BY <1>4, CutDelete, TombstoneChunk, WholeChunk
  <2>2. VolumeOK'
    BY <1>4, <2>1, TombstoneVolume
  <2> QED
    BY <2>1, <2>2 DEF VolumeOK
<1>5. CASE pc \in {"format_stub", "format_vol"}
  BY <1>5, CutMarker DEF VolumeOK
<1> QED
  BY <1>1, <1>2, <1>3, <1>4, <1>5 DEF Survivable, WritePCs

-----------------------------------------------------------------------------
(* The invariant holds for ever. *)

\* The power fails inside a transaction of a write, a delete, an update or the
\* marker part of a format: whatever prefix arrived, the volume is sound, or a
\* number in it is torn and the volume is given up.
LEMMA PowerLossInv ==
  ASSUME Whole, CrashPoints \subseteq Survivable, PowerLoss
  PROVE  IInv'
<1>1. PICK k \in 0 .. Len(ChunkCells) : CutBetween(k) \/ CutInside(k)
  BY DEF PowerLoss
<1>2. Return /\ held' = NoId /\ UNCHANGED writes /\ pc \in Survivable
  BY DEF PowerLoss
<1>3. held' \in Addr
  BY <1>2, ConstantsAssumption DEF NoId, Addr
<1>4. ASSUME VolumeOK', torn' = FALSE
      PROVE  IInv'
  BY <1>2, <1>3, <1>4, IdleInv DEF Whole, IInv
<1>5. CASE CutBetween(k)
  <2>1. mem' = Put(mem, ChunkAt, SubSeq(ChunkCells, 1, k)) /\ torn' = FALSE
    BY <1>5 DEF CutBetween, Whole, TypeOK
  <2>2. VolumeOK'
    <3>1. CASE pc = "write_data"
      BY <2>1, <3>1, WriteDataVolume
    <3>2. CASE pc = "write_index"
      BY <2>1, <3>2, WriteIndexVolume
    <3>3. CASE pc = "write_sb"
      BY <2>1, <3>3, WriteSbVolume
    <3>4. CASE pc \in DeletePCs
      BY <2>1, <3>4, TombstoneVolume
    <3>5. CASE pc \in {"format_stub", "format_vol"}
      BY <2>1, <3>5, MarkerVolume
    <3> QED
      BY <1>2, <3>1, <3>2, <3>3, <3>4, <3>5 DEF Survivable, WritePCs
  <2> QED
    BY <1>4, <2>1, <2>2
<1>6. CASE CutInside(k)
  <2>0. k \in Nat
    OBVIOUS
  <2>1. mem' \in [Addr -> Cell] /\ torn' \in BOOLEAN /\ (~torn' => VolumeOK')
    BY <1>2, <1>6, <2>0, CutInsideVolume
  <2>2. CASE torn' = FALSE
    BY <1>4, <2>1, <2>2
  <2>3. CASE torn' = TRUE
    <3>1. Names # {} /\ writes \in 0 .. MaxWrites
      BY DEF Whole, TypeOK
    <3>2. TypeOK'
      BY <1>2, <1>3, <2>1, <3>1, ReturnType DEF TypeOK
    <3>3. Astrayed'
      BY <1>2, <2>3, <3>2 DEF Astrayed, Return
    <3> QED
      BY <3>3 DEF IInv
  <2> QED
    BY <2>1, <2>2, <2>3
<1> QED
  BY <1>1, <1>5, <1>6

\* The way back from a torn volume: FS_FORMAT writes all of it that is read.
LEMMA AstrayedFormatSb == ASSUME Astrayed, FormatSb PROVE Astrayed'
<1>1. /\ pc = "format_sb" /\ pc' = "format_stub" /\ mem' = Put(mem, ChunkAt, ChunkCells)
      /\ UNCHANGED <<held, sb, name, what, target, ent, to, off, cur, wi, ws, writes, torn>>
  BY DEF FormatSb, Transmit, ramVars
<1>2. ChunkAt = 0 /\ ChunkCells = <<Ptr(2), Ptr(FirstSlot)>>
  BY <1>1 DEF ChunkAt, ChunkCells, SbSize, DeletePCs
<1>3. MemSize \in Int /\ MemSize >= 5 /\ 2 \in Addr /\ FirstSlot \in Addr
  BY ConstantsAssumption DEF Addr, FirstSlot
<1>4. /\ ChunkCells \in Seq(Cell) /\ Len(ChunkCells) = 2
      /\ ChunkCells[1] = Ptr(2) /\ ChunkCells[2] = Ptr(FirstSlot)
  BY <1>2, <1>3, KernelCells, TwoCells
<1>5. /\ mem' \in [Addr -> Cell]
      /\ \A i \in 1 .. 2 : mem'[0 + i - 1] = ChunkCells[i]
  <2>1. 0 \in Nat /\ 0 + Len(ChunkCells) <= MemSize /\ mem' = Put(mem, 0, ChunkCells)
    BY <1>1, <1>2, <1>3, <1>4
  <2> QED
    BY <2>1, <1>4, Transmitted DEF Astrayed
<1>6. mem'[0] = Ptr(SbSize) /\ mem'[1] = Ptr(FirstSlot)
  <2>1. 1 \in 1 .. 2 /\ 0 + 1 - 1 = 0 /\ 2 \in 1 .. 2 /\ 0 + 2 - 1 = 1
    OBVIOUS
  <2> QED
    BY <2>1, <1>4, <1>5 DEF SbSize
<1>7. TypeOK'
  BY <1>1, <1>5 DEF Astrayed, TypeOK, PCs, FormatPCs
<1> QED
  BY <1>1, <1>6, <1>7 DEF Astrayed, FormatPCs

LEMMA AstrayedFormatStub == ASSUME Astrayed, FormatStub PROVE Astrayed'
<1>1. /\ pc = "format_stub" /\ pc' = "format_vol" /\ mem' = Put(mem, ChunkAt, ChunkCells)
      /\ UNCHANGED <<held, sb, name, what, target, ent, to, off, cur, wi, ws, writes, torn>>
  BY DEF FormatStub, Transmit, ramVars
<1>2. ChunkAt = FirstSlot /\ ChunkCells = <<Stub>>
  BY <1>1 DEF ChunkAt, ChunkCells, DeletePCs
<1>3. /\ FirstSlot \in Nat /\ FirstSlot + 1 <= MemSize /\ 1 < FirstSlot
      /\ 0 \in Addr /\ 1 \in Addr /\ FirstSlot \in Addr
  BY ConstantsAssumption DEF Addr, FirstSlot
<1>4. ChunkCells \in Seq(Cell) /\ Len(ChunkCells) = 1 /\ ChunkCells[1] = Stub
  BY <1>2, KernelCells, OneCell
<1>5. /\ mem' \in [Addr -> Cell]
      /\ \A a \in Addr : a < FirstSlot \/ FirstSlot + 1 <= a => mem'[a] = mem[a]
      /\ \A i \in 1 .. 1 : mem'[FirstSlot + i - 1] = ChunkCells[i]
  <2>1. FirstSlot + Len(ChunkCells) <= MemSize /\ mem' = Put(mem, FirstSlot, ChunkCells)
    BY <1>1, <1>2, <1>3, <1>4
  <2> QED
    BY <2>1, <1>3, <1>4, Transmitted DEF Astrayed
<1>6. mem'[FirstSlot] = Stub /\ mem'[0] = mem[0] /\ mem'[1] = mem[1]
  <2>1. 1 \in 1 .. 1 /\ FirstSlot + 1 - 1 = FirstSlot /\ 0 < FirstSlot
    BY <1>3
  <2> QED
    BY <2>1, <1>3, <1>4, <1>5
<1>7. TypeOK'
  BY <1>1, <1>5 DEF Astrayed, TypeOK, PCs, FormatPCs
<1> QED
  BY <1>1, <1>6, <1>7 DEF Astrayed, FormatPCs

LEMMA AstrayedFormatVol == ASSUME Astrayed, FormatVol PROVE Whole'
<1>1. /\ pc = "format_vol" /\ mem' = Put(mem, ChunkAt, ChunkCells)
      /\ Return /\ torn' = FALSE /\ UNCHANGED <<held, writes>>
  BY DEF FormatVol, Transmit
<1>2. ChunkAt = VolSlot /\ ChunkCells = <<Vol>>
  BY <1>1 DEF ChunkAt, ChunkCells, DeletePCs
<1>3. /\ VolSlot \in Nat /\ VolSlot + 1 <= MemSize /\ 1 < VolSlot
      /\ 0 \in Addr /\ 1 \in Addr /\ FirstSlot \in Addr /\ FirstSlot < VolSlot
      /\ FirstSlot \in Int /\ 2 <= FirstSlot /\ SbSize = 2 /\ 2 <= FirstSlot
  BY ConstantsAssumption DEF Addr, FirstSlot, VolSlot, SbSize
<1>4. ChunkCells \in Seq(Cell) /\ Len(ChunkCells) = 1
  BY <1>2, KernelCells, OneCell
<1>5. /\ mem' \in [Addr -> Cell]
      /\ \A a \in Addr : a < VolSlot \/ VolSlot + 1 <= a => mem'[a] = mem[a]
  <2>1. VolSlot + Len(ChunkCells) <= MemSize /\ mem' = Put(mem, VolSlot, ChunkCells)
    BY <1>1, <1>2, <1>3, <1>4
  <2> QED
    BY <2>1, <1>3, <1>4, Transmitted DEF Astrayed
<1>6. mem'[0] = Ptr(SbSize) /\ mem'[1] = Ptr(FirstSlot) /\ mem'[FirstSlot] = Stub
  <2>1. mem[0] = Ptr(SbSize) /\ mem[1] = Ptr(FirstSlot) /\ mem[FirstSlot] = Stub
    BY <1>1 DEF Astrayed
  <2>2. 0 < VolSlot
    BY <1>3
  <2> QED
    BY <2>1, <2>2, <1>3, <1>5
<1>7. /\ Free' = SbSize /\ Idx' = FirstSlot
      /\ mem'[0].type = "ptr" /\ mem'[1].type = "ptr"
  BY <1>6 DEF Free, Idx, Ptr
<1>8. VolumeOK'
  <2>1. Filed(mem', FirstSlot + 1, FirstSlot, SbSize, SbSize)
    BY <1>3, FiledEmpty
  <2>2. BoundaryOK'
    BY <1>6, <1>7 DEF BoundaryOK, Stub, IsEntry
  <2>3. PointersOrdered'
    BY <1>3, <1>7 DEF PointersOrdered
  <2> QED
    BY <1>5, <1>7, <2>1, <2>2, <2>3 DEF VolumeOK
<1>9. held' = NoId /\ held' \in Addr
  BY <1>1 DEF Astrayed, TypeOK
<1> QED
  BY <1>1, <1>8, <1>9, IdleInv DEF Astrayed

\* The power fails in the format of a torn volume: it stays torn.
LEMMA AstrayedPowerLoss ==
  ASSUME Astrayed, CrashPoints \subseteq Survivable, PowerLoss
  PROVE  Astrayed'
<1>1. PICK k \in 0 .. Len(ChunkCells) : CutBetween(k) \/ CutInside(k)
  BY DEF PowerLoss
<1>2. Return /\ held' = NoId /\ UNCHANGED writes /\ pc \in {"format_stub", "format_vol"}
  BY DEF PowerLoss, Astrayed, Survivable, WritePCs, DeletePCs, FormatPCs
<1>3. held' \in Addr
  BY <1>2, ConstantsAssumption DEF NoId, Addr
<1>4. /\ ChunkCells \in Seq(Cell) /\ Len(ChunkCells) = 1
      /\ ChunkAt \in Nat /\ ChunkAt + Len(ChunkCells) <= MemSize
  <2>1. PICK x \in {Stub, Vol} : ChunkCells = <<x>> /\ x \in Cell
    BY <1>2, KernelCells DEF ChunkCells, DeletePCs
  <2>2. ChunkAt \in {FirstSlot, VolSlot}
    BY <1>2 DEF ChunkAt, DeletePCs
  <2>3. ChunkCells \in Seq(Cell) /\ Len(ChunkCells) = 1
    BY <2>1, OneCell
  <2> QED
    BY <2>2, <2>3, ConstantsAssumption DEF FirstSlot, VolSlot
<1>5. mem' \in [Addr -> Cell] /\ torn' = TRUE
  <2>1. CASE CutBetween(k)
    <3>1. SubSeq(ChunkCells, 1, k) \in Seq(Cell) /\ Len(SubSeq(ChunkCells, 1, k)) = k
      BY <1>4, PrefixOfChunk
    <3>2. ChunkAt + k <= MemSize
      BY <1>4, ConstantsAssumption
    <3> QED
      BY <2>1, <3>1, <3>2, <1>4, PutType DEF CutBetween, Astrayed, TypeOK
  <2>2. CASE CutInside(k)
    <3>0. k \in Nat
      OBVIOUS
    <3>1. /\ k < Len(ChunkCells) /\ mem[ChunkAt + k] \in Cell /\ ChunkCells[k + 1] \in Cell
          /\ \E c \in Torn(mem[ChunkAt + k], ChunkCells[k + 1]) :
               /\ mem' = Put(mem, ChunkAt, Append(SubSeq(ChunkCells, 1, k), c))
               /\ torn' = (torn \/ Astray(c, mem[ChunkAt + k], ChunkCells[k + 1]))
      BY <2>2, <3>0, <1>4, CutInsideCell DEF Astrayed
    <3>2. PICK c \in Torn(mem[ChunkAt + k], ChunkCells[k + 1]) :
               /\ mem' = Put(mem, ChunkAt, Append(SubSeq(ChunkCells, 1, k), c))
               /\ torn' = (torn \/ Astray(c, mem[ChunkAt + k], ChunkCells[k + 1]))
      BY <3>1
    <3>3. c \in Cell
      BY <3>1, TornIsCell
    <3>4. mem' \in [Addr -> Cell]
      BY <3>0, <3>1, <3>2, <3>3, <1>4, CutCells DEF Astrayed
    <3>5. torn' = TRUE
      BY <3>2 DEF Astrayed
    <3> QED
      BY <3>4, <3>5
  <2> QED
    BY <1>1, <2>1, <2>2
<1>6. TypeOK'
  <2>1. Names # {} /\ writes \in 0 .. MaxWrites
    BY DEF Astrayed, TypeOK
  <2> QED
    BY <1>2, <1>3, <1>5, <2>1, ReturnType DEF TypeOK
<1> QED
  BY <1>2, <1>5, <1>6 DEF Astrayed, Return

\* Nothing but a format moves a torn volume.
LEMMA AstrayedInv ==
  ASSUME Astrayed, CrashPoints \subseteq Survivable, [Next]_vars
  PROVE  IInv'
<1>1. torn /\ pc \in {"idle", "format_sb", "format_stub", "format_vol"} /\ held = NoId
  BY DEF Astrayed, FormatPCs
<1>2. CASE Format
  <2>1. mem' = mem /\ pc = "idle" /\ pc' = "format_sb" /\ held' = NoId /\ UNCHANGED ramVars /\ torn' = torn /\ writes' = writes
    BY <1>2 DEF Format
  <2>2. TypeOK'
    BY <2>1, ConstantsAssumption DEF Astrayed, TypeOK, ramVars, PCs, FormatPCs, NoId, Addr
  <2> QED
    BY <1>1, <2>1, <2>2 DEF Astrayed, IInv, FormatPCs
<1>3. CASE FormatSb
  BY <1>3, AstrayedFormatSb DEF IInv
<1>4. CASE FormatStub
  BY <1>4, AstrayedFormatStub DEF IInv
<1>5. CASE FormatVol
  BY <1>5, AstrayedFormatVol DEF IInv
<1>6. CASE PowerLoss
  BY <1>6, AstrayedPowerLoss DEF IInv
<1>7. CASE UNCHANGED vars
  <2>1. TypeOK'
    BY <1>7 DEF Astrayed, TypeOK, vars, ramVars
  <2>2. Astrayed'
    BY <1>7, <2>1 DEF Astrayed, vars
  <2> QED
    BY <2>2 DEF IInv
<1>8. ASSUME Call, ~Format
      PROVE  FALSE
  BY <1>1, <1>8 DEF Call, Find, Write, Delete, Update, Compact
<1>9. ASSUME Step, ~FormatSb, ~FormatStub, ~FormatVol
      PROVE  FALSE
  BY <1>1, <1>9 DEF Step, WriteData, WriteIndex, WriteSb, DeleteEntry, UpdateDelete,
     CompactSkip, CompactTake, CompactCopy, CompactEntry, CompactStub, CompactSb
<1> QED
  BY <1>2, <1>3, <1>4, <1>5, <1>6, <1>7, <1>8, <1>9 DEF Next

LEMMA StutterInv == ASSUME Whole, UNCHANGED vars PROVE Whole'
<1>1. /\ mem' = mem /\ torn' = torn /\ pc' = pc /\ held' = held /\ writes' = writes
      /\ sb' = sb /\ name' = name /\ what' = what /\ target' = target
      /\ ent' = ent /\ to' = to /\ off' = off /\ cur' = cur /\ wi' = wi /\ ws' = ws
  BY DEF vars, ramVars
<1>2. Free' = Free /\ Idx' = Idx /\ ReadSb' = ReadSb
  BY <1>1 DEF Free, Idx, ReadSb
<1>3. TypeOK' /\ ~torn'
  BY <1>1 DEF Whole, TypeOK
<1>4. SuperBlockOK' /\ BoundaryOK' /\ IndexOK' /\ HeldOK'
  BY <1>1, <1>2 DEF Whole, SuperBlockOK, PointersOrdered, BoundaryOK, IndexOK, HeldOK
<1>5. WriteOK'
  BY <1>1, <1>2 DEF Whole, WriteOK
<1>6. MovingOK <=> MovingOK'
  BY <1>1, <1>2 DEF MovingOK, Holds, End
<1>7. CompactOK'
  BY <1>1, <1>2, <1>6 DEF Whole, CompactOK
<1> QED
  BY <1>3, <1>4, <1>5, <1>7 DEF Whole

\* What the theorems assume: callers that know how much room there is, and a
\* power supply that lasts for a compaction and for one super block of a format.
Careful == SpaceChecked /\ CrashPoints \subseteq Survivable /\ Names # {}

LEMMA StepInv == ASSUME Careful, IInv, [Next]_vars PROVE IInv'
<1>0. CASE Astrayed
  BY <1>0, AstrayedInv DEF Careful
<1> SUFFICES ASSUME Whole PROVE IInv'
  BY <1>0 DEF IInv
<1>1. CASE Call
  BY <1>1, FormatInv, FindInv, WriteInv, DeleteInv, UpdateInv, CompactInv DEF Call, Careful, IInv
<1>2. CASE Step
  BY <1>2, FormatSbInv, FormatStubInv, FormatVolInv, WriteDataInv, WriteIndexInv, WriteSbInv,
     DeleteEntryInv, UpdateDeleteInv, CompactSkipInv, CompactTakeInv, CompactCopyInv,
     CompactEntryInv, CompactStubInv, CompactSbInv DEF Step, IInv
<1>3. CASE PowerLoss
  BY <1>3, PowerLossInv DEF Careful
<1>4. CASE UNCHANGED vars
  BY <1>4, StutterInv DEF IInv
<1> QED
  BY <1>1, <1>2, <1>3, <1>4 DEF Next

\* The inductive invariant: whatever the callers do, and after whichever byte the
\* power fails, the volume is whole, or a cut through the high byte of a number
\* tore it and only FS_FORMAT is run on it.
THEOREM Invariance == Careful => (Spec => []IInv)
<1> SUFFICES ASSUME Careful
             PROVE  Spec => []IInv
  OBVIOUS
<1>1. Init => IInv
  BY InitInv DEF Careful, IInv
<1>2. IInv /\ [Next]_vars => IInv'
  BY StepInv
<1> QED
  BY <1>1, <1>2, PTL DEF Spec

\* Every variable keeps its type, and every pointer stays on the FRAM.
THEOREM TypeCorrect == Careful => (Spec => []TypeOK)
<1> SUFFICES ASSUME Careful
             PROVE  Spec => []TypeOK
  OBVIOUS
<1>1. IInv => TypeOK
  BY DEF IInv, Whole, Astrayed
<1> QED
  BY <1>1, Invariance, PTL

\* The data slab never grows into the index, on a FRAM of any size, after a power
\* failure at any byte that leaves the pointers between their old and their new
\* values; a cut pointer that stays on its page does.
THEOREM SlabStaysBelowIndex == Careful => (Spec => []SlabBelowIndex)
<1> SUFFICES ASSUME Careful
             PROVE  Spec => []SlabBelowIndex
  OBVIOUS
<1>1. IInv => SlabBelowIndex
  BY DEF IInv, Whole, Astrayed, SuperBlockOK, SlabBelowIndex
<1> QED
  BY <1>1, Invariance, PTL

\* No two entries of the index share a byte of the slab, and the newer file
\* lies above the older one, also where a cut left half an entry or half a
\* pointer, unless that half number lies outside its old and its new value.
THEOREM ExtentsStayOrdered == Careful => (Spec => []ExtentsOrdered)
<1> SUFFICES ASSUME Careful
             PROVE  Spec => []ExtentsOrdered
  OBVIOUS
<1>1. IInv => ExtentsOrdered
  <2> SUFFICES ASSUME Whole, pc \notin CompactPCs
               PROVE  /\ \A a \in Slots : IsRecord(mem[a]) /\ SbSize <= mem[a].start /\ End(mem[a]) <= Free
                      /\ \A a, b \in Slots : a < b => End(mem[b]) <= mem[a].start
    BY DEF ExtentsOrdered, IInv, Astrayed
  <2>1. Filed(mem, Idx + 1, FirstSlot, SbSize, Free) /\ Slots = Idx + 1 .. FirstSlot
    BY DEF Whole, IndexOK, Slots, Idx
  <2> QED
    BY <2>1 DEF Filed
<1> QED
  BY <1>1, Invariance, PTL

\* A file that FS_WRITE committed reads back as it was written, whatever
\* calls, and whatever power failures at survivable points, come after it, until
\* one tears a number.
THEOREM FilesStayIntact == Careful => (Spec => []FilesIntact)
<1> SUFFICES ASSUME Careful
             PROVE  Spec => []FilesIntact
  OBVIOUS
<1>1. IInv => FilesIntact
  <2> SUFFICES ASSUME Whole, pc \notin CompactPCs, NEW a \in Slots, IsFile(mem[a]), mem[a].sound
               PROVE  Holds(mem, mem[a], 0)
    BY DEF FilesIntact, IInv, Astrayed
  <2>1. Filed(mem, Idx + 1, FirstSlot, SbSize, Free) /\ Slots = Idx + 1 .. FirstSlot
    BY DEF Whole, IndexOK, Slots, Idx
  <2> QED
    BY <2>1 DEF Filed
<1> QED
  BY <1>1, Invariance, PTL

-----------------------------------------------------------------------------
(* Action properties. *)

\* A step that finds no file ID held before and after it keeps every file ID.
LEMMA StepKeepsFileId ==
  ASSUME Whole, Next, held' = held, held # NoId, held > mem[1].to
  PROVE  mem'[held] \in {mem[held], [mem[held] EXCEPT !.type = "FILE_DEL"]}
<1>1. /\ pc \notin FormatPCs \cup CompactPCs
      /\ held \in Idx .. VolSlot /\ held \in Idx + 1 .. VolSlot /\ held \in SbSize .. VolSlot
      /\ mem[1].to = Idx
  <2>1. pc \notin FormatPCs \cup CompactPCs /\ held \in Idx .. VolSlot /\ mem[1].to = Idx
    BY DEF Whole, HeldOK, Idx
  <2>2. Idx \in Int /\ VolSlot \in Int /\ 2 <= Idx
    BY Pointers DEF Whole
  <2> QED
    BY <2>1, <2>2 DEF SbSize
<1>2. CASE mem' = mem
  BY <1>2
<1>3. CASE WriteData
  <2>1. pc = "write_data" /\ mem' = Put(mem, ChunkAt, ChunkCells)
    BY <1>3 DEF WriteData, Transmit
  <2>2. ChunkCells \in Seq(Cell)
    BY <2>1, BytesAreCells DEF ChunkCells, DeletePCs, Whole, TypeOK
  <2> QED
    BY <1>1, <2>1, <2>2, WholeChunk, WriteDataVolume
<1>4. CASE WriteIndex
  <2>1. pc = "write_index" /\ mem' = Put(mem, ChunkAt, ChunkCells)
    BY <1>4 DEF WriteIndex, Transmit
  <2>2. ChunkCells \in Seq(Cell)
    BY <2>1, KernelCells, TwoCells DEF ChunkCells, WrittenIndex, DeletePCs, Whole, TypeOK
  <2> QED
    BY <1>1, <2>1, <2>2, WholeChunk, WriteIndexVolume
<1>5. CASE WriteSb
  <2>1. pc = "write_sb" /\ mem' = Put(mem, ChunkAt, ChunkCells)
    BY <1>5 DEF WriteSb, Transmit
  <2>2. ChunkCells \in Seq(Cell)
    BY <2>1, WriteSbChunk
  <2> QED
    BY <1>1, <2>1, <2>2, WholeChunk, WriteSbVolume
<1>6. CASE DeleteEntry \/ UpdateDelete
  <2>1. pc \in DeletePCs /\ mem' = Put(mem, ChunkAt, ChunkCells)
    BY <1>6 DEF DeleteEntry, UpdateDelete, Transmit, DeletePCs
  <2>2. ChunkCells \in Seq(Cell)
    BY <2>1, TombstoneChunk
  <2> QED
    BY <1>1, <2>1, <2>2, WholeChunk, TombstoneVolume
<1>7. CASE Call
  BY <1>2, <1>7 DEF Call, Format, Find, Write, Delete, Update, Compact
<1>8. CASE PowerLoss
  BY <1>8 DEF PowerLoss
<1>9. ~(FormatSb \/ FormatStub \/ FormatVol \/ CompactSkip \/ CompactTake \/ CompactCopy
        \/ CompactEntry \/ CompactStub \/ CompactSb)
  BY <1>1 DEF FormatSb, FormatStub, FormatVol, CompactSkip, CompactTake, CompactCopy,
     CompactEntry, CompactStub, CompactSb, FormatPCs, CompactPCs
<1> QED
  BY <1>3, <1>4, <1>5, <1>6, <1>7, <1>8, <1>9 DEF Next, Step

\* A file ID the caller may still hold names the same file after every step of
\* every write and every delete.
THEOREM FileIdsAreStable == Careful => (Spec => FileIdStable)
<1> SUFFICES ASSUME Careful
             PROVE  Spec => FileIdStable
  OBVIOUS
<1>1. IInv /\ [Next]_vars => [KeepsFileId]_vars
  BY StepKeepsFileId DEF KeepsFileId, IInv, Astrayed
<1> QED
  BY <1>1, Invariance, PTL DEF Spec, FileIdStable

\* After the super block of a write, the new entry is the first match.
LEMMA CommitIsFound ==
  ASSUME Whole, Next, pc = "write_sb", mem'[1] # mem[1], ~torn'
  PROVE  \E id \in Addr : FsFind(mem', name, id) /\ IsFile(mem'[id]) /\ FsRead(mem', id) = Bytes(what)
<1>1. /\ what \in Payload /\ what.len \in Nat /\ name \in Names
      /\ Free + what.len <= Idx - 1
      /\ \A i \in 0 .. what.len - 1 : mem[Free + i] = Byte(what, i)
      /\ mem[Idx] = FileEntry(name, Free, what) /\ mem[Idx - 1] = Stub
  BY PayloadLen DEF Whole, TypeOK, WriteOK, WritePCs
<1>2. /\ Free \in Int /\ 2 <= Free /\ Idx \in Int /\ Idx \in Addr /\ Idx <= FirstSlot
      /\ FirstSlot < MemSize /\ MemSize \in Int /\ FirstSlot \in Int /\ VolSlot = MemSize - 1
      /\ VolSlot \in Int /\ FirstSlot < VolSlot
  BY Pointers DEF Whole, FirstSlot
<1>3. Idx' = Idx - 1 /\ \A a \in SbSize .. VolSlot : mem'[a] = mem[a]
  <2>1. WriteSb \/ PowerLoss
    BY DEF Next, Call, Step, Format, Find, Write, Delete, Update, Compact, FormatSb, FormatStub,
       FormatVol, WriteData, WriteIndex, DeleteEntry, UpdateDelete, CompactSkip, CompactTake,
       CompactCopy, CompactEntry, CompactStub, CompactSb
  <2>2. CASE WriteSb
    <3>1. Len(ChunkCells) \in 0 .. Len(ChunkCells) /\ mem' = Put(mem, ChunkAt, SubSeq(ChunkCells, 1, Len(ChunkCells)))
      BY <2>2, WriteSbChunk, WholeChunk DEF WriteSb, Transmit
    <3> QED
      BY <3>1, WriteSbVolume
  <2>3. CASE PowerLoss
    <3>1. PICK k \in 0 .. Len(ChunkCells) : CutBetween(k) \/ CutInside(k)
      BY <2>3 DEF PowerLoss
    <3>2. CASE CutBetween(k)
      BY <3>2, WriteSbVolume DEF CutBetween
    <3>3. CASE CutInside(k)
      <4>1. k \in Nat
        OBVIOUS
      <4> QED
        BY <3>3, <4>1, CutWriteSb
    <3> QED
      BY <3>1, <3>2, <3>3
  <2> QED
    BY <2>1, <2>2, <2>3
<1>5. mem'[1].to = Idx - 1 /\ mem'[Idx] = FileEntry(name, Free, what) /\ mem'[Idx - 1] = Stub
  <2>1. mem'[1].to = Idx - 1
    BY <1>3 DEF Idx
  <2>2. Idx \in SbSize .. VolSlot /\ Idx - 1 \in SbSize .. VolSlot
    BY <1>1, <1>2 DEF SbSize
  <2> QED
    BY <2>1, <2>2, <1>1, <1>3
<1>6. FsFind(mem', name, Idx)
  <2>1. Idx \in Matches(mem', name)
    BY <1>2, <1>5 DEF Matches, IsEntry, FileEntry
  <2>2. ASSUME NEW b \in Matches(mem', name)
        PROVE  Idx <= b
    <3>1. b \in Idx - 1 .. VolSlot /\ mem'[b].name = name
      BY <1>5 DEF Matches
    <3>2. b # Idx - 1
      BY <3>1, <1>1, <1>5, ConstantsAssumption DEF Stub
    <3> QED
      BY <3>1, <3>2, <1>2
  <2> QED
    BY <2>1, <2>2 DEF FsFind
<1>7. FsRead(mem', Idx) = Bytes(what)
  <2>1. FsRead(mem', Idx) = Fetch(mem', Free, what.len)
    BY <1>5 DEF FsRead, FileEntry
  <2>2. ASSUME NEW i \in 1 .. what.len
        PROVE  mem'[Wrap(Free + i - 1)] = Byte(what, i - 1)
    <3> DEFINE j == i - 1
    <3>1. j \in 0 .. what.len - 1 /\ Free + j \in SbSize .. VolSlot /\ Free + i - 1 = Free + j
      BY <1>1, <1>2 DEF SbSize
    <3>2. Wrap(Free + i - 1) = Free + j
      BY <3>1, <1>2 DEF Wrap, SbSize
    <3> QED
      BY <3>1, <3>2, <1>1, <1>3
  <2> QED
    BY <2>1, <2>2 DEF Fetch, Bytes
<1>8. IsFile(mem'[Idx])
  BY <1>5 DEF IsFile, FileEntry
<1> QED
  BY <1>2, <1>6, <1>7, <1>8

\* What was just written is what FS_FIND and FS_READ give, also when the super
\* block got through and the power failed right after it.
THEOREM WritesAreFound == Careful => (Spec => WriteIsFound)
<1> SUFFICES ASSUME Careful
             PROVE  Spec => WriteIsFound
  OBVIOUS
<1>1. IInv /\ [Next]_vars => [FindsWritten]_vars
  BY CommitIsFound DEF FindsWritten, IInv, Astrayed, FormatPCs
<1> QED
  BY <1>1, Invariance, PTL DEF Spec, WriteIsFound
=============================================================================

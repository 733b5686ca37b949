----------------------- MODULE FramFsRefinement_proofs -----------------------
(***************************************************************************)
(* The filesystem is a log of files, for every size of the FRAM, chunk     *)
(* size and number of files: each call takes effect in one transaction.    *)
(* What it takes is to know, in the middle of a compaction, which file of  *)
(* the volume it started from each new entry is. From that follows what it *)
(* leaves in the FRAM: no gap, and every byte where there was none.        *)
(***************************************************************************)
EXTENDS FramFs_proofs

\* Entry a of m and entry b of s are one live file, byte for byte.
SameFile(m, a, s, b) ==
  /\ IsFile(m[a])
  /\ m[a].name = s[b].name
  /\ m[a].len = s[b].len
  /\ \A i \in 0 .. s[b].len - 1 : m[m[a].start + i] = s[s[b].start + i]

\* The live files of volume s in the slots above c.
LiveAbove(s, c) == {b \in c + 1 .. FirstSlot : IsFile(s[b])}

\* The new index above slot lo has the live files of the old one above c, all of
\* them, in their order: f gives the old slot of a new one.
KeptBy(f, m, lo, s, c) ==
  /\ \A a, b \in lo + 1 .. FirstSlot : a < b => f[a] < f[b]
  /\ \A b \in LiveAbove(s, c) : \E a \in lo + 1 .. FirstSlot : f[a] = b
  /\ \A a \in lo + 1 .. FirstSlot : SameFile(m, a, s, f[a])

Kept(m, lo, s, c) == \E f \in [lo + 1 .. FirstSlot -> LiveAbove(s, c)] : KeptBy(f, m, lo, s, c)

\* The volume a compaction started from.
SnapOK ==
  /\ snap \in [Addr -> Cell]
  /\ snap[0] = mem[0] /\ snap[1] = mem[1]
  /\ Filed(snap, Idx + 1, FirstSlot, SbSize, Free)

\* While entries are moved: what the cursors have not reached is as it was.
UnderwayOK ==
  /\ \A a \in Idx .. cur : mem[a] = snap[a]
  /\ \A x \in ws .. Idx - 1 : mem[x] = snap[x]
  /\ Kept(mem, wi, snap, cur)

\* The entry that is being moved; that of the boundary slot may start anywhere.
EntOK ==
  /\ IsFile(snap[cur])
  /\ ent.name = snap[cur].name /\ ent.start = snap[cur].start /\ ent.len = snap[cur].len
  /\ Idx < cur => \A i \in 0 .. off - 1 : mem[to + i] = snap[ent.start + i]

\* When all were moved. On an empty volume the boundary slot was looked at.
DoneOK ==
  IF Idx = FirstSlot THEN wi = FirstSlot \/ (wi = FirstSlot - 1 /\ IsFile(mem[FirstSlot]))
  ELSE Kept(mem, wi, snap, Idx)

PackingOK ==
  /\ pc \in CompactPCs => SnapOK
  /\ pc \in {"compact_next", "compact_copy", "compact_entry"} => UnderwayOK
  /\ pc \in {"compact_copy", "compact_entry"} => EntOK
  /\ pc \in {"compact_stub", "compact_sb"} => DoneOK

-----------------------------------------------------------------------------
(* Slots and their data. *)

\* A slot of a volume, and its data, in numbers.
LEMMA SlotNumbers ==
  ASSUME NEW m \in [Addr -> Cell], NEW lo \in Int, NEW floor \in Int, NEW ceiling \in Int,
         0 <= lo, 0 <= floor, ceiling <= FirstSlot,
         Filed(m, lo, FirstSlot, floor, ceiling), NEW a \in lo .. FirstSlot
  PROVE  /\ a \in Int /\ a \in Addr /\ IsRecord(m[a])
         /\ m[a].start \in Int /\ m[a].len \in Nat
         /\ floor <= m[a].start /\ m[a].start + m[a].len <= ceiling
         /\ \A i \in 0 .. m[a].len - 1 : m[a].start + i \in floor .. ceiling - 1
<1>1. a \in Int /\ a \in Addr /\ FirstSlot \in Int
  BY ConstantsAssumption DEF Addr, FirstSlot
<1>2. IsRecord(m[a]) /\ floor <= m[a].start /\ m[a].start + m[a].len <= ceiling
  BY DEF Filed, End
<1>3. m[a].start \in Int /\ m[a].len \in Nat
  BY <1>1, <1>2, RecordIsEntry, ConstantsAssumption DEF Addr
<1> QED
  BY <1>1, <1>2, <1>3

\* n cells of m from x on.
Stored(m, x, n) == [i \in 1 .. n |-> m[x + (i - 1)]]

\* FS_READ of an entry whose data is on the FRAM in one piece.
LEMMA ReadOfEntry ==
  ASSUME NEW m, NEW a, m[a].start \in Int, m[a].len \in Nat,
         0 <= m[a].start, m[a].start + m[a].len <= FirstSlot
  PROVE  FsRead(m, a) = Stored(m, m[a].start, m[a].len)
<1> DEFINE x == m[a].start
           n == m[a].len
<1>1. x \in Int /\ n \in Nat /\ 0 <= x /\ x + n <= FirstSlot /\ FirstSlot < MemSize /\ MemSize \in Int
      /\ FirstSlot \in Int
  BY ConstantsAssumption DEF FirstSlot
<1> HIDE DEF x, n
<1>2. ASSUME NEW i \in 1 .. n
      PROVE  Wrap(x + i - 1) = x + (i - 1)
  BY <1>1 DEF Wrap
<1>3. FsRead(m, a) = [i \in 1 .. n |-> m[Wrap(x + i - 1)]]
  BY DEF FsRead, Fetch, x, n
<1>4. FsRead(m, a) = Stored(m, x, n)
  BY <1>2, <1>3 DEF Stored
<1> QED
  BY <1>4 DEF x, n

\* The same file reads the same.
LEMMA ReadOfSameFile ==
  ASSUME NEW m, NEW a, NEW s, NEW b, SameFile(m, a, s, b),
         m[a].start \in Int, m[a].len \in Nat, 0 <= m[a].start, m[a].start + m[a].len <= FirstSlot,
         s[b].start \in Int, 0 <= s[b].start, s[b].start + s[b].len <= FirstSlot
  PROVE  FsRead(m, a) = FsRead(s, b)
<1>1. m[a].len = s[b].len /\ \A i \in 0 .. s[b].len - 1 : m[m[a].start + i] = s[s[b].start + i]
  BY DEF SameFile
<1>2. ASSUME NEW i \in 1 .. s[b].len
      PROVE  m[m[a].start + (i - 1)] = s[s[b].start + (i - 1)]
  <2>1. i - 1 \in 0 .. s[b].len - 1
    BY <1>1
  <2> QED
    BY <1>1, <2>1
<1>3. FsRead(m, a) = Stored(m, m[a].start, s[b].len)
  BY <1>1, ReadOfEntry
<1>4. FsRead(s, b) = Stored(s, s[b].start, s[b].len)
  BY <1>1, ReadOfEntry
<1> QED
  BY <1>2, <1>3, <1>4 DEF Stored

-----------------------------------------------------------------------------
(* Kept files. *)

\* Nothing is kept of nothing.
LEMMA KeptEmpty ==
  ASSUME NEW m, NEW s
  PROVE  Kept(m, FirstSlot, s, FirstSlot)
<1>1. FirstSlot + 1 .. FirstSlot = {} /\ LiveAbove(s, FirstSlot) = {}
  BY ConstantsAssumption DEF FirstSlot, LiveAbove
<1> DEFINE f == [a \in FirstSlot + 1 .. FirstSlot |-> a]
<1>2. f \in [FirstSlot + 1 .. FirstSlot -> LiveAbove(s, FirstSlot)]
  BY <1>1
<1>3. KeptBy(f, m, FirstSlot, s, FirstSlot)
  BY <1>1 DEF KeptBy
<1> QED
  BY <1>2, <1>3 DEF Kept

\* A slot that has no live file is passed over.
LEMMA KeptSkip ==
  ASSUME NEW m, NEW s, NEW lo, NEW c \in Int, ~IsFile(s[c]), Kept(m, lo, s, c)
  PROVE  Kept(m, lo, s, c - 1)
<1>1. LiveAbove(s, c - 1) = LiveAbove(s, c)
  <2>1. ASSUME NEW b \in LiveAbove(s, c - 1)
        PROVE  b \in LiveAbove(s, c)
    <3>1. b \in c - 1 + 1 .. FirstSlot /\ IsFile(s[b]) /\ b # c /\ FirstSlot \in Int
      BY ConstantsAssumption DEF LiveAbove, FirstSlot
    <3>2. b \in c + 1 .. FirstSlot
      BY <3>1
    <3> QED
      BY <3>1, <3>2 DEF LiveAbove
  <2>2. ASSUME NEW b \in LiveAbove(s, c)
        PROVE  b \in LiveAbove(s, c - 1)
    <3>1. b \in c + 1 .. FirstSlot /\ IsFile(s[b]) /\ FirstSlot \in Int
      BY ConstantsAssumption DEF LiveAbove, FirstSlot
    <3>2. b \in c - 1 + 1 .. FirstSlot
      BY <3>1
    <3> QED
      BY <3>1, <3>2 DEF LiveAbove
  <2> QED
    BY <2>1, <2>2
<1> QED
  BY <1>1 DEF Kept, KeptBy

\* What is kept stays kept while its entries and its data do.
LEMMA KeptFrame ==
  ASSUME NEW m \in [Addr -> Cell], NEW n, NEW s, NEW lo \in Int, NEW c, NEW ceiling \in Int,
         0 <= lo, ceiling <= FirstSlot,
         Filed(m, lo + 1, FirstSlot, 2, ceiling),
         \A a \in lo + 1 .. FirstSlot : n[a] = m[a],
         \A x \in 2 .. ceiling - 1 : n[x] = m[x],
         Kept(m, lo, s, c)
  PROVE  Kept(n, lo, s, c)
<1>1. PICK f \in [lo + 1 .. FirstSlot -> LiveAbove(s, c)] : KeptBy(f, m, lo, s, c)
  BY DEF Kept
<1>2. ASSUME NEW a \in lo + 1 .. FirstSlot
      PROVE  SameFile(n, a, s, f[a])
  <2>1. n[a] = m[a] /\ SameFile(m, a, s, f[a])
    BY <1>1 DEF KeptBy
  <2>2. \A i \in 0 .. m[a].len - 1 : m[a].start + i \in 2 .. ceiling - 1
    BY SlotNumbers
  <2>3. \A i \in 0 .. m[a].len - 1 : n[m[a].start + i] = m[m[a].start + i]
    BY <2>2
  <2> QED
    BY <2>1, <2>3 DEF SameFile
<1>3. KeptBy(f, n, lo, s, c)
  BY <1>1, <1>2 DEF KeptBy
<1> QED
  BY <1>3 DEF Kept

\* The next live file joins them, one slot lower.
LEMMA KeptAdd ==
  ASSUME NEW m, NEW s, NEW lo \in Int, NEW c \in Int, lo <= FirstSlot, c <= FirstSlot,
         Kept(m, lo, s, c), IsFile(s[c]), SameFile(m, lo, s, c)
  PROVE  Kept(m, lo - 1, s, c - 1)
<1>1. PICK f \in [lo + 1 .. FirstSlot -> LiveAbove(s, c)] : KeptBy(f, m, lo, s, c)
  BY DEF Kept
<1>2. FirstSlot \in Int /\ lo - 1 + 1 = lo /\ c - 1 + 1 = c
  BY ConstantsAssumption DEF FirstSlot
<1>3. LiveAbove(s, c - 1) = LiveAbove(s, c) \cup {c} /\ \A b \in LiveAbove(s, c) : b \in Int /\ c < b
  BY <1>2 DEF LiveAbove
<1> DEFINE g == [a \in lo .. FirstSlot |-> IF a = lo THEN c ELSE f[a]]
<1>4. \A a \in lo .. FirstSlot : a = lo \/ a \in lo + 1 .. FirstSlot
  BY <1>2
<1>5. g \in [lo .. FirstSlot -> LiveAbove(s, c - 1)]
  BY <1>3, <1>4
<1>6. ASSUME NEW a \in lo .. FirstSlot, NEW b \in lo .. FirstSlot, a < b
      PROVE  g[a] < g[b]
  <2>1. b \in lo + 1 .. FirstSlot /\ b # lo
    BY <1>2, <1>6
  <2>2. CASE a = lo
    <3>1. g[a] = c /\ g[b] = f[b] /\ f[b] \in LiveAbove(s, c)
      BY <2>1, <2>2
    <3> QED
      BY <3>1, <1>3
  <2>3. CASE a # lo
    BY <2>1, <2>3, <1>1, <1>4, <1>6 DEF KeptBy
  <2> QED
    BY <2>2, <2>3
<1>7. ASSUME NEW b \in LiveAbove(s, c - 1)
      PROVE  \E a \in lo .. FirstSlot : g[a] = b
  <2>1. CASE b = c
    <3>1. lo \in lo .. FirstSlot /\ g[lo] = c
      BY <1>2
    <3> QED
      BY <2>1, <3>1
  <2>2. CASE b \in LiveAbove(s, c)
    <3>1. PICK a \in lo + 1 .. FirstSlot : f[a] = b
      BY <2>2, <1>1 DEF KeptBy
    <3>2. a \in lo .. FirstSlot /\ a # lo
      BY <1>2
    <3> QED
      BY <3>1, <3>2
  <2> QED
    BY <2>1, <2>2, <1>3
<1>8. ASSUME NEW a \in lo .. FirstSlot
      PROVE  SameFile(m, a, s, g[a])
  BY <1>1, <1>4 DEF KeptBy
<1> HIDE DEF g
<1>9. KeptBy(g, m, lo - 1, s, c - 1)
  BY <1>2, <1>6, <1>7, <1>8 DEF KeptBy
<1> QED
  BY <1>2, <1>5, <1>9 DEF Kept

-----------------------------------------------------------------------------
(* A compaction, transaction by transaction. *)

\* A step inside a compaction leaves the super block, and so the volume alone.
LEMMA SnapKept ==
  ASSUME SnapOK, snap' = snap, mem'[0] = mem[0], mem'[1] = mem[1]
  PROVE  SnapOK' /\ Idx' = Idx /\ Free' = Free
BY DEF SnapOK, Idx, Free

\* A compaction starts with nothing kept and nothing reached.
LEMMA PackingStarts == ASSUME Whole, Compact PROVE PackingOK'
<1>1. /\ mem' = mem /\ pc = "idle" /\ pc' = "compact_next" /\ snap' = mem
      /\ cur' = FirstSlot /\ wi' = FirstSlot
  BY DEF Compact
<1>2. Idx' = Idx /\ Free' = Free
  BY <1>1 DEF Idx, Free
<1>3. SnapOK'
  BY <1>1, <1>2 DEF SnapOK, Whole, TypeOK, IndexOK, CompactPCs
<1>4. UnderwayOK'
  BY <1>1, KeptEmpty DEF UnderwayOK
<1> QED
  BY <1>1, <1>3, <1>4 DEF PackingOK

\* The read cursor goes on to the next lower slot, or the walk is over.
LEMMA PackingAdvances ==
  ASSUME Whole, SnapOK', pc \in {"compact_next", "compact_entry"}, AdvanceFrom(cur),
         snap' = snap, Idx' = Idx,
         \A a \in Idx .. cur - 1 : mem'[a] = snap[a],
         \A x \in ws' .. Idx - 1 : mem'[x] = snap[x],
         Idx < cur => Kept(mem', wi', snap, cur - 1),
         Idx = FirstSlot => wi' = FirstSlot \/ (wi' = FirstSlot - 1 /\ IsFile(mem'[FirstSlot]))
  PROVE  PackingOK'
<1>1. pc \in CompactPCs /\ Idx \in Int /\ cur \in Int /\ sb.idx = Idx /\ FirstSlot \in Int
      /\ Idx <= cur /\ (Idx < cur \/ cur = FirstSlot)
  BY Cursors DEF CompactPCs, Whole, CompactOK
<1>2. CASE cur - 1 <= Idx
  <2>1. pc' = "compact_stub"
    BY <1>1, <1>2 DEF AdvanceFrom
  <2>2. CASE Idx = FirstSlot
    BY <2>1, <2>2 DEF PackingOK, DoneOK
  <2>3. CASE Idx # FirstSlot
    <3>1. cur - 1 = Idx /\ Idx < cur
      BY <1>1, <1>2, <2>3
    <3> QED
      BY <2>1, <2>3, <3>1 DEF PackingOK, DoneOK
  <2> QED
    BY <2>2, <2>3
<1>3. CASE ~(cur - 1 <= Idx)
  <2>1. pc' = "compact_next" /\ cur' = cur - 1
    BY <1>1, <1>3 DEF AdvanceFrom
  <2>2. Idx < cur
    BY <1>1, <1>3
  <2>3. UnderwayOK'
    BY <2>1, <2>2 DEF UnderwayOK
  <2> QED
    BY <2>1, <2>3 DEF PackingOK
<1> QED
  BY <1>2, <1>3

\* A dead record is left behind.
LEMMA PackingSkips == ASSUME Whole, PackingOK, CompactSkip PROVE PackingOK'
<1>1. /\ pc = "compact_next" /\ ~IsFile(mem[cur]) /\ AdvanceFrom(cur)
      /\ mem' = mem /\ wi' = wi /\ ws' = ws /\ snap' = snap
  BY DEF CompactSkip
<1>2. SnapOK /\ UnderwayOK /\ pc \in CompactPCs
  BY <1>1 DEF PackingOK, CompactPCs
<1>3. SnapOK' /\ Idx' = Idx
  BY <1>1, <1>2, SnapKept
<1>4. cur \in Int /\ Idx \in Int /\ Idx <= cur /\ cur <= wi /\ wi <= FirstSlot /\ ws \in Int /\ wi \in Int
      /\ FirstSlot \in Int
  BY <1>1, <1>2, Cursors DEF Whole, CompactOK
<1>5. cur \in Idx .. cur /\ \A a \in Idx .. cur - 1 : a \in Idx .. cur
  BY <1>4
<1>6. Kept(mem', wi', snap, cur - 1)
  BY <1>1, <1>2, <1>4, <1>5, KeptSkip DEF UnderwayOK
<1>7. \A a \in Idx .. cur - 1 : mem'[a] = snap[a]
  BY <1>1, <1>2, <1>5 DEF UnderwayOK
<1>8. \A x \in ws' .. Idx - 1 : mem'[x] = snap[x]
  BY <1>1, <1>2 DEF UnderwayOK
<1>9. Idx = FirstSlot => wi' = FirstSlot
  BY <1>1, <1>4
<1> QED
  BY <1>1, <1>3, <1>6, <1>7, <1>8, <1>9, PackingAdvances

\* A live one is put aside, as the volume had it.
LEMMA PackingTakes == ASSUME Whole, PackingOK, CompactTake PROVE PackingOK'
<1>1. /\ pc = "compact_next" /\ IsFile(mem[cur]) /\ mem' = mem /\ snap' = snap
      /\ ent' = [mem[cur] EXCEPT !.sound = @ /\ cur # sb.idx] /\ off' = 0
      /\ pc' \in {"compact_entry", "compact_copy"} /\ cur' = cur /\ wi' = wi /\ ws' = ws
  BY DEF CompactTake
<1>2. SnapOK /\ UnderwayOK /\ pc \in CompactPCs
  BY <1>1 DEF PackingOK, CompactPCs
<1>3. SnapOK' /\ Idx' = Idx
  BY <1>1, <1>2, SnapKept
<1>4. cur \in Int /\ Idx \in Int /\ Idx <= cur /\ mem[cur] \in Cell
  BY <1>1, <1>2, Cursors DEF Whole, CompactOK, TypeOK
<1>5. cur \in Idx .. cur
  BY <1>4
<1>6. mem[cur] = snap[cur]
  BY <1>2, <1>5 DEF UnderwayOK
<1>7. mem[cur] \in Entry
  BY <1>1, <1>4, RecordIsEntry DEF IsFile, IsRecord
<1>8. ent'.name = mem[cur].name /\ ent'.start = mem[cur].start /\ ent'.len = mem[cur].len
  BY <1>1, <1>7 DEF Entry
<1>9. UnderwayOK'
  BY <1>1, <1>2, <1>3 DEF UnderwayOK
<1>10. EntOK'
  BY <1>1, <1>6, <1>8 DEF EntOK
<1> QED
  BY <1>1, <1>3, <1>9, <1>10 DEF PackingOK

\* What a transaction of one cell does.
LEMMA CellWritten ==
  ASSUME TypeOK, NEW at \in Addr, NEW x \in Cell, mem' = Put(mem, at, <<x>>)
  PROVE  /\ mem' \in [Addr -> Cell] /\ mem'[at] = x
         /\ \A a \in Addr : a # at => mem'[a] = mem[a]
<1>1. <<x>> \in Seq(Cell) /\ Len(<<x>>) = 1 /\ <<x>>[1] = x
  BY OneCell
<1>2. at \in Nat /\ at + 1 <= MemSize /\ MemSize \in Int /\ Addr = 0 .. MemSize - 1
  BY ConstantsAssumption DEF Addr
<1>3. /\ mem' \in [Addr -> Cell]
      /\ \A a \in Addr : a < at \/ at + 1 <= a => mem'[a] = mem[a]
      /\ \A i \in 1 .. 1 : mem'[at + i - 1] = <<x>>[i]
  BY <1>1, <1>2, Transmitted
<1>4. 1 \in 1 .. 1 /\ at + 1 - 1 = at
  BY <1>2
<1>5. \A a \in Addr : a # at => a < at \/ at + 1 <= a
  BY <1>2
<1> QED
  BY <1>1, <1>3, <1>4, <1>5

\* A chunk of the entry's data moves down, from where the volume has it.
LEMMA PackingCopies == ASSUME Whole, PackingOK, CompactCopy PROVE PackingOK'
<1>1. /\ pc = "compact_copy" /\ off' = off + CopyLen /\ ws' = ws + CopyLen
      /\ pc' \in {"compact_entry", "compact_copy"}
      /\ ent' = ent /\ to' = to /\ cur' = cur /\ wi' = wi /\ snap' = snap
  BY DEF CompactCopy
<1>2. SnapOK /\ UnderwayOK /\ EntOK /\ pc \in CompactPCs /\ pc \in {"compact_copy", "compact_entry"}
  BY <1>1 DEF PackingOK, CompactPCs
<1>3. /\ Idx \in Int /\ FirstSlot \in Int /\ MemSize \in Int /\ ws \in Int /\ to \in Int
      /\ off \in Int /\ ent.start \in Int /\ ent.len \in Int /\ cur \in Int /\ wi \in Int
      /\ Idx <= FirstSlot /\ FirstSlot < MemSize /\ 0 <= off /\ off <= ent.len
      /\ 2 <= to /\ ws = to + off /\ to + ent.len <= Idx /\ to + ent.len <= cur - 1
      /\ Idx < cur => to <= ent.start /\ ent.start + ent.len <= Idx
      /\ Idx <= cur /\ cur <= wi /\ wi <= FirstSlot
      /\ Addr = 0 .. MemSize - 1 /\ mem \in [Addr -> Cell]
  <2>1. /\ Idx \in Int /\ Free \in Int /\ Free <= Idx /\ ent.start \in Int /\ ent.len \in Int
        /\ Idx < cur => to <= ent.start /\ ent.start + ent.len <= Free
    BY <1>2, MovingNumbers
  <2>2. Idx < cur => to <= ent.start /\ ent.start + ent.len <= Idx
    BY <2>1
  <2> QED
    BY <1>2, <2>2, Cursors, MovingNumbers
<1> DEFINE n == CopyLen
<1>4. /\ n \in Nat /\ off + n <= ent.len
      /\ mem' \in [Addr -> Cell]
      /\ \A a \in Addr : a < ws \/ ws + n <= a => mem'[a] = mem[a]
      /\ Idx < cur => \A i \in 1 .. n : mem'[ws + i - 1] = mem[ent.start + off + i - 1]
  BY ChunkCopied
<1> HIDE DEF n
<1>5. 2 <= ws /\ ws + n <= to + ent.len /\ ws + n <= Idx /\ ws + n <= cur - 1 /\ ws + n < wi
  BY <1>3, <1>4
<1>6. mem'[0] = mem[0] /\ mem'[1] = mem[1]
  BY <1>3, <1>4, <1>5
<1>7. SnapOK' /\ Idx' = Idx
  BY <1>1, <1>2, <1>6, SnapKept
<1>8. UnderwayOK'
  <2>1. ASSUME NEW a \in Idx .. cur
        PROVE  mem'[a] = snap[a]
    <3>1. a \in Addr /\ ws + n <= a
      BY <1>3, <1>4, <1>5
    <3> QED
      BY <3>1, <1>2, <1>4 DEF UnderwayOK
  <2>2. ASSUME NEW x \in ws + n .. Idx - 1
        PROVE  mem'[x] = snap[x]
    <3>1. x \in Addr /\ ws + n <= x /\ x \in ws .. Idx - 1
      BY <1>3, <1>4, <1>5
    <3> QED
      BY <3>1, <1>2, <1>4 DEF UnderwayOK
  <2>3. Kept(mem', wi, snap, cur)
    <3>1. Filed(mem, wi + 1, FirstSlot, 2, to) /\ 0 <= wi /\ to <= FirstSlot /\ Kept(mem, wi, snap, cur)
      BY <1>2, <1>3, Moving DEF UnderwayOK
    <3>2. \A a \in wi + 1 .. FirstSlot : a \in Addr /\ ws + n <= a
      BY <1>3, <1>4, <1>5
    <3>3. \A x \in 2 .. to - 1 : x \in Addr /\ x < ws
      BY <1>3
    <3>4. /\ \A a \in wi + 1 .. FirstSlot : mem'[a] = mem[a]
          /\ \A x \in 2 .. to - 1 : mem'[x] = mem[x]
      BY <3>2, <3>3, <1>4
    <3> QED
      BY <3>1, <3>4, <1>3, KeptFrame
  <2> QED
    BY <2>1, <2>2, <2>3, <1>1, <1>7 DEF UnderwayOK, n
<1>9. EntOK'
  <2>1. ASSUME Idx < cur, NEW i \in 0 .. off + n - 1
        PROVE  mem'[to + i] = snap[ent.start + i]
    <3>1. CASE i < off
      <4>1. i \in 0 .. off - 1 /\ to + i \in Addr /\ to + i < ws
        BY <1>3, <1>4, <3>1
      <4> QED
        BY <4>1, <1>2, <1>4, <2>1 DEF EntOK
    <3>2. CASE off <= i
      <4> DEFINE j == i - off + 1
      <4>1. j \in 1 .. n /\ ws + j - 1 = to + i /\ ent.start + off + j - 1 = ent.start + i
        BY <1>3, <1>4, <3>2
      <4>2. ent.start + i \in ws .. Idx - 1
        BY <1>3, <1>4, <2>1, <3>2
      <4>3. mem'[ws + j - 1] = mem[ent.start + off + j - 1]
        BY <1>4, <2>1, <4>1
      <4> QED
        BY <4>1, <4>2, <4>3, <1>2 DEF UnderwayOK
    <3> QED
      BY <1>3, <1>4, <3>1, <3>2
  <2>2. off' = off + n
    BY <1>1 DEF n
  <2>3. 0 .. off' - 1 = 0 .. off + n - 1
    BY <2>2, <1>3, <1>4
  <2>4. Idx < cur => \A i \in 0 .. off' - 1 : mem'[to + i] = snap[ent.start + i]
    BY <2>1, <2>3
  <2> QED
    BY <2>4, <1>1, <1>2, <1>7 DEF EntOK
<1> QED
  BY <1>1, <1>7, <1>8, <1>9 DEF PackingOK

\* The entry itself follows its data: one more file is kept.
LEMMA PackingFiles == ASSUME Whole, PackingOK, CompactEntry PROVE PackingOK'
<1>1. /\ pc = "compact_entry" /\ mem' = Put(mem, ChunkAt, ChunkCells)
      /\ wi' = wi - 1 /\ ws' = ws /\ snap' = snap /\ AdvanceFrom(cur)
  BY DEF CompactEntry, Transmit
<1> DEFINE e == [ent EXCEPT !.start = to]
<1>2. ChunkAt = wi /\ ChunkCells = <<e>>
  BY <1>1 DEF ChunkAt, ChunkCells, MovedEntry, DeletePCs
<1>3. SnapOK /\ UnderwayOK /\ EntOK /\ pc \in CompactPCs /\ pc \in {"compact_copy", "compact_entry"}
  BY <1>1 DEF PackingOK, CompactPCs
<1>4. /\ Idx \in Int /\ FirstSlot \in Int /\ MemSize \in Int /\ ws \in Int /\ to \in Int
      /\ off \in Int /\ ent.start \in Int /\ ent.len \in Int /\ cur \in Int /\ wi \in Int
      /\ 2 <= Idx /\ Idx <= FirstSlot /\ FirstSlot < MemSize /\ 0 <= off /\ off <= ent.len
      /\ 2 <= to /\ ws = to + off /\ to + ent.len <= Idx
      /\ to + ent.len <= cur - 1 /\ Idx <= cur /\ cur <= wi /\ wi <= FirstSlot
      /\ Addr = 0 .. MemSize - 1 /\ mem \in [Addr -> Cell]
  <2>1. /\ Idx \in Int /\ FirstSlot \in Int /\ MemSize \in Int /\ ws \in Int /\ to \in Int
        /\ off \in Int /\ ent.start \in Int /\ ent.len \in Int /\ cur \in Int /\ wi \in Int
        /\ 0 <= off /\ off <= ent.len /\ Idx <= FirstSlot
        /\ 2 <= to /\ ws = to + off /\ to + ent.len <= Idx
        /\ to + ent.len <= cur - 1 /\ Idx <= cur /\ cur <= wi /\ wi <= FirstSlot
    BY <1>3, MovingNumbers
  <2>2. /\ Free \in Int /\ 2 <= Free /\ Free <= Idx /\ FirstSlot < MemSize
        /\ Addr = 0 .. MemSize - 1 /\ mem \in [Addr -> Cell]
    BY <1>3, Cursors
  <2>3. 2 <= Idx
    BY <2>1, <2>2
  <2> QED
    BY <2>1, <2>2, <2>3
<1>5. off = ent.len
  BY <1>1 DEF Whole, CompactOK
<1>6. ent \in Entry /\ ent.type = "FILE" /\ to \in Addr
  BY <1>3, Moving DEF MovingOK, Whole, TypeOK
<1>7. e \in Cell /\ IsFile(e) /\ e.name = ent.name /\ e.start = to /\ e.len = ent.len
  BY <1>6 DEF Entry, Cell, IsFile
<1> HIDE DEF e
<1>8. /\ mem' \in [Addr -> Cell] /\ mem'[wi] = e
      /\ \A a \in Addr : a # wi => mem'[a] = mem[a]
  <2>1. wi \in Addr /\ TypeOK
    BY DEF Whole, TypeOK
  <2> QED
    BY <2>1, <1>1, <1>2, <1>7, CellWritten
<1>9. mem'[0] = mem[0] /\ mem'[1] = mem[1]
  BY <1>4, <1>8
<1>10. SnapOK' /\ Idx' = Idx
  BY <1>1, <1>3, <1>9, SnapKept
<1>11. Kept(mem', wi, snap, cur)
  <2>1. Filed(mem, wi + 1, FirstSlot, 2, to) /\ 0 <= wi /\ to <= FirstSlot /\ Kept(mem, wi, snap, cur)
    BY <1>3, <1>4, Moving DEF UnderwayOK
  <2>2. \A a \in wi + 1 .. FirstSlot : a \in Addr /\ a # wi
    BY <1>4
  <2>3. \A x \in 2 .. to - 1 : x \in Addr /\ x # wi
    BY <1>4
  <2>4. /\ \A a \in wi + 1 .. FirstSlot : mem'[a] = mem[a]
        /\ \A x \in 2 .. to - 1 : mem'[x] = mem[x]
    BY <2>2, <2>3, <1>8
  <2> QED
    BY <2>1, <2>4, <1>4, KeptFrame
<1>12. ASSUME Idx < cur
       PROVE  SameFile(mem', wi, snap, cur)
  <2>1. ASSUME NEW i \in 0 .. ent.len - 1
        PROVE  mem'[to + i] = snap[ent.start + i]
    <3>1. to + i \in Addr /\ to + i # wi /\ i \in 0 .. off - 1
      BY <1>4, <1>5
    <3> QED
      BY <3>1, <1>3, <1>8, <1>12 DEF EntOK
  <2> QED
    BY <2>1, <1>3, <1>7, <1>8 DEF SameFile, EntOK
<1>13. Idx < cur => Kept(mem', wi', snap, cur - 1)
  BY <1>1, <1>3, <1>4, <1>11, <1>12, KeptAdd DEF EntOK
<1>14. ASSUME NEW a \in Idx .. cur - 1
       PROVE  mem'[a] = snap[a]
  <2>1. a \in Addr /\ a # wi /\ a \in Idx .. cur
    BY <1>4
  <2> QED
    BY <2>1, <1>3, <1>8 DEF UnderwayOK
<1>15. ASSUME NEW x \in ws .. Idx - 1
       PROVE  mem'[x] = snap[x]
  <2>1. x \in Addr /\ x # wi
    BY <1>4
  <2> QED
    BY <2>1, <1>3, <1>8 DEF UnderwayOK
<1>16. Idx = FirstSlot => wi' = FirstSlot - 1 /\ IsFile(mem'[FirstSlot])
  BY <1>1, <1>4, <1>7, <1>8
<1> QED
  BY <1>1, <1>10, <1>13, <1>14, <1>15, <1>16, PackingAdvances

\* The start marker goes under the new index.
LEMMA PackingMarks == ASSUME Whole, PackingOK, CompactStub PROVE PackingOK'
<1>1. /\ pc = "compact_stub" /\ pc' = "compact_sb" /\ mem' = Put(mem, ChunkAt, ChunkCells)
      /\ wi' = wi /\ ws' = ws /\ snap' = snap
  BY DEF CompactStub, Transmit, ramVars
<1>2. ChunkAt = wi /\ ChunkCells = <<Stub>>
  BY <1>1 DEF ChunkAt, ChunkCells, DeletePCs
<1>3. SnapOK /\ DoneOK /\ pc \in CompactPCs
  BY <1>1 DEF PackingOK, CompactPCs
<1>4. /\ Idx \in Int /\ FirstSlot \in Int /\ MemSize \in Int /\ ws \in Int /\ wi \in Int
      /\ FirstSlot < MemSize /\ FirstSlot \in Addr /\ Addr = 0 .. MemSize - 1 /\ mem \in [Addr -> Cell]
      /\ 2 <= ws /\ ws <= wi /\ wi <= FirstSlot /\ Filed(mem, wi + 1, FirstSlot, 2, ws)
      /\ wi \in Addr /\ TypeOK
  BY <1>1, <1>3, Cursors, Pointers DEF Whole, CompactOK, TypeOK, SbSize
<1>5. mem' \in [Addr -> Cell] /\ \A a \in Addr : a # wi => mem'[a] = mem[a]
  BY <1>1, <1>2, <1>4, KernelCells, CellWritten
<1>6. mem'[0] = mem[0] /\ mem'[1] = mem[1]
  BY <1>4, <1>5
<1>7. SnapOK' /\ Idx' = Idx
  BY <1>1, <1>3, <1>6, SnapKept
<1>8. Kept(mem, wi, snap, Idx) => Kept(mem', wi, snap, Idx)
  <2> SUFFICES ASSUME Kept(mem, wi, snap, Idx)
               PROVE  Kept(mem', wi, snap, Idx)
    OBVIOUS
  <2>1. \A a \in wi + 1 .. FirstSlot : a \in Addr /\ a # wi
    BY <1>4
  <2>2. \A x \in 2 .. ws - 1 : x \in Addr /\ x # wi
    BY <1>4
  <2>3. /\ \A a \in wi + 1 .. FirstSlot : mem'[a] = mem[a]
        /\ \A x \in 2 .. ws - 1 : mem'[x] = mem[x]
    BY <2>1, <2>2, <1>5
  <2>4. 0 <= wi /\ ws <= FirstSlot
    BY <1>4
  <2> QED
    BY <2>3, <2>4, <1>4, KeptFrame
<1>9. wi = FirstSlot - 1 => mem'[FirstSlot] = mem[FirstSlot]
  BY <1>4, <1>5
<1>10. DoneOK'
  BY <1>1, <1>3, <1>7, <1>8, <1>9 DEF DoneOK
<1> QED
  BY <1>1, <1>7, <1>10 DEF PackingOK

\* The correspondence of the two indexes holds through every compaction.
LEMMA PackingInv == ASSUME Whole, PackingOK, [Next]_vars PROVE PackingOK'
<1>1. CASE Compact
  BY <1>1, PackingStarts
<1>2. CASE CompactSkip \/ CompactTake \/ CompactCopy \/ CompactEntry \/ CompactStub
  BY <1>2, PackingSkips, PackingTakes, PackingCopies, PackingFiles, PackingMarks
<1>3. CASE pc' \notin CompactPCs
  BY <1>3 DEF PackingOK, CompactPCs
<1>4. CASE UNCHANGED vars
  <2>1. /\ mem' = mem /\ pc' = pc /\ snap' = snap /\ ent' = ent /\ to' = to /\ off' = off
        /\ cur' = cur /\ wi' = wi /\ ws' = ws
    BY <1>4 DEF vars, ramVars
  <2>2. Idx' = Idx /\ Free' = Free
    BY <2>1 DEF Idx, Free
  <2>3. (SnapOK <=> SnapOK') /\ (UnderwayOK <=> UnderwayOK')
    BY <2>1, <2>2 DEF SnapOK, UnderwayOK
  <2>4. (EntOK <=> EntOK') /\ (DoneOK <=> DoneOK')
    BY <2>1, <2>2 DEF EntOK, DoneOK
  <2> QED
    BY <2>1, <2>3, <2>4 DEF PackingOK
<1>5. Call => Compact \/ pc' \notin CompactPCs
  BY DEF Call, Format, Find, Write, Delete, Update, CompactPCs
<1>6. Step => \/ CompactSkip \/ CompactTake \/ CompactCopy \/ CompactEntry \/ CompactStub
              \/ pc' \notin CompactPCs
  BY DEF Step, FormatSb, FormatStub, FormatVol, WriteData, WriteIndex, WriteSb, DeleteEntry,
     UpdateDelete, CompactSb, Return, CompactPCs
<1>7. PowerLoss => pc' \notin CompactPCs
  BY DEF PowerLoss, Return, CompactPCs
<1> QED
  BY <1>1, <1>2, <1>3, <1>4, <1>5, <1>6, <1>7 DEF Next

-----------------------------------------------------------------------------
(* The log a volume stands for. *)

\* The record an index slot stands for.
RecordAt(m, a) == [name |-> m[a].name, live |-> IsFile(m[a]), data |-> FsRead(m, a)]
Records(m) == {RecordAt(m, a) : a \in Addr}

\* The log has the records of the slots, oldest first.
LEMMA ViewRecords ==
  ASSUME NEW m, NEW x \in Int, m[1].to = x, 0 <= x, x <= FirstSlot
  PROVE  /\ View(m) = [i \in 1 .. FirstSlot - x |-> RecordAt(m, FirstSlot + 1 - i)]
         /\ FirstSlot - x \in Nat /\ DOMAIN View(m) = 1 .. FirstSlot - x
         /\ View(m) \in Seq(Records(m)) /\ Len(View(m)) = FirstSlot - x
         /\ \A i \in 1 .. FirstSlot - x :
              View(m)[i] = RecordAt(m, FirstSlot + 1 - i) /\ FirstSlot + 1 - i \in x + 1 .. FirstSlot
<1> DEFINE n == FirstSlot - x
<1>1. View(m) = [i \in 1 .. n |-> RecordAt(m, FirstSlot + 1 - i)]
  BY DEF View, RecordAt
<1>2. n \in Nat /\ FirstSlot \in Int /\ FirstSlot < MemSize /\ MemSize \in Int
  BY ConstantsAssumption DEF FirstSlot
<1>3. ASSUME NEW i \in 1 .. n
      PROVE  FirstSlot + 1 - i \in x + 1 .. FirstSlot /\ FirstSlot + 1 - i \in Addr
  BY <1>2 DEF Addr
<1>4. ASSUME NEW i \in 1 .. n
      PROVE  View(m)[i] = RecordAt(m, FirstSlot + 1 - i) /\ View(m)[i] \in Records(m)
  BY <1>1, <1>3 DEF Records
<1>5. View(m) \in [1 .. n -> Records(m)] /\ DOMAIN View(m) = 1 .. n
  BY <1>1, <1>4
<1> HIDE DEF n
<1>6. View(m) \in Seq(Records(m)) /\ Len(View(m)) = n
  BY <1>2, <1>5, ArrayIsSeq
<1> QED
  BY <1>1, <1>2, <1>3, <1>4, <1>5, <1>6 DEF n

\* No slots, no records.
LEMMA EmptyView ==
  ASSUME NEW m, m[1].to = FirstSlot
  PROVE  View(m) = <<>>
<1>1. FirstSlot \in Int /\ 0 <= FirstSlot /\ FirstSlot - FirstSlot = 0
  BY ConstantsAssumption DEF FirstSlot
<1>2. View(m) \in Seq(Records(m)) /\ Len(View(m)) = FirstSlot - FirstSlot
  BY <1>1, ViewRecords
<1> QED
  BY <1>1, <1>2, EmptySeq

\* Two volumes with the same records are the same log.
LEMMA ViewSame ==
  ASSUME NEW m, NEW n, NEW x \in Int, m[1].to = x, n[1].to = x, 0 <= x, x <= FirstSlot,
         \A a \in x + 1 .. FirstSlot : RecordAt(n, a) = RecordAt(m, a)
  PROVE  View(n) = View(m)
<1>1. \A i \in 1 .. FirstSlot - x : FirstSlot + 1 - i \in x + 1 .. FirstSlot
  BY ViewRecords
<1>2. View(m) = [i \in 1 .. FirstSlot - x |-> RecordAt(m, FirstSlot + 1 - i)]
  BY ViewRecords
<1>3. View(n) = [i \in 1 .. FirstSlot - x |-> RecordAt(n, FirstSlot + 1 - i)]
  BY ViewRecords
<1> QED
  BY <1>1, <1>2, <1>3

\* A change outside the data of a file does not change what is read of it.
LEMMA ReadFrame ==
  ASSUME NEW m \in [Addr -> Cell], NEW n, NEW lo \in Int, NEW ceiling \in Int,
         0 <= lo, ceiling <= FirstSlot, Filed(m, lo, FirstSlot, 2, ceiling),
         NEW a \in lo .. FirstSlot, n[a].start = m[a].start, n[a].len = m[a].len,
         \A x \in 2 .. ceiling - 1 : n[x] = m[x]
  PROVE  FsRead(n, a) = FsRead(m, a)
<1>1. /\ m[a].start \in Int /\ m[a].len \in Nat /\ 2 <= m[a].start /\ m[a].start + m[a].len <= ceiling
      /\ \A i \in 0 .. m[a].len - 1 : m[a].start + i \in 2 .. ceiling - 1
  BY SlotNumbers
<1>2. FirstSlot \in Int
  BY ConstantsAssumption DEF FirstSlot
<1>3. 0 <= m[a].start /\ m[a].start + m[a].len <= FirstSlot
  BY <1>1, <1>2
<1>4. ASSUME NEW i \in 1 .. m[a].len
      PROVE  n[n[a].start + (i - 1)] = m[m[a].start + (i - 1)]
  <2>1. i - 1 \in 0 .. m[a].len - 1
    BY <1>1
  <2> QED
    BY <2>1, <1>1
<1>5. FsRead(m, a) = Stored(m, m[a].start, m[a].len)
  BY <1>1, <1>3, ReadOfEntry
<1>6. FsRead(n, a) = Stored(n, n[a].start, m[a].len)
  BY <1>1, <1>3, ReadOfEntry
<1> QED
  BY <1>4, <1>5, <1>6 DEF Stored


-----------------------------------------------------------------------------
(* What the transactions of the other calls do to the log. *)

\* A transfer that stops part of the way changes nothing outside its chunk.
LEMMA OutsideChunk ==
  ASSUME TypeOK, NEW at \in Nat, NEW cells \in Seq(Cell), at + Len(cells) <= MemSize,
         NEW k \in 0 .. Len(cells), mem' = Put(mem, at, SubSeq(cells, 1, k))
  PROVE  \A a \in Addr : a < at \/ at + Len(cells) <= a => mem'[a] = mem[a]
<1> DEFINE sent == SubSeq(cells, 1, k)
<1>1. sent \in Seq(Cell) /\ Len(sent) = k /\ k \in Nat /\ k <= Len(cells) /\ Len(cells) \in Nat
  BY PrefixOfChunk
<1> HIDE DEF sent
<1>2. at + k <= MemSize /\ MemSize \in Int
  BY <1>1, ConstantsAssumption
<1>3. \A a \in Addr : a < at \/ at + k <= a => mem'[a] = mem[a]
  BY <1>1, <1>2, Transmitted DEF sent
<1> QED
  BY <1>1, <1>2, <1>3 DEF Addr

\* The record of a slot whose entry and whose data stay.
LEMMA RecordFrame ==
  ASSUME Whole, pc \notin CompactPCs, NEW a \in Idx + 1 .. FirstSlot, NEW n, n[a] = mem[a],
         \A x \in 2 .. Free - 1 : n[x] = mem[x]
  PROVE  RecordAt(n, a) = RecordAt(mem, a)
<1>1. /\ Free \in Int /\ Idx \in Int /\ 2 <= Free /\ Free <= Idx /\ Idx <= FirstSlot
      /\ mem \in [Addr -> Cell] /\ Filed(mem, Idx + 1, FirstSlot, 2, Free)
  BY Pointers DEF Whole, TypeOK, IndexOK, SbSize
<1>2. FirstSlot \in Int /\ Idx + 1 \in Int /\ 0 <= Idx + 1 /\ Free <= FirstSlot
  BY <1>1, ConstantsAssumption DEF FirstSlot
<1>3. FsRead(n, a) = FsRead(mem, a)
  BY <1>1, <1>2, ReadFrame
<1> QED
  BY <1>3 DEF RecordAt

\* A transfer that leaves the index and the data of its files alone.
LEMMA ViewFrame ==
  ASSUME Whole, pc \notin CompactPCs, Idx' = Idx,
         \A a \in Idx + 1 .. FirstSlot : mem'[a] = mem[a],
         \A x \in 2 .. Free - 1 : mem'[x] = mem[x]
  PROVE  View(mem') = View(mem)
<1>1. Idx \in Int /\ 0 <= Idx /\ Idx <= FirstSlot /\ mem[1].to = Idx /\ mem'[1].to = Idx
  BY Pointers DEF Whole, Idx
<1>2. \A a \in Idx + 1 .. FirstSlot : RecordAt(mem', a) = RecordAt(mem, a)
  BY RecordFrame
<1> QED
  BY <1>1, <1>2, ViewSame

\* Data that no entry names yet.
LEMMA DataUnseen ==
  ASSUME Whole, pc = "write_data", NEW k \in 0 .. Len(ChunkCells),
         mem' = Put(mem, ChunkAt, SubSeq(ChunkCells, 1, k))
  PROVE  View(mem') = View(mem)
<1>1. ChunkAt = Free /\ ChunkCells = Bytes(what)
  BY DEF ChunkAt, ChunkCells, Whole, SuperBlockOK, ReadSb, Free, Idx, WritePCs, DeletePCs
<1>2. /\ what \in Payload /\ what.len \in Nat /\ Free + what.len <= Idx - 1
      /\ Free \in Int /\ 2 <= Free /\ Idx \in Int /\ Idx <= FirstSlot /\ FirstSlot < MemSize
      /\ MemSize \in Int /\ FirstSlot \in Int /\ VolSlot = MemSize - 1 /\ TypeOK
  BY Pointers, PayloadLen, ConstantsAssumption DEF Whole, TypeOK, WriteOK, WritePCs, FirstSlot
<1>3. ChunkCells \in Seq(Cell) /\ Len(ChunkCells) = what.len
  BY <1>1, <1>2, BytesAreCells
<1>4. Free \in Nat /\ Free + Len(ChunkCells) <= MemSize
  BY <1>2, <1>3
<1>5. \A x \in 2 .. Free - 1 : mem'[x] = mem[x]
  <2>1. \A a \in Addr : a < Free => mem'[a] = mem[a]
    BY <1>1, <1>2, <1>3, <1>4, OutsideChunk
  <2> QED
    BY <2>1, <1>2 DEF Addr
<1>6. Idx' = Idx /\ \A a \in Idx + 1 .. FirstSlot : mem'[a] = mem[a]
  <2>1. Idx' = Idx /\ \A a \in Idx .. VolSlot : mem'[a] = mem[a]
    BY WriteDataVolume
  <2> QED
    BY <2>1, <1>2
<1> QED
  BY <1>5, <1>6, ViewFrame DEF CompactPCs

\* An entry that the super block does not reach yet.
LEMMA IndexUnseen ==
  ASSUME Whole, pc = "write_index", NEW k \in 0 .. Len(ChunkCells),
         mem' = Put(mem, ChunkAt, SubSeq(ChunkCells, 1, k))
  PROVE  View(mem') = View(mem)
<1>1. /\ sb.idx = Idx /\ what \in Payload /\ what.len \in Nat /\ Free + what.len <= Idx - 1 /\ TypeOK
      /\ Free \in Int /\ 2 <= Free /\ Idx \in Int /\ Idx <= FirstSlot /\ FirstSlot < MemSize
      /\ MemSize \in Int /\ FirstSlot \in Int /\ VolSlot = MemSize - 1
  BY Pointers, PayloadLen, ConstantsAssumption DEF Whole, TypeOK, WriteOK, WritePCs, FirstSlot,
     SuperBlockOK, ReadSb, Idx
<1>2. ChunkAt = Idx - 1 /\ Idx - 1 \in Nat
  <2>1. ChunkAt = Wrap(Idx - 1)
    BY <1>1 DEF ChunkAt, StubSlot, DeletePCs
  <2> QED
    BY <2>1, <1>1 DEF Wrap
<1>3. ChunkCells \in Seq(Cell) /\ Len(ChunkCells) = 2 /\ Idx' = Idx
      /\ \A a \in Idx + 1 .. VolSlot : mem'[a] = mem[a]
  BY WriteIndexVolume
<1>4. \A x \in 2 .. Free - 1 : mem'[x] = mem[x]
  <2>1. Idx - 1 + Len(ChunkCells) <= MemSize /\ mem' = Put(mem, Idx - 1, SubSeq(ChunkCells, 1, k))
    BY <1>1, <1>2, <1>3
  <2>2. \A a \in Addr : a < Idx - 1 => mem'[a] = mem[a]
    BY <1>1, <1>2, <1>3, <2>1, OutsideChunk
  <2>3. \A x \in 2 .. Free - 1 : x \in Addr /\ x < Idx - 1
    BY <1>1 DEF Addr
  <2> QED
    BY <2>2, <2>3
<1>5. \A a \in Idx + 1 .. FirstSlot : mem'[a] = mem[a]
  BY <1>1, <1>3
<1> QED
  BY <1>3, <1>4, <1>5, ViewFrame DEF CompactPCs

\* The super block of FS_WRITE: its second pointer commits the file.
LEMMA SbAppends ==
  ASSUME Whole, pc = "write_sb", Idx' \in Int, Idx' = Idx \/ Idx' = Idx - 1,
         \A a \in SbSize .. VolSlot : mem'[a] = mem[a]
  PROVE  \/ View(mem') = View(mem)
         \/ View(mem') = Append(View(mem), [name |-> name, live |-> TRUE, data |-> Bytes(what)])
<1>1. /\ what \in Payload /\ what.len \in Nat /\ Free + what.len <= Idx - 1
      /\ Free \in Int /\ 2 <= Free /\ Idx \in Int /\ Idx <= FirstSlot /\ FirstSlot < VolSlot
      /\ VolSlot \in Int /\ FirstSlot \in Int /\ mem[1].to = Idx
      /\ mem[Idx] = FileEntry(name, Free, what)
      /\ \A i \in 0 .. what.len - 1 : mem[Free + i] = Byte(what, i)
  BY Pointers, PayloadLen, ConstantsAssumption DEF Whole, TypeOK, WriteOK, WritePCs, FirstSlot, VolSlot, Idx
<1>2. mem'[1].to = Idx' /\ \A a \in 2 .. VolSlot : mem'[a] = mem[a]
  BY DEF SbSize, Idx
<1>3. /\ \A a \in Idx .. FirstSlot : mem'[a] = mem[a]
      /\ \A x \in 2 .. Free + what.len - 1 : mem'[x] = mem[x]
      /\ \A x \in 2 .. Free - 1 : mem'[x] = mem[x]
  BY <1>1, <1>2
<1>4. \A a \in Idx + 1 .. FirstSlot : RecordAt(mem', a) = RecordAt(mem, a)
  BY <1>1, <1>3, RecordFrame DEF CompactPCs
<1>5. CASE Idx' = Idx
  BY <1>1, <1>2, <1>4, <1>5, ViewSame
<1>6. CASE Idx' = Idx - 1
  <2> DEFINE r == [name |-> name, live |-> TRUE, data |-> Bytes(what)]
             n == FirstSlot - Idx
             S == Records(mem) \cup Records(mem') \cup {r}
  <2>1. RecordAt(mem', Idx) = r
    <3>1. mem'[Idx] = FileEntry(name, Free, what)
      BY <1>1, <1>3
    <3>2. /\ mem'[Idx].name = name /\ mem'[Idx].start = Free /\ mem'[Idx].len = what.len
          /\ IsFile(mem'[Idx])
      BY <3>1 DEF FileEntry, IsFile
    <3>3. FsRead(mem', Idx) = Stored(mem', Free, what.len)
      <4>1. /\ mem'[Idx].start \in Int /\ mem'[Idx].len \in Nat /\ 0 <= mem'[Idx].start
            /\ mem'[Idx].start + mem'[Idx].len <= FirstSlot
        BY <1>1, <3>2
      <4>2. FsRead(mem', Idx) = Stored(mem', mem'[Idx].start, mem'[Idx].len)
        BY <4>1, ReadOfEntry
      <4> QED
        BY <3>2, <4>2
    <3>4. ASSUME NEW i \in 1 .. what.len
          PROVE  mem'[Free + (i - 1)] = Byte(what, i - 1)
      <4>n. Free \in Int /\ 2 <= Free /\ what.len \in Int
        BY <1>1
      <4>1. i - 1 \in 0 .. what.len - 1 /\ Free + (i - 1) \in 2 .. Free + what.len - 1
        BY <4>n
      <4> QED
        BY <4>1, <1>1, <1>3
    <3>5. FsRead(mem', Idx) = Bytes(what)
      BY <3>3, <3>4 DEF Bytes, Stored
    <3> QED
      BY <3>2, <3>5 DEF RecordAt
  <2>2. mem'[1].to = Idx - 1
    BY <1>6 DEF Idx
  <2>3. /\ n \in Nat /\ View(mem) \in Seq(Records(mem)) /\ Len(View(mem)) = n
        /\ \A i \in 1 .. n : View(mem)[i] = RecordAt(mem, FirstSlot + 1 - i) /\ FirstSlot + 1 - i \in Idx + 1 .. FirstSlot
    <3>1. Idx \in Int /\ mem[1].to = Idx /\ 0 <= Idx /\ Idx <= FirstSlot
      BY <1>1
    <3> QED
      BY ONLY <3>1, ViewRecords
  <2>4. /\ View(mem') \in Seq(Records(mem')) /\ Len(View(mem')) = FirstSlot - (Idx - 1)
        /\ \A i \in 1 .. FirstSlot - (Idx - 1) : View(mem')[i] = RecordAt(mem', FirstSlot + 1 - i)
    <3>1. Idx - 1 \in Int /\ 0 <= Idx - 1 /\ Idx - 1 <= FirstSlot
      BY <1>1
    <3> HIDE DEF r, n, S
    <3> QED
      BY <3>1, <2>2, ViewRecords
  <2>5. FirstSlot - (Idx - 1) = n + 1
    BY <1>1
  <2> DEFINE t == Append(View(mem), r)
  <2> HIDE DEF n
  <2>6. View(mem) \in Seq(S) /\ View(mem') \in Seq(S) /\ r \in S
    BY <2>3, <2>4
  <2> HIDE DEF S
  <2>7. t \in Seq(S) /\ Len(t) = n + 1 /\ t[n + 1] = r /\ \A i \in 1 .. n : t[i] = View(mem)[i]
    BY <2>3, <2>6, AppendProperties
  <2> HIDE DEF t
  <2>8. ASSUME NEW i \in 1 .. n + 1
        PROVE  View(mem')[i] = t[i]
    <3>1. CASE i = n + 1
      <4>1. FirstSlot + 1 - i = Idx
        BY <3>1, <1>1 DEF n
      <4> HIDE DEF r
      <4> QED
        BY <3>1, <4>1, <2>1, <2>4, <2>5, <2>7
    <3>2. CASE i \in 1 .. n
      BY <3>2, <1>4, <2>3, <2>4, <2>5, <2>7
    <3> QED
      BY <3>1, <3>2, <2>3
  <2>9. View(mem') = t
    BY <2>4, <2>5, <2>6, <2>7, <2>8, SeqEqual
  <2> QED
    BY <2>9 DEF t
<1> QED
  BY <1>5, <1>6

\* A tombstone: one record is dead, and it is the one the file ID names.
LEMMA TombstoneSeen ==
  ASSUME Whole, pc \in DeletePCs, NEW k \in 0 .. Len(ChunkCells),
         mem' = Put(mem, ChunkAt, SubSeq(ChunkCells, 1, k))
  PROVE  \/ View(mem') = View(mem)
         \/ \E j \in DOMAIN View(mem) : View(mem') = [View(mem) EXCEPT ![j].live = FALSE]
<1>1. /\ target \in Idx .. VolSlot /\ IsEntry(mem[target]) /\ ChunkAt = target
      /\ Free \in Int /\ 2 <= Free /\ Free <= Idx /\ Idx \in Int /\ Idx <= FirstSlot
      /\ FirstSlot < MemSize /\ MemSize \in Int /\ FirstSlot \in Int /\ VolSlot = MemSize - 1
      /\ TypeOK /\ mem[1].to = Idx
  BY Pointers DEF Whole, HeldOK, Findable, ChunkAt, DeletePCs, FirstSlot, Idx
<1>2. /\ Idx' = Idx /\ ChunkCells \in Seq(Cell) /\ Len(ChunkCells) = 1
      /\ mem'[target] \in {mem[target], [mem[target] EXCEPT !.type = "FILE_DEL"]}
  BY <1>1, TombstoneVolume
<1>3. \A a \in Addr : a # target => mem'[a] = mem[a]
  <2>1. target \in Nat /\ target + Len(ChunkCells) <= MemSize
    BY <1>1, <1>2
  <2>2. TypeOK /\ ChunkCells \in Seq(Cell) /\ mem' = Put(mem, target, SubSeq(ChunkCells, 1, k))
    BY <1>1, <1>2
  <2>3. \A a \in Addr : a < target \/ target + Len(ChunkCells) <= a => mem'[a] = mem[a]
    BY <2>1, <2>2, OutsideChunk
  <2>4. target \in Int /\ Len(ChunkCells) = 1 /\ Addr \subseteq Int
    BY <1>2, <2>1 DEF Addr
  <2>5. \A a \in Addr : a # target => a < target \/ target + 1 <= a
    BY <2>4
  <2> QED
    BY <2>3, <2>4, <2>5
<1>4. \A x \in 2 .. Free - 1 : mem'[x] = mem[x]
  BY <1>1, <1>3 DEF Addr
<1>5. CASE mem'[target] = mem[target] \/ target \notin Idx + 1 .. FirstSlot
  <2>1. \A a \in Idx + 1 .. FirstSlot : mem'[a] = mem[a]
    BY <1>1, <1>3, <1>5 DEF Addr
  <2> QED
    BY <2>1, <1>2, <1>4, ViewFrame DEF DeletePCs, CompactPCs
<1>6. CASE mem'[target] = [mem[target] EXCEPT !.type = "FILE_DEL"] /\ target \in Idx + 1 .. FirstSlot
  <2> DEFINE j == FirstSlot + 1 - target
             n == FirstSlot - Idx
  <2>1. mem[target] \in Entry
    BY <1>1, EntryIsEntry DEF TypeOK, Addr
  <2>2. /\ mem'[target].name = mem[target].name /\ mem'[target].start = mem[target].start
        /\ mem'[target].len = mem[target].len /\ ~IsFile(mem'[target])
    BY <2>1, <1>6 DEF Entry, IsFile
  <2>3. FsRead(mem', target) = FsRead(mem, target)
    <3>1. Filed(mem, Idx + 1, FirstSlot, 2, Free) /\ mem \in [Addr -> Cell]
      BY DEF Whole, IndexOK, SbSize, DeletePCs, CompactPCs, TypeOK
    <3>2. Idx + 1 \in Int /\ 0 <= Idx + 1 /\ Free <= FirstSlot
      BY <1>1
    <3> QED
      BY <3>1, <3>2, <1>1, <1>4, <1>6, <2>2, ReadFrame
  <2>4. RecordAt(mem', target) = [RecordAt(mem, target) EXCEPT !.live = FALSE]
    <3> DEFINE b == mem[target].name
               v == IsFile(mem[target])
               d == FsRead(mem, target)
    <3>1. IsFile(mem'[target]) = FALSE
      BY <2>2 DEF IsFile
    <3>2. RecordAt(mem', target) = [name |-> b, live |-> FALSE, data |-> d]
      BY <2>2, <2>3, <3>1 DEF RecordAt
    <3> DEFINE dead == FALSE
    <3> HIDE DEF b, v, d, dead
    <3>3. [[name |-> b, live |-> v, data |-> d] EXCEPT !.live = dead] = [name |-> b, live |-> dead, data |-> d]
      OBVIOUS
    <3>4. [RecordAt(mem, target) EXCEPT !.live = FALSE] = [name |-> b, live |-> FALSE, data |-> d]
      BY <3>3 DEF RecordAt, b, v, d, dead
    <3> QED
      BY <3>2, <3>4, Zenon
  <2>5. /\ n \in Nat /\ j \in 1 .. n /\ FirstSlot + 1 - j = target
        /\ \A i \in 1 .. n : FirstSlot + 1 - i \in Idx + 1 .. FirstSlot /\ (i # j => FirstSlot + 1 - i # target)
    <3>1. /\ Idx \in Int /\ FirstSlot \in Int /\ Idx <= FirstSlot
          /\ target \in Int /\ Idx + 1 <= target /\ target <= FirstSlot
      BY <1>1, <1>6
    <3>2. /\ n \in Nat /\ j \in 1 .. n /\ FirstSlot + 1 - j = target
      BY <3>1
    <3>3. ASSUME NEW i \in 1 .. n
          PROVE  FirstSlot + 1 - i \in Idx + 1 .. FirstSlot /\ (i # j => FirstSlot + 1 - i # target)
      BY <3>1
    <3> QED
      BY <3>2, <3>3
  <2>6. /\ DOMAIN View(mem) = 1 .. n /\ View(mem) = [i \in 1 .. n |-> RecordAt(mem, FirstSlot + 1 - i)]
    BY <1>1, ViewRecords
  <2>7. View(mem') = [i \in 1 .. n |-> RecordAt(mem', FirstSlot + 1 - i)]
    <3>1. mem'[1].to = Idx /\ 0 <= Idx
      BY <1>1, <1>2 DEF Idx
    <3> QED
      BY <3>1, <1>1, ViewRecords
  <2>8. ASSUME NEW i \in 1 .. n, i # j
        PROVE  RecordAt(mem', FirstSlot + 1 - i) = RecordAt(mem, FirstSlot + 1 - i)
    <3> DEFINE a == FirstSlot + 1 - i
    <3>1. a \in Idx + 1 .. FirstSlot /\ a # target /\ a \in Addr
      BY <2>5, <2>8, <1>1 DEF Addr
    <3> HIDE DEF a
    <3>2. mem'[a] = mem[a] /\ pc \notin CompactPCs
      BY <3>1, <1>3 DEF DeletePCs, CompactPCs
    <3>3. RecordAt(mem', a) = RecordAt(mem, a)
      BY <3>1, <3>2, <1>4, RecordFrame
    <3> QED
      BY <3>3 DEF a
  <2>9. View(mem)[j] = RecordAt(mem, target)
    BY <2>5, <2>6
  <2> HIDE DEF j, n
  <2>10. View(mem') = [View(mem) EXCEPT ![j] = RecordAt(mem', target)]
    <3> DEFINE f == [i \in 1 .. n |-> RecordAt(mem, FirstSlot + 1 - i)]
               g == [i \in 1 .. n |-> RecordAt(mem', FirstSlot + 1 - i)]
               r == RecordAt(mem', target)
    <3>1. g[j] = r
      BY <2>5
    <3>2. ASSUME NEW i \in 1 .. n, i # j
          PROVE  g[i] = f[i]
      BY <2>8, <3>2
    <3>3. DOMAIN f = 1 .. n /\ DOMAIN g = 1 .. n /\ f = [i \in 1 .. n |-> f[i]] /\ g = [i \in 1 .. n |-> g[i]]
      OBVIOUS
    <3> HIDE DEF f, g, r
    <3>4. g = [f EXCEPT ![j] = r]
      BY <3>1, <3>2, <3>3
    <3> QED
      BY <2>6, <2>7, <3>4 DEF f, g, r
  <2>11. View(mem') = [View(mem) EXCEPT ![j].live = FALSE]
    BY <2>4, <2>9, <2>10
  <2> QED
    BY <2>5, <2>6, <2>11
<1> QED
  BY <1>2, <1>5, <1>6

\* What the super block of FS_COMPACT does.
LEMMA PackedVolume ==
  ASSUME Whole, PackingOK, CompactSb
  PROVE  /\ Idx \in Int /\ wi \in Int /\ FirstSlot \in Int /\ 2 <= Idx /\ Idx <= FirstSlot
         /\ 2 <= ws /\ ws <= wi /\ wi <= FirstSlot /\ ws \in Int
         /\ mem' \in [Addr -> Cell] /\ mem'[1].to = wi
         /\ \A a \in 2 .. FirstSlot : a \in Addr /\ mem'[a] = mem[a]
         /\ Filed(mem, wi + 1, FirstSlot, 2, ws) /\ Filed(mem', wi + 1, FirstSlot, 2, ws)
         /\ mem \in [Addr -> Cell] /\ snap \in [Addr -> Cell] /\ snap[1].to = Idx
         /\ Filed(snap, Idx + 1, FirstSlot, 2, Free) /\ Free \in Int /\ Free <= FirstSlot
<1>1. pc = "compact_sb" /\ pc \in CompactPCs /\ mem' = Put(mem, ChunkAt, ChunkCells) /\ pc' = "idle"
  BY DEF CompactSb, CompactPCs, Transmit, Return
<1>2. ChunkAt = 0 /\ ChunkCells = <<Ptr(ws), Ptr(wi)>>
  BY <1>1 DEF ChunkAt, ChunkCells, PackedSb, DeletePCs
<1>3. /\ Idx \in Int /\ wi \in Int /\ FirstSlot \in Int /\ 2 <= Idx /\ Idx <= FirstSlot
      /\ 2 <= ws /\ ws <= wi /\ wi <= FirstSlot /\ ws \in Int /\ wi \in Addr /\ ws \in Addr
      /\ mem \in [Addr -> Cell] /\ Free \in Int /\ Free <= FirstSlot
      /\ FirstSlot < MemSize /\ MemSize \in Int /\ Addr = 0 .. MemSize - 1 /\ MemSize >= 5
      /\ Filed(mem, wi + 1, FirstSlot, 2, ws) /\ TypeOK
  <2>1. /\ Free \in Int /\ 2 <= Free /\ Free <= Idx /\ Idx \in Int /\ Idx <= FirstSlot
        /\ FirstSlot \in Int /\ FirstSlot < MemSize /\ MemSize \in Int /\ Addr = 0 .. MemSize - 1
        /\ MemSize >= 5 /\ mem \in [Addr -> Cell] /\ wi \in Int /\ ws \in Int
    BY <1>1, Cursors
  <2>2. /\ 2 <= ws /\ ws <= wi /\ wi <= FirstSlot /\ Filed(mem, wi + 1, FirstSlot, 2, ws)
        /\ TypeOK /\ wi \in Addr /\ ws \in Addr
    BY <1>1 DEF Whole, CompactOK, SbSize, TypeOK
  <2> QED
    BY <2>1, <2>2
<1>4. SnapOK
  BY <1>1 DEF PackingOK
<1>5. snap \in [Addr -> Cell] /\ snap[1].to = Idx /\ Filed(snap, Idx + 1, FirstSlot, 2, Free)
  BY <1>4 DEF SnapOK, SbSize, Idx
<1>6. /\ mem' \in [Addr -> Cell] /\ mem'[0] = Ptr(ws) /\ mem'[1] = Ptr(wi)
      /\ \A a \in Addr : 2 <= a => mem'[a] = mem[a]
  <2>1. /\ ChunkCells \in Seq(Cell) /\ Len(ChunkCells) = 2
        /\ ChunkCells[1] = Ptr(ws) /\ ChunkCells[2] = Ptr(wi)
    BY <1>2, <1>3, KernelCells, TwoCells
  <2>2. 0 \in Nat /\ 0 + Len(ChunkCells) <= MemSize /\ mem' = Put(mem, 0, ChunkCells)
    BY <1>1, <1>2, <1>3, <2>1
  <2>3. /\ mem' \in [Addr -> Cell]
        /\ \A a \in Addr : a < 0 \/ 0 + 2 <= a => mem'[a] = mem[a]
        /\ \A i \in 1 .. 2 : mem'[0 + i - 1] = ChunkCells[i]
    <3>1. TypeOK
      BY <1>3
    <3>2. /\ mem' \in [Addr -> Cell]
          /\ \A a \in Addr : a < 0 \/ 0 + Len(ChunkCells) <= a => mem'[a] = mem[a]
          /\ \A i \in 1 .. Len(ChunkCells) : 0 + i - 1 \in Addr /\ mem'[0 + i - 1] = ChunkCells[i]
      BY <2>1, <2>2, <3>1, Transmitted
    <3> QED
      BY <2>1, <3>2
  <2>4. 1 \in 1 .. 2 /\ 0 + 1 - 1 = 0 /\ 2 \in 1 .. 2 /\ 0 + 2 - 1 = 1 /\ 0 + 2 = 2
    OBVIOUS
  <2> QED
    BY <2>1, <2>3, <2>4
<1>7. \A a \in 2 .. FirstSlot : a \in Addr /\ mem'[a] = mem[a]
  BY <1>3, <1>6
<1>8. mem'[1].to = wi
  BY <1>6 DEF Ptr
<1>9. Filed(mem', wi + 1, FirstSlot, 2, ws)
  <2>1. Whole'
    BY CompactSbInv
  <2>2. Filed(mem', Idx' + 1, FirstSlot, SbSize, Free')
    BY <1>1, <2>1 DEF Whole, IndexOK, CompactPCs
  <2>3. Idx' = wi /\ Free' = ws
    BY <1>6 DEF Idx, Free, Ptr
  <2> QED
    BY <2>2, <2>3 DEF SbSize
<1> QED
  BY <1>3, <1>5, <1>6, <1>7, <1>8, <1>9

\* Compacting an empty volume: nothing, or one record that no FS_WRITE committed.
LEMMA EmptyPacked ==
  ASSUME Whole, PackingOK, CompactSb, Idx = FirstSlot
  PROVE  /\ View(snap) = <<>>
         /\ View(mem') = <<>> \/ (Len(View(mem')) = 1 /\ View(mem')[1].live)
<1>1. View(snap) = <<>>
  BY PackedVolume, EmptyView
<1>2. wi = FirstSlot \/ (wi = FirstSlot - 1 /\ IsFile(mem[FirstSlot]))
  BY DEF PackingOK, DoneOK, CompactSb
<1>3. CASE wi = FirstSlot
  BY <1>1, <1>3, PackedVolume, EmptyView
<1>4. CASE wi = FirstSlot - 1 /\ IsFile(mem[FirstSlot])
  <2>1. /\ wi \in Int /\ FirstSlot \in Int /\ 0 <= wi /\ wi <= FirstSlot /\ mem'[1].to = wi
        /\ FirstSlot - wi = 1 /\ 1 \in 1 .. 1 /\ FirstSlot + 1 - 1 = FirstSlot
        /\ FirstSlot \in 2 .. FirstSlot
    BY <1>4, PackedVolume
  <2>2. /\ Len(View(mem')) = FirstSlot - wi
        /\ \A i \in 1 .. FirstSlot - wi : View(mem')[i] = RecordAt(mem', FirstSlot + 1 - i)
    BY <2>1, ViewRecords
  <2>3. View(mem')[1] = RecordAt(mem', FirstSlot) /\ Len(View(mem')) = 1
    BY <2>1, <2>2
  <2>4. mem'[FirstSlot] = mem[FirstSlot]
    BY <2>1, PackedVolume
  <2>5. RecordAt(mem', FirstSlot).live
    BY <1>4, <2>4 DEF RecordAt
  <2> QED
    BY <1>1, <2>3, <2>5
<1> QED
  BY <1>2, <1>3, <1>4

\* Compacting any other: the live records, in their order.
LEMMA FilesPacked ==
  ASSUME Whole, PackingOK, CompactSb, Idx # FirstSlot
  PROVE  \E from \in [DOMAIN View(mem') -> {i \in DOMAIN View(snap) : View(snap)[i].live}] :
           /\ \A i, j \in DOMAIN View(mem') : i < j => from[i] < from[j]
           /\ \A a \in {i \in DOMAIN View(snap) : View(snap)[i].live} :
                \E i \in DOMAIN View(mem') : from[i] = a
           /\ \A i \in DOMAIN View(mem') : View(mem')[i] = View(snap)[from[i]]
<1>1. /\ Idx \in Int /\ wi \in Int /\ FirstSlot \in Int /\ 2 <= Idx /\ Idx <= FirstSlot
      /\ 2 <= ws /\ ws <= wi /\ wi <= FirstSlot /\ ws \in Int
      /\ mem' \in [Addr -> Cell] /\ mem'[1].to = wi
      /\ \A a \in 2 .. FirstSlot : a \in Addr /\ mem'[a] = mem[a]
      /\ Filed(mem, wi + 1, FirstSlot, 2, ws) /\ Filed(mem', wi + 1, FirstSlot, 2, ws)
      /\ mem \in [Addr -> Cell] /\ snap \in [Addr -> Cell] /\ snap[1].to = Idx
      /\ Filed(snap, Idx + 1, FirstSlot, 2, Free) /\ Free \in Int /\ Free <= FirstSlot
  BY PackedVolume
<1>2. Kept(mem, wi, snap, Idx)
  BY DEF PackingOK, DoneOK, CompactSb
<1>3. Kept(mem', wi, snap, Idx)
  <2>1. /\ \A a \in wi + 1 .. FirstSlot : mem'[a] = mem[a]
        /\ \A x \in 2 .. ws - 1 : mem'[x] = mem[x]
    BY <1>1
  <2>2. 0 <= wi /\ ws <= FirstSlot
    BY <1>1
  <2> QED
    BY <1>1, <1>2, <2>1, <2>2, KeptFrame
<1>4. PICK f \in [wi + 1 .. FirstSlot -> LiveAbove(snap, Idx)] : KeptBy(f, mem', wi, snap, Idx)
  BY <1>3 DEF Kept
<1> DEFINE new == 1 .. FirstSlot - wi
           old == 1 .. FirstSlot - Idx
           alive == {i \in DOMAIN View(snap) : View(snap)[i].live}
           Slot(i) == FirstSlot + 1 - i
           from == [i \in new |-> Slot(f[Slot(i)])]
<1>5. /\ DOMAIN View(mem') = new
      /\ \A i \in new : View(mem')[i] = RecordAt(mem', Slot(i)) /\ Slot(i) \in wi + 1 .. FirstSlot
  <2>1. 0 <= wi
    BY <1>1
  <2> QED
    BY <1>1, <2>1, ViewRecords
<1>6. /\ DOMAIN View(snap) = old
      /\ \A i \in old : View(snap)[i] = RecordAt(snap, Slot(i)) /\ Slot(i) \in Idx + 1 .. FirstSlot
  <2>1. 0 <= Idx
    BY <1>1
  <2> QED
    BY <1>1, <2>1, ViewRecords
<1>7. \A i \in old : View(snap)[i].live <=> IsFile(snap[Slot(i)])
  BY <1>6 DEF RecordAt
<1>8. ASSUME NEW b \in LiveAbove(snap, Idx)
      PROVE  b \in Int /\ Slot(b) \in old /\ Slot(Slot(b)) = b /\ Slot(b) \in alive /\ b \in Idx + 1 .. FirstSlot
  <2>1. b \in Idx + 1 .. FirstSlot /\ IsFile(snap[b])
    BY DEF LiveAbove
  <2>2. b \in Int /\ Slot(b) \in old /\ Slot(Slot(b)) = b
    BY <2>1, <1>1
  <2> QED
    BY <2>1, <2>2, <1>6, <1>7
<1>9. ASSUME NEW i \in new
      PROVE  Slot(i) \in wi + 1 .. FirstSlot /\ f[Slot(i)] \in LiveAbove(snap, Idx) /\ Slot(Slot(i)) = i
  BY <1>1, <1>4, <1>5
<1>10. from \in [DOMAIN View(mem') -> alive]
  BY <1>5, <1>8, <1>9
<1>11. ASSUME NEW i \in new, NEW j \in new, i < j
       PROVE  from[i] < from[j]
  <2>1. Slot(j) < Slot(i) /\ Slot(i) \in wi + 1 .. FirstSlot /\ Slot(j) \in wi + 1 .. FirstSlot
    BY <1>1, <1>9, <1>11
  <2>2. f[Slot(j)] < f[Slot(i)]
    BY <2>1, <1>4 DEF KeptBy
  <2>3. f[Slot(j)] \in Int /\ f[Slot(i)] \in Int
    BY <1>8, <1>9
  <2>4. Slot(f[Slot(i)]) < Slot(f[Slot(j)])
    BY <2>2, <2>3, <1>1
  <2> QED
    BY <2>4
<1>12. ASSUME NEW a \in alive
       PROVE  \E i \in new : from[i] = a
  <2>1. a \in old /\ IsFile(snap[Slot(a)]) /\ Slot(a) \in Idx + 1 .. FirstSlot
    BY <1>6, <1>7
  <2>2. Slot(a) \in LiveAbove(snap, Idx) /\ Slot(Slot(a)) = a
    BY <2>1, <1>1 DEF LiveAbove
  <2>3. PICK c \in wi + 1 .. FirstSlot : f[c] = Slot(a)
    BY <2>2, <1>4 DEF KeptBy
  <2>4. Slot(c) \in new /\ Slot(Slot(c)) = c
    BY <1>1
  <2>5. from[Slot(c)] = a
    BY <2>2, <2>3, <2>4
  <2> QED
    BY <2>4, <2>5
<1>13. ASSUME NEW i \in new
       PROVE  View(mem')[i] = View(snap)[from[i]]
  <2> DEFINE a == Slot(i)
             b == f[Slot(i)]
  <2>1. /\ a \in wi + 1 .. FirstSlot /\ b \in Idx + 1 .. FirstSlot /\ b \in LiveAbove(snap, Idx)
        /\ SameFile(mem', a, snap, b)
    BY <1>4, <1>8, <1>9 DEF KeptBy
  <2>2. View(mem')[i] = RecordAt(mem', a) /\ View(snap)[from[i]] = RecordAt(snap, b)
    <3>1. from[i] = Slot(b) /\ Slot(b) \in old /\ Slot(Slot(b)) = b
      BY <2>1, <1>8
    <3> QED
      BY <3>1, <1>5, <1>6
  <2> HIDE DEF a, b, from
  <2>3. /\ mem'[a].start \in Int /\ mem'[a].len \in Nat /\ 0 <= mem'[a].start
        /\ mem'[a].start + mem'[a].len <= FirstSlot
    <3>1. 0 <= wi + 1 /\ wi + 1 \in Int /\ ws <= FirstSlot
      BY <1>1
    <3>2. /\ mem'[a].start \in Int /\ mem'[a].len \in Nat /\ 2 <= mem'[a].start
          /\ mem'[a].start + mem'[a].len <= ws
      BY <3>1, <2>1, <1>1, SlotNumbers
    <3> QED
      BY <3>1, <3>2, <1>1
  <2>4. /\ snap[b].start \in Int /\ snap[b].len \in Nat /\ 0 <= snap[b].start
        /\ snap[b].start + snap[b].len <= FirstSlot
    <3>1. 0 <= Idx + 1 /\ Idx + 1 \in Int
      BY <1>1
    <3>2. /\ snap[b].start \in Int /\ snap[b].len \in Nat /\ 2 <= snap[b].start
          /\ snap[b].start + snap[b].len <= Free
      BY <3>1, <2>1, <1>1, SlotNumbers
    <3> QED
      BY <3>1, <3>2, <1>1
  <2>5. FsRead(mem', a) = FsRead(snap, b)
    BY <2>1, <2>3, <2>4, ReadOfSameFile
  <2>6. mem'[a].name = snap[b].name /\ IsFile(mem'[a]) = IsFile(snap[b])
    BY <2>1 DEF SameFile, LiveAbove, IsFile
  <2>7. RecordAt(mem', a) = RecordAt(snap, b)
    BY <2>5, <2>6 DEF RecordAt
  <2> QED
    BY <2>2, <2>7
<1> HIDE DEF from, new, old, alive
<1>14. /\ from \in [DOMAIN View(mem') -> alive]
       /\ \A i, j \in DOMAIN View(mem') : i < j => from[i] < from[j]
       /\ \A a \in alive : \E i \in DOMAIN View(mem') : from[i] = a
       /\ \A i \in DOMAIN View(mem') : View(mem')[i] = View(snap)[from[i]]
  BY <1>5, <1>10, <1>11, <1>12, <1>13
<1> QED
  BY <1>14 DEF alive

-----------------------------------------------------------------------------
(* The refinement. *)

\* Between calls, and in every call but a compaction, the log is what is on the
\* FRAM; in a compaction it is what was there when it started.
LEMMA VolumeNow ==
  /\ pc \notin CompactPCs => Volume = View(mem)
  /\ pc \in CompactPCs => Volume = View(snap)
  /\ pc' \notin CompactPCs => Volume' = View(mem')
  /\ pc' \in CompactPCs => Volume' = View(snap')
BY DEF Volume

\* The log as callers may rely on it.
LogNow == IF torn THEN <<>> ELSE Volume

\* What a step of the filesystem is to the log.
Refines == Log!Next \/ UNCHANGED <<LogNow, torn>>

\* On a volume that is and stays whole the log is the volume.
LEMMA WholeRefines ==
  ASSUME torn = FALSE, torn' = FALSE,
         \/ Volume' = Volume
         \/ Volume' = <<>>
         \/ \E n \in Names, d \in {Bytes(p) : p \in Payload} :
              Volume' = Append(Volume, [name |-> n, live |-> TRUE, data |-> d])
         \/ \E i \in DOMAIN Volume : Volume' = [Volume EXCEPT ![i].live = FALSE]
  PROVE  Refines
<1>1. LogNow = Volume /\ LogNow' = Volume'
  BY DEF LogNow
<1>2. CASE Volume' = Volume
  BY <1>1, <1>2 DEF Refines
<1>3. CASE Volume' = <<>>
  BY <1>3 DEF Refines, Log!Next, Log!Format
<1>4. CASE \E n \in Names, d \in {Bytes(p) : p \in Payload} :
              Volume' = Append(Volume, [name |-> n, live |-> TRUE, data |-> d])
  <2>1. Log!Operate
    BY <1>4 DEF Log!Operate, Log!AppendFile
  <2> QED
    BY <2>1 DEF Refines, Log!Next
<1>5. CASE \E i \in DOMAIN Volume : Volume' = [Volume EXCEPT ![i].live = FALSE]
  <2>1. PICK i \in DOMAIN Volume : Volume' = [Volume EXCEPT ![i].live = FALSE]
    BY <1>5
  <2>2. Log!Tombstone(i)
    BY <2>1 DEF Log!Tombstone
  <2>3. Log!Operate
    BY <2>2 DEF Log!Operate
  <2> QED
    BY <2>3 DEF Refines, Log!Next
<1> QED
  BY <1>2, <1>3, <1>4, <1>5

\* A call changes nothing before its first transaction.
LEMMA CallIsStutter == ASSUME Call PROVE Volume' = Volume /\ torn' = torn
<1>1. mem' = mem /\ pc = "idle" /\ torn' = torn
  BY DEF Call, Format, Find, Write, Delete, Update, Compact
<1>2. CASE Compact
  <2>1. pc' \in CompactPCs /\ pc \notin CompactPCs /\ snap' = mem
    BY <1>1, <1>2 DEF Compact, CompactPCs
  <2> QED
    BY <1>1, <2>1, VolumeNow
<1>3. CASE ~Compact
  <2>1. pc' \notin CompactPCs /\ pc \notin CompactPCs
    BY <1>1, <1>3 DEF Call, Format, Find, Write, Delete, Update, CompactPCs
  <2> QED
    BY <1>1, <2>1, VolumeNow
<1> QED
  BY <1>2, <1>3

\* The super block of FS_WRITE leaves the log as it is, or appends the file.
LEMMA SbRefines ==
  ASSUME Whole, pc = "write_sb", pc' \notin CompactPCs, torn' = FALSE,
         Idx' \in Int, Idx' = Idx \/ Idx' = Idx - 1,
         \A a \in SbSize .. VolSlot : mem'[a] = mem[a]
  PROVE  Refines
<1>1. pc \notin CompactPCs /\ torn = FALSE /\ name \in Names /\ what \in Payload
  BY DEF CompactPCs, Whole, TypeOK
<1>2. Volume = View(mem) /\ Volume' = View(mem')
  BY <1>1, VolumeNow
<1>3. \/ Volume' = Volume
      \/ Volume' = Append(Volume, [name |-> name, live |-> TRUE, data |-> Bytes(what)])
  BY <1>2, SbAppends
<1> QED
  BY <1>1, <1>3, WholeRefines

\* FS_WRITE, whole or cut short between two cells.
LEMMA WriteIsAppend ==
  ASSUME Whole, pc \in WritePCs, pc' \notin CompactPCs, torn' = FALSE, NEW k \in 0 .. Len(ChunkCells),
         mem' = Put(mem, ChunkAt, SubSeq(ChunkCells, 1, k))
  PROVE  Refines
<1>1. pc \notin CompactPCs /\ torn = FALSE
  BY DEF WritePCs, CompactPCs, Whole, TypeOK
<1>2. CASE pc = "write_data"
  BY <1>1, <1>2, DataUnseen, VolumeNow, WholeRefines
<1>3. CASE pc = "write_index"
  BY <1>1, <1>3, IndexUnseen, VolumeNow, WholeRefines
<1>4. CASE pc = "write_sb"
  <2>1. /\ Idx' \in Int /\ (mem'[1] = mem[1] \/ Idx' = Idx - 1)
        /\ \A a \in SbSize .. VolSlot : mem'[a] = mem[a]
    BY <1>4, WriteSbVolume
  <2>2. mem'[1] = mem[1] => Idx' = Idx
    BY DEF Idx
  <2> QED
    BY <1>4, <2>1, <2>2, SbRefines
<1> QED
  BY <1>2, <1>3, <1>4 DEF WritePCs

\* FS_DELETE, and the first half of FS_UPDATE.
LEMMA DeleteIsTombstone ==
  ASSUME Whole, pc \in DeletePCs, pc' \notin CompactPCs, torn' = FALSE, NEW k \in 0 .. Len(ChunkCells),
         mem' = Put(mem, ChunkAt, SubSeq(ChunkCells, 1, k))
  PROVE  Refines
<1>1. pc \notin CompactPCs /\ torn = FALSE
  BY DEF DeletePCs, CompactPCs, Whole, TypeOK
<1>2. Volume = View(mem) /\ Volume' = View(mem')
  BY <1>1, VolumeNow
<1>3. \/ Volume' = Volume
      \/ \E i \in DOMAIN Volume : Volume' = [Volume EXCEPT ![i].live = FALSE]
  BY <1>2, TombstoneSeen
<1> QED
  BY <1>1, <1>3, WholeRefines

\* The super block of FS_FORMAT.
LEMMA FormatIsFormat == ASSUME Whole, FormatSb PROVE Refines
<1>1. pc' = "format_stub" /\ Whole' /\ torn = FALSE /\ torn' = FALSE
  <2>1. pc' = "format_stub" /\ torn' = torn
    BY DEF FormatSb
  <2> QED
    BY <2>1, FormatSbInv DEF Whole, TypeOK
<1>2. mem'[1].to = FirstSlot
  BY <1>1 DEF Whole, SuperBlockOK, Idx
<1>3. Volume' = <<>>
  BY <1>1, <1>2, EmptyView, VolumeNow DEF CompactPCs
<1> QED
  BY <1>1, <1>3, WholeRefines

\* Its markers are outside of the log.
LEMMA MarkerUnseen ==
  ASSUME Whole, pc \in {"format_stub", "format_vol"}, pc' \notin CompactPCs, torn' = FALSE,
         Idx' = Idx
  PROVE  Refines
<1>1. mem[1].to = FirstSlot
  BY DEF Whole, SuperBlockOK, Idx
<1>2. mem'[1].to = FirstSlot
  BY <1>1 DEF Idx
<1>3. pc \notin CompactPCs /\ torn = FALSE
  BY DEF CompactPCs, Whole, TypeOK
<1> QED
  BY <1>1, <1>2, <1>3, EmptyView, VolumeNow, WholeRefines

\* FS_COMPACT, which takes effect in its last transaction.
LEMMA CompactIsCompact == ASSUME Whole, PackingOK, CompactSb PROVE Refines
<1>1. /\ Volume = View(snap) /\ Volume' = View(mem') /\ torn = FALSE /\ torn' = FALSE
  BY VolumeNow DEF CompactSb, Return, CompactPCs, Whole, TypeOK
<1>2. CASE Idx = FirstSlot
  <2>1. CASE View(mem') = <<>>
    BY <1>1, <1>2, <2>1, WholeRefines
  <2>2. CASE Len(View(mem')) = 1 /\ View(mem')[1].live
    <3>1. Log!Adopt
      BY <1>1, <1>2, <2>2, EmptyPacked DEF Log!Adopt
    <3>2. Log!Operate
      BY <1>1, <3>1 DEF Log!Operate
    <3> QED
      BY <3>2 DEF Refines, Log!Next
  <2> QED
    BY <1>2, <2>1, <2>2, EmptyPacked
<1>3. CASE Idx # FirstSlot
  <2>1. Log!Compact
    BY <1>1, <1>3, FilesPacked DEF Log!Compact, Log!Live
  <2>2. Log!Operate
    BY <1>1, <2>1 DEF Log!Operate
  <2> QED
    BY <2>2 DEF Refines, Log!Next
<1> QED
  BY <1>2, <1>3

\* A power failure inside a number or an entry: the volume is as it was or as
\* the call leaves it, or the cut fell between the two bytes of a number whose
\* high byte changes.
LEMMA CutRefines ==
  ASSUME Whole, pc \in Survivable, pc' \notin CompactPCs, NEW k \in Nat, CutInside(k)
  PROVE  Refines
<1>1. CASE pc = "write_data"
  BY <1>1, CutWriteData
<1>2. CASE pc = "write_index"
  <2>1. /\ torn' \in BOOLEAN
        /\ ~torn' => Idx' = Idx
        /\ \A a \in Addr : a \notin {Idx - 1, Idx} => mem'[a] = mem[a]
        /\ torn' => IsEntry(mem[Idx]) /\ what.len \div PageSize # mem[Idx].len \div PageSize
    BY <1>2, CutWriteIndex
  <2>2. CASE torn' = TRUE
    <3>1. sb.idx = Idx
      BY <1>2 DEF Whole, SuperBlockOK, WritePCs, ReadSb, Idx
    <3>2. Crossing
      BY <1>2, <2>1, <2>2, <3>1 DEF Crossing, Page
    <3>3. Log!Break
      BY <2>2, <3>2 DEF Log!Break
    <3> QED
      BY <3>3 DEF Refines, Log!Next
  <2>3. CASE torn' = FALSE
    <3>1. /\ Free \in Int /\ 2 <= Free /\ Idx \in Int /\ Idx <= FirstSlot /\ FirstSlot < MemSize
          /\ MemSize \in Int /\ FirstSlot \in Int /\ Free + what.len <= Idx - 1 /\ what.len \in Nat
      BY <1>2, Pointers, PayloadLen DEF Whole, TypeOK, WriteOK, WritePCs, FirstSlot
    <3>2. \A a \in Idx + 1 .. FirstSlot : mem'[a] = mem[a]
      BY <2>1, <3>1 DEF Addr
    <3>3. \A x \in 2 .. Free - 1 : mem'[x] = mem[x]
      BY <2>1, <3>1 DEF Addr
    <3>4. pc \notin CompactPCs
      BY <1>2 DEF CompactPCs
    <3>5. View(mem') = View(mem)
      BY <2>1, <2>3, <3>2, <3>3, <3>4, ViewFrame
    <3>6. torn = FALSE
      BY DEF Whole, TypeOK
    <3>7. Volume' = Volume
      BY <3>4, <3>5, VolumeNow
    <3> QED
      BY <2>3, <3>4, <3>5, <3>6, <3>7, WholeRefines
  <2> QED
    BY <2>1, <2>2, <2>3
<1>3. CASE pc = "write_sb"
  <2>1. /\ torn' \in BOOLEAN
        /\ ~torn' => mem'[1].to \in {Idx - 1, Idx}
        /\ \A a \in SbSize .. VolSlot : mem'[a] = mem[a]
        /\ ChunkCells[1] = Ptr(Free + what.len) /\ ChunkCells[2] = Ptr(Idx - 1)
        /\ torn' => \/ (Free + what.len) \div PageSize # Free \div PageSize
                    \/ (Idx - 1) \div PageSize # Idx \div PageSize
    BY <1>3, CutWriteSb
  <2>2. CASE torn' = TRUE
    <3>1. WrittenSb = ChunkCells
      BY <1>3 DEF ChunkCells, DeletePCs
    <3>2. WrittenSb[0 + 1].to = Free + what.len /\ WrittenSb[1 + 1].to = Idx - 1
      BY <2>1, <3>1 DEF Ptr
    <3>3. Crossing
      BY <1>3, <2>1, <2>2, <3>2 DEF Crossing, Page, Free, Idx
    <3>4. Log!Break
      BY <2>2, <3>3 DEF Log!Break
    <3> QED
      BY <3>4 DEF Refines, Log!Next
  <2>3. CASE torn' = FALSE
    <3>1. Idx \in Int
      BY Pointers DEF Whole
    <3>2. Idx' \in Int /\ (Idx' = Idx \/ Idx' = Idx - 1)
      BY <2>1, <2>3, <3>1 DEF Idx
    <3> QED
      BY <1>3, <2>1, <2>3, <3>2, SbRefines
  <2> QED
    BY <2>1, <2>2, <2>3
<1>4. CASE pc \in DeletePCs
  <2>1. torn' = FALSE /\ mem' = Put(mem, ChunkAt, ChunkCells) /\ ChunkCells \in Seq(Cell)
    BY <1>4, CutDelete, TombstoneChunk
  <2> QED
    BY <1>4, <2>1, WholeChunk, DeleteIsTombstone
<1>5. CASE pc \in {"format_stub", "format_vol"}
  BY <1>5, CutMarker, MarkerUnseen
<1> QED
  BY <1>1, <1>2, <1>3, <1>4, <1>5 DEF Survivable, WritePCs

\* A torn volume is given up until a format has written all of it.
LEMMA TornNeverCompacts ==
  ASSUME Astrayed, CrashPoints \subseteq Survivable, [Next]_vars
  PROVE  pc \notin CompactPCs /\ pc' \notin CompactPCs
<1>1. torn /\ pc \in {"idle", "format_sb", "format_stub", "format_vol"} /\ held = NoId
  BY DEF Astrayed, FormatPCs
<1>2. Call => pc' = "format_sb"
  BY <1>1 DEF Call, Format, Find, Write, Delete, Update, Compact
<1>3. Step => pc' \in {"format_stub", "format_vol", "idle"}
  BY <1>1 DEF Step, FormatSb, FormatStub, FormatVol, WriteData, WriteIndex, WriteSb, DeleteEntry,
     UpdateDelete, CompactSkip, CompactTake, CompactCopy, CompactEntry, CompactStub, CompactSb, Return
<1>4. PowerLoss => pc' = "idle"
  BY DEF PowerLoss, Return
<1>5. UNCHANGED vars => pc' = pc
  BY DEF vars
<1> QED
  BY <1>1, <1>2, <1>3, <1>4, <1>5 DEF Next, CompactPCs

LEMMA TornRefines ==
  ASSUME Astrayed, CrashPoints \subseteq Survivable, [Next]_vars
  PROVE  Refines
<1>1. torn = TRUE /\ LogNow = <<>>
  BY DEF Astrayed, TypeOK, LogNow
<1>2. CASE FormatVol
  <2>1. torn' = FALSE /\ pc' = "idle" /\ pc = "format_vol" /\ mem' = Put(mem, ChunkAt, ChunkCells)
    BY <1>2 DEF FormatVol, Return, Transmit
  <2>2. ChunkAt = VolSlot /\ ChunkCells = <<Vol>> /\ mem[1] = Ptr(FirstSlot)
    BY <2>1 DEF ChunkAt, ChunkCells, DeletePCs, Astrayed
  <2>3. VolSlot \in Addr /\ 1 \in Addr /\ 1 # VolSlot
    BY ConstantsAssumption DEF VolSlot, Addr
  <2>4. mem'[1].to = FirstSlot
    <3>1. mem'[1] = mem[1]
      BY <2>1, <2>2, <2>3, KernelCells, CellWritten DEF Astrayed
    <3> QED
      BY <2>2, <3>1 DEF Ptr
  <2>5. Volume' = <<>>
    BY <2>1, <2>4, EmptyView, VolumeNow DEF CompactPCs
  <2>6. Log!Format
    BY <2>1, <2>5 DEF Log!Format
  <2> QED
    BY <2>6 DEF Refines, Log!Next
<1>3. CASE ~FormatVol
  <2>1. torn' = TRUE
    <3>1. Call => torn' = torn
      BY CallIsStutter
    <3>2. Step => torn' = torn
      BY <1>3 DEF Step, FormatSb, FormatStub, WriteData, WriteIndex, WriteSb, DeleteEntry,
         UpdateDelete, CompactSkip, CompactTake, CompactCopy, CompactEntry, CompactStub, CompactSb
    <3>3. PowerLoss => torn' = TRUE
      BY AstrayedPowerLoss DEF Astrayed, TypeOK
    <3>4. UNCHANGED vars => torn' = torn
      BY DEF vars
    <3> QED
      BY <1>1, <3>1, <3>2, <3>3, <3>4 DEF Next
  <2> QED
    BY <1>1, <2>1 DEF Refines, LogNow
<1> QED
  BY <1>2, <1>3

\* Every step of the filesystem is a step of the log, or none.
LEMMA WholeStep ==
  ASSUME Careful, Whole, PackingOK, [Next]_vars
  PROVE  Refines
<1>0. torn = FALSE
  BY DEF Whole, TypeOK
<1>1. CASE Call
  BY <1>0, <1>1, CallIsStutter, WholeRefines
<1>2. CASE FormatSb
  BY <1>2, FormatIsFormat
<1>3. CASE FormatStub \/ FormatVol
  <2>1. /\ pc \in {"format_stub", "format_vol"} /\ pc' \notin CompactPCs /\ torn' = FALSE
        /\ mem' = Put(mem, ChunkAt, ChunkCells)
    BY <1>0, <1>3 DEF FormatStub, FormatVol, Transmit, Return, CompactPCs
  <2>2. ChunkCells = <<Stub>> \/ ChunkCells = <<Vol>>
    BY <2>1 DEF ChunkCells, DeletePCs
  <2>3. ChunkCells \in Seq(Cell)
    BY <2>2, KernelCells, OneCell
  <2>4. Idx' = FirstSlot /\ Idx = FirstSlot
    BY <2>1, <2>3, WholeChunk, MarkerVolume DEF Whole, SuperBlockOK
  <2> QED
    BY <2>1, <2>4, MarkerUnseen
<1>4. CASE WriteData \/ WriteIndex \/ WriteSb
  <2>1. /\ pc \in {"write_data", "write_index", "write_sb"} /\ pc' \notin CompactPCs /\ torn' = FALSE
        /\ mem' = Put(mem, ChunkAt, ChunkCells)
    BY <1>0, <1>4 DEF WriteData, WriteIndex, WriteSb, Transmit, Return, CompactPCs
  <2>2. ChunkCells \in Seq(Cell)
    <3>1. CASE pc = "write_data"
      BY <3>1, BytesAreCells DEF ChunkCells, DeletePCs, Whole, TypeOK
    <3>2. CASE pc = "write_index"
      BY <3>2, KernelCells, TwoCells DEF ChunkCells, WrittenIndex, DeletePCs, Whole, TypeOK
    <3>3. CASE pc = "write_sb"
      BY <3>3, WriteSbChunk
    <3> QED
      BY <2>1, <3>1, <3>2, <3>3
  <2> QED
    BY <2>1, <2>2, WholeChunk, WriteIsAppend DEF WritePCs
<1>5. CASE DeleteEntry \/ UpdateDelete
  <2>1. /\ pc \in DeletePCs /\ pc' \notin CompactPCs /\ torn' = FALSE
        /\ mem' = Put(mem, ChunkAt, ChunkCells)
    BY <1>0, <1>5 DEF DeleteEntry, UpdateDelete, Transmit, Return, DeletePCs, CompactPCs
  <2>2. ChunkCells \in Seq(Cell)
    BY <2>1, TombstoneChunk
  <2> QED
    BY <2>1, <2>2, WholeChunk, DeleteIsTombstone
<1>6. CASE CompactSkip \/ CompactTake \/ CompactCopy \/ CompactEntry \/ CompactStub
  <2>1. pc \in CompactPCs /\ pc' \in CompactPCs /\ snap' = snap /\ torn' = FALSE
    BY <1>0, <1>6 DEF CompactSkip, CompactTake, CompactCopy, CompactEntry, CompactStub, AdvanceFrom,
       CompactPCs, ramVars
  <2> QED
    BY <1>0, <2>1, VolumeNow, WholeRefines
<1>7. CASE CompactSb
  BY <1>7, CompactIsCompact
<1>8. CASE PowerLoss
  <2>1. PICK k \in 0 .. Len(ChunkCells) : CutBetween(k) \/ CutInside(k)
    BY <1>8 DEF PowerLoss
  <2>2. pc \in Survivable /\ pc' \notin CompactPCs
    BY <1>8 DEF PowerLoss, Careful, Return, CompactPCs
  <2>3. CASE CutInside(k)
    <3>1. k \in Nat
      OBVIOUS
    <3> QED
      BY <2>2, <2>3, <3>1, CutRefines
  <2>4. CASE CutBetween(k)
    <3>1. mem' = Put(mem, ChunkAt, SubSeq(ChunkCells, 1, k)) /\ torn' = FALSE
      BY <1>0, <2>4 DEF CutBetween
    <3>2. CASE pc \in WritePCs
      BY <2>2, <3>1, <3>2, WriteIsAppend
    <3>3. CASE pc \in DeletePCs
      BY <2>2, <3>1, <3>3, DeleteIsTombstone
    <3>4. CASE pc \in {"format_stub", "format_vol"}
      <4>1. Idx' = FirstSlot /\ Idx = FirstSlot
        BY <3>1, <3>4, MarkerVolume DEF Whole, SuperBlockOK
      <4> QED
        BY <2>2, <3>1, <3>4, <4>1, MarkerUnseen
    <3> QED
      BY <2>2, <3>2, <3>3, <3>4 DEF Survivable
  <2> QED
    BY <2>1, <2>3, <2>4
<1>9. CASE UNCHANGED vars
  <2>1. mem' = mem /\ pc' = pc /\ snap' = snap /\ torn' = FALSE
    BY <1>0, <1>9 DEF vars
  <2> QED
    BY <1>0, <2>1, VolumeNow, WholeRefines
<1> QED
  BY <1>1, <1>2, <1>3, <1>4, <1>5, <1>6, <1>7, <1>8, <1>9 DEF Next, Step

LEMMA RefinementStep ==
  ASSUME Careful, IInv, PackingOK, [Next]_vars
  PROVE  PackingOK' /\ Refines
<1>1. CASE Astrayed
  BY <1>1, TornNeverCompacts, TornRefines DEF PackingOK, CompactPCs, Careful
<1>2. CASE Whole
  BY <1>2, PackingInv, WholeStep
<1> QED
  BY <1>1, <1>2 DEF IInv

\* A fresh volume is the empty log, with no compaction under way.
LEMMA RefinementInit == ASSUME Init PROVE Log!Init /\ PackingOK
<1>1. pc = "idle" /\ mem = Fresh /\ torn = FALSE
  BY DEF Init
<1>2. mem[1].to = FirstSlot
  <2>1. 1 \in Addr
    BY ConstantsAssumption DEF Addr
  <2> QED
    BY <1>1, <2>1 DEF Fresh, Ptr
<1>3. Volume = <<>>
  BY <1>1, <1>2, EmptyView, VolumeNow DEF CompactPCs
<1> QED
  BY <1>1, <1>3 DEF Log!Init, PackingOK, CompactPCs

\* The filesystem implements the log of files: whatever the callers do and
\* wherever the power fails outside of a compaction, between two bytes or inside
\* a number or an entry, a write is one record more or nothing, a delete kills
\* the record its file ID names and no other, and a compaction leaves the live
\* files in their order, byte for byte. The one exception is a power failure in
\* a transaction that changes the high byte of a pointer or of a length: it may
\* end the log, and the volume is an empty log again once it was formatted.
THEOREM FilesystemIsALog == Careful => (Spec => ImplementsLog)
<1> SUFFICES ASSUME Careful
             PROVE  Spec => ImplementsLog
  OBVIOUS
<1>1. Init => Log!Init /\ PackingOK
  BY RefinementInit
<1>2. IInv /\ PackingOK /\ [Next]_vars => PackingOK' /\ [Log!Next]_<<LogNow, torn>>
  BY RefinementStep DEF Refines
<1> QED
  BY <1>1, <1>2, Invariance, PTL DEF Spec, ImplementsLog, Log!Spec, LogNow

-----------------------------------------------------------------------------
(* No gaps. *)

\* Where the data of the next entry goes when that of slot a + 1 was the last.
NextStart(m, a) == IF a >= FirstSlot THEN SbSize ELSE End(m[a + 1])

\* The slots above lo are live files, each directly above the one before it.
Packed(m, lo) == \A a \in lo + 1 .. FirstSlot : IsFile(m[a]) /\ m[a].start = NextStart(m, a)

PackedOK ==
  /\ pc \in CompactPCs => Packed(mem, wi)
  /\ pc \in {"compact_next", "compact_stub", "compact_sb"} => ws = NextStart(mem, wi)
  /\ pc \in {"compact_copy", "compact_entry"} => to = NextStart(mem, wi)

\* The new index is packed as long as no slot of it changes.
LEMMA PackedFrame ==
  ASSUME NEW m, NEW n, NEW lo \in Int, \A a \in lo + 1 .. FirstSlot : n[a] = m[a]
  PROVE  /\ NextStart(n, lo) = NextStart(m, lo)
         /\ Packed(m, lo) => Packed(n, lo)
<1>1. FirstSlot \in Int
  BY ConstantsAssumption DEF FirstSlot
<1>2. ASSUME NEW a \in lo .. FirstSlot
      PROVE  NextStart(n, a) = NextStart(m, a)
  <2>1. a < FirstSlot => a + 1 \in lo + 1 .. FirstSlot
    BY <1>1
  <2>2. a < FirstSlot => n[a + 1] = m[a + 1]
    BY <2>1
  <2> QED
    BY <1>1, <2>2 DEF NextStart
<1>3. NextStart(n, lo) = NextStart(m, lo)
  <2>1. lo \in lo .. FirstSlot \/ lo >= FirstSlot
    BY <1>1
  <2> QED
    BY <1>2, <2>1 DEF NextStart
<1>4. \A a \in lo + 1 .. FirstSlot : a \in lo .. FirstSlot
  BY <1>1
<1> QED
  BY <1>2, <1>3, <1>4 DEF Packed

\* The cursors of a compaction and the slots above the write cursor.
LEMMA SlotsAbove ==
  ASSUME Whole, pc \in CompactPCs
  PROVE  /\ wi \in Int /\ 2 <= wi /\ wi <= FirstSlot /\ FirstSlot \in Int /\ wi \in Addr
         /\ \A a \in wi + 1 .. FirstSlot : a \in Addr /\ wi < a
<1>1. wi \in Int /\ FirstSlot \in Int /\ FirstSlot < MemSize /\ MemSize \in Int /\ 2 <= Idx /\ Idx \in Int
      /\ ws \in Int /\ cur \in Int
  BY Cursors
<1>2. wi <= FirstSlot /\ 2 <= wi
  <2>1. CASE pc \in {"compact_next", "compact_copy", "compact_entry"}
    BY <1>1, <2>1 DEF Whole, CompactOK
  <2>2. CASE pc \in {"compact_stub", "compact_sb"}
    BY <1>1, <2>2 DEF Whole, CompactOK, SbSize
  <2> QED
    BY <2>1, <2>2 DEF CompactPCs
<1> QED
  BY <1>1, <1>2 DEF Addr

LEMMA PackedStarts == ASSUME Whole, Compact PROVE PackedOK'
<1>1. pc' = "compact_next" /\ wi' = FirstSlot /\ ws' = SbSize
  BY DEF Compact
<1>2. FirstSlot \in Int
  BY ConstantsAssumption DEF FirstSlot
<1> QED
  BY <1>1, <1>2 DEF PackedOK, Packed, NextStart

\* A chunk of data lies below every slot of the new index.
LEMMA PackedCopies == ASSUME Whole, PackedOK, CompactCopy PROVE PackedOK'
<1>1. /\ pc = "compact_copy" /\ off' = off + CopyLen /\ ws' = ws + CopyLen
      /\ pc' = IF off + CopyLen = ent.len THEN "compact_entry" ELSE "compact_copy"
      /\ ent' = ent /\ to' = to /\ wi' = wi
  BY DEF CompactCopy
<1>2. pc \in {"compact_copy", "compact_entry"} /\ pc \in CompactPCs
  BY <1>1 DEF CompactPCs
<1>3. /\ CopyLen \in Nat /\ off + CopyLen <= ent.len
      /\ \A a \in Addr : ws + CopyLen <= a => mem'[a] = mem[a]
  BY ChunkCopied
<1>4. /\ ws \in Int /\ to \in Int /\ off \in Int /\ ent.start \in Int /\ ent.len \in Int /\ wi \in Int
      /\ ws = to + off /\ to + ent.len <= cur - 1 /\ cur <= wi /\ cur \in Int
  BY <1>2, MovingNumbers
<1>5. \A a \in wi + 1 .. FirstSlot : mem'[a] = mem[a]
  <2>1. \A a \in wi + 1 .. FirstSlot : a \in Addr /\ wi < a
    BY <1>2, SlotsAbove
  <2>2. ws + CopyLen <= wi
    BY <1>3, <1>4
  <2> QED
    BY <2>1, <2>2, <1>3, <1>4
<1>6. Packed(mem, wi) /\ to = NextStart(mem, wi)
  BY <1>2 DEF PackedOK
<1>7. Packed(mem', wi) /\ to = NextStart(mem', wi)
  BY <1>4, <1>5, <1>6, PackedFrame
<1> QED
  BY <1>1, <1>7 DEF PackedOK

\* The moved entry starts where the last one ends.
LEMMA PackedFiles == ASSUME Whole, PackedOK, CompactEntry PROVE PackedOK'
<1>1. /\ pc = "compact_entry" /\ mem' = Put(mem, ChunkAt, ChunkCells)
      /\ wi' = wi - 1 /\ ws' = ws /\ AdvanceFrom(cur)
  BY DEF CompactEntry, Transmit
<1> DEFINE e == [ent EXCEPT !.start = to]
<1>2. ChunkAt = wi /\ ChunkCells = <<e>>
  BY <1>1 DEF ChunkAt, ChunkCells, MovedEntry, DeletePCs
<1>3. pc \in {"compact_copy", "compact_entry"} /\ pc \in CompactPCs
  BY <1>1 DEF CompactPCs
<1>4. off = ent.len /\ ws = to + off
  BY <1>1, <1>3, MovingNumbers DEF Whole, CompactOK
<1>5. ent \in Entry /\ ent.type = "FILE" /\ to \in Addr /\ TypeOK
  BY <1>3, Moving DEF MovingOK, Whole, TypeOK
<1>6. e \in Cell /\ IsFile(e) /\ e.start = to /\ e.len = ent.len
  BY <1>5 DEF Entry, Cell, IsFile
<1> HIDE DEF e
<1>7. /\ wi \in Int /\ wi <= FirstSlot /\ FirstSlot \in Int /\ wi \in Addr
      /\ \A a \in wi + 1 .. FirstSlot : a \in Addr /\ wi < a
  BY <1>3, SlotsAbove
<1>8. mem'[wi] = e /\ \A a \in Addr : a # wi => mem'[a] = mem[a]
  BY <1>1, <1>2, <1>5, <1>6, <1>7, CellWritten
<1>9. Packed(mem', wi) /\ to = NextStart(mem', wi)
  <2>1. \A a \in wi + 1 .. FirstSlot : mem'[a] = mem[a]
    BY <1>7, <1>8
  <2>2. Packed(mem, wi) /\ to = NextStart(mem, wi)
    BY <1>3 DEF PackedOK
  <2> QED
    BY <1>7, <2>1, <2>2, PackedFrame
<1>10. Packed(mem', wi - 1)
  <2>1. ASSUME NEW a \in wi - 1 + 1 .. FirstSlot
        PROVE  IsFile(mem'[a]) /\ mem'[a].start = NextStart(mem', a)
    <3>1. a = wi \/ a \in wi + 1 .. FirstSlot
      BY <1>7
    <3> QED
      BY <3>1, <1>6, <1>8, <1>9 DEF Packed
  <2> QED
    BY <2>1 DEF Packed
<1>11. ws = NextStart(mem', wi - 1)
  <2>1. wi - 1 < FirstSlot /\ wi - 1 + 1 = wi
    BY <1>7
  <2> QED
    BY <2>1, <1>4, <1>6, <1>7, <1>8 DEF NextStart, End
<1>12. pc' \in {"compact_next", "compact_stub"}
  BY <1>1 DEF AdvanceFrom
<1> QED
  BY <1>1, <1>10, <1>11, <1>12 DEF PackedOK

\* The start marker is below them.
LEMMA PackedMarks == ASSUME Whole, PackedOK, CompactStub PROVE PackedOK'
<1>1. /\ pc = "compact_stub" /\ pc \in CompactPCs /\ pc' = "compact_sb"
      /\ mem' = Put(mem, ChunkAt, ChunkCells) /\ wi' = wi /\ ws' = ws
  BY DEF CompactStub, Transmit, ramVars, CompactPCs
<1>2. ChunkAt = wi /\ ChunkCells = <<Stub>>
  BY <1>1 DEF ChunkAt, ChunkCells, DeletePCs
<1>3. /\ wi \in Int /\ wi <= FirstSlot /\ FirstSlot \in Int /\ wi \in Addr /\ TypeOK
      /\ \A a \in wi + 1 .. FirstSlot : a \in Addr /\ wi < a
  BY <1>1, SlotsAbove DEF Whole
<1>4. \A a \in Addr : a # wi => mem'[a] = mem[a]
  BY <1>1, <1>2, <1>3, KernelCells, CellWritten
<1>5. \A a \in wi + 1 .. FirstSlot : mem'[a] = mem[a]
  BY <1>3, <1>4
<1>6. Packed(mem, wi) /\ ws = NextStart(mem, wi)
  BY <1>1 DEF PackedOK
<1>7. Packed(mem', wi) /\ ws = NextStart(mem', wi)
  BY <1>3, <1>5, <1>6, PackedFrame
<1> QED
  BY <1>1, <1>7 DEF PackedOK

\* The steps that write nothing.
LEMMA PackedQuiet == ASSUME PackedOK, CompactSkip \/ CompactTake PROVE PackedOK'
<1>1. /\ pc = "compact_next" /\ pc \in CompactPCs /\ mem' = mem /\ wi' = wi /\ ws' = ws
  BY DEF CompactSkip, CompactTake, CompactPCs
<1>2. Packed(mem, wi) /\ ws = NextStart(mem, wi)
  BY <1>1 DEF PackedOK
<1>3. CASE CompactSkip
  <2>1. pc' \in {"compact_next", "compact_stub"}
    BY <1>3 DEF CompactSkip, AdvanceFrom
  <2> QED
    BY <2>1, <1>1, <1>2 DEF PackedOK
<1>4. CASE CompactTake
  <2>1. pc' \in {"compact_copy", "compact_entry"} /\ to' = ws
    BY <1>4 DEF CompactTake
  <2> QED
    BY <2>1, <1>1, <1>2 DEF PackedOK
<1> QED
  BY <1>3, <1>4

\* Outside of a compaction, and when nothing happens at all.
LEMMA CompactionSteps ==
  ASSUME [Next]_vars
  PROVE  \/ Compact \/ CompactSkip \/ CompactTake \/ CompactCopy \/ CompactEntry \/ CompactStub
         \/ pc' \notin CompactPCs
         \/ UNCHANGED vars
<1>1. Call => Compact \/ pc' \notin CompactPCs
  BY DEF Call, Format, Find, Write, Delete, Update, CompactPCs
<1>2. Step => \/ CompactSkip \/ CompactTake \/ CompactCopy \/ CompactEntry \/ CompactStub
              \/ pc' \notin CompactPCs
  BY DEF Step, FormatSb, FormatStub, FormatVol, WriteData, WriteIndex, WriteSb, DeleteEntry,
     UpdateDelete, CompactSb, Return, CompactPCs
<1>3. PowerLoss => pc' \notin CompactPCs
  BY DEF PowerLoss, Return, CompactPCs
<1> QED
  BY <1>1, <1>2, <1>3 DEF Next

LEMMA PackedInv == ASSUME Whole, PackedOK, [Next]_vars PROVE PackedOK'
<1>1. CASE pc' \notin CompactPCs
  BY <1>1 DEF PackedOK, CompactPCs
<1>2. CASE UNCHANGED vars
  BY <1>2 DEF PackedOK, vars, ramVars
<1> QED
  BY <1>1, <1>2, CompactionSteps, PackedStarts, PackedQuiet, PackedCopies, PackedFiles, PackedMarks

\* The volume that the last transaction of a compaction commits.
CommitsPacked ==
  pc = "compact_sb" /\ pc' = "idle" =>
    LET first == mem'[1].to + 1 IN
    /\ \A a \in first .. FirstSlot : IsFile(mem'[a])
    /\ \A a \in first .. FirstSlot :
         mem'[a].start = IF a = FirstSlot THEN SbSize ELSE End(mem'[a + 1])
    /\ mem'[0].to = IF first > FirstSlot THEN SbSize ELSE End(mem'[first])

LEMMA PackedCommit ==
  ASSUME Careful, Whole, PackingOK, PackedOK, [Next]_vars
  PROVE  CommitsPacked
<1> SUFFICES ASSUME pc = "compact_sb", pc' = "idle"
             PROVE  LET first == mem'[1].to + 1 IN
                    /\ \A a \in first .. FirstSlot : IsFile(mem'[a])
                    /\ \A a \in first .. FirstSlot :
                         mem'[a].start = IF a = FirstSlot THEN SbSize ELSE End(mem'[a + 1])
                    /\ mem'[0].to = IF first > FirstSlot THEN SbSize ELSE End(mem'[first])
  BY DEF CommitsPacked
<1>1. CompactSb
  <2>1. pc \notin Survivable
    BY DEF Survivable, WritePCs, DeletePCs
  <2>2. ~PowerLoss
    BY <2>1 DEF PowerLoss, Careful
  <2>3. ~Call /\ ~UNCHANGED vars
    BY DEF Call, Format, Find, Write, Delete, Update, Compact, vars
  <2>4. Step => CompactSb
    BY DEF Step, FormatSb, FormatStub, FormatVol, WriteData, WriteIndex, WriteSb, DeleteEntry,
       UpdateDelete, CompactSkip, CompactTake, CompactCopy, CompactEntry, CompactStub
  <2> QED
    BY <2>2, <2>3, <2>4 DEF Next
<1>2. /\ wi \in Int /\ wi <= FirstSlot /\ FirstSlot \in Int /\ 2 <= wi
      /\ mem'[1].to = wi /\ \A a \in 2 .. FirstSlot : mem'[a] = mem[a]
  BY <1>1, PackedVolume
<1>3. mem'[0].to = ws
  <2>1. mem' = Put(mem, ChunkAt, ChunkCells) /\ ChunkAt = 0 /\ ChunkCells = <<Ptr(ws), Ptr(wi)>>
    BY <1>1 DEF CompactSb, Transmit, ChunkAt, ChunkCells, PackedSb, DeletePCs
  <2>2. /\ ChunkCells \in Seq(Cell) /\ Len(ChunkCells) = 2 /\ ChunkCells[1] = Ptr(ws)
    BY <2>1, KernelCells, TwoCells DEF Whole, TypeOK
  <2>3. 0 \in Nat /\ 0 + Len(ChunkCells) <= MemSize /\ 1 \in 1 .. Len(ChunkCells) /\ 0 + 1 - 1 = 0
    BY <2>2, ConstantsAssumption
  <2>4. mem'[0] = ChunkCells[1]
    <3>1. TypeOK /\ mem' = Put(mem, 0, ChunkCells)
      BY <2>1 DEF Whole
    <3>2. \A i \in 1 .. Len(ChunkCells) : 0 + i - 1 \in Addr /\ mem'[0 + i - 1] = ChunkCells[i]
      BY <2>2, <2>3, <3>1, Transmitted
    <3> QED
      BY <2>3, <3>2
  <2> QED
    BY <2>2, <2>4 DEF Ptr
<1>4. Packed(mem', wi) /\ ws = NextStart(mem', wi)
  <2>1. Packed(mem, wi) /\ ws = NextStart(mem, wi)
    BY DEF PackedOK, CompactPCs
  <2>2. \A a \in wi + 1 .. FirstSlot : mem'[a] = mem[a]
    BY <1>2
  <2> QED
    BY <1>2, <2>1, <2>2, PackedFrame
<1>5. ASSUME NEW a \in wi + 1 .. FirstSlot
      PROVE  IsFile(mem'[a]) /\ mem'[a].start = IF a = FirstSlot THEN SbSize ELSE End(mem'[a + 1])
  <2>1. a >= FirstSlot <=> a = FirstSlot
    BY <1>2
  <2> QED
    BY <2>1, <1>4 DEF Packed, NextStart
<1>6. ws = IF wi + 1 > FirstSlot THEN SbSize ELSE End(mem'[wi + 1])
  BY <1>2, <1>4 DEF NextStart
<1> QED
  BY <1>2, <1>3, <1>5, <1>6

\* A compaction that runs to its end leaves live files only, without a gap.
THEOREM CompactionPacks == Careful => (Spec => CompactPacks)
<1> SUFFICES ASSUME Careful
             PROVE  Spec => CompactPacks
  OBVIOUS
<1>1. Init => PackingOK /\ PackedOK
  BY RefinementInit DEF Init, PackedOK, CompactPCs
<1>2. IInv /\ PackingOK /\ PackedOK /\ [Next]_vars => PackingOK' /\ PackedOK' /\ CommitsPacked
  <2>1. Astrayed /\ [Next]_vars => PackingOK' /\ PackedOK' /\ CommitsPacked
    BY TornNeverCompacts DEF PackingOK, PackedOK, CommitsPacked, CompactPCs, Careful
  <2> QED
    BY <2>1, PackingInv, PackedInv, PackedCommit DEF IInv
<1> QED
  BY <1>1, <1>2, Invariance, PTL DEF Spec, CompactPacks, CommitsPacked

-----------------------------------------------------------------------------
(* No change. *)

\* On a volume without deletions the write cursors follow the read cursors.
PristineOK ==
  pc \in CompactPCs /\ Pristine(snap) =>
    /\ mem = snap
    /\ pc \in {"compact_next", "compact_copy", "compact_entry"} => wi = cur
    /\ pc \in {"compact_copy", "compact_entry"} => ent = mem[cur] /\ to = ent.start /\ Idx < cur
    /\ pc \in {"compact_stub", "compact_sb"} => wi = Idx

\* What a volume without deletions holds.
LEMMA PristineSlots ==
  ASSUME Whole, pc \in CompactPCs, Pristine(mem)
  PROVE  /\ mem[Idx] = Stub /\ ~IsFile(mem[Idx])
         /\ \A a \in Idx + 1 .. FirstSlot : IsFile(mem[a]) /\ mem[a].start = NextStart(mem, a)
<1>1. mem[Idx] = Stub /\ ~IsFile(mem[Idx])
  BY DEF Pristine, Idx, Stub, IsFile
<1>2. ASSUME NEW a \in Idx + 1 .. FirstSlot
      PROVE  IsFile(mem[a]) /\ mem[a].start = NextStart(mem, a)
  <2>1. a >= FirstSlot <=> a = FirstSlot
    BY Cursors
  <2> QED
    BY <2>1 DEF Pristine, Idx, NextStart
<1> QED
  BY <1>1, <1>2

LEMMA PristineStarts == ASSUME Whole, Compact PROVE PristineOK'
<1>1. pc' = "compact_next" /\ mem' = mem /\ snap' = mem /\ wi' = FirstSlot /\ cur' = FirstSlot
  BY DEF Compact
<1> QED
  BY <1>1 DEF PristineOK

\* Only the boundary slot of an empty volume is skipped.
LEMMA PristineSkips == ASSUME Whole, PristineOK, CompactSkip PROVE PristineOK'
<1> SUFFICES ASSUME Pristine(snap')
             PROVE  PristineOK'
  BY DEF PristineOK
<1>1. /\ pc = "compact_next" /\ pc \in CompactPCs /\ mem' = mem /\ snap' = snap /\ wi' = wi
      /\ ~IsFile(mem[cur]) /\ AdvanceFrom(cur)
  BY DEF CompactSkip, CompactPCs
<1>2. mem = snap /\ wi = cur /\ Pristine(mem)
  BY <1>1 DEF PristineOK
<1>3. /\ cur \in Int /\ Idx \in Int /\ FirstSlot \in Int /\ sb.idx = Idx
      /\ Idx <= cur /\ (Idx < cur \/ cur = FirstSlot) /\ cur <= FirstSlot
  BY <1>1, <1>2, Cursors DEF Whole, CompactOK
<1>4. cur = Idx
  <2>1. cur \notin Idx + 1 .. FirstSlot
    BY <1>1, <1>2, PristineSlots
  <2> QED
    BY <2>1, <1>3
<1>5. pc' = "compact_stub"
  BY <1>1, <1>3, <1>4 DEF AdvanceFrom
<1>6. Idx' = Idx
  BY <1>1 DEF Idx
<1> QED
  BY <1>1, <1>2, <1>4, <1>5, <1>6 DEF PristineOK

\* A live entry is where the data before it end.
LEMMA PristineTakes == ASSUME Whole, PackedOK, PristineOK, CompactTake PROVE PristineOK'
<1> SUFFICES ASSUME Pristine(snap')
             PROVE  PristineOK'
  BY DEF PristineOK
<1>1. /\ pc = "compact_next" /\ pc \in CompactPCs /\ mem' = mem /\ snap' = snap
      /\ wi' = wi /\ cur' = cur /\ IsFile(mem[cur]) /\ to' = ws
      /\ ent' = [mem[cur] EXCEPT !.sound = @ /\ cur # sb.idx]
      /\ pc' \in {"compact_copy", "compact_entry"}
  BY DEF CompactTake, CompactPCs
<1>2. mem = snap /\ wi = cur /\ Pristine(mem)
  BY <1>1 DEF PristineOK
<1>3. /\ cur \in Int /\ Idx \in Int /\ FirstSlot \in Int /\ sb.idx = Idx
      /\ Idx <= cur /\ cur <= FirstSlot /\ mem \in [Addr -> Cell] /\ cur \in Addr
  BY <1>1, <1>2, Cursors DEF Whole, CompactOK, TypeOK
<1>4. Idx < cur
  <2>1. cur # Idx
    BY <1>1, <1>2, PristineSlots
  <2> QED
    BY <2>1, <1>3
<1>5. ent' = mem[cur]
  <2>1. mem[cur] \in Cell /\ IsRecord(mem[cur])
    BY <1>1, <1>3 DEF IsFile, IsRecord
  <2>2. mem[cur] \in Entry
    BY <2>1, RecordIsEntry
  <2>3. mem[cur].sound \in BOOLEAN /\ (cur # sb.idx) = TRUE
    BY <2>2, <1>3, <1>4 DEF Entry
  <2>4. (mem[cur].sound /\ cur # sb.idx) = mem[cur].sound
    BY <2>3
  <2>5. ent' = [mem[cur] EXCEPT !.sound = mem[cur].sound]
    BY <2>4, <1>1
  <2> QED
    BY <2>2, <2>5 DEF Entry
<1>6. to' = mem[cur].start
  <2>1. cur \in Idx + 1 .. FirstSlot
    BY <1>3, <1>4
  <2>2. mem[cur].start = NextStart(mem, cur)
    BY <2>1, <1>1, <1>2, PristineSlots
  <2> QED
    BY <2>2, <1>1, <1>2 DEF PackedOK
<1>7. Idx' = Idx
  BY <1>1 DEF Idx
<1> QED
  BY <1>1, <1>2, <1>4, <1>5, <1>6, <1>7 DEF PristineOK

\* A chunk is copied onto itself.
LEMMA PristineCopies == ASSUME Whole, PristineOK, CompactCopy PROVE PristineOK'
<1> SUFFICES ASSUME Pristine(snap')
             PROVE  PristineOK'
  BY DEF PristineOK
<1>1. /\ pc = "compact_copy" /\ pc \in CompactPCs /\ snap' = snap
      /\ wi' = wi /\ cur' = cur /\ ent' = ent /\ to' = to
      /\ pc' \in {"compact_copy", "compact_entry"}
  BY DEF CompactCopy, CompactPCs
<1>2. mem = snap /\ wi = cur /\ ent = mem[cur] /\ to = ent.start /\ Idx < cur
  BY <1>1 DEF PristineOK
<1>3. ws \in Int /\ to \in Int /\ off \in Int /\ ws = to + off /\ mem \in [Addr -> Cell]
  BY <1>1, MovingNumbers DEF Whole, TypeOK
<1>4. mem' = mem
  <2>1. ASSUME NEW a \in Addr
        PROVE  mem'[a] = mem[a]
    <3>1. a \in Int /\ CopyLen \in Nat
      BY ChunkCopied, ConstantsAssumption DEF Addr
    <3>2. CASE a < ws \/ ws + CopyLen <= a
      BY <3>2, ChunkCopied
    <3>3. CASE ws <= a /\ a < ws + CopyLen
      <4> DEFINE i == a - ws + 1
      <4>1. i \in 1 .. CopyLen /\ ws + i - 1 = a /\ ent.start + off + i - 1 = a
        BY <3>1, <3>3, <1>2, <1>3
      <4> QED
        BY <4>1, <1>2, ChunkCopied
    <3> QED
      BY <3>1, <3>2, <3>3, <1>3
  <2>2. mem' \in [Addr -> Cell]
    BY ChunkCopied
  <2> QED
    BY <2>1, <2>2, <1>3
<1>5. Idx' = Idx
  BY <1>4 DEF Idx
<1> QED
  BY <1>1, <1>2, <1>4, <1>5 DEF PristineOK

\* A memory in which a cell is written with what it held.
LEMMA SameCell ==
  ASSUME TypeOK, NEW at \in Addr, NEW x \in Cell, mem' = Put(mem, at, <<x>>), mem[at] = x
  PROVE  mem' = mem
<1>1. mem \in [Addr -> Cell] /\ mem' \in [Addr -> Cell]
  BY CellWritten DEF TypeOK
<1>2. \A a \in Addr : mem'[a] = mem[a]
  BY CellWritten
<1> QED
  BY <1>1, <1>2

\* An entry is written back as it was.
LEMMA PristineFiles == ASSUME Whole, PristineOK, CompactEntry PROVE PristineOK'
<1> SUFFICES ASSUME Pristine(snap')
             PROVE  PristineOK'
  BY DEF PristineOK
<1>1. /\ pc = "compact_entry" /\ pc \in CompactPCs /\ mem' = Put(mem, ChunkAt, ChunkCells)
      /\ snap' = snap /\ wi' = wi - 1 /\ AdvanceFrom(cur)
  BY DEF CompactEntry, Transmit, CompactPCs
<1>2. mem = snap /\ wi = cur /\ ent = mem[cur] /\ to = ent.start /\ Idx < cur
  BY <1>1 DEF PristineOK
<1>3. /\ ent \in Entry /\ TypeOK /\ cur \in Int /\ Idx \in Int /\ wi \in Addr /\ sb.idx = Idx
  BY <1>1, Moving, Cursors DEF Whole, TypeOK
<1>4. ChunkAt = wi /\ ChunkCells = <<ent>>
  <2>1. [ent EXCEPT !.start = to] = ent
    BY <1>2, <1>3 DEF Entry
  <2> QED
    BY <2>1, <1>1 DEF ChunkAt, ChunkCells, MovedEntry, DeletePCs
<1>5. mem' = mem
  BY <1>1, <1>2, <1>3, <1>4, SameCell DEF Cell
<1>6. Idx' = Idx
  BY <1>5 DEF Idx
<1>7. CASE cur - 1 <= Idx
  <2>1. pc' = "compact_stub" /\ wi' = Idx
    BY <1>1, <1>2, <1>3, <1>7 DEF AdvanceFrom
  <2> QED
    BY <2>1, <1>1, <1>2, <1>5, <1>6 DEF PristineOK
<1>8. CASE ~(cur - 1 <= Idx)
  <2>1. pc' = "compact_next" /\ cur' = wi'
    BY <1>1, <1>2, <1>3, <1>8 DEF AdvanceFrom
  <2> QED
    BY <2>1, <1>1, <1>2, <1>5 DEF PristineOK
<1> QED
  BY <1>7, <1>8

\* And so is the start marker.
LEMMA PristineMarks == ASSUME Whole, PristineOK, CompactStub PROVE PristineOK'
<1> SUFFICES ASSUME Pristine(snap')
             PROVE  PristineOK'
  BY DEF PristineOK
<1>1. /\ pc = "compact_stub" /\ pc \in CompactPCs /\ pc' = "compact_sb"
      /\ mem' = Put(mem, ChunkAt, ChunkCells) /\ wi' = wi /\ snap' = snap
  BY DEF CompactStub, Transmit, ramVars, CompactPCs
<1>2. ChunkAt = wi /\ ChunkCells = <<Stub>>
  BY <1>1 DEF ChunkAt, ChunkCells, DeletePCs
<1>3. mem = snap /\ wi = Idx /\ Pristine(mem)
  BY <1>1 DEF PristineOK
<1>4. mem[wi] = Stub
  BY <1>1, <1>3, PristineSlots
<1>5. mem' = mem
  BY <1>1, <1>2, <1>4, KernelCells, SameCell DEF Whole, TypeOK
<1>6. Idx' = Idx
  BY <1>5 DEF Idx
<1> QED
  BY <1>1, <1>3, <1>5, <1>6 DEF PristineOK

LEMMA PristineInv == ASSUME Whole, PackedOK, PristineOK, [Next]_vars PROVE PristineOK'
<1>1. CASE pc' \notin CompactPCs
  BY <1>1 DEF PristineOK
<1>2. CASE UNCHANGED vars
  <2>1. mem' = mem /\ snap' = snap /\ pc' = pc /\ wi' = wi /\ cur' = cur /\ ent' = ent /\ to' = to
    BY <1>2 DEF vars, ramVars
  <2>2. Idx' = Idx
    BY <2>1 DEF Idx
  <2> QED
    BY <2>1, <2>2 DEF PristineOK
<1> QED
  BY <1>1, <1>2, CompactionSteps, PristineStarts, PristineSkips, PristineTakes, PristineCopies,
     PristineFiles, PristineMarks

\* Compacting a volume without deletions leaves every cell of the FRAM as it
\* is, between any two of its transactions.
THEOREM PristineIsUntouched == Careful => (Spec => []CompactNoOp)
<1> SUFFICES ASSUME Careful
             PROVE  Spec => []CompactNoOp
  OBVIOUS
<1>1. Init => PackedOK /\ PristineOK
  BY DEF Init, PackedOK, PristineOK, CompactPCs
<1>2. IInv /\ PackedOK /\ PristineOK /\ [Next]_vars => PackedOK' /\ PristineOK'
  <2>1. Astrayed /\ [Next]_vars => PackedOK' /\ PristineOK'
    BY TornNeverCompacts DEF PackedOK, PristineOK, CompactPCs, Careful
  <2> QED
    BY <2>1, PackedInv, PristineInv DEF IInv
<1>3. PristineOK => CompactNoOp
  BY DEF PristineOK, CompactNoOp
<1> QED
  BY <1>1, <1>2, <1>3, Invariance, PTL DEF Spec
==============================================================================

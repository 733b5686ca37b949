# compy6502: TLA+ models, checks and proofs

compy6502 is a home-built 65C02 computer: a kernel in EEPROM, an FPGA that is its
SPI controller, a FRAM chip on that bus, and a console board (an RP2040 running
Rust tasks on two cores) that takes characters and commands over SPI and draws them.
This directory models parts of that code in TLA+, checks the models with TLC on
small instances and proves theorems about them with TLAPS.

## Inventory

| part (source) | state it keeps | operations | what is hard about it | what makes it correct |
|---|---|---|---|---|
| FRAM filesystem (`kernel/fs.s`, `fram.s`, `iter.s`, `mem.s`) | super block, index and data slab on the FRAM; cursors and buffers in RAM | format, find, read, write, delete, update, compact, dump | power failure between any two bytes; data moved in place; file IDs that are addresses | slab and index never meet, extents disjoint and ordered, committed files keep their bytes, the volume behaves as a log of files |
| kernel SPI driver (`kernel/spi.s`) | none (controller registers) | configure, select, deselect, transfer, write | the busy bit is polled right after the data write | the byte read is the byte exchanged |
| FPGA SPI controller (`fpga/spi`) | configuration, data registers, engine state | register reads and writes, one byte exchange | two clock domains, busy window, writes while busy | every accepted write becomes one exchange of that byte |
| console host link (`host.rs`) | two PIO programs, transaction buffer, queue of 64 | receive byte, answer, enqueue | edges and bytes arrive through separate FIFOs; two cores | transactions arrive whole and in order, or not at all only when the queue is full |
| console keyboard (`keyboard.rs`, `keymap.rs`, `max3421e.rs`) | key queue, counter, USB state | enumerate, poll, enqueue, get | queue and counter are updated separately on two cores; retries, failed requests, disconnects | only a ready keyboard is polled; a press is typed once; keys arrive once and in order; the counter settles on the length |
| mode manager (`modes/manager.rs`) | active mode, transaction state | dispatch, switch, tick, render | renders only when no transaction waits | a switch resets the mode; no redraw is lost; the panel follows |
| text mode (`modes/text.rs`) | grid, cursor, attribute, escape parser | put char, escape commands, blink, render | u8 arithmetic, framing across transactions, redraw flags | the cursor stays on the grid, which behaves as one long line; every change is drawn |
| TUI mode (`modes/tui*.rs`) | command parser, staged and committed tree | create, remove, properties, text, abort, commit | commands cut off by the 32-byte transaction; tree surgery | the tree is a tree; commit and abort are exact |
| serial loader, upload tool (`loader.s`, `tools/*.py`) | line buffer, checksum | load records, answer `.` or `!` | bytes stored before the checksum is known | an accepted upload is in memory |
| Forth (`asm/forth`) | token table, stacks, program memory | compile, execute | token space, 8-bit offsets, errors inside a definition | control structures nest, stacks stay in place |
| strings, line editor, monitor, ACIA, IRQ, boot | small buffers | sequential | limits of 255 bytes | lengths |
| display driver (`display.rs`, `eve.rs`) | command channel, bulk buffer | commands, bulk transfers, register writes | a frame is thousands of commands of two tasks, written into memory that is being shown | frames reach the chip whole and in order, and the panel ends up with the last one |

The parts meet in three places: a kernel call runs to its end on the 6502 and talks to
the FRAM through the SPI controller; programs talk to the console board through the
same controller with transactions framed by chip select; on the board, one core serves
the bus and the other runs keyboard, modes and display, joined by two queues.

## What is here

| component | modules | abstract specification | proofs |
|---|---|---|---|
| filesystem | `FramFs`, `MCFramFs` | `FileLog` | `FramFs_proofs`, `FramFsRefinement_proofs` |
| host link | `HostLink`, `MCHostLink` | `Pipe`, for keys and for transactions | `HostLink_proofs` |
| SPI driver and controller | `SpiController`, `MCSpiController` | `ByteExchange` | `SpiController_proofs` |
| TUI mode | `TuiTree`, `Tui`, `MCTui` | `Forest` | `Tui_proofs` |
| text mode | `AnsiParser`, `TextScreen`, `TextMode` | `Terminal` | `TextMode_proofs` |
| mode manager, display | `Modes`, `MCModes` | `Pipe`, for frames | `Modes_proofs` |
| USB keyboard | `Keymap`, `UsbKeyboard`, `MCUsbKeyboard` | | `UsbKeyboard_proofs` |

How they fit together: `SpiController` shows that a transfer of the kernel exchanges one
byte, which `HostLink` and `FramFs` then take as a step. `HostLink` shows that transactions
come out of the queue whole, in order, cut at the buffer, or dropped; `Tui` takes whole
transactions with the cut, `TextMode` takes single bytes, which is any cut at all, and
`Modes` takes the same queue at its other end. `Modes` needs of a mode only its picture and
its `dirty` flag; that each change of picture sets the flag is `ChangesDrawn` of `TextMode`, which is proved. `UsbKeyboard`
fills the key queue that `HostLink` empties; there the queue and its counter are two steps on two
cores, here they are one.

## The filesystem

### Modules

* `FileLog`: what the filesystem promises, without a FRAM: a sequence of records that is
  appended to, whose records die one at a time, and that a compaction filters. It ends
  (`Break`) when the power fails while the high byte of a number changes, until a format.
* `FramFs`: the code. `mem` is the FRAM. `pc` is the next FRAM transaction of the kernel
  call that runs; `sb`, `name`, `what`, `target`, `ent`, `to`, `off`, `cur`, `wi`, `ws` are
  the zero page and buffer bytes that call depends on (`K_BUF`, `K_PTR`, `K_LEN`, the
  iterators). A kernel call starts with an action of its name (`Format`, `Find`, `Write`,
  `Delete`, `Update`, `Compact`), which does what the CPU does before its first
  FRAM write, and goes on with one action for each `FRAM_WRITE_CHUNK` transaction
  (`WriteData`, `WriteIndex`, `WriteSb`, ...). `Transmit` writes `ChunkCells` at `ChunkAt`.
  `held` is the file ID the caller keeps from `FS_FIND`.
* `PowerLoss` cuts a transaction between any two bytes: what was sent is on the FRAM, all
  RAM is lost, and the machine starts again with what the FRAM holds. `CutBetween` cuts
  between two cells. `CutInside` cuts inside one, and `Torn` says what is left there: of a
  pointer the new low byte under the old high byte (`Half`; `fram.s:56-67` sends the low byte
  first), of an entry (`TornEntries`) the new type, and then the start, the length and the name, in the order
  they are sent, each of them old, half or new, and of a half-sent name any name at all.
* `MCFramFs`: the sets of transactions inside which the runs let the power fail.
* `FramFs_proofs`: the inductive invariant and what follows from it.
* `FramFsRefinement_proofs`: that the kernel's calls implement `FileLog`, and what a
  compaction does to the FRAM.

Scale: one cell is one index entry (24 bytes in the code), one super block pointer (2
bytes) or one unit of file data. The cells are a scale and not what a power failure can tell apart.
`PageSize` is how many values the low byte of a number has. Pointer arithmetic wraps at the end of the memory as it
does at 2^16. Contents are tagged with the number of the write they belong to, so that
no two files hold the same data. `what` and `sound` in an entry, `writes`, `snap` and `torn` are
history: nothing in the code depends on them. The bound on writes is a guard on `writes`, and `torn` one
on calls (next section).

### Torn numbers

A number that a power failure cut in two is the old one, or lies between the old and the
new, or lies outside of both (`Astray`). FREE going from $00F0 to $0110 passes through $0010, INDEX_PTR
going from $FF10 to $FEF8 through $FFF8. The first two kinds are harmless, and the invariants say so. A number
that went astray loses the volume: FREE then lies below committed files, INDEX_PTR above their entries. The kernel does
nothing against it, so nothing more can hold; `torn` says that it happened, the properties
are about volumes where it did not, and `FileLog` allows it only where the high byte of a number changes
(`Crossing`), which is the one place it can come from. `fram_torn` shows what it does.

What a call does on such a volume depends on what bytes happen to be where the stray number
points. It is not modelled: after a failure of this kind the caller can only format, and once `FS_FORMAT` is
through (`FormatVol`) all properties hold again. If the power fails on the way there, it formats again.

### Left out, and why it is safe to

* CRC bytes: `fs_write` computes and stores them and no routine compares one.
* Error returns of the FRAM and SPI routines: they always clear carry.
* A cut inside a byte: the FRAM takes a byte when its eighth bit is there.
* A cut inside a cell that held neither an entry nor a pointer: it is not read before it is written again.
* The load address and the CRC of an entry: a cut between them and the next field leaves nothing new.
* `FS_DUMP` and the printing routines: they read only.
* Names are not empty and shorter than the field, as callers give them. The volume
  record at the top of the index then never matches a name.
* A caller drops its file ID when it calls update, compact or format: `fs_test.s:92` looks a
  file up again after them.

### Runs

| run | what it asks | bounds |
|---|---|---|
| `fram_volume` | `TypeOK`, `SlabBelowIndex`, `ExtentsOrdered`, `FilesIntact`, `WriteIsFound`, `FileIdStable`, `CompactNoOp`, `CompactPacks`, that each call returns (`CallsReturn`), and that the volume implements `FileLog` (`ImplementsLog`), under every order of calls with power failures | 12 cells, pages of 2, 1 name, 3 writes of 0, 2 or 3 cells, chunks of 2 |
| `fram_full` | that `SlabBelowIndex` fails when the caller does not keep count of the room left | 9 cells, 3 writes |
| `fram_torn` | that `SlabAppendOnly` fails when the power fails between the two bytes of FREE | 10 cells, pages of 2, 3 writes; power failures in the super block write of `FS_WRITE` only |

Three writes are enough for a dead file between two live ones, an old version under a
new one, a half-written entry with files above and below it, and a second compaction.
One name is the hard case for `FS_FIND`, as every file is an older version of the next. Lengths 0, 2 and 3 with
chunks of 2 give the empty file, an exact chunk, and a chunk and a rest; a last chunk of one cell is the rest
of 3. With pages of 2 cells nearly every pointer changes its page at every write, and its half-written value
is at times the old one, between the two, or outside. The memory is as large as two largest files, a smaller one and
their entries need, so that the volume also gets full. `MaxWrites` bounds the history counter; formats, finds,
deletes, compactions and power failures are not bounded. All runs check for deadlock:
a caller can always format. What the run leaves out in size the proofs give back: they hold for any number of
names, files and cells.

`SpaceChecked` says whether callers make sure a file fits. The kernel does not: it
compares no length with the room between `FREE` and `INDEX_PTR`. With it `FALSE`,
`fram_full` shows the data slab run over the index while `FS_WRITE` reports success,
against the layout of `fs.s:6-8` and the error return of `fs.s:300-301`. The other runs and
the proofs take a caller that checks.

`fram_torn` is about `fs.s:7`, "data slab (append-only, grows up)". The power fails after the low byte of
FREE, in a write that takes it over a page, and FREE falls back below files that are committed.

`CrashPoints` says inside which transactions the power may fail. The passing run and the
proofs leave out two places where the code keeps nothing to recover from: a compaction
(data and entries are moved in place under a super block that still reaches the old
entries) and the super block write of a format. Writes, deletes, updates and the rest of a
format are covered, at every byte.

Two things the model shows that a reader of the code may not expect, both allowed by
`FileLog`: an entry that a power failure left below `INDEX_PTR` is found by `FS_FIND` until the
next write takes its slot, and a compaction of an empty volume adopts it as a file (`Adopt`),
because `ITER_NEXT_DOWN` always visits its first element. And `FS_FIND` returns tombstones, so deleting the
newest version of a name hides the older ones until a compaction brings them back.

Fairness: `FairSpec` asks only that a call which has begun takes its next step
(`WF_vars(Step)`): the 6502 runs one call at a time and nothing else. Nothing is assumed of
callers. It is used for `CallsReturn` alone.

### Proofs

`FramFs_proofs` proves, for every memory size, set of names, number of writes, file length and chunk
size allowed by `ConstantsAssumption`, under `Careful` (callers check for room, the power
does not fail inside a compaction or a format's super block write, there is a name), with the power
failing at any other byte:

* `Invariance`: `Spec => []IInv`.
* `TypeCorrect`, `SlabStaysBelowIndex`, `ExtentsStayOrdered`, `FilesStayIntact`: the
  invariants of `fram_volume`.
* `FileIdsAreStable`, `WritesAreFound`: its action properties.

None of the invariants is inductive alone. That a compaction keeps files intact needs to
know, in the middle of moving a file, which of its bytes are at the new place and which
still at the old (`MovingOK`), that everything not yet read lies above and everything
already packed below (`CompactOK`), and that a write cursor in the index never passes the
read cursor. That a write commits a sound file needs the data and the index records to be
on the FRAM before the super block is (`WriteOK`), and that whatever lies in the slot under
the index is a marker or an entry of the shape compaction can read (`BoundaryOK`).
`Whole` is the conjunction of these parts, and `IInv` says that the volume is whole or was torn (`Astrayed`). So
a power failure has to leave it whole or set `torn`. It does because half a number that is not astray is as good
as one of the two; because an entry half written lies under the index, where it may have
any name and start, but no length that is longer than the free area (`BoundaryOK`); and because the only
entry above INDEX_PTR that is ever written outside a compaction, a tombstone, changes by one byte. The proof has one lemma per action, under it one
step per part the action can disturb, and rests on lemmas about `Put` (what a transaction
changes and leaves alone) and `Filed` (a stretch of the index and the data it owns).

`FramFsRefinement_proofs` proves `FilesystemIsALog`: `Spec => ImplementsLog`, under `Careful`. The
volume a caller sees (`Volume`) changes in one transaction of each call: the super block of
a write appends a record, the tombstone of a delete kills one, the super block of a format or of a
compaction replaces the log; every other transaction, whole or cut short at any byte, leaves what the
super block reaches as it was, and a cut that puts a number astray is a `Break`, which has to come with `Crossing`: a
number whose high byte stays is never astray. The hard case is the compaction, whose result is a
sequence of files that were moved one by one while `Volume` still stands for the old FRAM.
`PackingOK` says, between any two of its transactions, which entry of the old index each
entry of the new index is (`Kept`: an order-preserving choice of the live ones read so far,
with the same name and the same bytes), that what the cursors have not reached is
unchanged (`UnderwayOK`), and that the entry in RAM is the old one with `off` bytes moved
(`EntOK`).

It also proves, under `Careful` as well:

* `CompactionPacks`: `CompactPacks`. `PackedOK` says that each entry of the new index starts
  where the one before it ends, and that the slab cursor is where the last one ends.
* `PristineIsUntouched`: `CompactNoOp`. On a volume without deletions the write cursors
  follow the read cursors (`PristineOK`), so each chunk and each entry is written over itself.

Only model-checked: `CallsReturn`, which is a liveness property.

## The host link

### Modules

* `Pipe`: items are offered, accepted, and handed over once, in order, unchanged. A lossy
  one may drop the item it accepted last, but only if it holds as many others as it has `Room` for;
  for transactions that is `QueueDepth`. One that `spoils` may hand over nothing for an item.
* `HostLink`: five parts that run at once, each with its own variables.
  * The 6502 program, `program`: `step` is the transaction it is about to do or doing, `ch`
    its character. `Select`, `Exchange` and `Deselect` are `SPI_SELECT`, `SPI_TRANSFER` or
    `SPI_WRITE`, and `SPI_DESELECT`; `After` is what it decides after a transaction. "echo" is
    `console.s`, "stress" is `console_stress.s`, and "sizes" sends transactions of any length
    without asking for readiness, as `spi_txn_sizes.s` and `tui.s` do.
  * `sm0` (`spi_prg`): it shifts `osr` out while it shifts a byte in, pushes the byte and waits
    for the answer, which goes out with the *next* byte (`answered`, `SmPull`).
  * `sm1` (`cs_prg`): one marker for each edge, lost when its FIFO of four is full (`Marked`).
  * `pio_task`: `fpc` is its place in the loop. The timeout and the poll after it are two
    steps, so are a byte and the poll after it, the receive and the count of `get_char`, and the
    push of a byte and its answer: whatever another core or the wire can do in between is a
    behaviour of the model. `poll_cs_edges` is one step, as it reads until the FIFO is empty.
  * core 0: `KeyPress`, `KeySend`, `KeyCount` (`process_report`, `enqueue_key`) and `ModesTake`.
* `MCHostLink`: keys, among them the space, whose code is `GET_CHAR`, and transactions of one
  byte, of a full buffer and of one byte more.
* `HostLink_proofs`: the theorems.

`ended` is history: transactions that the program ended and `enqueue_txn` has not seen.

### Timing assumed

`sm0` has no flow control: bits clocked while it waits for an answer are lost. The model
takes a 6502 that is slower than the board, in three places, each a guard:

* `Exchange` needs `answered`: the next byte comes later than the answer to the last one.
* `Deselect` does not come between `pio_task`'s timeout and the poll that follows it at once when
  a byte came there too. Otherwise `drain_spi_rx` would take that byte without answering
  it, and `sm0` would wait for ever; with the guard removed `AnswerComes` fails.
* `GapLeft`, when `SelectGap` holds: the program selects again after the board has polled
  the end of the last transaction, 10 microseconds or so later. `console.s` waits in `console_delay`;
  `console_stress.s` has only its own instructions in between. With `SelectGap` `FALSE`,
  transactions merge, and `TxnsIntact` and `KeysDelivered` fail.

### Runs

| run | what it asks | bounds |
|---|---|---|
| `host_programs` | `TypeOK`; `QueuedSettles`; every key reaches `console.s` once and in order (`KeysDelivered`); transactions arrive whole up to the capacity, in order, dropped only as the newest at a full queue, and never one of `console_stress.s`, which asks for `HOST_READY` (`TxnsIntact`); `KeysMove`, `AnswerComes`, `ReadyComes` | each of the three programs; queues of 2, buffer of 2 bytes, 2 keys, transactions of 1 and 3 bytes |

Queues hold two entries and readiness means one free slot, the tightest case: a status
that is stale by one transaction would lose one. The program, the keyboard and the mode
task never stop, so no history is bounded. Keyboard and mode task may be as fast or as
slow as they like. `CounterMod` 8 stands for 2^32: the counter does wrap below zero, when
`get_char` subtracts between `send` and `fetch_add`; `has_data` then reports a key that is
not there, until `fetch_add` brings the counter back to zero.

Fairness: weak fairness for each part, as each is a processor, a state machine or an
executor task of its own: the 6502, `sm0`, `pio_task` (alone on core 1), the mode task, the
two halves of `enqueue_key`. No fairness for `KeyPress`: nobody has to type.

### Proofs

`CounterSettles` proves `QueuedSettles` for every queue capacity and every counter width
larger by two. The inductive invariant `CounterInv` says what the counter is while the
cores owe it something: the length of the queue, plus a character received and not yet
subtracted, minus one sent and not yet added, modulo the width.

`TypeCorrect` proves `TypeOK` for every capacity, width, alphabet and program: no
buffer or queue passes its capacity, and never is there more than one byte in the two FIFOs. What makes it
inductive is `TokenOK`: a byte that the program clocked is in the receiving FIFO, in `pio_task`
or in the sending FIFO, in one of them only, until `sm0` has its answer. It stands on `CounterInv`, which keeps the
counter in its range.

`KeysArrive` proves `KeysDelivered`, and `TransactionsArrive` proves `TxnsIntact`: the link
implements the two pipes, for every capacity, alphabet and margin of `HOST_READY`, for
programs that leave the gap between transactions (`SelectGap`); without it both fail, as said above.
The invariant is `FrameInv`, in parts on top of the types:

* `ProgramOK`: what is left of a transaction is its end; at most one that ended waits for `enqueue_txn`.
* `EdgesOK`: the edges `pio_task` has not seen belong to one transaction; when the program has selected again, the
  board is past the last look at the old one, and no byte of the new one was clocked.
* `FrameOK`: the buffer is what was clocked of the transaction the board receives, up to the
  capacity, without the byte that is on its way.
* `AnswerOK`: an answer other than 0 answers the first byte of a poll that the program is still
  in, so that its second byte, and nothing else, reads it. This is why a space is never taken for `GET_CHAR`.
* `RoomOK`: from the moment a status says `HOST_READY` until the transaction sent on it is
  queued, the queue has a free slot, though the status was computed earlier.

`KeysStep` and the lemmas about `Kept(txn)` then map each step to a step of the pipe or to none. A
transaction that `enqueue_txn` drops found the queue full, and so is one more than `Room` in the pipe (`TxnWay`).

Only model-checked: the liveness properties.

### Left out

Pin set-up and the start of the board (the program starts when the board is ready); the
word formats in the FIFOs; `HostTxn::from_buffer`, which cannot fail between buffers of one
capacity; what the modes do with a transaction.

## The SPI controller

### Modules

* `ByteExchange`: between transfers a device is selected or deselected (`Select`). A byte is given to the controller
  while one is selected; later the device has it and its own byte is there (`Swap`). Nothing else ends a transfer but a reset
  (`Abandon`), which deselects the device and leaves both ends with nothing received (`Cleared`) and
  the device with the byte it had: no transfer ends with any other byte than the two.
* `SpiController`: the registers of the FPGA under the names of the Verilog, or close to them
  (`toggle` is `write_toggle`, `tick` is `write_tick`, `active` is `active_clk_divider`).
  * `Clock` is one rising edge of the FPGA clock: `Synchronize`, `Control`, `Count` with `NextState`,
    and `Shift` are the four `always` blocks with the two shift registers.
  * The 6502 does one bus access at a time: `Configure`, `ReadConf` and `WriteBack`
    (`SPI_SELECT` and `SPI_DESELECT` read the register, change a bit and write it back),
    `WriteData`, `ReadStatus`, `ReadData`. A write happens at the bus strobe, between any two
    clock edges, and reaches the registers four edges later.
  * `Device` follows the clock line itself: it takes a bit on a rising edge and puts out the next
    after a falling one, as a mode 0 device does.
  * `Reset` is `RESB`, at any time.
* `MCSpiController`: three bytes that differ from each other and from their shifts.
* `SpiController_proofs`: the theorems.

`sending`, `lastConf`, `late` and `sentLate` are history.

### Timing assumed

`MinGap` FPGA clocks at least lie between two bus accesses. The code needs four, which is the
assumption: with three, `SPI_SELECT` may read a configuration that has not arrived
(`SettingsKept` fails). `LDA` and `STA` of an absolute address take four 6502 cycles, and the FPGA runs at
16 MHz, so four clocks are there as long as the 6502 runs below 16 MHz. How long a cycle
is, the model does not say: an access may come any number of clocks later.

### Runs

| run | what it asks | bounds |
|---|---|---|
| `spi_polled` | `TypeOK`, `PollsTrue`, `SettingsKept`, `SelectStable`, that the controller implements `ByteExchange` (`ByteSwapped`), `ByteReturns` | bytes of 8 bits, 3 of them, dividers 7 and 15, accesses 4 clocks apart |
| `spi_raw` | that `BusyWritesIgnored` fails when software does not poll | as above, divider 7, accesses 16 clocks apart |

The widths are those of the code. Two of the four rates are enough for a rate that changes
between bytes; the slower two only repeat the same count. Nothing is bounded: programs,
clock and resets go on for ever.

`spi_raw` is about `fpga/spi/README.md:101`, "Writes to the Data register while Busy is set
are ignored." The engine ignores a start while it is busy when the start *arrives*; a write
in the last four clocks of a transfer arrives after it, and its byte is sent. The
kernel always polls first.

Fairness: weak fairness of `Clock` (an oscillator) and of the accesses of the polling loop
(the 6502 has nothing else to do). None for other accesses or resets.

### Proofs

`SettingsAreKept` proves `SettingsKept`, and `SelectStaysStable` proves `SelectStable` for programs
that poll, for every width, set of bytes and rates, and gap of four clocks or more. Both rest
on `PipelineOK`: a difference between two stages of the synchronizer bounds the clocks since
the last access, so that at the next access nothing is on its way (`AccessSettled`). On it
stand `ConfOK`, that a configuration not yet in the register is on its way, and `PollOK`, that
while a byte is on its way or under way the program is in its polling loop.

`TypeCorrect` proves `TypeOK` for programs that poll and those that do not. It needs
`CountersOK`, that the counter never passes the setting in use: the engine compares for equality, and would
miss its end otherwise. It assumes of the rates that none is 0 and that there is a slowest.

`PollsAreTrue` proves `PollsTrue`, and `TransfersExchange` that the controller implements
`ByteExchange`, for programs that poll. The invariant is `TransferInv`:

* `OneEdge`: a write is at one place of the synchronizer only;
* `PhaseOK`: from the bus strobe to the end of the transfer the byte is in one place, on its way,
  in `txData` with `start`, or under way, and after it with the device;
* `BitsOK`: which bits of the two bytes are where. `bitCount` bits went through the two receiving registers, and
  `Fallen` through the two sending ones, which is one less while the clock line is high.

The engine's step out of `Done` is then the one that maps to `ByteExchange`'s exchange of the bytes.

Only model-checked: the liveness property `ByteReturns`.

### Left out

The number of the chip select (it takes the same way as the rate), reads of the data
register while a byte is under way, writes to the read-only registers, the bus drivers, the
LED, and metastability beyond the two stages that are there against it.

## The TUI mode

### Modules

* `Forest`: what programs may expect, without an array: a document in which each node has an
  ordered list of children, a text and properties, edited in a draft that is shown or thrown away.
* `TuiTree`: `node.rs`. `Created`, `Removed`, `WithProp` and `WithText` are the methods of `Tree`;
  `Chain` and `Below` are what the loops of `detach` and `remove_subtree` visit.
* `Tui`: `parser.rs` and `tui.rs`. `HandleTxn` feeds the bytes of one transaction, as many as
  the host link keeps, to `Consume`, which is `Parser::feed` with `apply`; the parser keeps its state
  from one transaction to the next. `Reset` is a switch to the mode and `Render` clears `dirty`.
  The mode task does these one after the other, so each is one step.
* `MCTui`: the transactions, those of `tui.s` in any order and with any handle.
* `Tui_proofs`: the theorems.

### Runs

| run | what it asks | bounds |
|---|---|---|
| `tui_forest` | `TypeOK`, `TreeSound`, `LostOnlyUnderItself`, and that the mode implements `Forest` (`ImplementsForest`) | 3 nodes, one property slot and two keys, texts of 0 and 2 bytes that fit the transaction |
| `tui_cut` | that `CommitApplies` fails when a text is longer than the transaction | as above, with a text of 3 bytes of which 2 fit |

The root and two nodes are enough for siblings in either order, a child below a child, and
a create that names as the parent the node it replaces or one below it. Properties go to one
node and texts to the other, to keep the trees few. The sequence of commands is not bounded.

`tui_forest` shows what such a create does: the old node goes first, with all below it, so
the parent is gone when the new node is hung below it. A node is then its own parent, or hangs
from a free one; it can be edited and removed, but not reached from the root. The links
stay sound all the same (`TreeSound`), and it is the only way to lose a node
(`LostOnlyUnderItself`). `Forest.Create` says the same of the document.

`tui_cut` is about `host.rs:62`: `push` drops what does not fit and nothing tells the parser. In
the code the buffer holds 32 bytes, so that a text may have 28. `tui_set_text` sends any length
and reports success (`tui.s:235-276`); the parser still waits for the missing bytes when the next
command comes, counts it as text, and a commit is not applied.

No fairness is assumed: the properties are about safety.

### Proofs

`TypeCorrect` and `CommandsReturn` prove `TypeOK` and `TreeSound` for any number of nodes and properties, any
capacity and any transactions made of bytes, several commands or part of one.

`TreeSound` is not inductive: it counts links and says what loops visit, not what creates and removes preserve.
`Sound` says that link by link: nodes of a list have the parent that it hangs from (`Kinship`), no two links lead
to one node (`OneWay`), only a node in a list has siblings after it (`Queued`), and the links go one way, that is,
there is a rank that grows along them (`Ranked`). The last is not true as it stands, because a create under
itself makes a node its own child; what holds is that only links to such a node lead back, and that it ends its list
(`Alone`). `Sound` is an invariant of the staged and of the committed tree, with `remove` proved in two steps:
without the links from and to the removed node (`UnlinkedSound`), and with all below it cleared (`PrunedSound`,
for which no link may lead from what stays to what goes: `NothingDangles`). `InItsList` is what makes `detach` right: a
node that something follows is found in the list of its parent. `create` gives the new node a rank between
the parent and the children it had (`LinkedSound`).

`LoopsDoEnd` follows: a list does not come back to a node because ranks grow; a subtree may, below a node that is
its own parent (`BelowItself`), but `remove` starts at such a node, whose link to itself `detach` has cut, or
nowhere near it (`BelowOther`). `Chain` and `Below` are least sets closed under links, so each of these
is a set that the links do not leave.

A transaction is a fold of `Consume` over its bytes; `Run` says that the fold is the last of a run of modes, which
makes an invariant of `Consume` one of `HandleTxn` (`PlayedType`). It is proved from the least number of a set
(`Least`), because the induction theorems of the library are not usable here.

Three theorems are about programs that send each command, with its text, as a transaction that the buffer
holds (`WholeCommands`; `tui.s` sends one command at a time, but does not limit the text). Then the parser waits
for a command between transactions (`WaitingHolds`), and a transaction is one command (`OneCommand`). `WholeCommitApplies`
is what `tui_cut` refutes without that condition. `LostUnderItself` proves `LostOnlyUnderItself`, where the
condition is needed because a transaction of several commands can lose a node and then give it another parent.
It rests on three facts about trees that hang from the root: what a `remove` leaves does (`RemovedRooted`:
a path that led through the removed node now skips it), what a `remove` frees was below the node (`PrunedBelow`), so
a parent that was not below it is still there, and then the new node and the children after it hang from
that parent (`LinkedRooted`).

The third is `TreeImplementsForest`: under that condition the mode implements `Forest`, for any number of nodes and
property slots. `Document` reads a document off the tree, and each command that changes the staged tree
makes one of the edits of its document (`CreatePromised`, `RemovePromised`, `SetPropPromised`, `SetTextPromised`);
one that the code ignores changes nothing. What that takes:

* The linked children are a sequence. Two nodes of one list differ in how many nodes follow them (`SizesDiffer`), and the
  numbers count down to the end of the list without a gap (`SizesAll`), so `Listed`, which puts the children in the order of
  what follows them, names each child once (`ListDistinct`) and goes along the links (`ListedIs`); no other sequence
  does (`ListSame`). So `detach` takes one element out of the list it stands in and leaves the other lists as they
  were (`RemovedListed`), and `create` puts one at the front (`LinkedParent`).
* What `remove_subtree` frees is what `Forest` takes away. The code walks the tree from which the node is detached
  already, `Forest.Family` goes by the children before that. They agree (`FamilyIs`), because the list that
  `detach` relinks hangs from a node below the removed one only if that is its own parent, and then nothing follows it
  there (`NotBelowItself`).
* Trees stay tidy (`Tidy`): a free node has no text and no properties, and properties fill the slots from the first
  on, each key in one. `set_prop` stops at the first slot that is free or has the key; so it
  never keeps a key twice, and it ignores a key exactly if all slots have others (`SlotSet`, `KeysFewer`). `Neat`
  adds this to the invariant, with the parser waiting for a command.

### Left out

What `render` draws, which is a stub in the code; the text itself, of which the code keeps
only the length; the text mode, which gets the transactions while the TUI is not active.

## The text mode

### Modules

* `Terminal`: what a program may expect of a terminal: one long line of cells cut into
  rows, typing at the cursor, erasing, and the line moving up a row at its end.
* `AnsiParser`: the escape parser. `Feed` is one byte: it gives the parser after it and the
  command the byte completes. `ParseParams` collects the numbers with the saturating
  arithmetic of the code.
* `TextScreen`: the grid, the cursor and the colour. Each method of `TextState` is an operator; sums
  of cursor moves wrap at 256 (`Added`), as in a release build, before they are limited.
* `TextMode`: `awaiting`, `blinkTicks`, `parser` and `screen` are the fields of `Text`.
  `ConsumeChar` and `ConsumeCommand` are `consume`, one byte each, so that transactions may be cut
  anywhere and the framing goes on from one to the next. `Tick`, `Render` and `Reset` are the
  other methods of `DisplayMode`. The mode task calls them one after the other. `View` is what
  `push_state` sends.
* `TextMode_proofs`: the theorems.

### Run

`text_screen` runs `TextMode` itself: the grid is 2 by 2, sequences hold 3 bytes and 2 parameters,
programs put a letter, a newline, a backspace or an escape, and in a sequence the digits 8 and 9,
the separators and every final byte but `f` (the same as `H`). That gives every row and column an edge,
scrolling from each of its two causes, a parameter that saturates (`899`), one that wraps the
cursor's sum, one that selects a colour (`89` does not, `0`, the empty field, does), an overlong
sequence, and one parameter more than are kept. One tick between blinks, and one blink before the
cursor comes back, keep the count small; nothing else is bounded.

It checks `TypeOK`, which puts the cursor on the grid: the code indexes the grid with it and would
panic; `ParamsRight`, which compares `ParseParams` with what the fields of a sequence say in decimal; that the
mode implements `Terminal` (wrapping, scrolling and erasing; a cursor command may take its cursor anywhere on the
line); and `CursorReturns`, under fairness of `Tick` alone: the mode
task's ticker runs for ever, and the property says that nobody types any more.

### Proofs

`TypeCorrect` proves `TypeOK` for every size of the grid up to 255, of the parser's buffer, and
every alphabet. `TypeOK` is inductive with one lemma per operator; what makes it so is that a
command's arguments are bytes (`CmdOK`), which the parser has to see to. `EveryChangeIsDrawn` rests on
it.

`TextIsATerminal` proves `ImplementsTerminal`, for every size of grid. Under it lie facts about division:
every cell of the grid is one place of the line and the other way round (`CellIsPlace`,
`PlaceIsCell`). With them each method is carried over: a cell written (`WrittenTape`), a row erased
(`RowTape`), rows moved up by one where places move down by the width (`ScrolledTape`), the next line
and typing as going on past the last place of a row (`NextLineGoesOn`, `TypingGoesOn`). That a
sequence never means a character (`SequencesDoNotShow`) is what keeps bytes of one off the line. The
theorem needs `TypeOK`: a cursor off the grid would be a place of another row.

`FieldsAreNumbers` proves `ParamsRight`, for sequences of any length and any number of parameters. `ParseParams` is a
fold of `Collected` over the bytes; `Run` says that it is the last of a run of lists, each
the one before after one more byte. `Agree` is kept along the run: there is a number for each field
that has begun, the decimal number of its digits so far cut at 255, and the fields to come have no digits yet
(`CollectedAgree`). That the code saturates twice at each digit, and `ParamsRight` cuts the
whole number once, comes down to `Capped`. The numbers that `ParamsRight` compares with are
defined by recursion over the bytes of one field, which a prover cannot unfold before it is shown
that there is such a function (`ReadsExist`).

Only model-checked: `CursorReturns`, which is liveness.

## Mode manager and display

### Modules

* `Modes`: `modes_task`, the display channel, `display_task` and what the EVE chip makes of
  its commands. `mpc` is the place of the manager: at the first `select`, draining, at the second
  `select`, or inside `render`, which sends its frame (`out`) command by command into `chan`. `text` and
  `tui` are the modes: what is to be seen, and `dirty`. Bytes that draw are the `Pictures`, all others mean
  nothing to a mode. `bulkAddr`, `bulkBuf` are those of `display_task`, and `written` counts the bytes of the
  buffer that the chip has; `BulkWrite` is one byte. `ramG` and `ramDl`, picture memory and display list, are the
  chip's, and so are `front`, the list it obeys, and `swapping`.
* `Panel` is what the chip shows: it obeys `front` and reads the picture memory as it is at that moment. There is one grid,
  at `EVE_RAM_G`, so the next one is seen while it is written, byte by byte, long before its swap.
* `Swap` is the write of `DLSWAP_FRAME`: it asks for a swap, and `display_task` goes on without waiting for
  it. `FrameEnd` is the end of a frame of the chip, where the swap is done, at any later
  time. The model takes the chip to keep two lists, one that is obeyed and one that is written; what the one to write holds after
  a swap is left open. With the timing that `eve_init` sets, a frame of the chip takes about 16 ms, as
  long as a tick: a switch of modes may send a list while the last swap still waits, and if the frame
  ends between two of its entries, the list is torn (`list`). No later step of the code repairs it; the
  next dirty mode draws a whole frame again. The properties allow for it and for nothing more.
* `Pipe` again: a frame that `render` sends is offered, on its way, or asked for (`FramesIntact`); a torn list
  is the one that the pipe `spoils`.
* `MCModes`: transactions that draw, switch to each mode, switch and draw at once, name a mode that does not
  exist, or end after the switch opcode.
* `Modes_proofs`: the theorems.

`sent` (frames sent whole and not yet asked for), `asked` (the frame asked for last, `Nothing` if its list was
torn) and `list` are history.

### Run

`modes_panel`: one picture besides the empty one, a transaction queue of 1, frames of 8 and 3 commands through a
channel of 1, so that manager and display task hand each other one command at a time and a frame never fits;
grids of two bytes, lists of 3 and 2 entries; a late manager has one
tick before it. Host, ticker, manager, display task and chip take turns in any order. It checks `TypeOK` and:

* `CleanIsDrawn`: a mode which is not dirty has what it shows asked for or on the way there.
* `FramesIntact`: frames get into the memories of the chip whole, in order and once each.
* `PanelShows`: what the panel shows, as it is scanned from memory. Half of a grid, or the grid of the next frame under
  the list of this one, may be seen while a frame is written, and the code does nothing against that. But from its
  swap on a list is obeyed until another is torn, and once no frame is on its way the panel shows
  just the one asked for last. `display_task` has to await each bulk write for that.
* `PanelSettles`: the panel keeps up once the host pauses.

Fairness: weak fairness of the ticker (a hardware timer), of the chip's frames (another), of the manager and of the display
task (tasks of an executor that runs every task that can go on). Weak fairness is enough, for while a frame waits for
room in the channel only the display task can take the room away, and it makes it. The pause is needed: the manager
renders only when it finds the queue empty, twice, and a host that sends at just
these moments keeps it from rendering for ever.

### Proofs

For every set of pictures and transactions, depth of queue and channel, frame length and length of the two
display lists from two entries on, as long as a grid fits the bulk buffer, `TypeCorrect` proves `TypeOK`,
`NothingForgotten` proves `CleanIsDrawn`, `FramesArrive` proves `FramesIntact`, and `PanelShowsFrames` proves `PanelShows`.

`CleanIsDrawn` needs little: a step that changes what the active mode shows sets its flag, and while a frame is
being sent the flag is still set (`Redrawn`). That a frame asked for is the one that was sent needs to know
where the frames under way are cut. What is in the channel and what `render` has not sent yet make one sequence
of commands (`Pending`), and it is the rest of the oldest frame and the frames after it, end to end: `Cuts`
gives each its place, which is zero or less for a frame whose first commands were taken already. `Progress` says
how far the chip is after so many commands of that frame: what the bulk buffer holds, that the grid is in the
picture memory, and which entries of the display list are written. Each command the display task takes then
takes `Progress` on by one (`Advances`, with `NextCommand` for which one it is), and at a swap the list is all
there; what longer lists left behind its end mark does not matter (`ObeyedList`). A swap of the chip takes the half-written list
away, and `list` then says that nothing is known of its entries until the next one. `CutsAdvance`, `CutsFinish` and
`CutsOffer` move the cuts for a command taken, the last one of a frame taken, and a frame added. For the panel, `Shown` adds
what the chip obeys, and that the picture memory is the grid asked for as long as no other frame is on its way.

Only model-checked: `PanelSettles`, which is liveness.

### Left out

`eve_init`; addresses (the grid and the two lists have each its
own place); which line of a frame the chip scans when a byte changes (`Panel` is the memory at one moment). `Cmd` and `Write16`, which no mode sends.

## The USB keyboard

### Modules

* `Keymap`: the two tables and which of them a key takes.
* `UsbKeyboard`: `keyboard_task`, the USB controller, the device and the user.
  * `pc` is the place of the task: `wait_for_connect` ("wait", "seen"), `enumerate` ("enum", with `step` its place in
    `Script`, what it asks of the bus one after the other), `poll_hid` ("stale", "poll", "report", "type", "bail").
  * A token and its result is one step (`EnumToken`, `PollToken`). Any result may come, from a device that
    does not listen only a timeout or an error; `naks` and `tries` are the counters of `dispatch_pkt`. The
    whole descriptor is asked for in as many packets as its size takes.
  * `connirq` and `peraddr` are the registers of the controller that say something from one call to the next. A bus reset may or may not set
    `connirq`, which is why the code clears it after the enumeration.
  * `Plug`, `Unplug`, `Press`, `Release` and `Shift` happen at any time, with one exception (`Hurried`): nobody
    plugs a keyboard in between the last token of the enumeration and the clearing of
    `connirq`, which is a few instructions. With it the task would poll the new one at address 1.
* `MCUsbKeyboard`: a keyboard and a device without an interrupt endpoint; and
  `FirstEndpointIsFound`, an assumption TLC evaluates, which compares `FindHidEp` with a definition that
  knows where the descriptors are, over lists of up to three of them, cut anywhere.
* `UsbKeyboard_proofs`: the theorems.

`owed` is history: a press makes a key owed once, a report that names it as new takes that back.

### Runs

| run | what it asks | bounds |
|---|---|---|
| `usb_typed` | `TypeOK`, `PollsReady`, `TypedOnce`, `KeysSeen` | 2 keys, a letter and an arrow (three bytes), reports of 2 keys, limits of 2, a key queue of 1 |
| `usb_rollover` | that `TypedOnce` fails when more keys are held than fit a report | 3 keys, reports of 2 |

Limits of 2 give a retry and a failure of each kind, and both in one request. The queue of 1 makes the task wait in the middle
of a sequence, while keys come and go and the keyboard is pulled out. Nothing else is bounded.

`usb_rollover` is about `keyboard.rs:450`, "push new keypresses to channel". A report of a keyboard with too many keys held has
the keycode 1 in every slot, which types nothing but replaces `prev`; with the next one
every key that is still held is new again.

Fairness: weak fairness of the task (the executor) and of `GetChar` (a program that goes on asking for
characters, as `console.s` does). `KeysSeen` asks in addition, in its premise, that at some time a keyboard stays plugged in, keys are left alone, and a
device that listens answers. A press shorter than the time between two reports is lost, as on any
keyboard; so the property speaks of keys that stay down.

### Proofs

`PolledIsReady` proves `PollsReady` for every set of keys, devices, descriptors and limits. `PollsReady` is not inductive: the
invariant adds what the device and `PERADDR` are at each place of the script, which lemmas about
`Steps` locate (`StepsAre`, `StepFacts`). `PressIsTypedOnce` proves `TypedOnce` when no more keys
are held than a report has room for; `usb_rollover` shows that the assumption is needed. Its
invariant (`Owing`) says that every key held is owed still, or the task has heard of it: it polls, and the key is in the last report.

`TypeCorrect` proves `TypeOK`: the two counters of `dispatch_pkt` stay below their limits, the enumeration within its
script, whose length changes with the descriptor (`StepFacts` says that this is at one step, which every script has), and no byte 0 is queued.
For the last, the tables are gone through row by row (`AsciiIs`, `AnsiIs`), and what a report types is a
concatenation, a recursive function: that it exists (`JoinExists`) and is a sequence of such bytes (`FlattenType`)
is an induction from the least number of a set (`Least`).

Only model-checked: `KeysSeen`, which is liveness.

### Left out

Data toggles and acknowledgements, which the controller and the device settle between them; a report in more than
one packet (boot keyboards send 8 bytes in one); how long waits take, and that a frame or transfer interrupt never comes
(the code would wait for ever); the registers `max_init` writes, of which the model takes the result.

## Not modelled

* The serial loader and `upload.py`: one line at a time, without numbers, timeouts or
  repetition at either end. What can go wrong is a lost character, after which both
  wait for ever; there is no mechanism against it that a model could check.
* Forth: an interpreter whose stacks and program memory have no limit checks, so that
  what is correct depends on the program; its control state is its data.
* Strings, line editor, monitor: sequential routines over one buffer.
* ACIA, IRQ, vectors, boot, jump table: register polling, a hook and tables.
* `eve.rs`, `main.rs`: constants and wiring.

------------------------------ MODULE HostLink ------------------------------
(***************************************************************************)
(* The link between the 6502 and the console board (host.rs), with the key *)
(* queue (keyboard.rs) at its far end. Five parts run at once:             *)
(*   - a program on the 6502, which frames transactions with chip select   *)
(*     and exchanges bytes over kernel/spi.s: console.s ("echo"),          *)
(*     console_stress.s ("stress"), or one that sends transactions of all  *)
(*     sizes without asking, as spi_txn_sizes.s and tui.s do ("sizes");    *)
(*   - two PIO state machines on the board: sm0 exchanges bytes, sm1 turns *)
(*     chip select edges into markers; each has a FIFO of its own;         *)
(*   - pio_task, alone on core 1, which reads both FIFOs;                  *)
(*   - keyboard_task and modes_task on core 0, at the ends of two queues.  *)
(*                                                                         *)
(* The 6502 is slow against the board, and sm0 needs it to be: the program *)
(* clocks a byte only when sm0 waits for one, it raises chip select later  *)
(* after a byte than pio_task gets from its timeout to its poll, and, when *)
(* SelectGap holds, it does not select again before pio_task has polled    *)
(* the end of the last transaction.                                        *)
(***************************************************************************)
EXTENDS Integers, Sequences

CONSTANTS
  Programs,     \* which programs the 6502 may run: "echo", "stress", "sizes"
  Keys,         \* characters the keyboard sends, none of them 0
  Chars,        \* console_stress: how many characters before it starts over
  SizeTxns,     \* the transactions of the program "sizes"
  QueueDepth,   \* HOST_TXN_QUEUE_DEPTH
  ReadyFree,    \* HOST_READY_FREE_SLOTS
  TxnCapacity,  \* HOST_TXN_CAPACITY
  KeyDepth,     \* capacity of KEYBOARD_CHANNEL
  CounterMod,   \* KEYBOARD_QUEUED counts modulo this (2^32 in the code)
  SelectGap     \* TRUE: the program leaves the gap between transactions

CMD_READ_STATUS == 1
CMD_GET_CHAR    == 32
CMD_PUT_CHAR    == 33
KEYBOARD_READY  == 1
HOST_READY      == 2
CsFifoDepth     == 4      \* a PIO FIFO; sm1 pushes without blocking

ASSUME HostLinkAssumption ==
  /\ Programs \subseteq {"echo", "stress", "sizes"}
  /\ Keys \subseteq Nat \ {0}
  /\ Chars \in Nat \ {0}
  /\ \A t \in SizeTxns : t \in Seq(Nat) /\ t # <<>> /\ Head(t) \notin {CMD_READ_STATUS, CMD_GET_CHAR}
  /\ QueueDepth \in Nat \ {0} /\ ReadyFree \in 1 .. QueueDepth
  /\ TxnCapacity \in Nat /\ TxnCapacity >= 2
  /\ KeyDepth \in Nat \ {0} /\ CounterMod \in Nat /\ CounterMod > KeyDepth + 1
  /\ SelectGap \in BOOLEAN

VARIABLES
  program,                         \* the 6502: the program it runs
  step, ch, cs, txn, out, acc,     \* its place in it, the program's character, chip select,
                                   \* the transaction, what is left of it, byte read
  osr, answered,                   \* sm0: byte it shifts out next; FALSE: waits for an answer
  rxFifo, txFifo, csFifo,          \* the PIO FIFOs between the state machines and pio_task
  fpc, word, reply, buf, inTxn, txnDone,   \* pio_task: place, locals
  hostQ, shown,                    \* HOST_TXN_CHANNEL, the transaction modes_task took last
  kpc, key, keyQ, queued,          \* keyboard_task, KEYBOARD_CHANNEL, KEYBOARD_QUEUED
  ended                            \* history: transactions ended, not yet seen by enqueue_txn

cpuVars == <<program, step, ch, cs, txn, out, acc>>
smVars  == <<osr, answered>>
fifos   == <<rxFifo, txFifo, csFifo>>
fwVars  == <<fpc, word, reply, buf, inTxn, txnDone>>
modeVars == <<hostQ, shown>>
keyVars == <<kpc, key, keyQ, queued>>
vars == <<cpuVars, smVars, fifos, fwVars, modeVars, keyVars, ended>>

FirstStep(prog) == CASE prog = "echo" -> "get" [] prog = "stress" -> "status" [] OTHER -> "send"
FirstChar(prog) == IF prog = "stress" THEN 1 ELSE 0

Init ==
  /\ program \in Programs
  /\ step = FirstStep(program) /\ ch = FirstChar(program) /\ cs = "high" /\ txn = <<>> /\ out = <<>> /\ acc = 0
  /\ osr = 0 /\ answered = TRUE
  /\ rxFifo = <<>> /\ txFifo = <<>> /\ csFifo = <<>>
  /\ fpc = "select" /\ word = 0 /\ reply = 0 /\ buf = <<>> /\ inTxn = FALSE /\ txnDone = FALSE
  /\ hostQ = <<>> /\ shown = <<>>
  /\ kpc = "idle" /\ key = 0 /\ keyQ = <<>> /\ queued = 0
  /\ ended = <<>>

-----------------------------------------------------------------------------
(* The 6502. *)

TxnsOf(s) ==
  CASE s = "get"    -> {<<CMD_GET_CHAR, 0>>}
    [] s = "status" -> {<<CMD_READ_STATUS, 0>>}
    [] s = "put"    -> {<<CMD_PUT_CHAR, ch>>}
    [] OTHER        -> SizeTxns

\* sm1: "push noblock" loses a marker when nobody emptied the FIFO.
Marked(edge) == IF Len(csFifo) < CsFifoDepth THEN Append(csFifo, edge) ELSE csFifo

\* "The end of the last transaction was polled."
GapLeft == SelectGap => \A i \in 1 .. Len(csFifo) : csFifo[i] # "high"

Select ==
  /\ cs = "high"
  /\ GapLeft
  /\ cs' = "low"
  /\ txn' \in TxnsOf(step)
  /\ out' = txn'
  /\ csFifo' = Marked("low")
  /\ UNCHANGED <<program, step, ch, acc, smVars, rxFifo, txFifo, fwVars, modeVars, keyVars, ended>>

\* SPI_TRANSFER or SPI_WRITE against sm0: both shift a byte, then sm0 pushes
\* its byte and waits for the answer to send with the next one.
Exchange ==
  /\ cs = "low" /\ out # <<>> /\ answered
  /\ acc' = osr
  /\ osr' = 0
  /\ answered' = FALSE
  /\ rxFifo' = Append(rxFifo, Head(out))
  /\ out' = Tail(out)
  /\ UNCHANGED <<program, step, ch, cs, txn, txFifo, csFifo, fwVars, modeVars, keyVars, ended>>

\* Where the program goes after a transaction, with the byte it read last.
After ==
  CASE step = "get"    -> IF acc = 0 THEN [to |-> "get", ch |-> ch] ELSE [to |-> "put", ch |-> acc]
    [] step = "status" -> [to |-> IF acc >= HOST_READY THEN "put" ELSE "status", ch |-> ch]
    [] step = "put" /\ program = "echo" -> [to |-> "get", ch |-> ch]
    [] step = "put" /\ program = "stress" -> [to |-> "status", ch |-> (ch % Chars) + 1]
    [] OTHER           -> [to |-> "send", ch |-> ch]

Deselect ==
  /\ cs = "low" /\ out = <<>>
  /\ ~(fpc = "timer" /\ rxFifo # <<>>)
  /\ cs' = "high"
  /\ csFifo' = Marked("high")
  /\ step' = After.to /\ ch' = After.ch
  /\ ended' = Append(ended, txn)
  /\ txn' = <<>> /\ acc' = 0
  /\ UNCHANGED <<program, out, smVars, rxFifo, txFifo, fwVars, modeVars, keyVars>>

Cpu == Select \/ Exchange \/ Deselect

\* sm0: "pull block", then it is ready for the next byte.
SmPull ==
  /\ ~answered /\ txFifo # <<>>
  /\ osr' = Head(txFifo)
  /\ txFifo' = Tail(txFifo)
  /\ answered' = TRUE
  /\ UNCHANGED <<cpuVars, rxFifo, csFifo, fwVars, modeVars, keyVars, ended>>

-----------------------------------------------------------------------------
(* pio_task. *)

\* CommandBuffer::push: what does not fit is not kept.
\* Mutant: the buffer has no limit.
PushedAlways(b, byte) == Append(b, byte)
Pushed(b, byte) == IF Len(b) < TxnCapacity THEN Append(b, byte) ELSE b

IsPoll(t) == t # <<>> /\ Head(t) \in {CMD_READ_STATUS, CMD_GET_CHAR}

\* enqueue_txn of a buffer: try_send, which fails when the channel is full.
EnqueueTxn(b) ==
  /\ hostQ' = IF b = <<>> \/ IsPoll(b) \/ Len(hostQ) = QueueDepth THEN hostQ ELSE Append(hostQ, b)
  /\ ended' = IF ended = <<>> THEN ended ELSE Tail(ended)

\* What poll_cs_edges makes of the markers it finds, all of them.
\* Mutant: any edge ends the transaction.
Low  == \E i \in 1 .. Len(csFifo) : csFifo[i] = "low"
DoneByAnyEdge == txnDone \/ csFifo # <<>>
Done == IF csFifo = <<>> THEN txnDone ELSE csFifo[Len(csFifo)] = "high"
PolledBuf == IF Low THEN <<>> ELSE buf

TimerFires ==
  /\ fpc = "select" /\ rxFifo = <<>>
  /\ fpc' = "timer"
  /\ UNCHANGED <<cpuVars, smVars, fifos, word, reply, buf, inTxn, txnDone, modeVars, keyVars, ended>>

\* drain_spi_rx: bytes taken here get no answer.
Drained == IF (inTxn \/ Low) /\ rxFifo # <<>> THEN Pushed(PolledBuf, Head(rxFifo)) ELSE PolledBuf

TimerPoll ==
  /\ fpc = "timer"
  /\ fpc' = "select"
  /\ csFifo' = <<>>
  /\ \/ /\ Done
        /\ rxFifo' = <<>>
        /\ EnqueueTxn(Drained)
        /\ buf' = <<>> /\ inTxn' = FALSE /\ txnDone' = FALSE
     \/ /\ ~Done
        /\ buf' = PolledBuf /\ inTxn' = (inTxn \/ Low) /\ txnDone' = FALSE
        /\ UNCHANGED <<rxFifo, hostQ, ended>>
  /\ UNCHANGED <<cpuVars, smVars, txFifo, word, reply, shown, keyVars>>

TakeWord ==
  /\ fpc = "select" /\ rxFifo # <<>>
  /\ word' = Head(rxFifo)
  /\ rxFifo' = Tail(rxFifo)
  /\ fpc' = "word"
  /\ UNCHANGED <<cpuVars, smVars, txFifo, csFifo, reply, buf, inTxn, txnDone, modeVars, keyVars, ended>>

\* A byte whose falling edge was not seen starts a transaction all the same.
PollWord ==
  /\ fpc = "word"
  /\ csFifo' = <<>>
  /\ txnDone' = Done
  /\ inTxn' = (inTxn \/ Low \/ ~Done)
  /\ buf' = IF ~inTxn /\ ~Done THEN <<>> ELSE PolledBuf
  /\ fpc' = "respond"
  /\ UNCHANGED <<cpuVars, smVars, rxFifo, txFifo, word, reply, modeVars, keyVars, ended>>

\* Mutant: the used slots are counted, not the free ones.
StatusByteUsed ==
  (IF queued > 0 THEN KEYBOARD_READY ELSE 0)
    + (IF Len(hostQ) >= ReadyFree THEN HOST_READY ELSE 0)
StatusByte ==
  (IF queued > 0 THEN KEYBOARD_READY ELSE 0)
    + (IF QueueDepth - Len(hostQ) >= ReadyFree THEN HOST_READY ELSE 0)

\* Only the first byte of a transaction is a command. Mutant: any byte is.
AtCommandAlways == TRUE
AtCommand == buf = <<>>

\* next_response.
Respond ==
  /\ fpc = "respond"
  /\ \/ /\ ~AtCommand \/ word \notin {CMD_READ_STATUS, CMD_GET_CHAR}
        /\ reply' = 0 /\ fpc' = "push"
        /\ UNCHANGED keyQ
     \/ /\ AtCommand /\ word = CMD_READ_STATUS
        /\ reply' = StatusByte /\ fpc' = "push"
        /\ UNCHANGED keyQ
     \/ /\ AtCommand /\ word = CMD_GET_CHAR /\ keyQ = <<>>
        /\ reply' = 0 /\ fpc' = "push"
        /\ UNCHANGED keyQ
     \/ /\ AtCommand /\ word = CMD_GET_CHAR /\ keyQ # <<>>
        /\ reply' = Head(keyQ) /\ keyQ' = Tail(keyQ) /\ fpc' = "uncount"
  /\ UNCHANGED <<cpuVars, smVars, fifos, word, buf, inTxn, txnDone, modeVars, kpc, key, queued, ended>>

\* fetch_sub wraps. Mutant: it stops at zero.
UncountedSaturating == IF queued = 0 THEN 0 ELSE queued - 1
Uncounted == IF queued = 0 THEN CounterMod - 1 ELSE queued - 1

\* get_char: fetch_sub, after the character was received.
Uncount ==
  /\ fpc = "uncount"
  /\ queued' = Uncounted
  /\ fpc' = "push"
  /\ UNCHANGED <<cpuVars, smVars, fifos, word, reply, buf, inTxn, txnDone, modeVars, kpc, key, keyQ, ended>>

PushByte ==
  /\ fpc = "push"
  /\ fpc' = "reply"
  /\ \/ /\ txnDone
        /\ EnqueueTxn(Pushed(buf, word))
        /\ buf' = <<>> /\ inTxn' = FALSE /\ txnDone' = FALSE
     \/ /\ ~txnDone
        /\ buf' = Pushed(buf, word)
        /\ UNCHANGED <<inTxn, txnDone, hostQ, ended>>
  /\ UNCHANGED <<cpuVars, smVars, fifos, word, reply, shown, keyVars>>

\* Every byte is answered. Mutant: not the last one of a transaction.
AnswersInTxn == IF inTxn THEN Append(txFifo, reply) ELSE txFifo
Answers == Append(txFifo, reply)

Reply ==
  /\ fpc = "reply"
  /\ txFifo' = Answers
  /\ fpc' = "select"
  /\ word' = 0 /\ reply' = 0
  /\ UNCHANGED <<cpuVars, smVars, rxFifo, csFifo, buf, inTxn, txnDone, modeVars, keyVars, ended>>

PioTask == TimerFires \/ TimerPoll \/ TakeWord \/ PollWord \/ Respond \/ Uncount \/ PushByte \/ Reply

-----------------------------------------------------------------------------
(* Core 0. *)

\* modes_task receives a transaction and hands it to the active mode.
ModesTake ==
  /\ hostQ # <<>>
  /\ shown' = Head(hostQ)
  /\ hostQ' = Tail(hostQ)
  /\ UNCHANGED <<cpuVars, smVars, fifos, fwVars, keyVars, ended>>

KeyPress ==
  /\ kpc = "idle"
  /\ key' \in Keys
  /\ kpc' = "send"
  /\ UNCHANGED <<cpuVars, smVars, fifos, fwVars, modeVars, keyQ, queued, ended>>

\* enqueue_key: send().await, then fetch_add.
KeySend ==
  /\ kpc = "send" /\ Len(keyQ) < KeyDepth
  /\ keyQ' = Append(keyQ, key)
  /\ key' = 0
  /\ kpc' = "count"
  /\ UNCHANGED <<cpuVars, smVars, fifos, fwVars, modeVars, queued, ended>>

KeyCount ==
  /\ kpc = "count"
  /\ queued' = IF queued = CounterMod - 1 THEN 0 ELSE queued + 1
  /\ kpc' = "idle"
  /\ UNCHANGED <<cpuVars, smVars, fifos, fwVars, modeVars, key, keyQ, ended>>

Next == Cpu \/ SmPull \/ PioTask \/ ModesTake \/ KeyPress \/ KeySend \/ KeyCount

Spec == Init /\ [][Next]_vars

\* Every part runs on a processor of its own or, on core 0, in a task that
\* nothing starves; nobody has to press keys.
FairSpec ==
  /\ Spec
  /\ WF_vars(Cpu) /\ WF_vars(SmPull) /\ WF_vars(PioTask)
  /\ WF_vars(ModesTake) /\ WF_vars(KeySend) /\ WF_vars(KeyCount)

-----------------------------------------------------------------------------
(* Properties. *)

\* Transactions for the display.
Txns == {<<CMD_PUT_CHAR, c>> : c \in Keys \cup 1 .. Chars} \cup SizeTxns

TypeOK ==
  /\ step \in {"get", "put", "status", "send"} /\ cs \in {"high", "low"}
  /\ ch \in Nat /\ acc \in Nat /\ osr \in Nat /\ word \in Nat /\ reply \in Nat
  /\ answered \in BOOLEAN /\ inTxn \in BOOLEAN /\ txnDone \in BOOLEAN
  /\ Len(rxFifo) + Len(txFifo) <= 1 /\ Len(csFifo) <= CsFifoDepth
  /\ fpc \in {"select", "timer", "word", "respond", "uncount", "push", "reply"}
  /\ Len(buf) <= TxnCapacity
  /\ Len(hostQ) <= QueueDepth /\ \A i \in DOMAIN hostQ : Len(hostQ[i]) \in 1 .. TxnCapacity
  /\ kpc \in {"idle", "send", "count"} /\ key \in Keys \cup {0}
  /\ Len(keyQ) <= KeyDepth /\ queued \in 0 .. CounterMod - 1

\* The counter has_data looks at agrees with the channel whenever neither side
\* is between its queue operation and its count, though it may have wrapped
\* below zero in between (enqueue_key counts after it sends, on another core).
QueuedSettles == kpc # "count" /\ fpc # "uncount" => queued = Len(keyQ)

\* Characters on their way from KEYBOARD_CHANNEL into the program.
Carried(x) == IF x = 0 THEN <<>> ELSE <<x>>
KeysOnTheWay ==
  IF program # "echo" THEN keyQ
  ELSE Carried(acc) \o Carried(osr) \o (IF txFifo = <<>> THEN <<>> ELSE Carried(Head(txFifo)))
         \o Carried(reply) \o keyQ

KeyPipe == INSTANCE Pipe WITH
  Items <- Keys, None <- 0, Room <- 0, lossy <- FALSE, spoils <- FALSE,
  offer <- key, queue <- KeysOnTheWay, last <- IF program = "echo" THEN ch ELSE 0

\* Every key gets to the program of console.s, once and in order: get_char takes
\* a character off the queue a byte before the program can read it.
KeysDelivered == KeyPipe!Spec

\* What the board keeps of a transaction, and those it was sent but has not
\* queued yet.
Kept(t) == IF IsPoll(t) THEN <<>> ELSE SubSeq(t, 1, IF Len(t) < TxnCapacity THEN Len(t) ELSE TxnCapacity)
Unqueued == IF ended = <<>> \/ IsPoll(Head(ended)) THEN <<>> ELSE <<Kept(Head(ended))>>

TxnPipe == INSTANCE Pipe WITH
  Items <- {Kept(t) : t \in Txns}, None <- <<>>, Room <- QueueDepth, lossy <- program # "stress",
  spoils <- FALSE, offer <- Kept(txn), queue <- hostQ \o Unqueued, last <- shown

\* modes_task gets the transactions the program sent, whole, in order and once.
\* Only the newest one may be missing, dropped where it found the queue full, and
\* never one of a program that waits for HOST_READY before it, as console_stress
\* does.
TxnsIntact == TxnPipe!Spec

\* sm0 never waits for an answer for ever: every byte it hands over is answered.
AnswerComes == ~answered ~> answered

\* A key that found the queue full gets in, as console.s goes on reading.
KeysMove == program = "echo" /\ kpc = "send" ~> kpc = "count"

\* HOST_READY comes back, as modes_task goes on taking.
ReadyComes == step = "status" ~> step = "put"
=============================================================================

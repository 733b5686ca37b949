-------------------------------- MODULE Modes --------------------------------
(***************************************************************************)
(* From the transaction queue to the panel: the mode manager               *)
(* (modes/manager.rs), what a mode tells it (what is to be seen, and       *)
(* whether that still has to be drawn), the display channel, and the task  *)
(* that writes to the EVE graphics chip (display.rs).                      *)
(*                                                                         *)
(* Manager and display task run on one core and give way to each other at  *)
(* every send and receive; the host link fills the queue from the other    *)
(* core at any time, and the ticker runs on whatever they do. A mode       *)
(* counts by its picture: Pictures are also the bytes that draw them.      *)
(***************************************************************************)
EXTENDS Integers, Sequences, SequencesExt

CONSTANTS
  Pictures,      \* what the text mode may show besides the empty screen
  Txns,          \* what the host sends, each a sequence of bytes
  QueueDepth,    \* of HOST_TXN_CHANNEL
  ChanDepth,     \* of DISPLAY_CHANNEL (4096)
  BulkCapacity,  \* of bulk_buf (4096)
  FrameLen,      \* bytes of a grid (2 * COLS * ROWS)
  TextDl, TuiDl, \* length of the display lists of the modes (11 and 3)
  MaxBacklog     \* bound on the ticks that a manager which is late has before it

SWITCH_MODE_OPCODE == 255
MODE_TEXT == 0
MODE_TUI  == 1
Empty     == 32      \* the picture of a new screen

ASSUME ModesAssumption ==
  /\ Pictures \subseteq 2 .. 254 \ {Empty}
  /\ \A txn \in Txns : txn \in Seq(0 .. 255) /\ txn # <<>>
  /\ {QueueDepth, ChanDepth, FrameLen, MaxBacklog} \subseteq Nat \ {0}
  /\ {TextDl, TuiDl} \subseteq Nat \ {0, 1}
  /\ BulkCapacity \in Nat /\ BulkCapacity >= FrameLen

VARIABLES
  hostQ, backlog,            \* transactions and ticks that wait for the manager
  mpc, renderPending,        \* modes_task: place, flag
  active, text, tui,         \* the modes: which one, the state of each
  out,                       \* render: the commands it has not sent yet
  chan,                      \* DISPLAY_CHANNEL
  dpc, bulkAddr, bulkBuf,    \* display_task: place, bulk_addr is set, bulk_buf
  written,                   \* bytes of bulk_buf that the chip has
  ramG, ramDl,               \* EVE: picture memory, the display list that is written
  front, swapping,           \* EVE: the list it obeys, a swap was asked for
  \* what the properties talk about: frames sent and not yet asked for; the frame
  \* asked for last; how far the list of the next one is
  sent, asked, list

managerVars == <<mpc, renderPending, active, text, tui, out>>
bulkVars == <<dpc, bulkAddr, bulkBuf, written>>
chipVars == <<ramG, ramDl, front, swapping>>
displayVars == <<bulkVars, chipVars, asked, list>>
vars == <<hostQ, backlog, managerVars, chan, displayVars, sent>>

-----------------------------------------------------------------------------
(* The modes as the manager sees them. *)

NewText == [pic |-> Empty, cursor |-> TRUE, dirty |-> TRUE]
NewTui  == [dirty |-> TRUE]

\* consume: bytes that draw mark the mode dirty, and the last picture stays.
\* Mutant: not when they only change the picture.
Drawn(bytes) == {i \in DOMAIN bytes : bytes[i] \in Pictures}
ConsumedQuietly(m, bytes) ==
  CASE Drawn(bytes) = {}    -> m
    [] Drawn(bytes) # {} /\ m.active = MODE_TEXT ->
         [m EXCEPT !.text.pic = bytes[Max(Drawn(bytes))], !.text.cursor = FALSE]
    [] Drawn(bytes) # {} /\ m.active = MODE_TUI  -> [m EXCEPT !.tui.dirty = TRUE]
Consumed(m, bytes) ==
  CASE Drawn(bytes) = {}    -> m
    [] Drawn(bytes) # {} /\ m.active = MODE_TEXT ->
         [m EXCEPT !.text = [pic |-> bytes[Max(Drawn(bytes))], cursor |-> FALSE, dirty |-> TRUE]]
    [] Drawn(bytes) # {} /\ m.active = MODE_TUI  -> [m EXCEPT !.tui.dirty = TRUE]

\* handle_mode_switch and reset: the mode it switches to starts afresh.
\* Mutant: a mode that was there before stays as it was left.
SwitchedKept(m, b) == IF b \in {MODE_TEXT, MODE_TUI} THEN [m EXCEPT !.active = b] ELSE m
Switched(m, b) ==
  CASE b = MODE_TEXT -> [m EXCEPT !.active = b, !.text = NewText]
    [] b = MODE_TUI  -> [m EXCEPT !.active = b, !.tui = NewTui]
    [] OTHER         -> m

\* handle_consume of every byte: after the opcode comes the mode, and what is left
\* is for the mode that is active then.
Handled(m, txn) ==
  IF txn[1] # SWITCH_MODE_OPCODE THEN Consumed(m, txn)
  ELSE Consumed(IF Len(txn) > 1 THEN Switched(m, txn[2]) ELSE m, SubSeq(txn, 3, Len(txn)))

\* handle_txn of the oldest transaction.
HandleTxn ==
  LET m == Handled([active |-> active, text |-> text, tui |-> tui], Head(hostQ))
  IN /\ hostQ # <<>>
     /\ hostQ' = Tail(hostQ)
     /\ active' = m.active /\ text' = m.text /\ tui' = m.tui

\* tick: the text mode may blink.
Ticked == {text} \cup (IF active = MODE_TEXT THEN {[text EXCEPT !.cursor = ~@, !.dirty = TRUE]} ELSE {})

-----------------------------------------------------------------------------
(* A frame as render sends it, and as the panel shows it. *)

Op(op)    == [op |-> op]
EndMark   == <<0, 0>>     \* the command DISPLAY
Grid(t)   == [i \in 1 .. FrameLen |-> <<t.pic, t.cursor, i>>]
List(m)   == LET n == IF m = MODE_TEXT THEN TextDl ELSE TuiDl
             IN [i \in 1 .. n |-> IF i = n THEN EndMark ELSE <<m, i>>]
DlCmds(m) == [i \in DOMAIN List(m) |-> [op |-> "write", at |-> i, entry |-> List(m)[i]]]

\* Mutant: the list is swapped in before the grid is there.
TextFrameEarly(grid) ==
  DlCmds(MODE_TEXT) \o <<Op("swap"), Op("begin")>>
    \o [i \in 1 .. FrameLen |-> [op |-> "byte", byte |-> grid[i]]] \o <<Op("end")>>
TextFrame(grid) ==
  <<Op("begin")>> \o [i \in 1 .. FrameLen |-> [op |-> "byte", byte |-> grid[i]]]
    \o <<Op("end")>> \o DlCmds(MODE_TEXT) \o <<Op("swap")>>
TuiFrame == DlCmds(MODE_TUI) \o <<Op("swap")>>

\* The chip obeys a list up to its end mark. Only the list of the text mode shows the grid.
Obeyed(dl) == SubSeq(dl, 1, CHOOSE n \in DOMAIN dl :
                dl[n] = EndMark /\ \A i \in 1 .. n - 1 : dl[i] # EndMark)
Scene(dl, grid) == [list |-> dl, grid |-> IF dl = List(MODE_TEXT) THEN grid ELSE <<>>]

\* What is on the panel: the picture memory as it is now.
Panel == Scene(Obeyed(front), ramG)

\* No frame: none was asked for yet, or its list was torn.
Nothing == Scene(<<>>, <<>>)

\* What is to be seen, and whether it has to be drawn.
View  == Scene(List(active), Grid(text))
Dirty == IF active = MODE_TEXT THEN text.dirty ELSE tui.dirty

FrameOf(m, t, u) ==
  IF m = MODE_TEXT THEN IF t.dirty THEN TextFrame(Grid(t)) ELSE <<>>
  ELSE IF u.dirty THEN TuiFrame ELSE <<>>

-----------------------------------------------------------------------------

Init ==
  /\ hostQ = <<>> /\ backlog = 0
  /\ mpc = "wait" /\ renderPending = FALSE
  /\ active = MODE_TEXT /\ text = NewText /\ tui = NewTui
  /\ out = <<>> /\ chan = <<>>
  /\ dpc = "receive" /\ bulkAddr = FALSE /\ bulkBuf = <<>> /\ written = 0
  /\ ramG = [i \in 1 .. FrameLen |-> <<0, FALSE, 0>>]
  /\ ramDl = [i \in 1 .. IF TextDl > TuiDl THEN TextDl ELSE TuiDl |-> EndMark]
  /\ front = ramDl /\ swapping = FALSE
  /\ sent = <<>> /\ asked = Nothing /\ list = "none"

\* The host link puts a transaction into the queue (dropped when it is full), and
\* the ticker counts on.
HostSends(txn) ==
  /\ Len(hostQ) < QueueDepth
  /\ hostQ' = Append(hostQ, txn)
  /\ UNCHANGED <<backlog, managerVars, chan, displayVars, sent>>

TickerTicks ==
  /\ backlog < MaxBacklog
  /\ backlog' = backlog + 1
  /\ UNCHANGED <<hostQ, managerVars, chan, displayVars, sent>>

\* The first select of the loop: a transaction comes before a tick.
WaitTxn ==
  /\ mpc = "wait"
  /\ HandleTxn
  /\ mpc' = "drain"
  /\ UNCHANGED <<backlog, renderPending, out, chan, displayVars, sent>>

WaitTick ==
  /\ mpc = "wait" /\ hostQ = <<>> /\ backlog > 0
  /\ backlog' = backlog - 1
  /\ renderPending' = TRUE
  /\ mpc' = "drain"
  /\ UNCHANGED <<hostQ, active, text, tui, out, chan, displayVars, sent>>

\* The loops of try_receive_txn.
Drain ==
  /\ mpc \in {"drain", "drained late"}
  /\ IF hostQ # <<>> THEN HandleTxn /\ UNCHANGED mpc
     ELSE /\ mpc' = IF mpc = "drain" /\ renderPending THEN "check" ELSE "wait"
          /\ UNCHANGED <<hostQ, active, text, tui>>
  /\ UNCHANGED <<backlog, renderPending, out, chan, displayVars, sent>>

\* The second select: a transaction that came since puts the rendering off.
CheckTxn ==
  /\ mpc = "check"
  /\ HandleTxn
  /\ mpc' = "drained late"
  /\ UNCHANGED <<backlog, renderPending, out, chan, displayVars, sent>>

CheckRender ==
  /\ mpc = "check" /\ hostQ = <<>>
  /\ renderPending' = FALSE
  /\ text' \in Ticked
  /\ out' = FrameOf(active, text', tui)
  /\ mpc' = IF out' = <<>> THEN "wait" ELSE "render"
  /\ UNCHANGED <<hostQ, backlog, active, tui, chan, displayVars, sent>>

\* Mutant: a command that finds the channel full goes in all the same.
RoomAlways == TRUE
Room == Len(chan) < ChanDepth

\* One command of the frame; the last one makes the mode clean.
Send ==
  /\ mpc = "render" /\ Room
  /\ chan' = Append(chan, Head(out))
  /\ out' = Tail(out)
  /\ IF Tail(out) # <<>> THEN UNCHANGED <<mpc, text, tui, sent>>
     ELSE /\ mpc' = "wait"
          /\ text' = IF active = MODE_TEXT THEN [text EXCEPT !.dirty = FALSE] ELSE text
          /\ tui' = IF active = MODE_TUI THEN [tui EXCEPT !.dirty = FALSE] ELSE tui
          /\ sent' = Append(sent, View)
  /\ UNCHANGED <<hostQ, backlog, renderPending, active, displayVars>>

Manager == WaitTxn \/ WaitTick \/ Drain \/ CheckTxn \/ CheckRender \/ Send

-----------------------------------------------------------------------------
(* display_task: one command, one transaction with the chip at most. *)

\* Mutant: the next command is taken while a bulk is still being written.
TakeUnawaited(op) ==
  /\ chan # <<>> /\ Head(chan).op = op
  /\ chan' = Tail(chan)
  /\ UNCHANGED <<hostQ, backlog, managerVars>>
Take(op) ==
  /\ dpc = "receive"
  /\ chan # <<>> /\ Head(chan).op = op
  /\ chan' = Tail(chan)
  /\ UNCHANGED <<hostQ, backlog, managerVars>>

BeginBulk ==
  /\ Take("begin")
  /\ bulkAddr' = TRUE /\ bulkBuf' = <<>>
  /\ UNCHANGED <<dpc, written, chipVars, sent, asked, list>>

BulkByte ==
  /\ Take("byte")
  /\ bulkBuf' = IF Len(bulkBuf) < BulkCapacity THEN Append(bulkBuf, Head(chan).byte) ELSE bulkBuf
  /\ UNCHANGED <<dpc, bulkAddr, written, chipVars, sent, asked, list>>

EndBulk ==
  /\ Take("end")
  /\ bulkAddr' = FALSE
  /\ dpc' = IF bulkAddr THEN "bulk" ELSE dpc
  /\ UNCHANGED <<bulkBuf, written, chipVars, sent, asked, list>>

\* exec_bulk: the bytes go out one after the other, and are seen at once.
BulkWrite ==
  /\ dpc = "bulk" /\ written < Len(bulkBuf)
  /\ ramG' = [ramG EXCEPT ![written + 1] = bulkBuf[written + 1]]
  /\ written' = written + 1
  /\ UNCHANGED <<hostQ, backlog, managerVars, chan, dpc, bulkAddr, bulkBuf, ramDl, front, swapping,
                 sent, asked, list>>

BulkDone ==
  /\ dpc = "bulk" /\ written = Len(bulkBuf)
  /\ dpc' = "receive" /\ bulkBuf' = <<>> /\ written' = 0
  /\ UNCHANGED <<hostQ, backlog, managerVars, chan, bulkAddr, chipVars, sent, asked, list>>

Write32 ==
  /\ Take("write")
  /\ ramDl' = [ramDl EXCEPT ![Head(chan).at] = Head(chan).entry]
  /\ list' = IF list = "none" THEN "begun" ELSE list
  /\ UNCHANGED <<bulkVars, ramG, front, swapping, sent, asked>>

\* REG_DLSWAP: asks for what is in the memories of the chip.
Swap ==
  /\ Take("swap")
  /\ swapping' = TRUE
  /\ sent' = IF sent = <<>> THEN sent ELSE Tail(sent)
  /\ asked' = IF list = "torn" THEN Nothing ELSE Scene(Obeyed(ramDl), ramG)
  /\ list' = "none"
  /\ UNCHANGED <<bulkVars, ramG, ramDl, front>>

DisplayTask == BeginBulk \/ BulkByte \/ EndBulk \/ BulkWrite \/ BulkDone \/ Write32 \/ Swap

\* The chip is through with a frame (DLSWAP_FRAME). It keeps two lists, and what
\* it gives the display task to write is not known. A list that was begun is in
\* two pieces then.
FrameEnd ==
  /\ swapping
  /\ swapping' = FALSE
  /\ front' = ramDl
  /\ ramDl' \in {ramDl, front}
  /\ list' = IF list = "begun" THEN "torn" ELSE list
  /\ UNCHANGED <<hostQ, backlog, managerVars, chan, bulkVars, ramG, sent, asked>>

Next == (\E txn \in Txns : HostSends(txn)) \/ TickerTicks \/ Manager \/ DisplayTask \/ FrameEnd

Spec == Init /\ [][Next]_vars

\* Two hardware timers, and two tasks of an executor that runs every task that can go on.
FairSpec ==
  /\ Spec
  /\ WF_vars(TickerTicks) /\ WF_vars(FrameEnd) /\ WF_vars(Manager) /\ WF_vars(DisplayTask)

-----------------------------------------------------------------------------

TypeOK ==
  /\ Len(hostQ) <= QueueDepth /\ backlog \in 0 .. MaxBacklog
  /\ mpc \in {"wait", "drain", "check", "drained late", "render"}
  /\ mpc = "render" <=> out # <<>>
  /\ renderPending \in BOOLEAN /\ active \in {MODE_TEXT, MODE_TUI}
  /\ text \in [pic : Pictures \cup {Empty}, cursor : BOOLEAN, dirty : BOOLEAN]
  /\ tui \in [dirty : BOOLEAN]
  /\ Len(chan) <= ChanDepth /\ Len(bulkBuf) <= BulkCapacity
  /\ dpc \in {"receive", "bulk"}
  /\ bulkBuf # <<>> => bulkAddr \/ dpc = "bulk"
  /\ written \in 0 .. Len(bulkBuf)
  /\ swapping \in BOOLEAN /\ list \in {"none", "begun", "torn"}

\* A mode that is not dirty has what it shows on the panel or on its way there:
\* otherwise it would stay unseen until somebody types. Switching back and forth,
\* blinks and transactions between render requests do not lose a redraw. Only a
\* frame whose list was torn is not drawn again.
Newest == IF sent = <<>> THEN asked ELSE sent[Len(sent)]
CleanIsDrawn == ~Dirty => Newest \in {View, Nothing}

\* Frames get into the memories of the chip whole, in order and once each,
\* though they go byte by byte through a channel that may be shorter than a
\* frame: each swap asks for the frame sent first of those not yet asked for. Only
\* where the chip did the previous swap between two entries of a list is the frame
\* of that list lost.
Frames ==
  {Scene(List(MODE_TUI), <<>>)} \cup
  {Scene(List(MODE_TEXT), Grid([pic |-> p, cursor |-> c])) : p \in Pictures \cup {Empty}, c \in BOOLEAN}

FramePipe == INSTANCE Pipe WITH
  Items <- Frames, None <- Nothing, Room <- 0, lossy <- FALSE, spoils <- list = "torn",
  offer <- IF mpc = "render" THEN View ELSE Nothing, queue <- sent, last <- asked
FramesIntact == FramePipe!Spec

\* The panel may show half of a grid, or half of a list, while a frame is written.
\* Once a swap is done the chip obeys the list it asked for, until it swaps again
\* in the middle of the next one; and when no frame is on its way any more, what
\* is on the panel is the frame asked for last, grid and all.
PanelShows ==
  asked # Nothing /\ ~swapping /\ list # "torn" =>
    /\ Obeyed(front) = asked.list
    /\ sent = <<>> /\ mpc # "render" => Panel = asked

\* Once the host stops sending the panel gets to what the active mode shows, and
\* follows its blinking from then on (if the list was not torn). Without the pause
\* it need not: the manager renders only when it finds the queue empty.
PanelSettles == <>[](hostQ = <<>>) => []<>(Panel = View \/ asked = Nothing)
=============================================================================

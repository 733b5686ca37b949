----------------------------- MODULE UsbKeyboard -----------------------------
(***************************************************************************)
(* The USB keyboard task of the console (keyboard.rs) with its controller  *)
(* chip, the bus and whoever plugs keyboards in and types on them.         *)
(*                                                                         *)
(* A token and its result is one step, and the bus may lose or spoil any   *)
(* of them; the device changes its state when the last token of a request  *)
(* succeeds. Waiting for frames and interrupts takes time only. Data       *)
(* toggles and acknowledgements are the chip's business.                   *)
(***************************************************************************)
EXTENDS Keymap, FiniteSets, SequencesExt

CONSTANTS
  Keys,            \* keycodes of the keyboard in use
  Configs,         \* configuration descriptors of the devices there are
  SLOTS,           \* keys a report has room for (6)
  MaxHeld,         \* keys held at once
  MAX_PACKET,      \* bytes of a packet (8)
  NAK_LIMIT,       \* 200
  NAK_LIMIT_HID,   \* 3
  RETRY_LIMIT,     \* 3
  KeyDepth         \* of KEYBOARD_CHANNEL (64)

Byte     == 0 .. 255
ROLLOVER == 1      \* the keycode that fills the report when too many keys are held

ASSUME KeyboardAssumption ==
  /\ IsFiniteSet(Keys) /\ Keys \subseteq 4 .. 223
  /\ Configs \subseteq Seq(Byte) /\ \A c \in Configs : Len(c) \in 4 .. 256   \* config_buf
  /\ {SLOTS, MAX_PACKET, NAK_LIMIT, NAK_LIMIT_HID, RETRY_LIMIT, KeyDepth} \subseteq Nat \ {0}
  /\ MaxHeld \in Nat

VARIABLES
  dev, config,      \* what is plugged in: "none" or its USB state; its descriptor
  held, shift,      \* keys held down on it, and whether one of its shift keys is
  connirq, peraddr, \* CONNIRQ and PERADDR of the chip
  pc, step,         \* keyboard_task: place, and place in the enumeration
  blob,             \* config_buf, empty until its size is known
  naks, tries,      \* nak_count and retry_count
  prev,             \* the last report
  typing,           \* bytes of the new keys that still have to be queued
  queue,            \* KEYBOARD_CHANNEL
  owed              \* history: presses that were not typed yet, by key

deviceVars == <<dev, config, held, shift>>
countVars  == <<naks, tries>>
taskVars   == <<pc, step, blob, countVars, prev, typing>>
vars       == <<deviceVars, connirq, peraddr, taskVars, queue, owed>>

-----------------------------------------------------------------------------

\* find_hid_ep: the first interrupt IN endpoint among the descriptors.
FindHidEp(data) ==
  LET at(i) == data[i + 1]
      walk[i \in 0 .. Len(data)] ==
        CASE i + 2 > Len(data)                   -> {}
          [] at(i) = 0 \/ i + at(i) > Len(data)  -> {}
          [] at(i + 1) = 5 /\ at(i) >= 6 /\ at(i + 3) = 3 /\ at(i + 2) >= 128
               -> {[addr |-> at(i + 2), maxPacket |-> at(i + 4)]}
          [] OTHER -> walk[i + at(i)]
  IN walk[0]

IsKeyboard == FindHidEp(config) # {}

\* enumerate: what it asks of the bus, step by step. DEVICE, CONFIG_SIZE and CONFIG
\* are its three GET_DESCRIPTOR requests.
BusReset        == [op |-> "reset"]
PerAddr(a)      == [op |-> "peraddr", addr |-> a]
Tok(stage, req) == [op |-> "token", stage |-> stage, req |-> req]

\* Up to the request for the whole descriptor, the packets of its answer, the rest.
FirstSteps ==
  <<BusReset, PerAddr(0), Tok("setup", "DEVICE"), Tok("in", "DEVICE"),
    BusReset, Tok("setup", "SET_ADDRESS"), Tok("inhs", "SET_ADDRESS"), PerAddr(1),
    Tok("setup", "CONFIG_SIZE"), Tok("in", "CONFIG_SIZE"), Tok("setup", "CONFIG")>>

Packets(b) == (Len(b) + MAX_PACKET - 1) \div MAX_PACKET
Answers(b) == [i \in 1 .. Packets(b) |-> Tok("in", "CONFIG")]

LastSteps ==
  <<Tok("setup", "SET_CONFIGURATION"), Tok("inhs", "SET_CONFIGURATION"),
    Tok("setup", "SET_PROTOCOL"), Tok("inhs", "SET_PROTOCOL")>>

Steps(b) == FirstSteps \o Answers(b) \o LastSteps
Script   == Steps(blob)

\* The device after a token that succeeded.
DeviceAfter(tok) ==
  CASE tok.stage # "inhs"            -> dev
    [] tok.req = "SET_ADDRESS"       -> "address"
    [] tok.req = "SET_CONFIGURATION" -> "configured"
    [] tok.req = "SET_PROTOCOL"      -> "boot"

-----------------------------------------------------------------------------

Reports == [shift : BOOLEAN, keys : SUBSET (Keys \cup {ROLLOVER})]
NoKeys  == [shift |-> FALSE, keys |-> {}]

\* What the keyboard has to say. A set, for the keys come in any order.
Report ==
  [shift |-> shift, keys |-> IF Cardinality(held) <= SLOTS THEN held ELSE {ROLLOVER}]

\* process_report: the keys that are to be typed, those that prev does not have.
\* Mutant: prev is not looked at.
NewKeysAll(curr) == IF curr = prev THEN {} ELSE curr.keys
NewKeys(curr) == IF curr = prev THEN {} ELSE curr.keys \ prev.keys

Typings(curr) ==
  {FlattenSeq([i \in DOMAIN order |-> Typed(order[i], curr.shift)]) :
     order \in SetToSeqs(NewKeys(curr))}

\* A device answers tokens to the address it has, once a reset made it listen.
Listens ==
  \/ dev = "default" /\ peraddr = 0
  \/ dev \in {"address", "configured", "boot"} /\ peraddr = 1

Results == IF Listens THEN {"ok", "nak", "timeout", "error"} ELSE {"timeout", "error"}

\* dispatch_pkt: the results after which it sends the token again.
Retried(r, nakLimit) ==
  \/ r = "nak" /\ naks + 1 < nakLimit
  \/ r = "timeout" /\ tries + 1 < RETRY_LIMIT

Counted(r) ==
  /\ naks' = IF r = "nak" THEN naks + 1 ELSE naks
  /\ tries' = IF r = "timeout" THEN tries + 1 ELSE tries

NotCounted == naks' = 0 /\ tries' = 0

-----------------------------------------------------------------------------

Init ==
  /\ dev \in {"none", "powered"} /\ config \in Configs
  /\ held = {} /\ shift = FALSE
  /\ connirq = FALSE /\ peraddr = 0
  /\ pc = "wait" /\ step = 1 /\ blob = <<>> /\ naks = 0 /\ tries = 0
  /\ prev = NoKeys /\ typing = <<>> /\ queue = <<>>
  /\ owed = [k \in Keys |-> 0]

\* From the last token of the enumeration to the clearing of CONNIRQ there are only
\* some instructions: nobody changes the keyboard in that time.
Hurried == pc = "stale" \/ (pc = "enum" /\ step > Len(Script))

Plug ==
  /\ dev = "none" /\ ~Hurried
  /\ dev' = "powered" /\ config' \in Configs
  /\ connirq' = TRUE
  /\ UNCHANGED <<held, shift, peraddr, taskVars, queue, owed>>

Unplug ==
  /\ dev # "none"
  /\ dev' = "none" /\ held' = {} /\ shift' = FALSE
  /\ connirq' = TRUE
  /\ owed' = [k \in Keys |-> 0]
  /\ UNCHANGED <<config, peraddr, taskVars, queue>>

Press(k) ==
  /\ dev # "none" /\ k \notin held
  /\ held' = held \cup {k} /\ Cardinality(held') <= MaxHeld
  /\ owed' = [owed EXCEPT ![k] = 1]
  /\ UNCHANGED <<dev, config, shift, connirq, peraddr, taskVars, queue>>

Release(k) ==
  /\ k \in held
  /\ held' = held \ {k}
  /\ UNCHANGED <<dev, config, shift, connirq, peraddr, taskVars, queue, owed>>

Shift ==
  /\ dev # "none"
  /\ shift' = ~shift
  /\ UNCHANGED <<dev, config, held, connirq, peraddr, taskVars, queue, owed>>

\* The host link takes a byte (get_char).
GetChar ==
  /\ queue # <<>>
  /\ queue' = Tail(queue)
  /\ UNCHANGED <<deviceVars, connirq, peraddr, taskVars, owed>>

-----------------------------------------------------------------------------
(* keyboard_task *)

\* wait_for_connect: the sample of J and K, then the write that clears CONNIRQ.
Sample ==
  /\ pc = "wait" /\ dev # "none"
  /\ pc' = "seen"
  /\ UNCHANGED <<deviceVars, connirq, peraddr, step, blob, countVars, prev, typing, queue, owed>>

ClearSeen ==
  /\ pc = "seen"
  /\ connirq' = FALSE
  /\ pc' = "enum" /\ step' = 1
  /\ UNCHANGED <<deviceVars, peraddr, blob, countVars, prev, typing, queue, owed>>

AtStep(op) == pc = "enum" /\ step <= Len(Script) /\ Script[step].op = op

\* reset_bus: the chip may take the reset for a change of connection.
EnumReset ==
  /\ AtStep("reset")
  /\ dev' = IF dev = "none" THEN dev ELSE "default"
  /\ connirq' \in {connirq, TRUE}
  /\ step' = step + 1
  /\ UNCHANGED <<config, held, shift, peraddr, pc, blob, countVars, prev, typing, queue, owed>>

EnumPerAddr ==
  /\ AtStep("peraddr")
  /\ peraddr' = Script[step].addr
  /\ step' = step + 1
  /\ UNCHANGED <<deviceVars, connirq, pc, blob, countVars, prev, typing, queue, owed>>

\* A step that fails sends the task back to wait_for_connect.
\* Mutant: the enumeration goes on.
FailedOn == step' = step + 1 /\ UNCHANGED <<pc, blob>>
Failed   == pc' = "wait" /\ step' = 1 /\ blob' = <<>>

EnumToken(r) ==
  /\ AtStep("token") /\ r \in Results
  /\ IF Retried(r, NAK_LIMIT) THEN Counted(r) /\ UNCHANGED <<dev, pc, step, blob>>
     ELSE /\ NotCounted
          /\ IF r # "ok" THEN Failed /\ UNCHANGED dev
             ELSE /\ dev' = DeviceAfter(Script[step])
                  /\ blob' = IF Script[step] = Tok("in", "CONFIG_SIZE") THEN config ELSE blob
                  /\ step' = step + 1
                  /\ UNCHANGED pc
  /\ UNCHANGED <<config, held, shift, connirq, peraddr, prev, typing, queue, owed>>

EnumDone ==
  /\ pc = "enum" /\ step > Len(Script)
  /\ pc' = IF FindHidEp(blob) # {} THEN "stale" ELSE "wait"
  /\ step' = 1 /\ blob' = <<>>
  /\ UNCHANGED <<deviceVars, connirq, peraddr, countVars, prev, typing, queue, owed>>

\* poll_hid: CONNIRQ is left over from the resets.
\* Mutant: it is left set.
StaleKept    == connirq' = connirq
StaleCleared == connirq' = FALSE

ClearStale ==
  /\ pc = "stale"
  /\ StaleCleared
  /\ prev' = NoKeys
  /\ pc' = "poll"
  /\ UNCHANGED <<deviceVars, peraddr, step, blob, countVars, typing, queue, owed>>

Poll ==
  /\ pc = "poll"
  /\ pc' = IF connirq THEN "bail" ELSE "report"
  /\ UNCHANGED <<deviceVars, connirq, peraddr, step, blob, countVars, prev, typing, queue, owed>>

Bail ==
  /\ pc = "bail"
  /\ connirq' = FALSE
  /\ pc' = "wait"
  /\ UNCHANGED <<deviceVars, peraddr, step, blob, countVars, prev, typing, queue, owed>>

\* in_transfer of a report, which is one packet, and process_report.
PollToken(r) ==
  /\ pc = "report" /\ r \in Results
  /\ IF Retried(r, NAK_LIMIT_HID) THEN Counted(r) /\ UNCHANGED <<pc, prev, typing, owed>>
     ELSE /\ NotCounted
          /\ IF r # "ok" THEN pc' = "poll" /\ UNCHANGED <<prev, typing, owed>>
             ELSE /\ typing' \in Typings(Report)
                  /\ owed' = [k \in Keys |-> IF k \in NewKeys(Report) THEN owed[k] - 1 ELSE owed[k]]
                  /\ prev' = Report
                  /\ pc' = "type"
  /\ UNCHANGED <<deviceVars, connirq, peraddr, step, blob, queue>>

\* enqueue_key: waits for room.
\* Mutant: it does not.
RoomAlways == TRUE
Room == Len(queue) < KeyDepth

Enqueue ==
  /\ pc = "type" /\ typing # <<>> /\ Room
  /\ queue' = Append(queue, Head(typing))
  /\ typing' = Tail(typing)
  /\ UNCHANGED <<deviceVars, connirq, peraddr, pc, step, blob, countVars, prev, owed>>

Enqueued ==
  /\ pc = "type" /\ typing = <<>>
  /\ pc' = "poll"
  /\ UNCHANGED <<deviceVars, connirq, peraddr, step, blob, countVars, prev, typing, queue, owed>>

Token(r) == EnumToken(r) \/ PollToken(r)

Task ==
  \/ Sample \/ ClearSeen \/ EnumReset \/ EnumPerAddr \/ EnumDone
  \/ ClearStale \/ Poll \/ Bail \/ Enqueue \/ Enqueued
  \/ \E r \in Results : Token(r)

User == Plug \/ Unplug \/ Shift \/ \E k \in Keys : Press(k) \/ Release(k)

Next == Task \/ User \/ GetChar

Spec == Init /\ [][Next]_vars

\* The executor runs the task whenever it can go on, and the program on the 6502
\* keeps asking for characters.
FairSpec == Spec /\ WF_vars(Task) /\ WF_vars(GetChar)

-----------------------------------------------------------------------------

Polling == {"poll", "report", "type"}

\* Types; no byte 0 is ever queued, which get_char's caller takes for no key.
TypeOK ==
  /\ dev \in {"none", "powered", "default", "address", "configured", "boot"}
  /\ config \in Configs
  /\ held \subseteq Keys /\ shift \in BOOLEAN
  /\ connirq \in BOOLEAN /\ peraddr \in {0, 1}
  /\ pc \in {"wait", "seen", "enum", "stale", "bail"} \cup Polling
  /\ blob \in Configs \cup {<<>>} /\ step \in 1 .. Len(Script) + 1
  /\ naks \in 0 .. NAK_LIMIT + NAK_LIMIT_HID /\ tries \in 0 .. RETRY_LIMIT - 1
  /\ prev \in Reports
  /\ typing \in Seq(Byte \ {0})
  /\ queue \in Seq(Byte \ {0}) /\ Len(queue) <= KeyDepth

\* While the task polls, the device it polls is the one it enumerated, ready and at
\* the address it is polled at; or it is gone, or CONNIRQ will tell the task so.
\* Otherwise a keyboard could sit on the bus and never be heard.
PollsReady == pc \in Polling => (dev = "boot" /\ peraddr = 1) \/ dev = "none" \/ connirq

\* A press is typed once at most: not again while the key stays down and others
\* come and go, nor after errors and timeouts, nor by a second enumeration.
TypedOnce == \A k \in Keys : owed[k] >= 0

\* Something goes wrong on a bus whose device listens.
Healthy == {"ok"} \cup (IF pc = "report" /\ Report = prev THEN {"nak"} ELSE {})
Fault == Listens /\ \E r \in Results \ Healthy : Token(r)

\* Whatever happened before, once a keyboard stays plugged in, the bus works and the
\* keys stay as they are, the task knows which are held and has typed them.
KeysSeen ==
  <>[](dev # "none" /\ IsKeyboard) /\ <>[][~Fault /\ held' = held /\ shift' = shift]_vars
    => <>[](pc \in Polling /\ prev = Report)
=============================================================================

--------------------------- MODULE SpiController ---------------------------
(***************************************************************************)
(* The SPI controller in the FPGA (controller.v, synchronizer.v,           *)
(* byte_engine.v, piso_register.v, sipo_register.v), the 6502 that drives  *)
(* it (kernel/spi.s) and the device at the other end of the wire. The bus  *)
(* of the 6502 and the clock of the FPGA are not synchronous: a bus access *)
(* falls anywhere between two clock edges. Clock is one rising edge, at    *)
(* which all registers of the FPGA change together.                        *)
(*                                                                         *)
(* A byte is a sequence of Bits bits, the most significant first. The one  *)
(* data_temp of the code is here dataTemp and confTemp, as a byte and a    *)
(* configuration are different things. The div of a configuration is its   *)
(* clock setting; the number of the chip select goes the same way and is   *)
(* left out: there is one device.                                          *)
(***************************************************************************)
EXTENDS Integers, Sequences

CONSTANTS
  Bits,        \* bits of a byte (8)
  Bytes,       \* the bytes the 6502 and the device send
  Dividers,    \* clk_divider settings (63, 31, 15, 7)
  MinGap,      \* FPGA clocks between two bus accesses, at least: an LDA or STA
               \* takes four cycles of the 6502, the FPGA has 16 MHz
  Polls        \* TRUE: the 6502 writes data only when it saw Busy clear

None  == <<>>
Zeros == [i \in 1 .. Bits |-> 0]
Confs == [on : BOOLEAN, div : Dividers]

ASSUME SpiAssumption ==
  /\ Bits \in Nat \ {0}
  /\ Bytes \subseteq [1 .. Bits -> {0, 1}] /\ Bytes # {}
  /\ Dividers \subseteq Nat \ {0}
  /\ \E d \in Dividers : \A e \in Dividers : e <= d
  /\ MinGap \in Nat /\ MinGap >= 4
  /\ Polls \in BOOLEAN

SlowestDiv == CHOOSE d \in Dividers : \A e \in Dividers : e <= d

VARIABLES
  pc, acc, since,                     \* the 6502; clocks since its last access
  toggle, dataTemp, confTemp, regTemp,    \* written by the bus strobe
  stage0, stage1, prev, tick,         \* synchronizer; write_tick
  conf, start, txData,                \* controller
  state, bitCount, sck, clkDiv, active,   \* byte_engine
  piso, mosi, rx,                     \* its shift registers
  devIn, devOut,                      \* device: bits received, bits left to send
  got, dev,                           \* its byte received, its byte to send
  \* what the properties talk about: the byte under way, the configuration
  \* written last, whether the byte written last and the one under way were
  \* written while the controller was busy
  sending, lastConf, late, sentLate

busVars  == <<toggle, dataTemp, confTemp, regTemp>>
syncVars == <<stage0, stage1, prev, tick>>
ctlVars  == <<conf, start, txData>>
engVars  == <<state, bitCount, sck, clkDiv, active, piso, mosi, rx>>
devVars  == <<devIn, devOut, got, dev>>
vars == <<pc, acc, since, busVars, syncVars, ctlVars, engVars, devVars, sending, lastConf,
          late, sentLate>>

ResetConf == [on |-> FALSE, div |-> SlowestDiv]
BusyLate  == state # "Idle"
Busy      == state # "Idle" \/ start

Init ==
  /\ pc = "idle" /\ acc = ResetConf /\ since = MinGap
  /\ toggle = 0 /\ dataTemp = Zeros /\ confTemp = ResetConf /\ regTemp = "data"
  /\ stage0 = 0 /\ stage1 = 0 /\ prev = 0 /\ tick = FALSE
  /\ conf = ResetConf /\ start = FALSE /\ txData = Zeros
  /\ state = "Idle" /\ bitCount = 0 /\ sck = 0 /\ clkDiv = 0 /\ active = SlowestDiv
  /\ piso = Zeros /\ mosi = 0 /\ rx = Zeros
  /\ dev \in Bytes /\ devIn = <<>> /\ devOut = dev /\ got = Zeros
  /\ sending = Zeros /\ lastConf = ResetConf /\ late = FALSE /\ sentLate = FALSE

-----------------------------------------------------------------------------
(* The 6502: spi_configure, spi_select, spi_deselect, spi_transfer. *)

\* The negative edge of the write strobe.
Strobe(reg) == regTemp' = reg /\ toggle' = 1 - toggle

Access == since >= MinGap /\ since' = 0

WriteConf(c) ==
  /\ Access
  /\ Strobe("conf")
  /\ confTemp' = c
  /\ lastConf' = c
  /\ pc' = "idle"
  /\ UNCHANGED <<acc, dataTemp, syncVars, ctlVars, engVars, devVars, sending, late, sentLate>>

Configure ==
  /\ pc = "idle"
  /\ \E d \in Dividers : WriteConf([on |-> FALSE, div |-> d])

\* SPI_SELECT and SPI_DESELECT read the register and write it back.
ReadConf ==
  /\ pc = "idle" /\ Access
  /\ \E e \in BOOLEAN : acc' = [conf EXCEPT !.on = e]
  /\ pc' = "rmw"
  /\ UNCHANGED <<busVars, syncVars, ctlVars, engVars, devVars, sending, lastConf, late, sentLate>>

WriteBack == pc = "rmw" /\ WriteConf(acc)

\* Nobody writes data with no device selected.
WriteData(b) ==
  /\ pc = "idle" \/ (~Polls /\ pc = "poll")
  /\ lastConf.on
  /\ Access
  /\ Strobe("data")
  /\ dataTemp' = b
  /\ pc' = "poll"
  /\ late' = Busy
  /\ UNCHANGED <<acc, confTemp, syncVars, ctlVars, engVars, devVars, sending, lastConf, sentLate>>

\* SPI_TRANSFER reads the data register when it sees Busy clear; SPI_WRITE
\* does without.
ReadStatus ==
  /\ pc = "poll" /\ Access
  /\ IF Busy THEN UNCHANGED pc ELSE pc' \in {"read", "idle"}
  /\ UNCHANGED <<acc, busVars, syncVars, ctlVars, engVars, devVars, sending, lastConf, late, sentLate>>

ReadData ==
  /\ pc = "read" /\ Access
  /\ pc' = "idle"
  /\ UNCHANGED <<acc, busVars, syncVars, ctlVars, engVars, devVars, sending, lastConf, late, sentLate>>

Cpu ==
  Configure \/ ReadConf \/ WriteBack \/ (\E b \in Bytes : WriteData(b)) \/ ReadStatus \/ ReadData

-----------------------------------------------------------------------------
(* One clock of the FPGA. *)

SynchronizeRising ==
  /\ stage0' = toggle
  /\ stage1' = stage0
  /\ prev' = stage1
  /\ tick' = (stage1 = 1 /\ prev = 0)

\* synchronizer: two stages, then a tick for either edge.
Synchronize ==
  /\ stage0' = toggle
  /\ stage1' = stage0
  /\ prev' = stage1
  /\ tick' = (stage1 # prev)

ControlHeld ==
  /\ start' = (start \/ (tick /\ regTemp = "data"))
  /\ txData' = IF tick /\ regTemp = "data" THEN dataTemp ELSE txData
  /\ conf' = IF tick /\ regTemp = "conf" THEN confTemp ELSE conf

Control ==
  /\ start' = (tick /\ regTemp = "data")
  /\ txData' = IF tick /\ regTemp = "data" THEN dataTemp ELSE txData
  /\ conf' = IF tick /\ regTemp = "conf" THEN confTemp ELSE conf

NextStateShort ==
  CASE state = "Idle" /\ start -> "Load"
    [] state = "Load" -> "Transfer"
    [] state = "Transfer" /\ bitCount = Bits - 1 /\ sck = 0 -> "Done"
    [] state = "Done" -> "Idle"
    [] OTHER -> state

NextState ==
  CASE state = "Idle" /\ start -> "Load"
    [] state = "Load" -> "Transfer"
    [] state = "Transfer" /\ bitCount = Bits /\ sck = 0 -> "Done"
    [] state = "Done" -> "Idle"
    [] OTHER -> state

ShiftTick == state = "Transfer" /\ clkDiv = active
SckToggles == ShiftTick /\ (bitCount < Bits \/ sck = 1)
Rises == SckToggles /\ sck = 0

CountOn ==
  /\ state' = NextState
  /\ active' = IF state = "Load" THEN conf.div ELSE active
  /\ clkDiv' = IF state \in {"Load", "Done"} THEN 0
               ELSE IF state = "Transfer" THEN clkDiv + 1 ELSE clkDiv
  /\ sck' = IF state = "Done" THEN 0 ELSE IF SckToggles THEN 1 - sck ELSE sck
  /\ bitCount' = IF state = "Done" THEN 0 ELSE IF Rises THEN bitCount + 1 ELSE bitCount

Count ==
  /\ state' = NextState
  /\ active' = IF state = "Load" THEN conf.div ELSE active
  /\ clkDiv' = IF state \in {"Load", "Done"} \/ SckToggles THEN 0
               ELSE IF state = "Transfer" THEN clkDiv + 1 ELSE clkDiv
  /\ sck' = IF state = "Done" THEN 0 ELSE IF SckToggles THEN 1 - sck ELSE sck
  /\ bitCount' = IF state = "Done" THEN 0 ELSE IF Rises THEN bitCount + 1 ELSE bitCount

\* A selected device sends its next bit; nobody else drives the line.
Miso == IF conf.on /\ devOut # <<>> THEN Head(devOut) ELSE 0

ShiftOut(from) == piso' = Append(Tail(from), 0) /\ mosi' = Head(from)

Shift ==
  /\ IF state = "Load" THEN ShiftOut(txData)
     ELSE IF ShiftTick /\ sck = 1 THEN ShiftOut(piso)
     ELSE UNCHANGED <<piso, mosi>>
  /\ rx' = IF ShiftTick /\ sck = 0 THEN Append(Tail(rx), Miso) ELSE rx

\* The device: takes a bit at each rising edge, sends the next one after each
\* falling edge, starts a new byte when it is through with one or deselected.
Device ==
  IF ~conf.on
  THEN /\ devIn' = <<>> /\ devOut' = dev
       /\ UNCHANGED <<got, dev>>
  ELSE /\ IF sck = 0 /\ sck' = 1
          THEN IF Len(devIn) + 1 = Bits
               THEN devIn' = <<>> /\ got' = Append(devIn, mosi)
               ELSE devIn' = Append(devIn, mosi) /\ UNCHANGED got
          ELSE UNCHANGED <<devIn, got>>
       /\ IF state = "Done" /\ devOut = <<>>
          THEN dev' \in Bytes /\ devOut' = dev'
          ELSE /\ devOut' = IF sck = 1 /\ sck' = 0 /\ devOut # <<>> THEN Tail(devOut) ELSE devOut
               /\ UNCHANGED dev

Clock ==
  /\ Synchronize /\ Control /\ Count /\ Shift /\ Device
  /\ since' = IF since < MinGap THEN since + 1 ELSE since
  /\ sending' = IF state = "Idle" /\ start THEN txData ELSE sending
  /\ sentLate' = IF tick /\ regTemp = "data" THEN late ELSE sentLate
  /\ UNCHANGED <<pc, acc, busVars, lastConf, late>>

\* RESB, the reset of the whole machine.
Reset ==
  /\ pc' = "idle" /\ acc' = ResetConf /\ since' = MinGap
  /\ toggle' = 0 /\ dataTemp' = Zeros /\ confTemp' = ResetConf /\ regTemp' = "data"
  /\ stage0' = 0 /\ stage1' = 0 /\ prev' = 0 /\ tick' = FALSE
  /\ conf' = ResetConf /\ start' = FALSE /\ txData' = Zeros
  /\ state' = "Idle" /\ bitCount' = 0 /\ sck' = 0 /\ clkDiv' = 0 /\ active' = SlowestDiv
  /\ piso' = Zeros /\ mosi' = 0 /\ rx' = Zeros
  /\ devIn' = <<>> /\ devOut' = dev /\ got' = Zeros
  /\ sending' = Zeros /\ lastConf' = ResetConf /\ late' = FALSE /\ sentLate' = FALSE
  /\ UNCHANGED dev

Next == Cpu \/ Clock \/ Reset

Spec == Init /\ [][Next]_vars

\* The oscillator runs and the 6502 runs its polling loop.
FairSpec == Spec /\ WF_vars(Clock) /\ WF_vars(ReadStatus \/ ReadData)

-----------------------------------------------------------------------------
(* What the controller promises. *)

Byte == [1 .. Bits -> {0, 1}]

\* Every register has its type, and the divider counter stays within the
\* setting it is compared with.
TypeOK ==
  /\ pc \in {"idle", "rmw", "poll", "read"} /\ since \in 0 .. MinGap
  /\ {acc, conf, confTemp, lastConf} \subseteq Confs
  /\ {dataTemp, txData, piso, rx, got, dev, sending} \subseteq Byte
  /\ {toggle, stage0, stage1, prev, sck, mosi} \subseteq {0, 1}
  /\ {tick, start, late, sentLate} \subseteq BOOLEAN /\ regTemp \in {"data", "conf"}
  /\ state \in {"Idle", "Load", "Transfer", "Done"} /\ bitCount \in 0 .. Bits
  /\ active \in Dividers /\ clkDiv \in 0 .. SlowestDiv
  /\ {Len(devIn), Len(devOut)} \subseteq 0 .. Bits

\* When a program that polls goes on after its byte, the byte is with the
\* device and nothing of the transfer is still under way: the status register
\* is never read in the clocks between the write and the start.
PollsTrue == pc # "poll" /\ regTemp = "data" => ~Busy /\ ~tick /\ got = dataTemp

\* What SPI_SELECT and SPI_DESELECT write back has the settings of the last
\* configuration: the read comes after the previous write has arrived.
SettingsKept == pc = "rmw" => acc.div = lastConf.div

\* The chip select and the rate do not change in the middle of a byte.
SelectStable ==
  [][(conf' # conf /\ Busy) => (conf' = ResetConf /\ state' = "Idle")]_vars

\* Each transfer exchanges one byte of the program for the one byte the device
\* had to send, while the device stays selected; a transfer ends in no other way
\* but by the reset, which clears what both ends received and deselects.
Exchange ==
  INSTANCE ByteExchange WITH
    Bytes <- Bytes \cup {Zeros},
    Cleared <- Zeros,
    selected <- conf.on,
    tx <- IF state # "Idle" THEN sending ELSE IF start THEN txData ELSE None,
    rx <- IF Busy THEN None ELSE rx,
    got <- IF Busy THEN None ELSE got
ByteSwapped == Exchange!Spec

\* A program that waits for its byte gets out of its loop.
ByteReturns == pc = "poll" ~> pc = "idle"

\* README.md, 6: writes to the data register while Busy is set are ignored.
BusyWritesIgnored == state = "Load" => ~sentLate
=============================================================================

------------------------ MODULE SpiController_proofs ------------------------
(***************************************************************************)
(* What a program may rely on without waiting: configurations arrive       *)
(* before they are read back, and never during a byte. Both follow from    *)
(* how long a write takes through the synchronizer.                        *)
(***************************************************************************)
EXTENDS SpiController, SequenceTheorems, TLAPS

\* A write is on its way from the bus strobe to the registers.
Pending == toggle # stage0 \/ stage0 # stage1 \/ stage1 # prev \/ tick

\* The write has moved one stage on with each clock since the last access.
PipelineOK ==
  /\ toggle \in {0, 1}
  /\ since \in 0 .. MinGap
  /\ toggle # stage0 => since = 0
  /\ stage0 # stage1 => since <= 1
  /\ stage1 # prev => since <= 2
  /\ tick => since <= 3

\* The configuration register holds the last one written, or that is on its way.
ConfOK ==
  /\ conf # lastConf => Pending /\ regTemp = "conf"
  /\ regTemp = "conf" => confTemp = lastConf

\* While a byte is on its way or under way, the program polls for it.
PollOK ==
  /\ Pending /\ regTemp = "data" => pc = "poll"
  /\ Busy => pc = "poll" /\ regTemp = "data"

\* The synchronizer has passed everything on before the next access.
LEMMA AccessSettled ==
  ASSUME PipelineOK, since >= MinGap
  PROVE  ~Pending
BY SpiAssumption DEF PipelineOK, Pending

\* The pipeline invariant is inductive: Access restarts the count and Clock
\* moves each stage.
LEMMA PipelineInductive ==
  /\ Init => PipelineOK
  /\ PipelineOK /\ [Next]_vars => PipelineOK'
<1>1. Init => PipelineOK
  BY SpiAssumption DEF Init, PipelineOK
<1>2. PipelineOK /\ [Next]_vars => PipelineOK'
  <2> SUFFICES ASSUME PipelineOK, [Next]_vars PROVE PipelineOK'
    OBVIOUS
  <2>1. CASE Cpu
    <3>1. ~Pending
      BY <2>1, AccessSettled DEF Cpu, Configure, ReadConf, WriteBack, WriteConf, WriteData,
         ReadStatus, ReadData, Access
    <3>2. UNCHANGED syncVars /\ since' = 0
      BY <2>1 DEF Cpu, Configure, ReadConf, WriteBack, WriteConf, WriteData, ReadStatus, ReadData, Access
    <3>3. toggle' = toggle \/ toggle' = 1 - toggle
      BY <2>1 DEF Cpu, Configure, ReadConf, WriteBack, WriteConf, WriteData, ReadStatus, ReadData,
         Strobe, busVars
    <3>4. toggle' \in {0, 1}
      BY <3>3 DEF PipelineOK
    <3> QED
      BY <3>1, <3>2, <3>4, SpiAssumption DEF PipelineOK, Pending, syncVars
  <2>2. CASE Clock
    <3>1. /\ stage0' = toggle /\ stage1' = stage0 /\ prev' = stage1
          /\ tick' = (stage1 # prev) /\ toggle' = toggle
      BY <2>2 DEF Clock, Synchronize, busVars
    <3>2. since' = IF since < MinGap THEN since + 1 ELSE since
      BY <2>2 DEF Clock
    <3>3. since \in Nat /\ since <= MinGap /\ MinGap \in Nat /\ MinGap >= 4
      BY SpiAssumption DEF PipelineOK
    <3>4. since' \in 0 .. MinGap /\ since' <= since + 1
      BY <3>2, <3>3
    <3>5. /\ toggle # stage0 => since' <= 1
          /\ stage0 # stage1 => since' <= 2
          /\ stage1 # prev => since' <= 3
      BY <3>3, <3>4 DEF PipelineOK
    <3>6. tick' => since' <= 3
      BY <3>1, <3>5
    <3> QED
      BY <3>1, <3>4, <3>5, <3>6 DEF PipelineOK
  <2>3. CASE Reset
    BY <2>3, SpiAssumption DEF Reset, PipelineOK
  <2>4. CASE UNCHANGED vars
    BY <2>4 DEF vars, PipelineOK, busVars, syncVars
  <2> QED
    BY <2>1, <2>2, <2>3, <2>4 DEF Next
<1> QED
  BY <1>1, <1>2

\* A clock that does not deliver a pending write moves it on.
LEMMA ClockKeepsPending ==
  ASSUME Clock, Pending
  PROVE  Pending' \/ tick
BY DEF Clock, Synchronize, Pending, busVars

\* A clock makes no write out of nothing.
LEMMA ClockMakesNone ==
  ASSUME Clock, Pending'
  PROVE  Pending
BY DEF Clock, Synchronize, Pending, busVars

LEMMA ConfInductive ==
  /\ Init => ConfOK
  /\ PipelineOK /\ ConfOK /\ [Next]_vars => ConfOK'
<1>1. Init => ConfOK
  BY DEF Init, ConfOK
<1>2. PipelineOK /\ ConfOK /\ [Next]_vars => ConfOK'
  <2> SUFFICES ASSUME PipelineOK, ConfOK, [Next]_vars PROVE ConfOK'
    OBVIOUS
  <2>1. ASSUME NEW c, WriteConf(c) PROVE ConfOK'
    <3>1. ~Pending
      BY <2>1, AccessSettled DEF WriteConf, Access
    <3>2. toggle' # stage0'
      <4>1. toggle = stage0 /\ stage0' = stage0 /\ toggle' = 1 - toggle
        BY <2>1, <3>1 DEF WriteConf, Strobe, syncVars, Pending
      <4> QED
        BY <4>1 DEF PipelineOK
    <3> QED
      BY <2>1, <3>2 DEF WriteConf, Strobe, ConfOK, Pending
  <2>2. ASSUME NEW b \in Bytes, WriteData(b) PROVE ConfOK'
    <3>1. conf = lastConf
      BY <2>2, AccessSettled DEF WriteData, Access, ConfOK
    <3> QED
      BY <2>2, <3>1 DEF WriteData, Strobe, ConfOK, ctlVars
  <2>3. CASE ReadConf \/ ReadStatus \/ ReadData
    BY <2>3 DEF ReadConf, ReadStatus, ReadData, ConfOK, Pending, busVars, syncVars, ctlVars
  <2>4. CASE Clock
    <3>1. tick /\ regTemp = "conf" => conf' = confTemp
      BY <2>4 DEF Clock, Control
    <3>2. ~(tick /\ regTemp = "conf") => conf' = conf
      BY <2>4 DEF Clock, Control
    <3>3. UNCHANGED <<confTemp, regTemp, lastConf>>
      BY <2>4 DEF Clock, busVars
    <3>4. Pending => Pending' \/ tick
      BY <2>4, ClockKeepsPending
    <3>5. CASE tick /\ regTemp = "conf"
      BY <3>1, <3>3, <3>5 DEF ConfOK
    <3>6. CASE ~(tick /\ regTemp = "conf")
      BY <3>2, <3>3, <3>4, <3>6 DEF ConfOK
    <3> QED
      BY <3>5, <3>6
  <2>5. CASE Reset
    BY <2>5 DEF Reset, ConfOK
  <2>6. CASE UNCHANGED vars
    BY <2>6 DEF vars, ConfOK, Pending, busVars, syncVars, ctlVars
  <2> QED
    BY <2>1, <2>2, <2>3, <2>4, <2>5, <2>6 DEF Next, Cpu, Configure, WriteBack
<1> QED
  BY <1>1, <1>2

-----------------------------------------------------------------------------

\* SPI_SELECT and SPI_DESELECT write back the settings of the last configuration,
\* for every byte width, set of rates, and gap of at least four clocks.
THEOREM SettingsAreKept == Spec => []SettingsKept
<1> DEFINE Inv == PipelineOK /\ ConfOK /\ SettingsKept
<1>1. Init => Inv
  BY PipelineInductive, ConfInductive DEF Init, SettingsKept
<1>2. Inv /\ [Next]_vars => Inv'
  <2> SUFFICES ASSUME Inv, [Next]_vars PROVE SettingsKept'
    BY PipelineInductive, ConfInductive
  <2>1. CASE ReadConf
    <3>1. conf = lastConf
      BY <2>1, AccessSettled DEF ReadConf, Access, ConfOK
    <3>2. PICK e \in BOOLEAN : acc' = [conf EXCEPT !.on = e]
      BY <2>1 DEF ReadConf
    <3>3. acc'.div = conf.div
      BY <3>2
    <3> QED
      BY <2>1, <3>1, <3>3 DEF ReadConf, SettingsKept
  <2>2. CASE Configure \/ WriteBack \/ ReadStatus \/ ReadData \/ Reset
    BY <2>2 DEF Configure, WriteBack, WriteConf, ReadStatus, ReadData, Reset, SettingsKept
  <2>3. CASE (\E b \in Bytes : WriteData(b))
    BY <2>3 DEF WriteData, SettingsKept
  <2>4. CASE Clock
    BY <2>4 DEF Clock, SettingsKept
  <2>5. CASE UNCHANGED vars
    BY <2>5 DEF vars, SettingsKept
  <2> QED
    BY <2>1, <2>2, <2>3, <2>4, <2>5 DEF Next, Cpu
<1> QED
  BY <1>1, <1>2, PTL DEF Spec

LEMMA PollInductive ==
  ASSUME Polls
  PROVE  /\ Init => PollOK
         /\ PipelineOK /\ PollOK /\ [Next]_vars => PollOK'
<1>1. Init => PollOK
  BY DEF Init, PollOK, Pending, Busy
<1>2. PipelineOK /\ PollOK /\ [Next]_vars => PollOK'
  <2> SUFFICES ASSUME PipelineOK, PollOK, [Next]_vars PROVE PollOK'
    OBVIOUS
  <2>1. ASSUME NEW c, pc # "poll", WriteConf(c) PROVE PollOK'
    BY <2>1 DEF WriteConf, Strobe, PollOK, Busy, ctlVars, engVars
  <2>2. ASSUME NEW b \in Bytes, WriteData(b) PROVE PollOK'
    BY <2>2 DEF WriteData, Strobe, PollOK
  <2>3. CASE ReadConf \/ ReadData
    BY <2>3 DEF ReadConf, ReadData, PollOK, Pending, Busy, busVars, syncVars, ctlVars, engVars
  <2>4. CASE ReadStatus
    <3>1. ~Pending
      BY <2>4, AccessSettled DEF ReadStatus, Access
    <3>2. UNCHANGED <<busVars, syncVars, ctlVars, engVars>>
      BY <2>4 DEF ReadStatus
    <3>3. ~Pending'
      BY <3>1, <3>2 DEF Pending, busVars, syncVars
    <3>4. Busy' = Busy /\ regTemp' = regTemp
      BY <3>2 DEF Busy, busVars, ctlVars, engVars
    <3>5. Busy => pc' = pc
      BY <2>4 DEF ReadStatus
    <3> QED
      BY <3>3, <3>4, <3>5 DEF PollOK
  <2>5. CASE Clock
    <3>1. UNCHANGED <<pc, regTemp>>
      BY <2>5 DEF Clock, busVars
    <3>2. start' => tick /\ regTemp = "data"
      BY <2>5 DEF Clock, Control
    <3>3. state' # "Idle" => Busy
      BY <2>5 DEF Clock, Count, NextState, Busy
    <3> QED
      BY <2>5, <3>1, <3>2, <3>3, ClockMakesNone DEF PollOK, Busy, Pending
  <2>6. CASE Reset
    BY <2>6 DEF Reset, PollOK, Pending, Busy
  <2>7. CASE UNCHANGED vars
    BY <2>7 DEF vars, PollOK, Pending, Busy, busVars, syncVars, ctlVars, engVars
  <2> QED
    BY <2>1, <2>2, <2>3, <2>4, <2>5, <2>6, <2>7 DEF Next, Cpu, Configure, WriteBack
<1> QED
  BY <1>1, <1>2

\* When programs wait for each byte, the configuration register changes only
\* while the engine is idle: chip select is never moved during a byte.
THEOREM SelectStaysStable == ASSUME Polls PROVE Spec => SelectStable
<1> DEFINE Inv == PipelineOK /\ PollOK
<1>1. Init => Inv
  BY PipelineInductive, PollInductive
<1>2. Inv /\ [Next]_vars => Inv'
  BY PipelineInductive, PollInductive
<1>3. Inv /\ [Next]_vars => [(conf' # conf /\ Busy) => (conf' = ResetConf /\ state' = "Idle")]_vars
  <2> SUFFICES ASSUME Inv, Next, conf' # conf, Busy
               PROVE  conf' = ResetConf /\ state' = "Idle"
    OBVIOUS
  <2>1. CASE Cpu
    BY <2>1 DEF Cpu, Configure, ReadConf, WriteBack, WriteConf, WriteData, ReadStatus, ReadData, ctlVars
  <2>2. CASE Clock
    BY <2>2 DEF Clock, Control, PollOK
  <2>3. CASE Reset
    BY <2>3 DEF Reset
  <2> QED
    BY <2>1, <2>2, <2>3 DEF Next
<1> QED
  BY <1>1, <1>2, <1>3, PTL DEF Spec, SelectStable

-----------------------------------------------------------------------------
(* Types, whatever the program does. *)

\* The slowest setting exists and bounds the others.
LEMMA Slowest ==
  /\ SlowestDiv \in Dividers /\ SlowestDiv \in Nat /\ SlowestDiv >= 1
  /\ \A e \in Dividers : e \in Nat /\ 1 <= e /\ e <= SlowestDiv
<1>1. PICK d \in Dividers : \A e \in Dividers : e <= d
  BY SpiAssumption
<1>2. SlowestDiv \in Dividers /\ \A e \in Dividers : e <= SlowestDiv
  BY <1>1 DEF SlowestDiv
<1>3. \A e \in Dividers : e \in Nat /\ 1 <= e
  BY SpiAssumption
<1> QED
  BY <1>2, <1>3

\* A byte is a sequence of Bits bits.
LEMMA ByteIsSeq ==
  ASSUME NEW s
  PROVE  s \in Byte <=> s \in Seq({0, 1}) /\ Len(s) = Bits
<1>1. ASSUME s \in Byte
      PROVE  s \in Seq({0, 1}) /\ Len(s) = Bits
  BY <1>1, SpiAssumption DEF Byte
<1>2. ASSUME s \in Seq({0, 1}), Len(s) = Bits
      PROVE  s \in Byte
  BY <1>2, LenProperties DEF Byte
<1> QED
  BY <1>1, <1>2

\* A register moved on by a bit.
LEMMA Moved ==
  ASSUME NEW w \in Byte, NEW b \in {0, 1}
  PROVE  /\ Append(Tail(w), b) \in Byte
         /\ \A i \in 1 .. Bits - 1 : Append(Tail(w), b)[i] = w[i + 1]
         /\ Append(Tail(w), b)[Bits] = b
         /\ Head(w) = w[1] /\ Head(w) \in {0, 1}
<1>1. w \in Seq({0, 1}) /\ Len(w) = Bits /\ Bits \in Nat /\ Bits >= 1
  BY ByteIsSeq, SpiAssumption
<1>2. w # <<>>
  BY <1>1, EmptySeq
<1>3. /\ Head(w) \in {0, 1} /\ Tail(w) \in Seq({0, 1}) /\ Len(Tail(w)) = Bits - 1
      /\ \A i \in 1 .. Bits - 1 : Tail(w)[i] = w[i + 1]
  BY <1>1, <1>2, HeadTailProperties
<1>4. /\ Append(Tail(w), b) \in Seq({0, 1}) /\ Len(Append(Tail(w), b)) = Bits
      /\ \A i \in 1 .. Bits - 1 : Append(Tail(w), b)[i] = Tail(w)[i]
      /\ Append(Tail(w), b)[Bits] = b
  BY <1>1, <1>3, AppendProperties
<1>5. Head(w) = w[1]
  BY <1>1, <1>2
<1> QED
  BY <1>3, <1>4, <1>5, ByteIsSeq

\* What the counters of the engine hold in each of its states.
CountersOK ==
  /\ state \in {"Idle", "Load"} => bitCount = 0 /\ sck = 0 /\ clkDiv = 0
  /\ state = "Transfer" => /\ clkDiv <= active
                           /\ sck = 1 => bitCount >= 1
                           /\ bitCount = Bits /\ sck = 0 => clkDiv = 0
  /\ state = "Done" => bitCount = Bits /\ sck = 0 /\ clkDiv = 1

WireOK ==
  /\ devIn \in Seq({0, 1}) /\ Len(devIn) < Bits
  /\ devOut \in Seq({0, 1}) /\ Len(devOut) <= Bits

CountTypes ==
  /\ state \in {"Idle", "Load", "Transfer", "Done"} /\ bitCount \in 0 .. Bits /\ sck \in {0, 1}
  /\ active \in Dividers /\ clkDiv \in 0 .. SlowestDiv

LEMMA CountsBounded ==
  ASSUME CountTypes, CountersOK, conf \in Confs, Count
  PROVE  CountTypes' /\ CountersOK'
<1> USE DEF CountTypes
<1>1. /\ Bits \in Nat /\ Bits >= 1 /\ bitCount \in Nat /\ bitCount <= Bits
      /\ clkDiv \in Nat /\ active \in Nat /\ 1 <= active /\ active <= SlowestDiv
      /\ SlowestDiv \in Nat /\ SlowestDiv >= 1 /\ sck \in {0, 1}
  BY SpiAssumption, Slowest
<1>2. conf.div \in Dividers
  BY DEF Confs
<1>3. CASE state = "Idle"
  <2>1. state' \in {"Idle", "Load"} /\ UNCHANGED <<active, clkDiv, sck, bitCount>>
    BY <1>3 DEF Count, NextState, SckToggles, ShiftTick, Rises
  <2> QED
    BY <2>1, <1>3 DEF CountersOK
<1>4. CASE state = "Load"
  <2>1. state' = "Transfer" /\ active' = conf.div /\ clkDiv' = 0 /\ UNCHANGED <<sck, bitCount>>
    BY <1>4 DEF Count, NextState, SckToggles, ShiftTick, Rises
  <2>2. conf.div \in Nat /\ 1 <= conf.div
    BY <1>2, Slowest
  <2> QED
    BY <2>1, <2>2, <1>1, <1>2, <1>4 DEF CountersOK
<1>5. CASE state = "Done"
  <2>1. state' = "Idle" /\ clkDiv' = 0 /\ sck' = 0 /\ bitCount' = 0 /\ active' = active
    BY <1>5 DEF Count, NextState
  <2> QED
    BY <2>1, <1>1 DEF CountersOK
<1>6. CASE state = "Transfer" /\ bitCount = Bits /\ sck = 0
  <2>1. ~ShiftTick
    BY <1>1, <1>6 DEF ShiftTick, CountersOK
  <2>2. /\ state' = "Done" /\ clkDiv' = clkDiv + 1 /\ clkDiv = 0
        /\ UNCHANGED <<sck, bitCount, active>>
    BY <1>6, <2>1 DEF Count, NextState, SckToggles, Rises, CountersOK
  <2> QED
    BY <2>2, <1>1, <1>6 DEF CountersOK
<1>7. CASE state = "Transfer" /\ ~(bitCount = Bits /\ sck = 0)
  <2>1. state' = "Transfer" /\ active' = active
    BY <1>7 DEF Count, NextState
  <2>2. clkDiv <= active /\ (sck = 1 => bitCount >= 1)
    BY <1>7 DEF CountersOK
  <2>3. CASE ShiftTick
    <3>1. SckToggles
      BY <2>3, <1>1, <1>7 DEF SckToggles
    <3>2. clkDiv' = 0 /\ sck' = 1 - sck /\ bitCount' = IF sck = 0 THEN bitCount + 1 ELSE bitCount
      BY <3>1, <1>7 DEF Count, Rises
    <3> QED
      BY <2>1, <2>2, <3>2, <1>1, <1>7 DEF CountersOK
  <2>4. CASE ~ShiftTick
    <3>1. clkDiv # active
      BY <2>4, <1>7 DEF ShiftTick
    <3>2. clkDiv' = clkDiv + 1 /\ UNCHANGED <<sck, bitCount>>
      BY <2>4, <1>7 DEF Count, Rises, SckToggles
    <3> QED
      BY <2>1, <2>2, <3>1, <3>2, <1>1, <1>7 DEF CountersOK
  <2> QED
    BY <2>3, <2>4
<1> QED
  BY <1>3, <1>4, <1>5, <1>6, <1>7

LEMMA ShiftsBits ==
  ASSUME Shift, {txData, piso, rx} \subseteq Byte, {mosi} \subseteq {0, 1}, WireOK
  PROVE  piso' \in Byte /\ rx' \in Byte /\ mosi' \in {0, 1}
<1>1. Miso \in {0, 1}
  <2>1. devOut # <<>> => Head(devOut) \in {0, 1}
    BY HeadTailProperties DEF WireOK
  <2> QED
    BY <2>1 DEF Miso
<1>2. rx' \in Byte
  BY <1>1, Moved DEF Shift
<1>3. ASSUME NEW w \in Byte, ShiftOut(w)
      PROVE  piso' \in Byte /\ mosi' \in {0, 1}
  BY <1>3, Moved DEF ShiftOut
<1>4. piso' \in Byte /\ mosi' \in {0, 1}
  BY <1>3 DEF Shift
<1> QED
  BY <1>2, <1>4

LEMMA DeviceTypes ==
  ASSUME Device, WireOK, got \in Byte, dev \in Byte, mosi \in {0, 1}
  PROVE  WireOK' /\ got' \in Byte /\ dev' \in Byte
<1>1. /\ Bits \in Nat /\ Bits >= 1 /\ Bytes \subseteq Byte
      /\ devIn \in Seq({0, 1}) /\ Len(devIn) \in Nat /\ Len(devIn) < Bits
      /\ devOut \in Seq({0, 1}) /\ Len(devOut) \in Nat /\ Len(devOut) <= Bits
  BY SpiAssumption DEF WireOK, Byte
<1>2. \A w \in Byte : w \in Seq({0, 1}) /\ Len(w) = Bits
  BY ByteIsSeq
<1>3. <<>> \in Seq({0, 1}) /\ Len(<<>>) = 0
  BY EmptySeq
<1>4. CASE ~conf.on
  BY <1>1, <1>2, <1>3, <1>4 DEF Device, WireOK
<1>5. CASE conf.on
  <2>1. Append(devIn, mosi) \in Seq({0, 1}) /\ Len(Append(devIn, mosi)) = Len(devIn) + 1
    BY <1>1, AppendProperties
  <2>2. devIn' \in Seq({0, 1}) /\ Len(devIn') < Bits /\ got' \in Byte
    <3>1. CASE sck = 0 /\ sck' = 1 /\ Len(devIn) + 1 = Bits
      <4>1. Append(devIn, mosi) \in Byte
        BY <3>1, <2>1, ByteIsSeq
      <4>2. devIn' = <<>> /\ got' = Append(devIn, mosi)
        BY <3>1, <1>5 DEF Device
      <4> QED
        BY <4>1, <4>2, <1>1, <1>3
    <3>2. CASE sck = 0 /\ sck' = 1 /\ Len(devIn) + 1 # Bits
      BY <3>2, <2>1, <1>1, <1>5 DEF Device
    <3>3. CASE ~(sck = 0 /\ sck' = 1)
      BY <3>3, <1>1, <1>5 DEF Device
    <3> QED
      BY <3>1, <3>2, <3>3
  <2>3. devOut' \in Seq({0, 1}) /\ Len(devOut') <= Bits /\ dev' \in Byte
    <3>1. CASE state = "Done" /\ devOut = <<>>
      BY <3>1, <1>1, <1>2, <1>5 DEF Device
    <3>2. CASE ~(state = "Done" /\ devOut = <<>>)
      <4>1. devOut # <<>> => Tail(devOut) \in Seq({0, 1}) /\ Len(Tail(devOut)) = Len(devOut) - 1
        BY <1>1, HeadTailProperties
      <4>2. dev' = dev /\ (devOut' = devOut \/ (devOut # <<>> /\ devOut' = Tail(devOut)))
        BY <3>2, <1>5 DEF Device
      <4> QED
        BY <4>1, <4>2, <1>1
    <3> QED
      BY <3>1, <3>2
  <2> QED
    BY <2>2, <2>3 DEF WireOK
<1> QED
  BY <1>4, <1>5

TypeInv == TypeOK /\ CountersOK /\ WireOK

\* The parts of TypeOK one by one.
TypeParts ==
  /\ pc \in {"idle", "rmw", "poll", "read"} /\ since \in 0 .. MinGap
  /\ acc \in Confs /\ conf \in Confs /\ confTemp \in Confs /\ lastConf \in Confs
  /\ dataTemp \in Byte /\ txData \in Byte /\ piso \in Byte /\ rx \in Byte
  /\ got \in Byte /\ dev \in Byte /\ sending \in Byte
  /\ toggle \in {0, 1} /\ stage0 \in {0, 1} /\ stage1 \in {0, 1} /\ prev \in {0, 1} /\ mosi \in {0, 1}
  /\ tick \in BOOLEAN /\ start \in BOOLEAN /\ late \in BOOLEAN /\ sentLate \in BOOLEAN
  /\ regTemp \in {"data", "conf"}

LEMMA TypeByParts == WireOK => (TypeOK <=> TypeParts /\ CountTypes)
<1> HAVE WireOK
<1>1. {Len(devIn), Len(devOut)} \subseteq 0 .. Bits
  <2>1. Bits \in Nat /\ Len(devIn) \in Nat /\ Len(devOut) \in Nat
    BY SpiAssumption DEF WireOK
  <2> QED
    BY <2>1 DEF WireOK
<1> QED
  BY <1>1 DEF TypeOK, TypeParts, CountTypes

LEMMA ResetTypes ==
  /\ Zeros \in Byte /\ ResetConf \in Confs /\ MinGap \in 0 .. MinGap /\ Bytes \subseteq Byte
  /\ \A b \in Byte : b \in Seq({0, 1}) /\ Len(b) = Bits
  /\ <<>> \in Seq({0, 1}) /\ Len(<<>>) = 0 /\ Bits \in Nat /\ Bits >= 1 /\ 0 \in 0 .. Bits
  /\ SlowestDiv \in Dividers /\ 0 \in 0 .. SlowestDiv
BY SpiAssumption, Slowest, ByteIsSeq, EmptySeq DEF Zeros, Byte, ResetConf, Confs

LEMMA TypeInit == ASSUME Init PROVE TypeInv
<1>1. WireOK
  BY ResetTypes DEF Init, WireOK
<1>2. CountersOK /\ CountTypes
  BY ResetTypes DEF Init, CountersOK, CountTypes
<1>3. TypeParts
  BY ResetTypes DEF Init, TypeParts
<1> QED
  BY <1>1, <1>2, <1>3, TypeByParts DEF TypeInv

LEMMA CpuTypes == ASSUME TypeInv, Cpu PROVE TypeInv'
<1>1. TypeParts /\ CountTypes /\ CountersOK /\ WireOK
  BY TypeByParts DEF TypeInv
<1>2. UNCHANGED <<engVars, devVars>>
  BY DEF Cpu, Configure, WriteBack, WriteConf, WriteData, ReadConf, ReadStatus, ReadData
<1>3. WireOK' /\ CountersOK' /\ CountTypes'
  BY <1>1, <1>2 DEF engVars, devVars, WireOK, CountersOK, CountTypes
<1> SUFFICES TypeParts'
  BY <1>3, TypeByParts, PTL DEF TypeInv
<1>4. Access => since' \in 0 .. MinGap
  BY SpiAssumption DEF Access
<1>5. CASE Configure
  <2>1. PICK d \in Dividers : WriteConf([on |-> FALSE, div |-> d])
    BY <1>5 DEF Configure
  <2>2. [on |-> FALSE, div |-> d] \in Confs
    BY DEF Confs
  <2> QED
    BY <2>1, <2>2, <1>1, <1>4 DEF WriteConf, Strobe, TypeParts, syncVars, ctlVars, engVars, devVars
<1>6. ASSUME NEW b \in Bytes, WriteData(b)
      PROVE  TypeParts'
  BY <1>1, <1>4, <1>6, ResetTypes
     DEF WriteData, Strobe, Busy, TypeParts, syncVars, ctlVars, engVars, devVars
<1>7. CASE ReadConf
  <2>1. \A e \in BOOLEAN : [conf EXCEPT !.on = e] \in Confs
    BY <1>1 DEF TypeParts, Confs
  <2> QED
    BY <2>1, <1>1, <1>4, <1>7 DEF ReadConf, TypeParts, busVars, syncVars, ctlVars, engVars, devVars
<1>8. CASE ReadStatus \/ ReadData
  BY <1>1, <1>4, <1>8 DEF ReadStatus, ReadData, TypeParts, busVars, syncVars, ctlVars, engVars, devVars
<1>9. CASE WriteBack
  BY <1>1, <1>4, <1>9
     DEF WriteBack, WriteConf, Access, Strobe, TypeParts, syncVars, ctlVars, engVars, devVars
<1> QED
  <2>1. CASE \E b \in Bytes : WriteData(b)
    BY <1>6, <2>1
  <2> QED
    BY <2>1, <1>5, <1>7, <1>8, <1>9 DEF Cpu

LEMMA ClockTypes == ASSUME TypeInv, Clock PROVE TypeInv'
<1>1. TypeParts /\ CountTypes /\ CountersOK /\ WireOK
  BY TypeByParts DEF TypeInv
<1>2. CountTypes' /\ CountersOK'
  BY <1>1, CountsBounded DEF Clock, TypeParts
<1>3. piso' \in Byte /\ rx' \in Byte /\ mosi' \in {0, 1}
  BY <1>1, ShiftsBits DEF Clock, TypeParts
<1>4. WireOK' /\ got' \in Byte /\ dev' \in Byte
  BY <1>1, DeviceTypes DEF Clock, TypeParts
<1>5. since' \in 0 .. MinGap
  BY <1>1, SpiAssumption DEF Clock, TypeParts
<1>6. /\ stage0' \in {0, 1} /\ stage1' \in {0, 1} /\ prev' \in {0, 1} /\ tick' \in BOOLEAN
      /\ start' \in BOOLEAN /\ txData' \in Byte /\ conf' \in Confs
      /\ sending' \in Byte /\ sentLate' \in BOOLEAN
  BY <1>1 DEF Clock, Synchronize, Control, TypeParts
<1>7. TypeParts'
  BY <1>1, <1>3, <1>4, <1>5, <1>6 DEF Clock, busVars, TypeParts
<1>8. TypeOK'
  BY <1>2, <1>4, <1>7, TypeByParts, PTL
<1> QED
  BY <1>2, <1>4, <1>8 DEF TypeInv

LEMMA ResetInv == ASSUME TypeInv, Reset PROVE TypeInv'
<1>1. WireOK /\ TypeParts
  BY TypeByParts DEF TypeInv
<1>2. WireOK'
  BY <1>1, ResetTypes DEF Reset, WireOK, TypeParts
<1>3. CountersOK' /\ CountTypes'
  BY ResetTypes DEF Reset, CountersOK, CountTypes
<1>4. TypeParts'
  BY <1>1, ResetTypes DEF Reset, TypeParts
<1>5. TypeOK'
  BY <1>2, <1>3, <1>4, TypeByParts, PTL
<1> QED
  BY <1>2, <1>3, <1>5 DEF TypeInv

LEMMA TypeStep == ASSUME TypeInv, [Next]_vars PROVE TypeInv'
<1>1. CASE UNCHANGED vars
  BY <1>1 DEF TypeInv, TypeOK, CountersOK, WireOK, vars, busVars, syncVars, ctlVars, engVars, devVars
<1> QED
  BY <1>1, CpuTypes, ClockTypes, ResetInv DEF Next

\* Every register keeps its type, and the divider counter never passes the
\* setting it is compared with: no setting makes the engine miss its end.
THEOREM TypeCorrect == Spec => []TypeOK
<1>1. TypeInv => TypeOK
  BY DEF TypeInv
<1> QED
  BY <1>1, TypeInit, TypeStep, PTL DEF Spec

-----------------------------------------------------------------------------
(* A transfer, for programs that poll. *)

\* A write is at one place of the synchronizer only.
OneEdge ==
  /\ toggle # stage0 => stage0 = stage1 /\ stage1 = prev /\ ~tick
  /\ stage0 # stage1 => stage1 = prev /\ ~tick
  /\ stage1 # prev => ~tick

\* From the bus strobe to the end of the transfer the byte is in one place.
PhaseOK ==
  /\ OneEdge
  /\ pc = "poll" => conf.on /\ regTemp = "data"
  /\ regTemp = "data" /\ Pending => ~Busy
  /\ regTemp = "data" /\ ~Pending /\ ~Busy => got = dataTemp
  /\ start => txData = dataTemp /\ state = "Idle" /\ ~Pending
  /\ state # "Idle" => ~start /\ ~Pending /\ sending = dataTemp
  /\ state = "Load" => txData = sending

\* Of the bits of a byte, bitCount went through the receiving registers, and
\* Fallen through the sending ones.
Fallen == bitCount - sck

\* Where the bits are: those of sending in mosi, piso, devIn and got, those of
\* dev in devOut and rx.
BitsOK ==
  /\ state \in {"Idle", "Load"} => devIn = <<>> /\ devOut = dev
  /\ state \in {"Transfer", "Done"} =>
       /\ Fallen < Bits => mosi = sending[Fallen + 1]
       /\ \A i \in 1 .. Bits - Fallen - 1 : piso[i] = sending[Fallen + 1 + i]
       /\ IF bitCount < Bits
          THEN Len(devIn) = bitCount /\ \A i \in 1 .. bitCount : devIn[i] = sending[i]
          ELSE devIn = <<>> /\ got = sending
       /\ Len(devOut) = Bits - Fallen
       /\ \A i \in 1 .. Bits - Fallen : devOut[i] = dev[Fallen + i]
       /\ \A i \in 1 .. bitCount : rx[Bits - bitCount + i] = dev[i]

TransferInv == PipelineOK /\ ConfOK /\ PollOK /\ PhaseOK /\ TypeInv /\ BitsOK

LEMMA TransferInit == ASSUME Init PROVE PhaseOK /\ BitsOK
BY DEF Init, PhaseOK, BitsOK, OneEdge, Pending, Busy

\* The strobe of a write comes when nothing is on its way.
LEMMA StrobePhase ==
  ASSUME PipelineOK, ~Pending, UNCHANGED syncVars, toggle' = 1 - toggle
  PROVE  OneEdge' /\ Pending'
<1>1. toggle \in {0, 1} /\ toggle = stage0 /\ stage0 = stage1 /\ stage1 = prev /\ ~tick
  BY DEF PipelineOK, Pending
<1>2. toggle' # stage0' /\ stage0' = stage1' /\ stage1' = prev' /\ ~tick'
  BY <1>1 DEF syncVars
<1> QED
  BY <1>2 DEF OneEdge, Pending

LEMMA CpuPhase == ASSUME Polls, TransferInv, Cpu PROVE PhaseOK'
<1>1. ~Pending
  BY AccessSettled DEF TransferInv, Cpu, Configure, ReadConf, WriteBack, WriteConf, WriteData,
     ReadStatus, ReadData, Access
<1>2. /\ UNCHANGED <<syncVars, ctlVars, engVars, devVars, sending>> /\ Busy' = Busy
  BY DEF Cpu, Configure, ReadConf, WriteBack, WriteConf, WriteData, ReadStatus, ReadData,
     Busy, ctlVars, engVars
<1>3. ASSUME pc # "poll", pc' # "poll", regTemp' = "conf", toggle' = 1 - toggle
      PROVE  PhaseOK'
  <2>1. OneEdge' /\ Pending'
    BY <1>1, <1>2, <1>3, StrobePhase DEF TransferInv
  <2>2. ~Busy
    BY <1>3 DEF TransferInv, PollOK
  <2>3. ~Busy'
    BY <1>2, <2>2
  <2> QED
    BY <2>1, <2>3, <1>3 DEF PhaseOK, Busy
<1>4. CASE Configure \/ WriteBack
  BY <1>3, <1>4 DEF Configure, WriteBack, WriteConf, Strobe
<1>5. ASSUME NEW b \in Bytes, WriteData(b)
      PROVE  PhaseOK'
  <2>1. pc = "idle" /\ lastConf.on /\ regTemp' = "data" /\ toggle' = 1 - toggle
    BY <1>5 DEF WriteData, Strobe
  <2>2. OneEdge' /\ Pending'
    BY <2>1, <1>1, <1>2, StrobePhase DEF TransferInv
  <2>3. ~Busy
    BY <2>1 DEF TransferInv, PollOK
  <2>4. ~Busy' /\ conf'.on
    BY <1>1, <1>2, <2>1, <2>3 DEF TransferInv, ConfOK, ctlVars
  <2> QED
    BY <2>1, <2>2, <2>4 DEF PhaseOK, Busy
<1>6. CASE ReadConf \/ ReadStatus \/ ReadData
  <2>1. UNCHANGED busVars /\ (pc' = "poll" => pc = "poll")
    BY <1>6 DEF ReadConf, ReadStatus, ReadData
  <2>2. Pending' = Pending /\ (OneEdge => OneEdge')
    BY <2>1, <1>2 DEF Pending, OneEdge, busVars, syncVars
  <2> QED
    BY <1>2, <2>1, <2>2 DEF TransferInv, PhaseOK, busVars, ctlVars, engVars, devVars
<1>7. CASE \E b \in Bytes : WriteData(b)
  BY <1>5, <1>7
<1> QED
  BY <1>4, <1>6, <1>7 DEF Cpu

\* With the engine at rest or at its end no edge of SCK is seen.
LEMMA QuietEdges ==
  ASSUME TypeInv, Count, state # "Transfer"
  PROVE  sck = 0 /\ sck' = 0
<1>1. ~SckToggles
  BY DEF SckToggles, ShiftTick
<1>2. state \in {"Idle", "Load", "Done"} /\ CountersOK
  BY TypeByParts DEF TypeInv, CountTypes
<1> QED
  BY <1>1, <1>2 DEF Count, CountersOK

LEMMA ClockPhase == ASSUME TransferInv, Clock PROVE PhaseOK'
<1>1. OneEdge'
  BY DEF Clock, Synchronize, OneEdge, TransferInv, PhaseOK, busVars
<1>2. /\ UNCHANGED <<pc, regTemp, dataTemp>>
      /\ start' = (tick /\ regTemp = "data")
      /\ txData' = IF tick /\ regTemp = "data" THEN dataTemp ELSE txData
      /\ conf' = IF tick /\ regTemp = "conf" THEN confTemp ELSE conf
      /\ sending' = IF state = "Idle" /\ start THEN txData ELSE sending
      /\ state' = NextState
  BY DEF Clock, Control, Count, busVars
<1>3. pc' = "poll" => conf'.on /\ regTemp' = "data"
  BY <1>2 DEF TransferInv, PhaseOK
<1> USE DEF TransferInv
<1>4. CASE tick /\ regTemp = "data"
  <2>1. ~Busy /\ ~Pending'
    BY <1>4 DEF PhaseOK, OneEdge, Pending, Clock, Synchronize, busVars
  <2>2. state = "Idle" /\ state' = "Idle"
    BY <1>2, <2>1 DEF Busy, NextState
  <2> QED
    BY <1>1, <1>2, <1>3, <1>4, <2>1, <2>2 DEF PhaseOK, Busy
<1>5. CASE ~(tick /\ regTemp = "data") /\ start
  <2>1. /\ state = "Idle" /\ ~Pending /\ txData = dataTemp
    BY <1>5 DEF PhaseOK
  <2>2. state' = "Load" /\ ~Pending' /\ ~start'
    BY <1>2, <1>5, <2>1, ClockMakesNone DEF NextState
  <2> QED
    BY <1>1, <1>2, <1>3, <1>5, <2>1, <2>2 DEF PhaseOK, Busy
<1>6. CASE ~(tick /\ regTemp = "data") /\ state # "Idle"
  <2>1. ~start /\ ~Pending /\ sending = dataTemp
    BY <1>6 DEF PhaseOK
  <2>2. ~Pending' /\ ~start' /\ sending' = dataTemp /\ state' # "Load"
    BY <1>2, <1>6, <2>1, ClockMakesNone DEF NextState
  <2>3. state' = "Idle" => got' = dataTemp
    <3>1. SUFFICES ASSUME state' = "Idle" PROVE got' = dataTemp
      OBVIOUS
    <3>2. state = "Done"
      BY <1>2, <1>6, <3>1 DEF NextState
    <3>3. sck = 0 /\ sck' = 0
      BY <3>2, QuietEdges DEF Clock
    <3>4. got' = got
      BY <3>3 DEF Clock, Device
    <3>5. got = sending
      BY <3>2, SpiAssumption DEF BitsOK, TypeInv, CountersOK
    <3> QED
      BY <3>4, <3>5, <2>1
  <2> QED
    BY <1>1, <1>2, <1>3, <2>2, <2>3 DEF PhaseOK, Busy
<1>7. CASE ~(tick /\ regTemp = "data") /\ ~start /\ state = "Idle"
  <2>1. state' = "Idle" /\ ~start'
    BY <1>2, <1>7 DEF NextState
  <2>2. got' = got
    <3>1. sck = 0 /\ sck' = 0
      BY <1>7, QuietEdges DEF Clock
    <3> QED
      BY <3>1 DEF Clock, Device
  <2>3. regTemp = "data" /\ ~Pending' => ~Pending
    BY <1>7, ClockKeepsPending
  <2> QED
    BY <1>1, <1>2, <1>3, <1>7, <2>1, <2>2, <2>3 DEF PhaseOK, Busy
<1> QED
  BY <1>4, <1>5, <1>6, <1>7

LEMMA ResetPhase == ASSUME Reset PROVE PhaseOK' /\ BitsOK'
BY DEF Reset, PhaseOK, BitsOK, OneEdge, Pending, Busy

\* The numbers a transfer is counted with.
LEMMA Counted ==
  ASSUME TransferInv
  PROVE  /\ Bits \in Nat /\ Bits >= 1 /\ bitCount \in Nat /\ bitCount <= Bits /\ sck \in {0, 1}
         /\ state \in {"Transfer", "Done"} => Fallen \in Nat /\ Fallen <= bitCount
         /\ sending \in Byte /\ dev \in Byte /\ txData \in Byte /\ piso \in Byte /\ rx \in Byte
         /\ devIn \in Seq({0, 1}) /\ devOut \in Seq({0, 1}) /\ mosi \in {0, 1}
         /\ CountersOK /\ state \in {"Idle", "Load", "Transfer", "Done"}
<1>1. WireOK /\ CountTypes /\ TypeParts /\ CountersOK
  BY TypeByParts DEF TransferInv, TypeInv
<1> QED
  BY <1>1, SpiAssumption DEF WireOK, CountTypes, TypeParts, CountersOK, Fallen

\* Outside of a byte nothing moves on the wire.
LEMMA BitsAtRest ==
  ASSUME TransferInv, Clock, state = "Idle" \/ state = "Done"
  PROVE  BitsOK'
<1>1. CountersOK /\ Count /\ Device /\ sck = 0 /\ sck' = 0
  BY QuietEdges DEF TransferInv, TypeInv, Clock
<1>2. state' \in {"Idle", "Load"}
  BY DEF Clock, Count, NextState
<1>3. devIn' = <<>> /\ devOut' = dev'
  <2>1. CASE state = "Idle"
    BY <1>1, <2>1 DEF Device, TransferInv, BitsOK
  <2>2. CASE state = "Done"
    <3>1. bitCount = Bits /\ Len(devOut) = Bits - Fallen /\ devIn = <<>>
      BY <2>2, Counted DEF TransferInv, BitsOK, CountersOK
    <3>2. devOut = <<>>
      BY <3>1, <1>1, Counted, EmptySeq DEF Fallen
    <3>3. conf.on
      BY <2>2 DEF TransferInv, PollOK, PhaseOK, Busy
    <3> QED
      BY <1>1, <2>2, <3>1, <3>2, <3>3 DEF Device
  <2> QED
    BY <2>1, <2>2
<1> QED
  BY <1>2, <1>3 DEF BitsOK

\* The first bit goes out while the device still has all of its byte.
LEMMA BitsLoaded ==
  ASSUME TransferInv, Clock, state = "Load"
  PROVE  BitsOK'
<1>1. /\ CountersOK /\ Count /\ Device /\ sck = 0 /\ sck' = 0 /\ bitCount = 0 /\ Shift
      /\ state' = "Transfer" /\ Bits >= 1 /\ Bits \in Nat
  BY QuietEdges, Counted DEF TransferInv, TypeInv, Clock, CountersOK, Count, NextState
<1>2. ~SckToggles /\ ~Rises
  BY DEF SckToggles, ShiftTick, Rises
<1>3. bitCount' = 0 /\ Fallen' = 0
  BY <1>1, <1>2 DEF Count, Fallen
<1>4. conf.on /\ txData = sending /\ sending' = sending /\ devIn = <<>> /\ devOut = dev
  BY DEF TransferInv, PollOK, PhaseOK, BitsOK, Busy, Clock
<1>5. devIn' = <<>> /\ devOut' = dev /\ dev' = dev
  BY <1>1, <1>4 DEF Device
<1>6. /\ mosi' = sending[1]
      /\ \A j \in 1 .. Bits - 1 : piso'[j] = sending[j + 1]
  <2>1. piso' = Append(Tail(sending), 0) /\ mosi' = Head(sending)
    BY <1>1, <1>4 DEF Shift, ShiftOut
  <2> QED
    BY <2>1, Counted, Moved
<1>7. Len(dev) = Bits /\ Len(<<>>) = 0
  BY Counted, ByteIsSeq, EmptySeq
<1> QED
  BY <1>1, <1>3, <1>4, <1>5, <1>6, <1>7 DEF BitsOK

\* Between two edges of SCK nothing moves; the engine leaves Transfer before the
\* divider could tick once more.
LEMMA BitsHeld ==
  ASSUME TransferInv, Clock, state = "Transfer", ~SckToggles
  PROVE  BitsOK'
<1>1. /\ CountersOK /\ Count /\ Device /\ Shift /\ state' \in {"Transfer", "Done"}
      /\ sending' = sending /\ conf.on
  BY Counted DEF Clock, Count, NextState, TransferInv, PollOK, PhaseOK, Busy
<1>2. ~ShiftTick
  <2>1. SUFFICES ASSUME ShiftTick
                 PROVE  FALSE
    OBVIOUS
  <2>2. bitCount = Bits /\ sck = 0
    BY <2>1, Counted DEF SckToggles
  <2>3. clkDiv = 0 /\ active \in Dividers
    BY <2>2, <1>1, TypeByParts DEF CountersOK, TransferInv, TypeInv, CountTypes
  <2> QED
    BY <2>1, <2>3, Slowest DEF ShiftTick
<1>3. sck' = sck /\ bitCount' = bitCount /\ UNCHANGED <<piso, mosi, rx>>
  BY <1>1, <1>2 DEF Count, Shift, Rises
<1>4. UNCHANGED <<devIn, devOut, got, dev>>
  BY <1>1, <1>3, Counted DEF Device
<1>5. Fallen' = Fallen
  BY <1>3 DEF Fallen
<1> QED
  BY <1>1, <1>3, <1>4, <1>5 DEF BitsOK, TransferInv

\* A rising edge: both ends take a bit.
LEMMA BitsRise ==
  ASSUME TransferInv, Clock, state = "Transfer", SckToggles, sck = 0
  PROVE  BitsOK'
<1> DEFINE n == bitCount
<1>1. /\ CountersOK /\ Count /\ Device /\ Shift /\ state' = "Transfer"
      /\ sending' = sending /\ conf.on /\ ShiftTick
  BY Counted DEF Clock, Count, NextState, TransferInv, PollOK, PhaseOK, Busy, SckToggles
<1>2. /\ n \in Nat /\ n < Bits /\ Bits \in Nat /\ Fallen = n
      /\ bitCount' = n + 1 /\ sck' = 1 /\ Fallen' = n /\ UNCHANGED <<piso, mosi>>
  BY <1>1, Counted DEF SckToggles, Count, Rises, Shift, Fallen
<1>3. /\ mosi = sending[n + 1]
      /\ \A i \in 1 .. Bits - n - 1 : piso[i] = sending[n + 1 + i]
      /\ Len(devIn) = n /\ \A i \in 1 .. n : devIn[i] = sending[i]
      /\ Len(devOut) = Bits - n /\ \A i \in 1 .. Bits - n : devOut[i] = dev[n + i]
      /\ \A i \in 1 .. n : rx[Bits - n + i] = dev[i]
  BY <1>2 DEF TransferInv, BitsOK
<1>4. /\ Append(devIn, mosi) \in Seq({0, 1}) /\ Len(Append(devIn, mosi)) = n + 1
      /\ \A i \in 1 .. n + 1 : Append(devIn, mosi)[i] = sending[i]
  BY <1>2, <1>3, Counted, AppendProperties
<1>5. IF n + 1 < Bits
      THEN Len(devIn') = n + 1 /\ \A i \in 1 .. n + 1 : devIn'[i] = sending[i]
      ELSE devIn' = <<>> /\ got' = sending
  <2>1. CASE n + 1 < Bits
    <3>1. devIn' = Append(devIn, mosi)
      BY <1>1, <1>2, <1>3, <2>1 DEF Device
    <3> QED
      BY <3>1, <2>1, <1>4
  <2>2. CASE n + 1 = Bits
    <3>1. devIn' = <<>> /\ got' = Append(devIn, mosi)
      BY <1>1, <1>2, <1>3, <2>2 DEF Device
    <3>2. sending \in Seq({0, 1}) /\ Len(sending) = Bits
      BY Counted, ByteIsSeq
    <3>3. Append(devIn, mosi) = sending
      BY <3>2, <2>2, <1>4, SeqEqual
    <3> QED
      BY <3>1, <3>3, <2>2, <1>2
  <2> QED
    BY <2>1, <2>2, <1>2
<1>6. devOut' = devOut /\ dev' = dev
  BY <1>1, <1>2 DEF Device
<1>7. \A i \in 1 .. n + 1 : rx'[Bits - (n + 1) + i] = dev[i]
  <2>1. devOut # <<>> /\ Head(devOut) = dev[n + 1] /\ Head(devOut) \in {0, 1}
    <3>1. devOut \in Seq({0, 1}) /\ Len(devOut) >= 1
      BY <1>2, <1>3, Counted
    <3>2. devOut # <<>>
      BY <3>1, EmptySeq
    <3>3. 1 \in 1 .. Bits - n
      BY <1>2
    <3>4. devOut[1] = dev[n + 1]
      BY <1>3, <3>3
    <3> QED
      BY <3>1, <3>2, <3>4, HeadTailProperties
  <2>2. rx' = Append(Tail(rx), dev[n + 1]) /\ dev[n + 1] \in {0, 1}
    BY <1>1, <2>1 DEF Shift, Miso
  <2>3. rx'[Bits] = dev[n + 1] /\ \A j \in 1 .. Bits - 1 : rx'[j] = rx[j + 1]
    BY <2>2, Counted, Moved
  <2>4. ASSUME NEW i \in 1 .. n + 1
        PROVE  rx'[Bits - (n + 1) + i] = dev[i]
    <3>1. CASE i = n + 1
      <4>1. Bits - (n + 1) + i = Bits
        BY <1>2, <3>1
      <4> QED
        BY <4>1, <2>3, <3>1
    <3>2. CASE i # n + 1
      <4>1. /\ i \in 1 .. n /\ Bits - (n + 1) + i \in 1 .. Bits - 1
            /\ Bits - (n + 1) + i + 1 = Bits - n + i
        BY <1>2, <3>2
      <4> QED
        BY <4>1, <2>3, <1>3
    <3> QED
      BY <3>1, <3>2
  <2> QED
    BY <2>4
<1>8. Fallen' < Bits /\ Fallen' + 1 = n + 1
  BY <1>2
<1> QED
  BY <1>1, <1>2, <1>3, <1>5, <1>6, <1>7 DEF BitsOK

\* A falling edge: both ends put out the next bit.
LEMMA BitsFall ==
  ASSUME TransferInv, Clock, state = "Transfer", SckToggles, sck = 1
  PROVE  BitsOK'
<1> DEFINE n == bitCount
<1>1. /\ CountersOK /\ Count /\ Device /\ Shift /\ state' = "Transfer"
      /\ sending' = sending /\ conf.on /\ ShiftTick
  BY Counted DEF Clock, Count, NextState, TransferInv, PollOK, PhaseOK, Busy, SckToggles
<1>2. /\ n \in Nat /\ 1 <= n /\ n <= Bits /\ Bits \in Nat /\ Fallen = n - 1
      /\ bitCount' = n /\ sck' = 0 /\ Fallen' = n /\ UNCHANGED rx
  BY <1>1, Counted DEF SckToggles, Count, Rises, Shift, Fallen, CountersOK
<1>3. /\ \A i \in 1 .. Bits - n : piso[i] = sending[n + i]
      /\ IF n < Bits
         THEN Len(devIn) = n /\ \A i \in 1 .. n : devIn[i] = sending[i]
         ELSE devIn = <<>> /\ got = sending
      /\ Len(devOut) = Bits - n + 1 /\ \A i \in 1 .. Bits - n + 1 : devOut[i] = dev[n - 1 + i]
      /\ \A i \in 1 .. n : rx[Bits - n + i] = dev[i]
  <2>1. Bits - (n - 1) - 1 = Bits - n /\ Bits - (n - 1) = Bits - n + 1 /\ n - 1 + 1 = n
    BY <1>2
  <2>2. (n - 1) + 1 = n
    BY <1>2
  <2> QED
    BY <1>2, <2>1, <2>2 DEF TransferInv, BitsOK
<1>4. UNCHANGED <<devIn, got, dev>>
  BY <1>1, <1>2 DEF Device
<1>5. devOut # <<>> /\ devOut' = Tail(devOut)
  <2>1. Len(devOut) >= 1
    BY <1>2, <1>3
  <2>2. devOut # <<>>
    BY <2>1, EmptySeq
  <2> QED
    BY <1>1, <1>2, <2>2 DEF Device
<1>6. Len(devOut') = Bits - n /\ \A i \in 1 .. Bits - n : devOut'[i] = dev[n + i]
  <2>1. /\ Len(Tail(devOut)) = Bits - n
        /\ \A i \in 1 .. Bits - n : Tail(devOut)[i] = devOut[i + 1]
    BY <1>2, <1>3, <1>5, Counted, HeadTailProperties
  <2>2. ASSUME NEW i \in 1 .. Bits - n
        PROVE  devOut[i + 1] = dev[n + i]
    <3>1. i + 1 \in 1 .. Bits - n + 1 /\ n - 1 + (i + 1) = n + i
      BY <1>2
    <3> QED
      BY <3>1, <1>3
  <2> QED
    BY <1>5, <2>1, <2>2
<1>7. /\ n < Bits => mosi' = sending[n + 1]
      /\ \A i \in 1 .. Bits - n - 1 : piso'[i] = sending[n + 1 + i]
  <2>1. piso' = Append(Tail(piso), 0) /\ mosi' = Head(piso)
    BY <1>1 DEF Shift, ShiftOut
  <2>2. mosi' = piso[1] /\ \A i \in 1 .. Bits - 1 : piso'[i] = piso[i + 1]
    BY <2>1, Counted, Moved
  <2>3. n < Bits => mosi' = sending[n + 1]
    <3>1. n < Bits => 1 \in 1 .. Bits - n
      BY <1>2
    <3> QED
      BY <3>1, <2>2, <1>3
  <2>4. ASSUME NEW i \in 1 .. Bits - n - 1
        PROVE  piso'[i] = sending[n + 1 + i]
    <3>1. i \in 1 .. Bits - 1 /\ i + 1 \in 1 .. Bits - n /\ n + (i + 1) = n + 1 + i
      BY <1>2
    <3> QED
      BY <3>1, <2>2, <1>3
  <2> QED
    BY <2>3, <2>4
<1> QED
  BY <1>1, <1>2, <1>3, <1>4, <1>6, <1>7 DEF BitsOK

LEMMA CpuBits == ASSUME BitsOK, Cpu PROVE BitsOK'
<1>1. UNCHANGED <<engVars, devVars, sending>>
  BY DEF Cpu, Configure, WriteBack, WriteConf, WriteData, ReadConf, ReadStatus, ReadData
<1> QED
  BY <1>1 DEF BitsOK, Fallen, engVars, devVars

LEMMA TransferStep == ASSUME Polls, TransferInv, [Next]_vars PROVE TransferInv'
<1>1. PipelineOK' /\ ConfOK' /\ PollOK' /\ TypeInv'
  BY PipelineInductive, ConfInductive, PollInductive, TypeStep DEF TransferInv
<1>2. PhaseOK' /\ BitsOK'
  <2>1. CASE Cpu
    BY <2>1, CpuPhase, CpuBits DEF TransferInv
  <2>2. CASE Clock
    BY <2>2, ClockPhase, Counted, BitsAtRest, BitsLoaded, BitsHeld, BitsRise, BitsFall
  <2>3. CASE Reset
    BY <2>3, ResetPhase
  <2>4. CASE UNCHANGED vars
    BY <2>4 DEF TransferInv, PhaseOK, BitsOK, OneEdge, Pending, Busy, Fallen, vars, busVars, syncVars,
       ctlVars, engVars, devVars
  <2> QED
    BY <2>1, <2>2, <2>3, <2>4 DEF Next
<1> QED
  BY <1>1, <1>2 DEF TransferInv

LEMMA TransferInvariance == ASSUME Polls PROVE Spec => []TransferInv
<1>1. Init => TransferInv
  BY PipelineInductive, ConfInductive, PollInductive, TransferInit, TypeInit DEF TransferInv
<1> QED
  BY <1>1, TransferStep, PTL DEF Spec

\* A program that polls never takes the clocks before a transfer for its end:
\* when it goes on, its byte is with the device, for every width and rate.
THEOREM PollsAreTrue == ASSUME Polls PROVE Spec => []PollsTrue
<1>1. TransferInv => PollsTrue
  BY DEF TransferInv, PollOK, PhaseOK, PollsTrue, Pending
<1> QED
  BY <1>1, TransferInvariance, PTL

-----------------------------------------------------------------------------
(* A transfer is an exchange of two bytes. *)

\* A byte is not the absence of one.
LEMMA BytesAreThere == \A b \in Byte : b # None
<1>1. ASSUME NEW b \in Byte, b = None
      PROVE  FALSE
  <2>1. Len(b) = Bits /\ Len(b) = 0 /\ Bits >= 1
    BY <1>1, ByteIsSeq, EmptySeq, SpiAssumption DEF None
  <2> QED
    BY <2>1, SpiAssumption
<1> QED
  BY <1>1

\* The bytes the two ends send are bytes of the exchange.
SentOK == dataTemp \in Bytes \cup {Zeros} /\ dev \in Bytes

LEMMA SentStep == ASSUME SentOK, [Next]_vars PROVE SentOK'
<1>1. CASE UNCHANGED <<dataTemp, dev>>
  BY <1>1 DEF SentOK
<1>2. CASE \E b \in Bytes : WriteData(b)
  BY <1>2 DEF SentOK, WriteData, devVars
<1>3. CASE Reset
  BY <1>3 DEF SentOK, Reset
<1>4. CASE Clock
  <2>1. dataTemp' = dataTemp /\ (dev' = dev \/ dev' \in Bytes)
    BY <1>4 DEF Clock, Device, busVars
  <2> QED
    BY <2>1 DEF SentOK
<1> QED
  BY <1>1, <1>2, <1>3, <1>4 DEF Next, Cpu, Configure, WriteBack, WriteConf, ReadConf, ReadStatus,
     ReadData, vars, busVars, devVars

\* What the exchange is seen to hold.
Sent == IF state # "Idle" THEN sending ELSE IF start THEN txData ELSE None
Received == IF Busy THEN None ELSE rx
Taken    == IF Busy THEN None ELSE got

LEMMA ExchangeInit ==
  ASSUME Init
  PROVE  Exchange!Init
BY DEF Init, Exchange!Init, Busy, ResetConf

LEMMA ExchangeStep ==
  ASSUME TransferInv, SentOK, [Next]_vars
  PROVE  Exchange!Next \/ UNCHANGED <<conf.on, Sent, Received, Taken, dev>>
<1>0. TypeParts /\ CountTypes
  BY TypeByParts DEF TransferInv, TypeInv
<1>1. CASE Cpu \/ UNCHANGED vars
  <2>1. UNCHANGED <<ctlVars, engVars, devVars, sending>>
    BY <1>1 DEF vars, Cpu, Configure, WriteBack, WriteConf, WriteData, ReadConf, ReadStatus, ReadData
  <2> QED
    BY <2>1 DEF Sent, Received, Taken, Busy, ctlVars, engVars, devVars
<1>2. CASE Reset
  <2>1. Sent' = None /\ Received' = Zeros /\ Taken' = Zeros /\ dev' = dev
        /\ conf'.on = FALSE
    BY <1>2 DEF Reset, Sent, Received, Taken, Busy, ResetConf
  <2>3. Exchange!Abandon
    BY <2>1 DEF Exchange!Abandon, Sent, Received, Taken
  <2> QED
    BY <2>3 DEF Exchange!Next
<1>3. CASE Clock
  <2>1. /\ Count /\ Device /\ state' = NextState /\ start' = (tick /\ regTemp = "data")
        /\ txData' = IF tick /\ regTemp = "data" THEN dataTemp ELSE txData
        /\ sending' = IF state = "Idle" /\ start THEN txData ELSE sending
        /\ conf' = IF tick /\ regTemp = "conf" THEN confTemp ELSE conf
    BY <1>3 DEF Clock, Control, Count
  <2>6. Busy \/ start' => conf' = conf
    BY <2>1 DEF TransferInv, PollOK
  <2>7. tick /\ regTemp = "data" => conf.on
    BY DEF TransferInv, PollOK, PhaseOK, Pending
  <2>8. conf'.on \in BOOLEAN
    BY <1>0, <2>1 DEF TypeParts, Confs
  <2>2. CASE state = "Idle" /\ ~start
    <3>1. state' = "Idle" /\ rx' = rx /\ sck = 0 /\ sck' = 0
      BY <1>3, <2>1, <2>2, QuietEdges DEF NextState, Clock, Shift, ShiftTick, TransferInv
    <3>2. got' = got /\ dev' = dev
      BY <2>1, <2>2, <3>1 DEF Device
    <3>3. CASE start'
      <4>1. Sent = None /\ Sent' = dataTemp /\ Received' = None /\ Taken' = None
        BY <2>1, <2>2, <3>1, <3>3 DEF Sent, Received, Taken, Busy
      <4>3. conf.on /\ conf' = conf
        BY <2>1, <2>6, <2>7, <3>3
      <4>2. Exchange!Start(dataTemp)
        BY <3>2, <4>1, <4>3 DEF Exchange!Start, Sent, Received, Taken
      <4> QED
        BY <4>2 DEF Exchange!Next, SentOK
    <3>4. CASE ~start'
      <4>1. Sent = None /\ UNCHANGED <<Sent, Received, Taken>>
        BY <2>2, <3>1, <3>4, <3>2 DEF Sent, Received, Taken, Busy
      <4>2. Exchange!Select
        BY <2>8, <3>2, <4>1 DEF Exchange!Select, Sent, Received, Taken
      <4> QED
        BY <4>2 DEF Exchange!Next
    <3> QED
      BY <3>3, <3>4
  <2>3. CASE start
    <3>1. state = "Idle"
      BY <2>3 DEF TransferInv, PhaseOK
    <3>2. state' = "Load" /\ dev' = dev /\ sending' = txData
      BY <2>1, <2>3, <3>1 DEF NextState, Device
    <3> QED
      BY <2>3, <2>6, <3>1, <3>2 DEF Sent, Received, Taken, Busy
  <2>4. CASE state \in {"Load", "Transfer"}
    <3>1. state' # "Idle" /\ dev' = dev /\ sending' = sending
      BY <2>1, <2>4 DEF NextState, Device
    <3> QED
      BY <2>4, <2>6, <3>1 DEF Sent, Received, Taken, Busy
  <2>5. CASE state = "Done"
    <3>1. ~start /\ ~start' /\ state' = "Idle"
      BY <2>1, <2>5 DEF TransferInv, PhaseOK, Pending, NextState
    <3>2. bitCount = Bits /\ sck = 0 /\ sck' = 0 /\ got = sending /\ rx' = rx
      BY <1>3, <2>5, QuietEdges, Counted DEF CountersOK, TransferInv, BitsOK, Clock, Shift, ShiftTick
    <3>3. got' = got /\ dev' \in Bytes
      BY <2>1, <3>2 DEF Device, SentOK
    <3>4. rx = dev
      <4>1. \A i \in 1 .. Bits : rx[Bits - Bits + i] = dev[i]
        BY <2>5, <3>2 DEF TransferInv, BitsOK
      <4>2. \A i \in 1 .. Bits : rx[i] = dev[i]
        BY <4>1, SpiAssumption
      <4> QED
        BY <4>2, Counted DEF Byte
    <3>5. Sent = sending /\ sending # None
      BY <2>5, Counted, BytesAreThere DEF Sent
    <3>6. Sent' = None /\ Received' = dev /\ Taken' = sending
      BY <3>1, <3>2, <3>3, <3>4 DEF Sent, Received, Taken, Busy
    <3>8. conf' = conf
      BY <2>5, <2>6 DEF Busy
    <3>7. Exchange!Swap
      BY <3>3, <3>5, <3>6, <3>8 DEF Exchange!Swap, Sent, Received, Taken
    <3> QED
      BY <3>7 DEF Exchange!Next
  <2> QED
    BY <2>2, <2>3, <2>4, <2>5, Counted
<1> QED
  BY <1>1, <1>2, <1>3 DEF Next

\* For programs that poll, each transfer exchanges the byte of the program for
\* the byte of the device, bit by bit through both registers, for every width,
\* rate and byte, whatever the phase of the two clocks, with the device selected
\* throughout. Nothing but a reset ends one early, and that clears both ends.
THEOREM TransfersExchange == ASSUME Polls PROVE Spec => ByteSwapped
<1>1. Init => Exchange!Init /\ SentOK
  BY ExchangeInit DEF Init, SentOK
<1>2. TransferInv /\ SentOK /\ [Next]_vars => Exchange!Next \/ UNCHANGED <<conf.on, Sent, Received, Taken, dev>>
  BY ExchangeStep
<1>3. SentOK /\ [Next]_vars => SentOK'
  BY SentStep
<1> QED
  BY <1>1, <1>2, <1>3, TransferInvariance, PTL
     DEF Spec, ByteSwapped, Exchange!Spec, Sent, Received, Taken
=============================================================================

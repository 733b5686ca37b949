------------------------- MODULE UsbKeyboard_proofs -------------------------
(***************************************************************************)
(* For every number of keys, limit, packet size and set of devices: the    *)
(* task polls only a keyboard that is ready for it, types each press at    *)
(* most once, and every variable keeps its type.                           *)
(***************************************************************************)
EXTENDS UsbKeyboard, FiniteSetTheorems, SequenceTheorems, WellFoundedInduction, TLAPS

-----------------------------------------------------------------------------
(* The script, of which the proofs need where it resets the bus and writes *)
(* PERADDR, and how it ends.                                               *)

LEMMA PacketsNat == ASSUME NEW b \in Seq(Byte) PROVE Packets(b) \in Nat
<1>1. Len(b) \in Nat OBVIOUS
<1>2. MAX_PACKET \in Nat /\ MAX_PACKET >= 1 BY KeyboardAssumption
<1>3. Len(b) + MAX_PACKET - 1 \in Nat BY <1>1, <1>2
<1>. QED BY <1>2, <1>3 DEF Packets

LEMMA StepsAre ==
  ASSUME NEW b \in Seq(Byte)
  PROVE  /\ Packets(b) \in Nat /\ Len(Steps(b)) = 15 + Packets(b)
         /\ \A i \in 1 .. 11 : Steps(b)[i] = FirstSteps[i]
         /\ \A i \in 1 .. Packets(b) : Steps(b)[11 + i] = Tok("in", "CONFIG")
         /\ \A i \in 1 .. 4 : Steps(b)[11 + Packets(b) + i] = LastSteps[i]
<1>1. Packets(b) \in Nat BY PacketsNat
<1>. DEFINE T == {FirstSteps[i] : i \in 1 .. 11} \cup {Tok("in", "CONFIG")} \cup {LastSteps[i] : i \in 1 .. 4}
<1>2. FirstSteps \in Seq(T) BY DEF FirstSteps
<1>3. LastSteps \in Seq(T) BY DEF LastSteps
<1>4. Answers(b) \in Seq(T) BY <1>1 DEF Answers
<1>5. Len(FirstSteps) = 11 /\ Len(LastSteps) = 4 BY DEF FirstSteps, LastSteps
<1>6. Len(Answers(b)) = Packets(b) /\ \A i \in 1 .. Packets(b) : Answers(b)[i] = Tok("in", "CONFIG")
  BY <1>1 DEF Answers
<1>. HIDE DEF T
<1>. DEFINE Begun == FirstSteps \o Answers(b)
<1>7. Begun \in Seq(T) BY <1>2, <1>4
<1>8. /\ Len(Begun) = Len(FirstSteps) + Len(Answers(b))
      /\ \A i \in 1 .. Len(FirstSteps) : Begun[i] = FirstSteps[i]
      /\ \A i \in 1 .. Len(Answers(b)) : Begun[Len(FirstSteps) + i] = Answers(b)[i]
  BY <1>2, <1>4
<1>9. Steps(b) = Begun \o LastSteps BY DEF Steps
<1>. HIDE DEF Begun
<1>10. /\ Len(Steps(b)) = Len(Begun) + Len(LastSteps)
       /\ \A i \in 1 .. Len(Begun) : Steps(b)[i] = Begun[i]
       /\ \A i \in 1 .. Len(LastSteps) : Steps(b)[Len(Begun) + i] = LastSteps[i]
  BY <1>3, <1>7, <1>9
<1>11. Len(Begun) = 11 + Packets(b) BY <1>5, <1>6, <1>8
<1>12. Len(Steps(b)) = 15 + Packets(b)
  BY <1>1, <1>5, <1>10, <1>11
<1>13. \A i \in 1 .. 4 : Steps(b)[11 + Packets(b) + i] = LastSteps[i]
  BY <1>5, <1>10, <1>11
<1>14. \A i \in 1 .. 11 : Steps(b)[i] = FirstSteps[i]
  <2>. SUFFICES ASSUME NEW i \in 1 .. 11 PROVE Steps(b)[i] = FirstSteps[i]
    OBVIOUS
  <2>1. i \in 1 .. Len(Begun) BY <1>1, <1>11
  <2>. QED BY <2>1, <1>5, <1>8, <1>10
<1>15. \A i \in 1 .. Packets(b) : Steps(b)[11 + i] = Tok("in", "CONFIG")
  <2>. SUFFICES ASSUME NEW i \in 1 .. Packets(b) PROVE Steps(b)[11 + i] = Tok("in", "CONFIG")
    OBVIOUS
  <2>1. 11 + i \in 1 .. Len(Begun) BY <1>1, <1>11
  <2>. QED BY <2>1, <1>5, <1>6, <1>8, <1>10
<1>. QED BY <1>1, <1>12, <1>13, <1>14, <1>15

LEMMA StepFacts ==
  ASSUME NEW b \in Seq(Byte), NEW i \in 1 .. Len(Steps(b))
  PROVE  /\ Len(Steps(b)) \in Nat /\ Len(Steps(b)) >= 15
         /\ Steps(b)[i].op = "reset" => i <= 5
         /\ Steps(b)[i].op = "peraddr" => i = 2 \/ (i = 8 /\ Steps(b)[i].addr = 1)
         /\ Steps(b)[i].op = "token" => i # 8
         /\ Steps(b)[i] = Tok("in", "CONFIG_SIZE") => i = 10
         /\ Steps(b)[i].op = "token" /\ Steps(b)[i].stage = "inhs"
              => Steps(b)[i].req \in {"SET_ADDRESS", "SET_CONFIGURATION", "SET_PROTOCOL"}
         /\ i = Len(Steps(b)) => Steps(b)[i] = Tok("inhs", "SET_PROTOCOL")
<1>1. Packets(b) \in Nat /\ Len(Steps(b)) = 15 + Packets(b) BY StepsAre
<1>. USE DEF BusReset, PerAddr, Tok
<1>2. CASE i \in 1 .. 11
  <2>1. Steps(b)[i] = FirstSteps[i] BY <1>2, StepsAre
  <2>. QED BY <1>1, <1>2, <2>1 DEF FirstSteps
<1>3. CASE i \in 12 .. 11 + Packets(b)
  <2>1. i - 11 \in 1 .. Packets(b) /\ 11 + (i - 11) = i BY <1>1, <1>3
  <2>2. Steps(b)[i] = Tok("in", "CONFIG") BY <2>1, StepsAre
  <2>. QED BY <1>1, <1>3, <2>2
<1>4. CASE i \in 12 + Packets(b) .. 15 + Packets(b)
  <2>. DEFINE j == i - 11 - Packets(b)
  <2>1. j \in 1 .. 4 /\ 11 + Packets(b) + j = i BY <1>1, <1>4
  <2>2. Steps(b)[i] = LastSteps[j] BY <2>1, StepsAre
  <2>3. i = Len(Steps(b)) => j = 4 BY <1>1, <2>1
  <2>4. 10 < i BY <1>1, <1>4
  <2>. HIDE DEF j
  <2>5. j = 1 \/ j = 2 \/ j = 3 \/ j = 4 BY <2>1
  <2>6. LastSteps[j].op = "token" /\ LastSteps[j] # Tok("in", "CONFIG_SIZE") BY <2>5 DEF LastSteps
  <2>7. LastSteps[j].stage = "inhs" => LastSteps[j].req \in {"SET_ADDRESS", "SET_CONFIGURATION", "SET_PROTOCOL"}
    BY <2>5 DEF LastSteps
  <2>8. j = 4 => LastSteps[j] = Tok("inhs", "SET_PROTOCOL") BY DEF LastSteps
  <2>. QED BY <1>1, <1>4, <2>2, <2>3, <2>4, <2>6, <2>7, <2>8
<1>. QED BY <1>1, <1>2, <1>3, <1>4

-----------------------------------------------------------------------------
(* The task polls only a keyboard that is ready for it. *)

DevStates == {"none", "powered", "default", "address", "configured", "boot"}

Types ==
  /\ dev \in DevStates /\ config \in Configs
  /\ blob \in Seq(Byte) /\ step \in Nat \ {0}

\* PERADDR is written early in the enumeration; what follows can only succeed with a
\* device at that address, and the last of it makes that device a boot keyboard.
Ready ==
  /\ pc = "enum" /\ step > 8 => peraddr = 1
  /\ Hurried => peraddr = 1 /\ dev \in {"boot", "none"}
  /\ pc \in Polling =>
       /\ peraddr = 1 /\ dev \in {"boot", "powered", "none"}
       /\ dev = "powered" => connirq
       /\ dev = "boot" => ~connirq

IInv == Types /\ Ready

LEMMA InitReady == Init => IInv
<1>. SUFFICES ASSUME Init PROVE IInv OBVIOUS
<1>1. blob \in Seq(Byte)
  <2>1. blob = <<>> BY DEF Init
  <2>. QED BY <2>1
<1>2. pc = "wait" BY DEF Init
<1>3. Types BY <1>1 DEF Init, Types, DevStates
<1>. QED BY <1>2, <1>3 DEF IInv, Ready, Hurried, Polling

LEMMA NextReady == IInv /\ [Next]_vars => IInv'
<1>. SUFFICES ASSUME IInv, [Next]_vars PROVE IInv' OBVIOUS
<1>. USE DEF IInv, DevStates, Polling
<1>0. blob \in Seq(Byte) /\ step \in Nat BY DEF Types
<1>len. Len(Script) \in Nat /\ Len(Script) >= 15 BY <1>0, StepsAre DEF Script
<1>same. ASSUME blob' = blob PROVE Len(Script)' = Len(Script)
  BY <1>same DEF Script, Steps, Answers, Packets
<1>1. CASE Plug
  <2>1. Len(Script)' = Len(Script) BY <1>1, <1>same DEF Plug, taskVars
  <2>2. Types' BY <1>1 DEF Plug, Types, taskVars
  <2>3. Ready' BY <1>1, <2>1, <1>len, <1>0 DEF Plug, Types, Ready, Hurried, taskVars
  <2>. QED BY <2>2, <2>3
<1>2. CASE Unplug
  <2>1. Len(Script)' = Len(Script) BY <1>2, <1>same DEF Unplug, taskVars
  <2>2. Types' BY <1>2 DEF Unplug, Types, taskVars
  <2>3. Ready' BY <1>2, <2>1, <1>len, <1>0 DEF Unplug, Types, Ready, Hurried, taskVars
  <2>. QED BY <2>2, <2>3
<1>3. ASSUME NEW k \in Keys, Press(k) \/ Release(k) PROVE IInv'
  <2>1. Len(Script)' = Len(Script) BY <1>3, <1>same DEF Press, Release, taskVars
  <2>. QED BY <1>3, <2>1 DEF Press, Release, Types, Ready, Hurried, taskVars
<1>4. CASE Shift \/ GetChar
  <2>1. Len(Script)' = Len(Script) BY <1>4, <1>same DEF Shift, GetChar, taskVars
  <2>. QED BY <1>4, <2>1 DEF Shift, GetChar, Types, Ready, Hurried, taskVars, deviceVars
<1>5. CASE Sample \/ ClearSeen
  <2>1. Len(Script)' = Len(Script) BY <1>5, <1>same DEF Sample, ClearSeen
  <2>. QED BY <1>5, <2>1, <1>len DEF Sample, ClearSeen, Types, Ready, Hurried, deviceVars
<1>6. CASE EnumReset
  <2>1. Len(Script)' = Len(Script) BY <1>6, <1>same DEF EnumReset
  <2>2. step <= 5 BY <1>6, <1>0, <1>len, StepFacts DEF EnumReset, AtStep, Script, Types
  <2>. QED BY <1>6, <2>1, <2>2, <1>len DEF EnumReset, AtStep, Types, Ready, Hurried
<1>7. CASE EnumPerAddr
  <2>1. Len(Script)' = Len(Script) BY <1>7, <1>same DEF EnumPerAddr
  <2>2. step = 2 \/ (step = 8 /\ Script[step].addr = 1)
    BY <1>7, <1>0, <1>len, StepFacts DEF EnumPerAddr, AtStep, Script, Types
  <2>. QED BY <1>7, <2>1, <2>2, <1>len DEF EnumPerAddr, AtStep, Types, Ready, Hurried, deviceVars
<1>8. ASSUME NEW r, EnumToken(r) PROVE IInv'
  <2>1. step \in 1 .. Len(Script) /\ Script[step].op = "token" /\ pc = "enum"
    BY <1>8, <1>0, <1>len DEF EnumToken, AtStep, Types
  <2>2. step # 8 BY <2>1, <1>0, StepFacts DEF Script
  <2>3. CASE Retried(r, NAK_LIMIT)
    <3>1. Len(Script)' = Len(Script) BY <1>8, <2>3, <1>same DEF EnumToken
    <3>. QED BY <1>8, <2>1, <2>3, <3>1 DEF EnumToken, Types, Ready, Hurried
  <2>4. CASE ~Retried(r, NAK_LIMIT) /\ r # "ok"
    <3>1. pc' = "wait" /\ step' = 1 /\ blob' = <<>> /\ dev' = dev
      BY <1>8, <2>4 DEF EnumToken, Failed
    <3>2. <<>> \in Seq(Byte) OBVIOUS
    <3>. QED BY <1>8, <3>1, <3>2 DEF EnumToken, Types, Ready, Hurried
  <2>5. CASE ~Retried(r, NAK_LIMIT) /\ r = "ok"
    <3>1. /\ dev' = DeviceAfter(Script[step]) /\ step' = step + 1 /\ pc' = pc
          /\ peraddr' = peraddr /\ connirq' = connirq /\ config' = config
          /\ blob' = IF Script[step] = Tok("in", "CONFIG_SIZE") THEN config ELSE blob
      BY <1>8, <2>5 DEF EnumToken
    <3>2. Listens BY <1>8, <2>5 DEF EnumToken, Results
    <3>3. dev' \in DevStates
      BY <2>1, <3>1, <1>0, StepFacts DEF DeviceAfter, Script, Types
    <3>4. config \in Seq(Byte) BY KeyboardAssumption DEF Types
    <3>5. blob' \in Seq(Byte) BY <3>1, <3>4, <1>0
    <3>6. step' > 8 => peraddr' = 1 BY <2>1, <2>2, <3>1, <1>0 DEF Ready
    <3>7. Len(Script)' \in Nat /\ Len(Script)' >= 15 BY <3>5, StepsAre DEF Script
    <3>8. CASE Script[step] = Tok("in", "CONFIG_SIZE")
      <4>1. step = 10 BY <2>1, <3>8, <1>0, StepFacts DEF Script
      <4>. QED BY <2>1, <3>1, <3>3, <3>5, <3>6, <3>7, <4>1 DEF Types, Ready, Hurried
    <3>9. CASE Script[step] # Tok("in", "CONFIG_SIZE")
      <4>1. Len(Script)' = Len(Script) BY <3>1, <3>9, <1>same
      <4>2. ASSUME step = Len(Script) PROVE dev' = "boot" /\ peraddr' = 1
        <5>1. Script[step] = Tok("inhs", "SET_PROTOCOL") BY <4>2, <2>1, <1>0, StepFacts DEF Script
        <5>. QED BY <3>1, <3>6, <4>2, <5>1, <1>len DEF DeviceAfter, Tok
      <4>. QED BY <2>1, <3>1, <3>3, <3>5, <3>6, <4>1, <4>2, <1>len DEF Types, Ready, Hurried
    <3>. QED BY <3>8, <3>9
  <2>. QED BY <2>3, <2>4, <2>5
<1>9. CASE EnumDone
  <2>1. <<>> \in Seq(Byte) OBVIOUS
  <2>2. Types' BY <1>9, <2>1 DEF EnumDone, Types, deviceVars
  <2>3. Ready' BY <1>9, <1>0 DEF EnumDone, Ready, Hurried, deviceVars
  <2>. QED BY <2>2, <2>3
<1>10. CASE ClearStale
  <2>1. Len(Script)' = Len(Script) BY <1>10, <1>same DEF ClearStale
  <2>. QED BY <1>10, <2>1 DEF ClearStale, StaleCleared, Types, Ready, Hurried, deviceVars
<1>11. CASE Poll \/ Bail
  <2>1. Len(Script)' = Len(Script) BY <1>11, <1>same DEF Poll, Bail
  <2>. QED BY <1>11, <2>1 DEF Poll, Bail, Types, Ready, Hurried, deviceVars
<1>12. CASE Enqueue \/ Enqueued
  <2>1. Len(Script)' = Len(Script) BY <1>12, <1>same DEF Enqueue, Enqueued
  <2>. QED BY <1>12, <2>1 DEF Enqueue, Enqueued, Types, Ready, Hurried, deviceVars
<1>13. ASSUME NEW r, PollToken(r) PROVE IInv'
  <2>1. Len(Script)' = Len(Script) BY <1>13, <1>same DEF PollToken
  <2>2. pc = "report" /\ pc' \in {"report", "poll", "type"} /\ UNCHANGED <<deviceVars, connirq, peraddr, step, blob>>
    BY <1>13 DEF PollToken
  <2>. QED BY <2>1, <2>2 DEF Types, Ready, Hurried, deviceVars
<1>14. CASE UNCHANGED vars
  <2>1. Len(Script)' = Len(Script) BY <1>14, <1>same DEF vars, taskVars
  <2>. QED BY <1>14, <2>1 DEF vars, taskVars, deviceVars, Types, Ready, Hurried
<1>. QED
  BY <1>1, <1>2, <1>3, <1>4, <1>5, <1>6, <1>7, <1>8, <1>9, <1>10, <1>11, <1>12, <1>13, <1>14
     DEF Next, User, Task, Token

\* poll_hid polls a keyboard that is enumerated and at the address it is polled at,
\* or none, or one that CONNIRQ tells it of.
THEOREM PolledIsReady == Spec => []PollsReady
<1>1. IInv => PollsReady BY DEF IInv, Ready, PollsReady, Types
<1>. QED BY InitReady, NextReady, <1>1, PTL DEF Spec

-----------------------------------------------------------------------------
(* A press is typed once. *)

\* The keyboard is polled and the last report has the key.
Heard(k) == pc \in Polling /\ dev = "boot" /\ k \in prev.keys

Owing ==
  /\ held \subseteq Keys /\ Cardinality(held) <= MaxHeld
  /\ owed \in [Keys -> Int]
  /\ \A k \in Keys : owed[k] >= 0
  /\ \A k \in held : owed[k] = 1 \/ Heard(k)

LEMMA InitOwing == Init => Owing
<1>. SUFFICES ASSUME Init PROVE Owing OBVIOUS
<1>1. Cardinality(held) <= MaxHeld
  <2>1. held = {} BY DEF Init
  <2>2. Cardinality(held) = 0 BY <2>1, FS_EmptySet
  <2>3. MaxHeld \in Nat BY KeyboardAssumption
  <2>. QED BY <2>2, <2>3
<1>. QED BY <1>1 DEF Init, Owing

\* As long as a report has room for all keys.
LEMMA ReportIsHeld ==
  ASSUME MaxHeld <= SLOTS, Owing PROVE Report.keys = held
<1>1. IsFiniteSet(held) BY FS_Subset, KeyboardAssumption DEF Owing
<1>2. Cardinality(held) \in Nat BY <1>1, FS_CardinalityType
<1>3. Cardinality(held) <= SLOTS BY <1>2, KeyboardAssumption DEF Owing
<1>. QED BY <1>3 DEF Report

LEMMA NextOwing == ASSUME MaxHeld <= SLOTS PROVE IInv /\ Owing /\ [Next]_vars => Owing'
<1>. SUFFICES ASSUME IInv, Owing, [Next]_vars PROVE Owing' OBVIOUS
<1>. USE DEF Polling
<1>1. CASE Plug
  BY <1>1 DEF Plug, Owing, Heard, taskVars
<1>2. CASE Unplug
  <2>1. held' = {} /\ owed' = [k \in Keys |-> 0] BY <1>2 DEF Unplug
  <2>2. Cardinality(held') <= MaxHeld BY <2>1, FS_EmptySet, KeyboardAssumption
  <2>. QED BY <2>1, <2>2 DEF Owing
<1>3. ASSUME NEW k \in Keys, Press(k) PROVE Owing'
  BY <1>3 DEF Press, Owing, Heard, taskVars
<1>4. ASSUME NEW k \in Keys, Release(k) PROVE Owing'
  <2>1. held' = held \ {k} /\ UNCHANGED <<dev, pc, prev, owed>> BY <1>4 DEF Release, taskVars
  <2>2. Cardinality(held') <= MaxHeld
    <3>1. IsFiniteSet(held) BY FS_Subset, KeyboardAssumption DEF Owing
    <3>2. IsFiniteSet(held') /\ Cardinality(held') <= Cardinality(held) BY <2>1, <3>1, FS_Subset
    <3>3. Cardinality(held) \in Nat /\ Cardinality(held') \in Nat BY <3>1, <3>2, FS_CardinalityType
    <3>. QED BY <3>2, <3>3, KeyboardAssumption DEF Owing
  <2>. QED BY <2>1, <2>2 DEF Owing, Heard
<1>5. CASE Shift \/ GetChar
  BY <1>5 DEF Shift, GetChar, Owing, Heard, taskVars, deviceVars
<1>6. CASE Sample \/ ClearSeen \/ EnumReset \/ EnumPerAddr \/ EnumDone \/ ClearStale
  <2>1. pc \notin Polling /\ UNCHANGED <<held, owed>>
    BY <1>6 DEF Sample, ClearSeen, EnumReset, EnumPerAddr, EnumDone, ClearStale, AtStep, deviceVars
  <2>. QED BY <2>1 DEF Owing, Heard
<1>7. ASSUME NEW r, EnumToken(r) PROVE Owing'
  <2>1. pc \notin Polling /\ UNCHANGED <<held, owed>>
    BY <1>7 DEF EnumToken, AtStep
  <2>. QED BY <2>1 DEF Owing, Heard
<1>8. CASE Poll \/ Bail
  <2>1. UNCHANGED <<held, dev, prev, owed>> BY <1>8 DEF Poll, Bail, deviceVars
  <2>2. \A k \in held : Heard(k) => Heard(k)'
    BY <1>8, <2>1 DEF Poll, Bail, Heard, IInv, Ready
  <2>. QED BY <2>1, <2>2 DEF Owing
<1>9. CASE Enqueue \/ Enqueued
  BY <1>9 DEF Enqueue, Enqueued, Owing, Heard, deviceVars
<1>10. ASSUME NEW r, PollToken(r) PROVE Owing'
  <2>1. pc = "report" /\ pc' \in Polling /\ UNCHANGED <<dev, held>>
    BY <1>10 DEF PollToken, deviceVars
  <2>2. CASE UNCHANGED <<prev, owed>>
    BY <2>1, <2>2 DEF Owing, Heard
  <2>3. CASE ~UNCHANGED <<prev, owed>>
    <3>1. /\ r = "ok" /\ r \in Results /\ prev' = Report
          /\ owed' = [k \in Keys |-> IF k \in NewKeys(Report) THEN owed[k] - 1 ELSE owed[k]]
      BY <1>10, <2>3 DEF PollToken
    <3>2. dev = "boot" BY <2>1, <3>1 DEF Results, Listens, IInv, Ready
    <3>3. Report.keys = held BY ReportIsHeld
    <3>4. \A k \in NewKeys(Report) : k \in held /\ owed[k] = 1
      BY <3>3 DEF NewKeys, Owing, Heard
    <3>5. owed' \in [Keys -> Int] /\ \A k \in Keys : owed'[k] >= 0
      BY <3>1, <3>4 DEF Owing
    <3>6. \A k \in held : Heard(k)'
      BY <2>1, <3>1, <3>2, <3>3 DEF Heard
    <3>. QED BY <2>1, <3>5, <3>6 DEF Owing
  <2>. QED BY <2>2, <2>3
<1>11. CASE UNCHANGED vars
  BY <1>11 DEF vars, taskVars, deviceVars, Owing, Heard
<1>. QED
  BY <1>1, <1>2, <1>3, <1>4, <1>5, <1>6, <1>7, <1>8, <1>9, <1>10, <1>11
     DEF Next, User, Task, Token

\* process_report types a press once at most, as long as no more keys are held at once
\* than a report has room for.
THEOREM PressIsTypedOnce == ASSUME MaxHeld <= SLOTS PROVE Spec => []TypedOnce
<1>1. Owing => TypedOnce BY DEF Owing, TypedOnce
<1>. QED BY InitReady, NextReady, InitOwing, NextOwing, <1>1, PTL DEF Spec

-----------------------------------------------------------------------------
(* Types. What process_report has to queue is a concatenation, which is a  *)
(* recursive function over the keys: that it exists and keeps its type is  *)
(* an induction, here from the least number of a set.                      *)

Chars == Byte \ {0}

LEMMA Minimal ==
  ASSUME NEW R, IsWellFoundedOn(R, Nat), NEW T, T \subseteq Nat, T # {}
  PROVE  \E x \in T : \A y \in T : ~(<<y, x>> \in R)
BY WFMin

LEMMA Least ==
  ASSUME NEW T, T \subseteq Nat, T # {}
  PROVE  \E x \in T : \A y \in T : x <= y
<1>1. ASSUME NEW R, IsWellFoundedOn(R, Nat), \A x, y \in Nat : <<x, y>> \in R <=> x < y
      PROVE  \E x \in T : \A y \in T : x <= y
  <2>1. PICK x \in T : \A y \in T : ~(<<y, x>> \in R)
    <3>1. IsWellFoundedOn(R, Nat) BY <1>1
    <3>. QED BY <3>1, Minimal
  <2>2. ASSUME NEW y \in T PROVE x <= y
    <3>1. x \in Nat /\ y \in Nat /\ ~(<<y, x>> \in R) BY <2>1
    <3>. QED BY <1>1, <3>1
  <2>. QED BY <2>2
<1>2. IsWellFoundedOn(OpToRel(<, Nat), Nat) BY NatLessThanWellFounded
<1>3. \A x, y \in Nat : <<x, y>> \in OpToRel(<, Nat) <=> x < y BY DEF OpToRel
<1>4. \E R : IsWellFoundedOn(R, Nat) /\ \A x, y \in Nat : <<x, y>> \in R <=> x < y
  <2>. WITNESS OpToRel(<, Nat)
  <2>. QED BY <1>2, <1>3, Zenon
<1>. QED BY <1>1, <1>4

LEMMA Induction ==
  ASSUME NEW S, 0 \in S, NEW n \in Nat, \A i \in 0 .. n - 1 : i \in S => i + 1 \in S
  PROVE  \A i \in 0 .. n : i \in S
<1> DEFINE T == {i \in 0 .. n : i \notin S}
<1>1. SUFFICES ASSUME T # {} PROVE FALSE
  OBVIOUS
<1>2. T \subseteq Nat OBVIOUS
<1>3. PICK x \in T : \A y \in T : x <= y
  <2>. HIDE DEF T
  <2>. QED BY <1>1, <1>2, Least
<1>4. x # 0 /\ x \in 0 .. n /\ x \notin S OBVIOUS
<1>5. x - 1 \in 0 .. n - 1 /\ x - 1 \notin T BY <1>3, <1>4
<1>6. x - 1 \in S BY <1>5
<1>. QED BY <1>4, <1>5, <1>6

\* A piece of a concatenation, from the pieces before it.
Joined(q, f, i) == IF i = 1 THEN q[i] ELSE f[i - 1] \o q[i]

LEMMA JoinExists ==
  ASSUME NEW q, NEW n \in Nat
  PROVE  \E f : f = [i \in 1 .. n |-> Joined(q, f, i)]
<1> DEFINE S == {k \in 0 .. n : \E f : f = [i \in 1 .. k |-> Joined(q, f, i)]}
<1>1. 0 \in S
  <2>1. PICK f : f = [i \in 1 .. 0 |-> 0] OBVIOUS
  <2>2. f = [i \in 1 .. 0 |-> Joined(q, f, i)] BY <2>1
  <2>3. 0 \in 0 .. n /\ \E g : g = [i \in 1 .. 0 |-> Joined(q, g, i)] BY <2>2
  <2>. QED BY <2>3
<1>2. ASSUME NEW k \in 0 .. n - 1, k \in S PROVE k + 1 \in S
  <2>1. PICK f : f = [i \in 1 .. k |-> Joined(q, f, i)] BY <1>2
  <2>2. PICK l \in 1 .. n : l = k + 1 OBVIOUS
  <2>3. PICK g : g = [i \in 1 .. l |-> IF i = l THEN Joined(q, f, i) ELSE f[i]] OBVIOUS
  <2>4. ASSUME NEW i \in 1 .. l PROVE g[i] = Joined(q, g, i)
    <3>1. i # 1 => i - 1 \in 1 .. l /\ i - 1 # l BY <2>2
    <3>2. i # 1 => g[i - 1] = f[i - 1] BY <2>3, <3>1
    <3>3. Joined(q, g, i) = Joined(q, f, i) BY <3>2 DEF Joined
    <3>4. CASE i = l BY <2>3, <3>3, <3>4
    <3>5. CASE i # l
      <4>1. i \in 1 .. k BY <2>2, <3>5
      <4>. QED BY <2>1, <2>3, <3>3, <3>5, <4>1
    <3>. QED BY <3>4, <3>5
  <2>5. g = [i \in 1 .. l |-> Joined(q, g, i)] BY <2>3, <2>4
  <2>. QED BY <2>2, <2>5
<1>3. \A k \in 0 .. n : k \in S
  <2>. HIDE DEF S
  <2>. QED BY <1>1, <1>2, Induction
<1>4. n \in S BY <1>3
<1>. QED BY <1>4

LEMMA FlattenIs ==
  ASSUME NEW q
  PROVE  FlattenSeq(q) = IF Len(q) = 0 THEN q
                         ELSE (CHOOSE f : f = [i \in 1 .. Len(q) |-> Joined(q, f, i)])[Len(q)]
BY DEF FlattenSeq, Joined

LEMMA FlattenType ==
  ASSUME NEW S, NEW q \in Seq(Seq(S))
  PROVE  FlattenSeq(q) \in Seq(S)
<1>1. PICK n \in Nat : n = Len(q) OBVIOUS
<1>2. CASE n = 0
  <2>1. FlattenSeq(q) = q BY <1>1, <1>2, FlattenIs
  <2>2. q \in Seq(S)
    <3>1. Len(q) = 0 BY <1>1, <1>2
    <3>. QED BY <3>1, EmptySeq
  <2>. QED BY <2>1, <2>2
<1>3. CASE n # 0
  <2>1. PICK f : f = CHOOSE g : g = [i \in 1 .. n |-> Joined(q, g, i)] OBVIOUS
  <2>2. f = [i \in 1 .. n |-> Joined(q, f, i)] BY <2>1, JoinExists
  <2>3. FlattenSeq(q) = f[n] BY <1>1, <1>3, <2>1, FlattenIs
  <2>4. \A i \in 1 .. n : q[i] \in Seq(S) BY <1>1
  <2> DEFINE T == {k \in 0 .. n : k = 0 \/ f[k] \in Seq(S)}
  <2>5. 0 \in T OBVIOUS
  <2>6. ASSUME NEW k \in 0 .. n - 1, k \in T PROVE k + 1 \in T
    <3>1. PICK l \in 1 .. n : l = k + 1 /\ l - 1 = k OBVIOUS
    <3>2. f[l] = Joined(q, f, l) BY <2>2
    <3>3. f[l] \in Seq(S)
      <4>1. CASE l = 1 BY <2>4, <3>2, <4>1 DEF Joined
      <4>2. CASE l # 1
        <5>1. f[k] \in Seq(S) BY <2>6, <3>1, <4>2
        <5>2. f[l] = f[k] \o q[l] BY <3>1, <3>2, <4>2 DEF Joined
        <5>. QED BY <2>4, <5>1, <5>2
      <4>. QED BY <4>1, <4>2
    <3>. QED BY <3>1, <3>3
  <2>7. \A k \in 0 .. n : k \in T
    <3>. HIDE DEF T
    <3>. QED BY <2>5, <2>6, Induction
  <2>. QED BY <1>3, <2>3, <2>7
<1>. QED BY <1>2, <1>3

\* No key types a 0, which would not be told from no key.
LEMMA AsciiIs ==
  ASSUME NEW k \in 1 .. 223, NEW i \in {1, 2}
  PROVE  KEYCODE_TO_ASCII(k)[i] \in Byte
<1>. USE DEF Byte
<1>1. CASE k \in 4 .. 29
  <2>1. KEYCODE_TO_ASCII(k) = <<k + 93, k + 61>> BY <1>1 DEF KEYCODE_TO_ASCII
  <2>2. k + 93 \in Byte /\ k + 61 \in Byte BY <1>1
  <2>. QED BY <2>1, <2>2
<1>2. CASE k \in 30 .. 38
  <2>1. PICK j \in 1 .. 9 : j = k - 29 BY <1>2
  <2>2. SHIFTED_DIGITS[j] \in Byte BY DEF SHIFTED_DIGITS
  <2>3. KEYCODE_TO_ASCII(k) = <<k + 19, SHIFTED_DIGITS[j]>> BY <1>2, <2>1 DEF KEYCODE_TO_ASCII
  <2>4. k + 19 \in Byte BY <1>2
  <2>. QED BY <2>2, <2>3, <2>4
<1>3. CASE k = 39
  <2>1. KEYCODE_TO_ASCII(k) = <<48, SHIFTED_DIGITS[10]>> BY <1>3 DEF KEYCODE_TO_ASCII
  <2>. QED BY <2>1 DEF SHIFTED_DIGITS
<1>4. CASE k \in 40 .. 44
  <2>1. PICK j \in 1 .. 5 : j = k - 39 BY <1>4
  <2>2. CONTROLS[j] \in Byte BY DEF CONTROLS
  <2>3. KEYCODE_TO_ASCII(k) = Both(CONTROLS[j]) BY <1>4, <2>1 DEF KEYCODE_TO_ASCII
  <2>. QED BY <2>2, <2>3 DEF Both
<1>5. CASE k \in 45 .. 56
  <2>1. PICK j \in 1 .. 12 : j = k - 44 BY <1>5
  <2>2. PUNCTUATION[j][i] \in Byte BY DEF PUNCTUATION
  <2>3. KEYCODE_TO_ASCII(k) = PUNCTUATION[j] BY <1>5, <2>1 DEF KEYCODE_TO_ASCII
  <2>. QED BY <2>2, <2>3
<1>6. CASE k \in 84 .. 88
  <2>1. PICK j \in 1 .. 5 : j = k - 83 BY <1>6
  <2>2. KEYPAD_SIGNS[j] \in Byte BY DEF KEYPAD_SIGNS
  <2>3. KEYCODE_TO_ASCII(k) = Both(KEYPAD_SIGNS[j]) BY <1>6, <2>1 DEF KEYCODE_TO_ASCII
  <2>. QED BY <2>2, <2>3 DEF Both
<1>7. CASE k \in 89 .. 97
  <2>1. KEYCODE_TO_ASCII(k) = IF k = 93 THEN Both(53) ELSE <<k - 40, 0>> BY <1>7 DEF KEYCODE_TO_ASCII
  <2>2. k - 40 \in Byte BY <1>7
  <2>. QED BY <2>1, <2>2 DEF Both
<1>8. CASE k \in {98, 99, 103}
  <2>1. KEYCODE_TO_ASCII(k) = IF k = 98 THEN <<48, 0>> ELSE IF k = 99 THEN <<46, 0>> ELSE Both(61)
    BY <1>8 DEF KEYCODE_TO_ASCII
  <2>. QED BY <2>1 DEF Both
<1>9. CASE k \in 1 .. 3 \/ k \in 57 .. 83 \/ k \in 100 .. 102 \/ k \in 104 .. 223
  <2>1. KEYCODE_TO_ASCII(k) = <<0, 0>> BY <1>9 DEF KEYCODE_TO_ASCII, Nothing
  <2>. QED BY <2>1
<1>. QED BY <1>1, <1>2, <1>3, <1>4, <1>5, <1>6, <1>7, <1>8, <1>9

LEMMA AnsiIs ==
  ASSUME NEW k \in 1 .. 223
  PROVE  KEYCODE_TO_ANSI(k) \in Seq(Chars)
<1>. USE DEF Chars, Byte
<1>1. CASE k \in 79 .. 82
  <2>1. CASE k = 79
    <3>1. KEYCODE_TO_ANSI(k) = <<27, 91, 67>> BY <2>1 DEF KEYCODE_TO_ANSI, ESCAPE
    <3>. QED BY <3>1
  <2>2. CASE k = 80
    <3>1. KEYCODE_TO_ANSI(k) = <<27, 91, 68>> BY <2>2 DEF KEYCODE_TO_ANSI, ESCAPE
    <3>. QED BY <3>1
  <2>3. CASE k = 81
    <3>1. KEYCODE_TO_ANSI(k) = <<27, 91, 66>> BY <2>3 DEF KEYCODE_TO_ANSI, ESCAPE
    <3>. QED BY <3>1
  <2>4. CASE k = 82
    <3>1. KEYCODE_TO_ANSI(k) = <<27, 91, 65>> BY <2>4 DEF KEYCODE_TO_ANSI, ESCAPE
    <3>. QED BY <3>1
  <2>. QED BY <1>1, <2>1, <2>2, <2>3, <2>4
<1>2. CASE k \in {74, 77, 76}
  <2>1. CASE k = 74
    <3>1. KEYCODE_TO_ANSI(k) = <<27, 91, 72>> BY <2>1 DEF KEYCODE_TO_ANSI, ESCAPE
    <3>. QED BY <3>1
  <2>2. CASE k = 77
    <3>1. KEYCODE_TO_ANSI(k) = <<27, 91, 70>> BY <2>2 DEF KEYCODE_TO_ANSI, ESCAPE
    <3>. QED BY <3>1
  <2>3. CASE k = 76
    <3>1. KEYCODE_TO_ANSI(k) = <<27, 91, 51, 126>> BY <2>3 DEF KEYCODE_TO_ANSI, ESCAPE
    <3>. QED BY <3>1
  <2>. QED BY <1>2, <2>1, <2>2, <2>3
<1>3. CASE k \in 58 .. 61
  <2>1. PICK c \in Chars : c = k + 22 BY <1>3
  <2>2. KEYCODE_TO_ANSI(k) = <<27, 79, c>> BY <1>3, <2>1 DEF KEYCODE_TO_ANSI, ESCAPE
  <2>. QED BY <2>2
<1>4. CASE k \notin (79 .. 82) \cup {74, 77, 76} \cup (58 .. 61)
  <2>1. KEYCODE_TO_ANSI(k) = <<>> BY <1>4 DEF KEYCODE_TO_ANSI
  <2>. QED BY <2>1
<1>. QED BY <1>1, <1>2, <1>3, <1>4

LEMMA TypedIs ==
  ASSUME NEW k \in 1 .. 223, NEW s
  PROVE  Typed(k, s) \in Seq(Chars)
<1>1. PICK i \in {1, 2} : i = IF s THEN 2 ELSE 1 OBVIOUS
<1>2. PICK c : c = KEYCODE_TO_ASCII(k)[i] OBVIOUS
<1>3. c \in Byte BY <1>2, AsciiIs
<1>4. Typed(k, s) = IF c # 0 THEN <<c>> ELSE KEYCODE_TO_ANSI(k) BY <1>1, <1>2 DEF Typed
<1>5. CASE c = 0 BY <1>4, <1>5, AnsiIs
<1>6. CASE c # 0
  <2>1. c \in Chars BY <1>3, <1>6 DEF Chars
  <2>. QED BY <1>4, <1>6, <2>1
<1>. QED BY <1>5, <1>6

LEMMA TypingsType ==
  ASSUME NEW c \in Reports, prev \in Reports, NEW t \in Typings(c)
  PROVE  t \in Seq(Chars)
<1> DEFINE N == NewKeys(c)
<1>1. N \subseteq Keys \cup {ROLLOVER} BY DEF NewKeys, Reports
<1>2. Cardinality(N) \in Nat
  <2>1. IsFiniteSet(Keys \cup {ROLLOVER}) BY FS_AddElement, KeyboardAssumption
  <2>2. IsFiniteSet(N) BY <1>1, <2>1, FS_Subset
  <2>. QED BY <2>2, FS_CardinalityType
<1>3. N \subseteq 1 .. 223
  <2>1. Keys \subseteq 4 .. 223 BY KeyboardAssumption
  <2>2. \A k \in Keys \cup {ROLLOVER} : k \in 1 .. 223 BY <2>1 DEF ROLLOVER
  <2>. HIDE DEF N
  <2>. QED BY <1>1, <2>2
<1>4. PICK order \in SetToSeqs(N) : t = FlattenSeq([i \in DOMAIN order |-> Typed(order[i], c.shift)])
  BY DEF Typings
<1>. HIDE DEF N
<1>5. PICK n \in Nat : n = Cardinality(N) BY <1>2
<1>6. order \in [1 .. n -> N] BY <1>5 DEF SetToSeqs
<1>7. \A i \in 1 .. n : Typed(order[i], c.shift) \in Seq(Chars) BY <1>3, <1>6, TypedIs
<1>8. PICK q : q = [i \in 1 .. n |-> Typed(order[i], c.shift)] OBVIOUS
<1>9. q \in Seq(Seq(Chars)) BY <1>7, <1>8
<1>10. t = FlattenSeq(q) BY <1>4, <1>6, <1>8
<1>. QED BY <1>9, <1>10, FlattenType

\* The limits of dispatch_pkt keep the counters below them.
LEMMA CountersType ==
  ASSUME TypeOK, NEW r, NEW limit \in {NAK_LIMIT, NAK_LIMIT_HID},
         (Retried(r, limit) /\ Counted(r)) \/ NotCounted
  PROVE  naks' \in 0 .. NAK_LIMIT + NAK_LIMIT_HID /\ tries' \in 0 .. RETRY_LIMIT - 1
<1>. USE KeyboardAssumption
<1>1. naks \in 0 .. NAK_LIMIT + NAK_LIMIT_HID /\ tries \in 0 .. RETRY_LIMIT - 1 BY DEF TypeOK
<1>2. CASE NotCounted BY <1>2 DEF NotCounted
<1>3. CASE Retried(r, limit) /\ Counted(r) BY <1>1, <1>3 DEF Retried, Counted
<1>. QED BY <1>2, <1>3

LEMMA BlobIs == ASSUME TypeOK PROVE blob \in Seq(Byte) /\ step \in Nat /\ Len(Script) \in Nat /\ Len(Script) >= 15
<1>1. <<>> \in Seq(Byte) OBVIOUS
<1>2. blob \in Seq(Byte) BY <1>1, KeyboardAssumption DEF TypeOK
<1>3. Len(Script) \in Nat /\ Len(Script) >= 15 BY <1>2, StepsAre DEF Script
<1>. QED BY <1>2, <1>3 DEF TypeOK

LEMMA InitTypes == Init => TypeOK
<1>. SUFFICES ASSUME Init PROVE TypeOK OBVIOUS
<1>1. <<>> \in Seq(Byte) OBVIOUS
<1>2. blob = <<>> BY DEF Init
<1>3. Len(Script) \in Nat /\ Len(Script) >= 15
  <2>1. blob \in Seq(Byte) BY <1>1, <1>2
  <2>. QED BY <2>1, StepsAre DEF Script
<1>4. <<>> \in Seq(Byte \ {0}) /\ Len(<<>>) = 0 OBVIOUS
<1>5. prev \in Reports BY DEF Init, NoKeys, Reports
<1>6. 0 \in 0 .. NAK_LIMIT + NAK_LIMIT_HID /\ 0 \in 0 .. RETRY_LIMIT - 1 /\ 0 <= KeyDepth
  BY KeyboardAssumption
<1>7. queue \in Seq(Byte \ {0}) /\ typing \in Seq(Byte \ {0}) /\ Len(queue) <= KeyDepth
  BY <1>4, <1>6 DEF Init
<1>8. step \in 1 .. Len(Script) + 1 BY <1>3 DEF Init
<1>. QED BY <1>2, <1>5, <1>6, <1>7, <1>8 DEF Init, TypeOK, Polling

LEMMA NextTypes == TypeOK /\ [Next]_vars => TypeOK'
<1>. SUFFICES ASSUME TypeOK, [Next]_vars PROVE TypeOK' OBVIOUS
<1>. USE DEF Polling
<1>0. blob \in Seq(Byte) /\ step \in Nat /\ Len(Script) \in Nat /\ Len(Script) >= 15 BY BlobIs
<1>same. ASSUME blob' = blob PROVE Len(Script)' = Len(Script)
  BY <1>same DEF Script, Steps, Answers, Packets
<1>1. CASE Plug
  <2>1. Len(Script)' = Len(Script) BY <1>1, <1>same DEF Plug, taskVars
  <2>. QED BY <1>1, <2>1 DEF Plug, TypeOK, taskVars, countVars
<1>2. CASE Unplug
  <2>1. Len(Script)' = Len(Script) BY <1>2, <1>same DEF Unplug, taskVars
  <2>. QED BY <1>2, <2>1 DEF Unplug, TypeOK, taskVars, countVars
<1>3. ASSUME NEW k \in Keys, Press(k) \/ Release(k) PROVE TypeOK'
  <2>1. Len(Script)' = Len(Script) BY <1>3, <1>same DEF Press, Release, taskVars
  <2>2. held' \subseteq Keys BY <1>3 DEF Press, Release, TypeOK
  <2>. QED BY <1>3, <2>1, <2>2 DEF Press, Release, TypeOK, taskVars, countVars
<1>4. CASE Shift
  <2>1. Len(Script)' = Len(Script) BY <1>4, <1>same DEF Shift, taskVars
  <2>. QED BY <1>4, <2>1 DEF Shift, TypeOK, taskVars, countVars
<1>5. CASE GetChar
  <2>1. Len(Script)' = Len(Script) BY <1>5, <1>same DEF GetChar, taskVars
  <2>2. queue' \in Seq(Byte \ {0}) /\ Len(queue') <= KeyDepth
    <3>1. queue \in Seq(Byte \ {0}) /\ queue # <<>> /\ queue' = Tail(queue) /\ Len(queue) <= KeyDepth
      BY <1>5 DEF GetChar, TypeOK
    <3>2. Tail(queue) \in Seq(Byte \ {0}) /\ Len(Tail(queue)) = Len(queue) - 1 BY <3>1
    <3>3. Len(queue) \in Nat /\ KeyDepth \in Nat BY <3>1, KeyboardAssumption
    <3>. QED BY <3>1, <3>2, <3>3
  <2>. QED BY <1>5, <2>1, <2>2 DEF GetChar, TypeOK, deviceVars, taskVars, countVars
<1>6. CASE Sample
  <2>1. Len(Script)' = Len(Script) BY <1>6, <1>same DEF Sample
  <2>. QED BY <1>6, <2>1 DEF Sample, TypeOK, deviceVars, countVars
<1>7. CASE ClearSeen
  <2>1. Len(Script)' = Len(Script) BY <1>7, <1>same DEF ClearSeen
  <2>2. step' \in 1 .. Len(Script)' + 1 BY <1>0, <1>7, <2>1 DEF ClearSeen
  <2>. QED BY <1>7, <2>1, <2>2 DEF ClearSeen, TypeOK, deviceVars, countVars
<1>8. CASE EnumReset
  <2>1. Len(Script)' = Len(Script) BY <1>8, <1>same DEF EnumReset
  <2>2. step \in 1 .. Len(Script) BY <1>8 DEF EnumReset, AtStep, TypeOK
  <2>3. step' \in 1 .. Len(Script)' + 1 BY <1>0, <1>8, <2>1, <2>2 DEF EnumReset
  <2>. QED BY <1>8, <2>3 DEF EnumReset, TypeOK, countVars
<1>9. CASE EnumPerAddr
  <2>1. Len(Script)' = Len(Script) BY <1>9, <1>same DEF EnumPerAddr
  <2>2. step \in 1 .. Len(Script) /\ Script[step].op = "peraddr"
    BY <1>9 DEF EnumPerAddr, AtStep, TypeOK
  <2>3. step = 2 \/ Script[step].addr = 1 BY <1>0, <2>2, StepFacts DEF Script
  <2>4. step = 2 => Script[step].addr = 0
    <3>1. step = 2 => Script[step] = FirstSteps[2] BY <1>0, StepsAre DEF Script
    <3>. QED BY <3>1 DEF FirstSteps, PerAddr
  <2>5. peraddr' \in {0, 1} BY <1>9, <2>3, <2>4 DEF EnumPerAddr
  <2>6. step' \in 1 .. Len(Script)' + 1 BY <1>0, <1>9, <2>1, <2>2 DEF EnumPerAddr
  <2>. QED BY <1>9, <2>5, <2>6 DEF EnumPerAddr, TypeOK, deviceVars, countVars
<1>10. ASSUME NEW r, EnumToken(r) PROVE TypeOK'
  <2>1. step \in 1 .. Len(Script) /\ Script[step].op = "token" /\ pc = "enum"
    BY <1>10 DEF EnumToken, AtStep, TypeOK
  <2>2. (Retried(r, NAK_LIMIT) /\ Counted(r)) \/ NotCounted BY <1>10 DEF EnumToken
  <2>3. naks' \in 0 .. NAK_LIMIT + NAK_LIMIT_HID /\ tries' \in 0 .. RETRY_LIMIT - 1
    BY <2>2, CountersType
  <2>4. UNCHANGED <<config, held, shift, connirq, peraddr, prev, typing, queue>>
    BY <1>10 DEF EnumToken
  <2>5. CASE UNCHANGED <<dev, pc, step, blob>>
    <3>1. Len(Script)' = Len(Script) BY <2>5, <1>same
    <3>. QED BY <2>3, <2>4, <2>5, <3>1 DEF TypeOK
  <2>6. CASE Failed /\ dev' = dev
    <3>1. <<>> \in Seq(Byte) OBVIOUS
    <3>2. blob' = <<>> /\ step' = 1 /\ pc' = "wait" BY <2>6 DEF Failed
    <3>3. Len(Script)' \in Nat BY <3>1, <3>2, StepsAre DEF Script
    <3>. QED BY <2>3, <2>4, <2>6, <3>2, <3>3 DEF TypeOK
  <2>7. CASE /\ dev' = DeviceAfter(Script[step]) /\ step' = step + 1 /\ pc' = pc
             /\ blob' = IF Script[step] = Tok("in", "CONFIG_SIZE") THEN config ELSE blob
    <3>1. dev' \in DevStates
      BY <1>0, <2>1, <2>7, StepFacts DEF DeviceAfter, Script, TypeOK, DevStates
    <3>2. blob' \in Configs \cup {<<>>} BY <2>7 DEF TypeOK
    <3>3. step' \in 1 .. Len(Script)' + 1
      <4>1. CASE Script[step] = Tok("in", "CONFIG_SIZE")
        <5>1. step = 10 BY <1>0, <2>1, <4>1, StepFacts DEF Script
        <5>2. <<>> \in Seq(Byte) OBVIOUS
        <5>3. blob' \in Seq(Byte) BY <3>2, <5>2, KeyboardAssumption
        <5>4. Len(Script)' \in Nat /\ Len(Script)' >= 15 BY <5>3, StepsAre DEF Script
        <5>. QED BY <2>7, <5>1, <5>4
      <4>2. CASE Script[step] # Tok("in", "CONFIG_SIZE")
        <5>1. Len(Script)' = Len(Script) BY <2>7, <4>2, <1>same
        <5>. QED BY <1>0, <2>1, <2>7, <5>1
      <4>. QED BY <4>1, <4>2
    <3>. QED BY <2>3, <2>4, <2>7, <3>1, <3>2, <3>3 DEF TypeOK, DevStates
  <2>. QED BY <1>10, <2>5, <2>6, <2>7 DEF EnumToken
<1>11. CASE EnumDone
  <2>1. <<>> \in Seq(Byte) OBVIOUS
  <2>2. blob' = <<>> /\ step' = 1 BY <1>11 DEF EnumDone
  <2>3. Len(Script)' \in Nat BY <2>1, <2>2, StepsAre DEF Script
  <2>. QED BY <1>11, <2>2, <2>3 DEF EnumDone, TypeOK, deviceVars, countVars
<1>12. CASE ClearStale
  <2>1. Len(Script)' = Len(Script) BY <1>12, <1>same DEF ClearStale
  <2>2. NoKeys \in Reports BY DEF NoKeys, Reports
  <2>. QED BY <1>12, <2>1, <2>2 DEF ClearStale, StaleCleared, TypeOK, deviceVars, countVars
<1>13. CASE Poll \/ Bail
  <2>1. Len(Script)' = Len(Script) BY <1>13, <1>same DEF Poll, Bail
  <2>. QED BY <1>13, <2>1 DEF Poll, Bail, TypeOK, deviceVars, countVars
<1>14. ASSUME NEW r, PollToken(r) PROVE TypeOK'
  <2>1. Len(Script)' = Len(Script) BY <1>14, <1>same DEF PollToken
  <2>2. (Retried(r, NAK_LIMIT_HID) /\ Counted(r)) \/ NotCounted BY <1>14 DEF PollToken
  <2>3. naks' \in 0 .. NAK_LIMIT + NAK_LIMIT_HID /\ tries' \in 0 .. RETRY_LIMIT - 1
    BY <2>2, CountersType
  <2>4. UNCHANGED <<deviceVars, connirq, peraddr, step, blob, queue>> BY <1>14 DEF PollToken
  <2>5. pc' \in {"report", "poll", "type"} BY <1>14 DEF PollToken
  <2>6. Report \in Reports BY DEF Report, Reports, TypeOK
  <2>7. prev' \in Reports BY <1>14, <2>6 DEF PollToken, TypeOK
  <2>8. typing' \in Seq(Byte \ {0})
    <3>1. CASE typing' = typing BY <3>1 DEF TypeOK
    <3>2. CASE typing' \in Typings(Report)
      <4>1. prev \in Reports BY DEF TypeOK
      <4>. QED BY <2>6, <3>2, <4>1, TypingsType DEF Chars
    <3>. QED BY <1>14, <3>1, <3>2 DEF PollToken
  <2>. QED BY <2>1, <2>3, <2>4, <2>5, <2>7, <2>8 DEF TypeOK, deviceVars
<1>15. CASE Enqueue
  <2>1. Len(Script)' = Len(Script) BY <1>15, <1>same DEF Enqueue
  <2>2. /\ typing \in Seq(Byte \ {0}) /\ typing # <<>>
        /\ queue \in Seq(Byte \ {0}) /\ Len(queue) < KeyDepth
    BY <1>15 DEF Enqueue, Room, TypeOK
  <2>3. Head(typing) \in Byte \ {0} /\ Tail(typing) \in Seq(Byte \ {0}) BY <2>2
  <2>4. queue' = Append(queue, Head(typing)) /\ typing' = Tail(typing) BY <1>15 DEF Enqueue
  <2>5. queue' \in Seq(Byte \ {0}) /\ Len(queue') = Len(queue) + 1 BY <2>2, <2>3, <2>4
  <2>6. Len(queue') <= KeyDepth BY <2>2, <2>5, KeyboardAssumption
  <2>. QED BY <1>15, <2>1, <2>3, <2>4, <2>5, <2>6 DEF Enqueue, TypeOK, deviceVars, countVars
<1>16. CASE Enqueued
  <2>1. Len(Script)' = Len(Script) BY <1>16, <1>same DEF Enqueued
  <2>. QED BY <1>16, <2>1 DEF Enqueued, TypeOK, deviceVars, countVars
<1>17. CASE UNCHANGED vars
  <2>1. Len(Script)' = Len(Script) BY <1>17, <1>same DEF vars, taskVars
  <2>. QED BY <1>17, <2>1 DEF vars, taskVars, countVars, deviceVars, TypeOK
<1>. QED
  BY <1>1, <1>2, <1>3, <1>4, <1>5, <1>6, <1>7, <1>8, <1>9, <1>10, <1>11, <1>12, <1>13, <1>14,
     <1>15, <1>16, <1>17
     DEF Next, User, Task, Token

\* Every variable of the keyboard task has its type: the retry counters stay below
\* their limits, the enumeration inside its script, the channel within its size, and
\* no byte 0 is queued, which get_char's caller would take for no key.
THEOREM TypeCorrect == Spec => []TypeOK
BY InitTypes, NextTypes, PTL DEF Spec
=============================================================================

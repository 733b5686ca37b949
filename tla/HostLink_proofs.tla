--------------------------- MODULE HostLink_proofs ---------------------------
(***************************************************************************)
(* Proofs about HostLink, for any capacities: the counter beside the key   *)
(* queue; the types; and, for programs that leave the gap, that keys and   *)
(* transactions go through the pipes of KeyPipe and TxnPipe. These rest on *)
(* FrameInv, which says how bytes, edges and answers make up a             *)
(* transaction.                                                            *)
(***************************************************************************)
EXTENDS HostLink, SequenceTheorems, TLAPS

\* What the two cores still owe the counter: a character received and not yet
\* subtracted, a character sent and not yet added.
Owed == Len(keyQ) + (IF fpc = "uncount" THEN 1 ELSE 0) - (IF kpc = "count" THEN 1 ELSE 0)

CounterInv ==
  /\ keyQ \in Seq(Nat) /\ Len(keyQ) <= KeyDepth
  /\ key \in Nat
  /\ queued = IF Owed < 0 THEN Owed + CounterMod ELSE Owed

\* The bound the counter needs: one more than the queue holds, and one less.
LEMMA CounterStep == ASSUME CounterInv, [Next]_vars PROVE CounterInv'
<1> USE HostLinkAssumption
<1>0. /\ KeyDepth \in Nat /\ CounterMod \in Nat /\ KeyDepth + 1 < CounterMod
      /\ keyQ \in Seq(Nat) /\ Len(keyQ) \in Nat /\ Len(keyQ) <= KeyDepth /\ key \in Nat
  BY DEF CounterInv
<1>1. ASSUME UNCHANGED <<keyQ, key, queued, kpc, fpc>>
      PROVE  CounterInv'
  BY <1>1 DEF CounterInv, Owed
<1>2. ASSUME UNCHANGED <<keyQ, key, queued, kpc>>, fpc # "uncount", fpc' # "uncount"
      PROVE  CounterInv'
  BY <1>2 DEF CounterInv, Owed
<1>3. CASE Cpu \/ SmPull \/ ModesTake \/ UNCHANGED vars
  BY <1>1, <1>3 DEF Cpu, Select, Exchange, Deselect, SmPull, ModesTake, vars, fwVars, keyVars
<1>4. CASE TimerFires \/ TimerPoll \/ TakeWord \/ PollWord \/ PushByte \/ Reply
  BY <1>2, <1>4 DEF TimerFires, TimerPoll, TakeWord, PollWord, PushByte, Reply, keyVars
<1>5. CASE Respond
  <2>1. CASE UNCHANGED keyQ /\ fpc' = "push"
    BY <1>2, <1>5, <2>1 DEF Respond
  <2>2. CASE keyQ # <<>> /\ keyQ' = Tail(keyQ) /\ fpc' = "uncount"
    <3>1. keyQ' \in Seq(Nat) /\ Len(keyQ') = Len(keyQ) - 1 /\ Len(keyQ) > 0
      BY <1>0, <2>2, HeadTailProperties, EmptySeq
    <3>2. fpc = "respond" /\ UNCHANGED <<kpc, key, queued>>
      BY <1>5 DEF Respond
    <3>3. Owed' = Owed
      BY <1>0, <2>2, <3>1, <3>2 DEF Owed
    <3> QED
      BY <1>0, <3>1, <3>2, <3>3 DEF CounterInv
  <2> QED
    BY <1>5, <2>1, <2>2 DEF Respond
<1>6. CASE Uncount
  <2>1. fpc = "uncount" /\ fpc' = "push" /\ UNCHANGED <<keyQ, key, kpc>>
        /\ queued' = IF queued = 0 THEN CounterMod - 1 ELSE queued - 1
    BY <1>6 DEF Uncount, Uncounted
  <2> QED
    BY <1>0, <2>1 DEF CounterInv, Owed
<1>7. CASE KeyPress
  <2>1. key' \in Nat /\ kpc = "idle" /\ kpc' = "send" /\ UNCHANGED <<keyQ, queued, fpc>>
    BY <1>7 DEF KeyPress, fwVars
  <2> QED
    BY <2>1 DEF CounterInv, Owed
<1>8. CASE KeySend
  <2>1. /\ kpc = "send" /\ kpc' = "count" /\ Len(keyQ) < KeyDepth /\ keyQ' = Append(keyQ, key)
        /\ key' = 0 /\ UNCHANGED <<queued, fpc>>
    BY <1>8 DEF KeySend, fwVars
  <2>2. keyQ' \in Seq(Nat) /\ Len(keyQ') = Len(keyQ) + 1
    BY <1>0, <2>1, AppendProperties
  <2>3. Owed' = Owed
    BY <1>0, <2>1, <2>2 DEF Owed
  <2> QED
    BY <1>0, <2>1, <2>2, <2>3 DEF CounterInv
<1>9. CASE KeyCount
  <2>1. kpc = "count" /\ kpc' = "idle" /\ UNCHANGED <<keyQ, key, fpc>>
        /\ queued' = IF queued = CounterMod - 1 THEN 0 ELSE queued + 1
    BY <1>9 DEF KeyCount, fwVars
  <2> QED
    BY <1>0, <2>1 DEF CounterInv, Owed
<1> QED
  BY <1>3, <1>4, <1>5, <1>6, <1>7, <1>8, <1>9 DEF Next, PioTask

\* KEYBOARD_QUEUED agrees with the channel whenever neither core is between its
\* queue operation and its count, for every capacity and counter width.
THEOREM CounterSettles == Spec => []QueuedSettles
<1>1. Init => CounterInv
  BY HostLinkAssumption DEF Init, CounterInv, Owed
<1>2. CounterInv => QueuedSettles
  BY DEF CounterInv, QueuedSettles, Owed
<1> QED
  BY <1>1, <1>2, CounterStep, PTL DEF Spec

-----------------------------------------------------------------------------
(* Types, and the one byte that is under way. *)

Working == {"word", "respond", "uncount", "push", "reply"}

CpuTypes ==
  /\ program \in Programs /\ step \in {"get", "put", "status", "send"} /\ cs \in {"high", "low"}
  /\ ch \in Nat /\ acc \in Nat
  /\ txn \in Seq(Nat) /\ out \in Seq(Nat) /\ ended \in Seq(Seq(Nat))

LinkTypes ==
  /\ osr \in Nat /\ answered \in BOOLEAN
  /\ rxFifo \in Seq(Nat) /\ txFifo \in Seq(Nat)
  /\ csFifo \in Seq({"low", "high"}) /\ Len(csFifo) <= CsFifoDepth

TaskTypes ==
  /\ fpc \in {"select", "timer"} \cup Working
  /\ word \in Nat /\ reply \in Nat /\ inTxn \in BOOLEAN /\ txnDone \in BOOLEAN
  /\ buf \in Seq(Nat) /\ Len(buf) <= TxnCapacity

QueueTypes ==
  /\ hostQ \in Seq(Seq(Nat)) /\ Len(hostQ) <= QueueDepth
  /\ \A i \in 1 .. Len(hostQ) : Len(hostQ[i]) \in 1 .. TxnCapacity

KeyTypes ==
  /\ kpc \in {"idle", "send", "count"}
  /\ IF kpc = "send" THEN key \in Keys ELSE key = 0
  /\ keyQ \in Seq(Keys)

\* A byte that the program clocked is in one place until it is answered.
TokenOK ==
  Len(rxFifo) + Len(txFifo) + (IF fpc \in Working THEN 1 ELSE 0) <= IF answered THEN 0 ELSE 1

TypeInv == CpuTypes /\ LinkTypes /\ TaskTypes /\ QueueTypes /\ KeyTypes /\ TokenOK /\ CounterInv

LEMMA Settings ==
  /\ KeyDepth \in Nat /\ CounterMod \in Nat /\ KeyDepth + 1 < CounterMod
  /\ TxnCapacity \in Nat /\ TxnCapacity >= 2
  /\ QueueDepth \in Nat /\ QueueDepth >= 1 /\ ReadyFree \in Nat /\ ReadyFree >= 1
  /\ Keys \subseteq Nat /\ 0 \notin Keys /\ Chars \in Nat /\ Chars >= 1
  /\ \A t \in SizeTxns : t \in Seq(Nat) /\ t # <<>> /\ Head(t) \notin {CMD_READ_STATUS, CMD_GET_CHAR}
BY HostLinkAssumption

LEMMA CounterRange == CounterInv => queued \in 0 .. CounterMod - 1 /\ Len(keyQ) <= KeyDepth
<1> HAVE CounterInv
<1>1. Len(keyQ) \in Nat /\ Len(keyQ) <= KeyDepth
  BY DEF CounterInv
<1>2. Owed \in -1 .. KeyDepth + 1
  BY <1>1, Settings DEF Owed
<1> QED
  BY <1>1, <1>2, Settings DEF CounterInv

LEMMA TypeByParts == TypeInv => TypeOK
<1> HAVE TypeInv
<1> USE DEF TypeInv
<1>1. Len(rxFifo) + Len(txFifo) <= 1
  <2>1. Len(rxFifo) \in Nat /\ Len(txFifo) \in Nat
    BY DEF LinkTypes
  <2> QED
    BY <2>1 DEF TokenOK
<1>2. DOMAIN hostQ = 1 .. Len(hostQ)
  BY LenProperties DEF QueueTypes
<1>3. key \in Keys \cup {0}
  BY DEF KeyTypes
<1> QED
  BY <1>1, <1>2, <1>3, CounterRange
     DEF TypeOK, CpuTypes, LinkTypes, TaskTypes, QueueTypes, KeyTypes, Working

LEMMA TypeInit == ASSUME Init PROVE TypeInv
<1>1. <<>> \in Seq(Nat) /\ <<>> \in Seq(Seq(Nat)) /\ <<>> \in Seq({"low", "high"}) /\ <<>> \in Seq(Keys)
      /\ Len(<<>>) = 0
  BY EmptySeq
<1>2. CounterInv
  BY HostLinkAssumption DEF Init, CounterInv, Owed
<1>3. step \in {"get", "put", "status", "send"} /\ ch \in Nat
  BY DEF Init, FirstStep, FirstChar
<1>4. CpuTypes /\ KeyTypes
  BY <1>1, <1>3 DEF Init, CpuTypes, KeyTypes
<1>5. LinkTypes
  BY <1>1 DEF Init, LinkTypes, CsFifoDepth
<1>6. TaskTypes
  <2>1. Len(<<>>) <= TxnCapacity
    BY <1>1, Settings
  <2> QED
    BY <1>1, <2>1 DEF Init, TaskTypes
<1>7. TokenOK
  BY <1>1 DEF Init, TokenOK, Working
<1>8. QueueTypes
  BY <1>1, Settings DEF Init, QueueTypes
<1> QED
  BY <1>2, <1>4, <1>5, <1>6, <1>7, <1>8 DEF TypeInv

LEMMA TxnsTyped ==
  ASSUME CpuTypes, NEW t \in TxnsOf(step)
  PROVE  t \in Seq(Nat) /\ t # <<>>
<1>1. \A x \in Nat, y \in Nat : <<x, y>> \in Seq(Nat) /\ <<x, y>> # <<>>
  OBVIOUS
<1>2. {CMD_GET_CHAR, CMD_READ_STATUS, CMD_PUT_CHAR, ch, 0} \subseteq Nat
  BY DEF CMD_GET_CHAR, CMD_READ_STATUS, CMD_PUT_CHAR, CpuTypes
<1> QED
  BY <1>1, <1>2, Settings DEF TxnsOf, CpuTypes

LEMMA MarkedTyped ==
  ASSUME LinkTypes, NEW edge \in {"low", "high"}
  PROVE  Marked(edge) \in Seq({"low", "high"}) /\ Len(Marked(edge)) <= CsFifoDepth
<1>1. Len(csFifo) \in Nat /\ CsFifoDepth \in Nat
  BY DEF LinkTypes, CsFifoDepth
<1> QED
  BY <1>1, AppendProperties DEF LinkTypes, Marked

LEMMA SelectTypes == ASSUME TypeInv, Select PROVE TypeInv'
<1> USE DEF TypeInv
<1>1. txn' \in Seq(Nat) /\ out' = txn'
  BY TxnsTyped DEF Select
<1>2. csFifo' \in Seq({"low", "high"}) /\ Len(csFifo') <= CsFifoDepth
  BY MarkedTyped DEF Select
<1>3. CounterInv'
  BY CounterStep DEF Next, Cpu
<1> QED
  BY <1>1, <1>2, <1>3 DEF Select, CpuTypes, LinkTypes, TaskTypes, QueueTypes, KeyTypes, TokenOK,
     smVars, fwVars, modeVars, keyVars

LEMMA ExchangeTypes == ASSUME TypeInv, Exchange PROVE TypeInv'
<1> USE DEF TypeInv
<1>1. Head(out) \in Nat /\ Tail(out) \in Seq(Nat)
  BY HeadTailProperties DEF Exchange, CpuTypes
<1>2. rxFifo' \in Seq(Nat) /\ Len(rxFifo') = Len(rxFifo) + 1
  BY <1>1, AppendProperties DEF Exchange, LinkTypes
<1>3. CounterInv'
  BY CounterStep DEF Next, Cpu
<1>4. TokenOK'
  <2>1. Len(rxFifo) \in Nat /\ Len(txFifo) \in Nat
    BY DEF LinkTypes
  <2>2. answered /\ ~answered' /\ txFifo' = txFifo /\ fpc' = fpc
    BY DEF Exchange, fwVars
  <2> QED
    BY <2>1, <2>2, <1>2 DEF TokenOK
<1> QED
  BY <1>1, <1>2, <1>3, <1>4 DEF Exchange, CpuTypes, LinkTypes, TaskTypes, QueueTypes, KeyTypes, TokenOK,
     fwVars, modeVars, keyVars

LEMMA DeselectTypes == ASSUME TypeInv, Deselect PROVE TypeInv'
<1> USE DEF TypeInv
<1>1. step' \in {"get", "put", "status", "send"} /\ ch' \in Nat
  <2>1. (ch % Chars) + 1 \in Nat
    BY Settings DEF CpuTypes
  <2>2. After.to \in {"get", "put", "status", "send"}
    BY DEF After
  <2>3. After.ch \in {ch, acc, (ch % Chars) + 1}
    BY DEF After
  <2> QED
    BY <2>1, <2>2, <2>3 DEF Deselect, CpuTypes
<1>2. csFifo' \in Seq({"low", "high"}) /\ Len(csFifo') <= CsFifoDepth
  BY MarkedTyped DEF Deselect
<1>3. ended' \in Seq(Seq(Nat)) /\ txn' = <<>> /\ txn' \in Seq(Nat)
  BY AppendProperties, EmptySeq DEF Deselect, CpuTypes
<1>4. CounterInv'
  BY CounterStep DEF Next, Cpu
<1> QED
  BY <1>1, <1>2, <1>3, <1>4 DEF Deselect, CpuTypes, LinkTypes, TaskTypes, QueueTypes, KeyTypes, TokenOK,
     smVars, fwVars, modeVars, keyVars

LEMMA SmPullTypes == ASSUME TypeInv, SmPull PROVE TypeInv'
<1> USE DEF TypeInv
<1>1. /\ Head(txFifo) \in Nat /\ Tail(txFifo) \in Seq(Nat) /\ Len(Tail(txFifo)) = Len(txFifo) - 1
      /\ Len(rxFifo) \in Nat /\ Len(txFifo) \in Nat
  BY HeadTailProperties DEF SmPull, LinkTypes
<1>2. CounterInv'
  BY CounterStep DEF Next
<1>3. TokenOK'
  BY <1>1 DEF SmPull, TokenOK, fwVars
<1> QED
  BY <1>1, <1>2, <1>3 DEF SmPull, CpuTypes, LinkTypes, TaskTypes, QueueTypes, KeyTypes,
     cpuVars, fwVars, modeVars, keyVars

\* A cleared buffer is typed, and so is one cleared or left as it was.
LEMMA ClearedTyped ==
  ASSUME NEW b, NEW c \in Seq(Nat), Len(c) <= TxnCapacity, b = <<>> \/ b = c
  PROVE  b \in Seq(Nat) /\ Len(b) <= TxnCapacity
<1>1. <<>> \in Seq(Nat) /\ Len(<<>>) = 0
  OBVIOUS
<1>2. 0 <= TxnCapacity
  BY Settings
<1>3. CASE b = <<>>
  BY <1>1, <1>2, <1>3
<1>4. CASE b = c
  BY <1>4
<1> QED
  BY <1>3, <1>4

\* enqueue_txn keeps the bounds of the queue.
LEMMA Enqueued ==
  ASSUME QueueTypes, ended \in Seq(Seq(Nat)), NEW b \in Seq(Nat), Len(b) <= TxnCapacity,
         EnqueueTxn(b)
  PROVE  QueueTypes' /\ ended' \in Seq(Seq(Nat))
<1>1. ended' \in Seq(Seq(Nat))
  BY HeadTailProperties DEF EnqueueTxn
<1>2. CASE hostQ' = hostQ
  BY <1>1, <1>2 DEF QueueTypes
<1>3. CASE b # <<>> /\ Len(hostQ) # QueueDepth /\ hostQ' = Append(hostQ, b)
  <2>1. /\ hostQ' \in Seq(Seq(Nat)) /\ Len(hostQ') = Len(hostQ) + 1 /\ Len(hostQ) \in Nat
        /\ \A i \in 1 .. Len(hostQ) : hostQ'[i] = hostQ[i]
        /\ hostQ'[Len(hostQ) + 1] = b
    BY <1>3, AppendProperties DEF QueueTypes
  <2>2. Len(b) \in Nat /\ Len(b) # 0
    BY <1>3, EmptySeq
  <2>3. Len(b) \in 1 .. TxnCapacity
    BY <2>2, Settings
  <2>4. ASSUME NEW i \in 1 .. Len(hostQ')
        PROVE  Len(hostQ'[i]) \in 1 .. TxnCapacity
    <3>1. i \in 1 .. Len(hostQ) \/ i = Len(hostQ) + 1
      BY <2>1
    <3> QED
      BY <3>1, <2>1, <2>3 DEF QueueTypes
  <2>5. Len(hostQ') <= QueueDepth
    BY <1>3, <2>1, Settings DEF QueueTypes
  <2> QED
    BY <1>1, <2>1, <2>4, <2>5 DEF QueueTypes
<1>4. hostQ' = hostQ \/ (b # <<>> /\ Len(hostQ) # QueueDepth /\ hostQ' = Append(hostQ, b))
  BY DEF EnqueueTxn, IsPoll
<1> QED
  BY <1>1, <1>2, <1>3, <1>4

LEMMA PushedTyped ==
  ASSUME NEW b \in Seq(Nat), Len(b) <= TxnCapacity, NEW byte \in Nat
  PROVE  Pushed(b, byte) \in Seq(Nat) /\ Len(Pushed(b, byte)) <= TxnCapacity
BY AppendProperties, Settings DEF Pushed

LEMMA TimerFiresTypes == ASSUME TypeInv, TimerFires PROVE TypeInv'
<1> USE DEF TypeInv
<1>1. CounterInv'
  BY CounterStep DEF Next, PioTask
<1>2. TokenOK'
  BY DEF TimerFires, TokenOK, Working, smVars, fifos
<1> QED
  BY <1>1, <1>2 DEF TimerFires, CpuTypes, LinkTypes, TaskTypes, QueueTypes, KeyTypes,
     cpuVars, smVars, fifos, modeVars, keyVars

LEMMA TimerPollTypes == ASSUME TypeInv, TimerPoll PROVE TypeInv'
<1> USE DEF TypeInv
<1>0. <<>> \in Seq(Nat) /\ <<>> \in Seq({"low", "high"}) /\ Len(<<>>) = 0 /\ Len(rxFifo) \in Nat
      /\ Len(txFifo) \in Nat
  BY EmptySeq DEF LinkTypes
<1>1. CounterInv'
  BY CounterStep DEF Next, PioTask
<1>2. PolledBuf \in Seq(Nat) /\ Len(PolledBuf) <= TxnCapacity
  BY <1>0, Settings DEF PolledBuf, TaskTypes
<1>3. Drained \in Seq(Nat) /\ Len(Drained) <= TxnCapacity
  <2>1. rxFifo # <<>> => Head(rxFifo) \in Nat
    BY HeadTailProperties DEF LinkTypes
  <2> QED
    BY <1>2, <2>1, PushedTyped DEF Drained
<1>4. QueueTypes' /\ ended' \in Seq(Seq(Nat))
  <2>1. CASE EnqueueTxn(Drained)
    BY <2>1, <1>3, Enqueued DEF CpuTypes
  <2>2. CASE UNCHANGED <<hostQ, ended>>
    BY <2>2 DEF QueueTypes, CpuTypes
  <2> QED
    BY <2>1, <2>2 DEF TimerPoll
<1>5. fpc' = "select" /\ csFifo' = <<>> /\ (rxFifo' = <<>> \/ rxFifo' = rxFifo)
      /\ (buf' = <<>> \/ buf' = PolledBuf)
      /\ inTxn' \in BOOLEAN /\ txnDone' \in BOOLEAN
      /\ UNCHANGED <<cpuVars, smVars, txFifo, word, reply, keyVars>>
  BY DEF TimerPoll, TaskTypes, Low
<1>6. TokenOK'
  BY <1>0, <1>5 DEF TokenOK, Working, smVars
<1>7. CpuTypes' /\ KeyTypes'
  BY <1>4, <1>5 DEF CpuTypes, KeyTypes, cpuVars, keyVars
<1>8. LinkTypes'
  <2>1. rxFifo' \in Seq(Nat)
    BY <1>0, <1>5 DEF LinkTypes
  <2>2. csFifo' \in Seq({"low", "high"}) /\ Len(csFifo') <= CsFifoDepth
    <3>1. csFifo' = <<>>
      BY <1>5
    <3> QED
      BY <1>0, <3>1 DEF CsFifoDepth
  <2>3. UNCHANGED <<smVars, txFifo>>
    BY <1>5
  <2> QED
    BY <2>1, <2>2, <2>3 DEF LinkTypes, smVars
<1>9. TaskTypes'
  <2>1. buf' \in Seq(Nat) /\ Len(buf') <= TxnCapacity
    BY <1>2, <1>5, ClearedTyped
  <2> QED
    BY <2>1, <1>5 DEF TaskTypes
<1> QED
  BY <1>1, <1>4, <1>6, <1>7, <1>8, <1>9

LEMMA TakeWordTypes == ASSUME TypeInv, TakeWord PROVE TypeInv'
<1> USE DEF TypeInv
<1>1. CounterInv'
  BY CounterStep DEF Next, PioTask
<1>2. /\ Head(rxFifo) \in Nat /\ Tail(rxFifo) \in Seq(Nat) /\ Len(Tail(rxFifo)) = Len(rxFifo) - 1
      /\ Len(rxFifo) \in Nat /\ Len(txFifo) \in Nat
  BY HeadTailProperties DEF TakeWord, LinkTypes
<1>3. TokenOK'
  BY <1>2 DEF TakeWord, TokenOK, Working, smVars
<1> QED
  BY <1>1, <1>2, <1>3 DEF TakeWord, CpuTypes, LinkTypes, TaskTypes, QueueTypes, KeyTypes, Working,
     cpuVars, smVars, modeVars, keyVars

LEMMA PollWordTypes == ASSUME TypeInv, PollWord PROVE TypeInv'
<1> USE DEF TypeInv
<1>1. CounterInv'
  BY CounterStep DEF Next, PioTask
<1>2. buf' \in Seq(Nat) /\ Len(buf') <= TxnCapacity
  <2>1. buf' = <<>> \/ buf' = buf
    BY DEF PollWord, PolledBuf
  <2> QED
    BY <2>1, ClearedTyped DEF TaskTypes
<1>3. TokenOK'
  BY DEF PollWord, TokenOK, Working, smVars
<1>4. txnDone' \in BOOLEAN /\ inTxn' \in BOOLEAN
  BY DEF PollWord, Done, Low, TaskTypes
<1>5. <<>> \in Seq({"low", "high"}) /\ Len(<<>>) = 0 /\ 0 <= CsFifoDepth
  BY EmptySeq DEF CsFifoDepth
<1> QED
  BY <1>1, <1>2, <1>3, <1>4, <1>5 DEF PollWord, CpuTypes, LinkTypes, TaskTypes, QueueTypes, KeyTypes,
     Working, cpuVars, smVars, modeVars, keyVars

LEMMA RespondTypes == ASSUME TypeInv, Respond PROVE TypeInv'
<1> USE DEF TypeInv
<1>1. CounterInv'
  BY CounterStep DEF Next, PioTask
<1>2. reply' \in Nat /\ keyQ' \in Seq(Keys) /\ fpc' \in {"push", "uncount"} /\ fpc = "respond"
  <2>1. StatusByte \in Nat
    BY DEF StatusByte, KEYBOARD_READY, HOST_READY
  <2>2. keyQ \in Seq(Keys)
    BY DEF KeyTypes
  <2>3. keyQ # <<>> => Head(keyQ) \in Keys /\ Tail(keyQ) \in Seq(Keys)
    BY <2>2, HeadTailProperties
  <2>4. fpc = "respond" /\ fpc' \in {"push", "uncount"}
    BY DEF Respond
  <2>5. /\ reply' = 0 \/ reply' = StatusByte \/ (keyQ # <<>> /\ reply' = Head(keyQ))
        /\ keyQ' = keyQ \/ (keyQ # <<>> /\ keyQ' = Tail(keyQ))
    BY DEF Respond
  <2>6. reply' \in Nat
    <3>1. keyQ # <<>> => Head(keyQ) \in Nat
      BY <2>3, HostLinkAssumption
    <3>2. CASE reply' = 0
      BY <3>2
    <3>3. CASE reply' = StatusByte
      BY <3>3, <2>1
    <3>4. CASE keyQ # <<>> /\ reply' = Head(keyQ)
      BY <3>4, <3>1
    <3> QED
      BY <2>5, <3>2, <3>3, <3>4
  <2>7. keyQ' \in Seq(Keys)
    BY <2>2, <2>3, <2>5
  <2> QED
    BY <2>4, <2>6, <2>7
<1>3. TokenOK'
  BY <1>2 DEF Respond, TokenOK, Working, smVars, fifos
<1> QED
  BY <1>1, <1>2, <1>3 DEF Respond, CpuTypes, LinkTypes, TaskTypes, QueueTypes, KeyTypes, Working,
     cpuVars, smVars, fifos, modeVars

LEMMA UncountTypes == ASSUME TypeInv, Uncount PROVE TypeInv'
<1> USE DEF TypeInv
<1>1. CounterInv'
  BY CounterStep DEF Next, PioTask
<1>2. TokenOK'
  BY DEF Uncount, TokenOK, Working, smVars, fifos
<1> QED
  BY <1>1, <1>2 DEF Uncount, CpuTypes, LinkTypes, TaskTypes, QueueTypes, KeyTypes, Working,
     cpuVars, smVars, fifos, modeVars

LEMMA PushByteTypes == ASSUME TypeInv, PushByte PROVE TypeInv'
<1> USE DEF TypeInv
<1>1. CounterInv'
  BY CounterStep DEF Next, PioTask
<1>2. Pushed(buf, word) \in Seq(Nat) /\ Len(Pushed(buf, word)) <= TxnCapacity
  BY PushedTyped DEF TaskTypes
<1>3. QueueTypes' /\ ended' \in Seq(Seq(Nat))
  <2>1. CASE EnqueueTxn(Pushed(buf, word))
    BY <2>1, <1>2, Enqueued DEF CpuTypes
  <2>2. CASE UNCHANGED <<hostQ, ended>>
    BY <2>2 DEF QueueTypes, CpuTypes
  <2> QED
    BY <2>1, <2>2 DEF PushByte
<1>4. buf' \in Seq(Nat) /\ Len(buf') <= TxnCapacity
  BY <1>2, ClearedTyped DEF PushByte
<1>5. TokenOK'
  BY DEF PushByte, TokenOK, Working, smVars, fifos
<1>6. CpuTypes' /\ LinkTypes' /\ KeyTypes'
  BY <1>3 DEF PushByte, CpuTypes, LinkTypes, KeyTypes, cpuVars, smVars, fifos, keyVars
<1>7. TaskTypes'
  BY <1>4 DEF PushByte, TaskTypes, Working
<1> QED
  BY <1>1, <1>3, <1>5, <1>6, <1>7

LEMMA ReplyTypes == ASSUME TypeInv, Reply PROVE TypeInv'
<1> USE DEF TypeInv
<1>1. CounterInv'
  BY CounterStep DEF Next, PioTask
<1>2. txFifo' \in Seq(Nat) /\ Len(txFifo') = Len(txFifo) + 1 /\ Len(rxFifo) \in Nat /\ Len(txFifo) \in Nat
  BY AppendProperties DEF Reply, Answers, LinkTypes, TaskTypes
<1>3. TokenOK'
  BY <1>2 DEF Reply, TokenOK, Working, smVars
<1> QED
  BY <1>1, <1>2, <1>3 DEF Reply, CpuTypes, LinkTypes, TaskTypes, QueueTypes, KeyTypes, Working,
     cpuVars, smVars, modeVars, keyVars

LEMMA CoreTypes ==
  ASSUME TypeInv, ModesTake \/ KeyPress \/ KeySend \/ KeyCount \/ UNCHANGED vars
  PROVE  TypeInv'
<1> USE DEF TypeInv
<1>1. CounterInv'
  BY CounterStep DEF Next
<1>2. UNCHANGED <<cpuVars, smVars, fifos, fwVars, ended>>
  BY DEF ModesTake, KeyPress, KeySend, KeyCount, vars
<1>3. CpuTypes' /\ LinkTypes' /\ TaskTypes' /\ TokenOK'
  BY <1>2 DEF CpuTypes, LinkTypes, TaskTypes, TokenOK, cpuVars, smVars, fifos, fwVars
<1>4. QueueTypes'
  <2>1. CASE ModesTake
    <3>1. /\ Tail(hostQ) \in Seq(Seq(Nat)) /\ Len(Tail(hostQ)) = Len(hostQ) - 1 /\ Len(hostQ) \in Nat
          /\ \A i \in 1 .. Len(hostQ) - 1 : Tail(hostQ)[i] = hostQ[i + 1]
      BY <2>1, HeadTailProperties DEF ModesTake, QueueTypes
    <3>2. \A i \in 1 .. Len(hostQ) - 1 : i + 1 \in 1 .. Len(hostQ)
      BY <3>1
    <3> QED
      BY <2>1, <3>1, <3>2, Settings DEF ModesTake, QueueTypes
  <2>2. CASE UNCHANGED hostQ
    BY <2>2 DEF QueueTypes
  <2> QED
    BY <2>1, <2>2 DEF KeyPress, KeySend, KeyCount, vars, modeVars
<1>5. KeyTypes'
  <2>1. CASE KeySend
    <3>1. key \in Keys /\ keyQ' = Append(keyQ, key) /\ key' = 0 /\ kpc' = "count"
      BY <2>1 DEF KeySend, KeyTypes
    <3> QED
      BY <3>1, AppendProperties DEF KeyTypes
  <2>2. CASE KeyPress \/ KeyCount
    BY <2>2 DEF KeyPress, KeyCount, KeyTypes
  <2>3. CASE UNCHANGED keyVars
    BY <2>3 DEF KeyTypes, keyVars
  <2> QED
    BY <2>1, <2>2, <2>3 DEF ModesTake, vars
<1> QED
  BY <1>1, <1>3, <1>4, <1>5

LEMMA TypeStep == ASSUME TypeInv, [Next]_vars PROVE TypeInv'
BY SelectTypes, ExchangeTypes, DeselectTypes, SmPullTypes, TimerFiresTypes, TimerPollTypes, TakeWordTypes,
   PollWordTypes, RespondTypes, UncountTypes, PushByteTypes, ReplyTypes, CoreTypes
   DEF Next, Cpu, PioTask

\* Every variable keeps its type, at most one byte is between the program and
\* its answer, and no queue or buffer outgrows its bound, with or without the gap
\* between transactions.
THEOREM TypeCorrect == Spec => []TypeOK
<1> QED
  BY TypeInit, TypeStep, TypeByParts, PTL DEF Spec

-----------------------------------------------------------------------------
(* How bytes become transactions, for programs that leave the gap. *)

\* The transaction the board is receiving, how many bytes of it were clocked,
\* and how many of those are in its buffer.
Cur == IF ended # <<>> THEN Head(ended) ELSE txn
Clocked == IF ended # <<>> THEN Len(Head(ended)) ELSE Len(txn) - Len(out)
Unpushed == rxFifo # <<>> \/ fpc \in {"word", "respond", "uncount", "push"}
Held == IF Unpushed THEN Clocked - 1 ELSE Clocked

\* What the program is at: its transaction, and the one it ended.
ProgramOK ==
  /\ program = "echo" => step \in {"get", "put"}
  /\ program = "stress" => step \in {"status", "put"}
  /\ program = "sizes" => step = "send"
  /\ cs = "high" => txn = <<>> /\ out = <<>>
  /\ cs = "low" =>
       /\ txn \in TxnsOf(step) /\ Len(out) <= Len(txn)
       /\ \A i \in 1 .. Len(out) : out[i] = txn[Len(txn) - Len(out) + i]
  /\ Len(ended) <= 1
  /\ ended # <<>> => Head(ended) # <<>> /\ (IsPoll(Head(ended)) => Len(Head(ended)) = 2)

\* The edges that pio_task has not seen are those of one transaction at most,
\* and the next one has not clocked a byte before the board is done with it.
EdgesOK ==
  /\ ended = <<>> =>
       /\ ~txnDone /\ (csFifo = <<>> \/ (csFifo = <<"low">> /\ cs = "low"))
  /\ ended # <<>> /\ cs = "low" => txnDone /\ csFifo = <<"low">> /\ out = txn
  /\ ended # <<>> /\ cs = "high" =>
       IF txnDone THEN csFifo = <<>> ELSE csFifo = <<"high">> \/ csFifo = <<"low", "high">>
  /\ txnDone => fpc \in {"respond", "uncount", "push"}
  /\ fpc = "timer" /\ rxFifo # <<>> => ended = <<>>

\* The buffer is what was clocked of the transaction, up to the capacity and up
\* to the byte that is on its way.
FrameOK ==
  /\ Unpushed => Clocked >= 1 /\ Cur[Clocked] = (IF rxFifo # <<>> THEN Head(rxFifo) ELSE word)
  /\ Len(buf) = (IF Held < TxnCapacity THEN Held ELSE TxnCapacity)
  /\ \A i \in 1 .. Len(buf) : buf[i] = Cur[i]
  /\ Low /\ ~txnDone => Clocked = 0 \/ (Clocked = 1 /\ (rxFifo # <<>> \/ fpc = "word"))
  /\ ~inTxn => buf = <<>>
  /\ fpc \in {"respond", "uncount", "push"} /\ ~txnDone => inTxn

\* Answers on their way to the program. One that is not 0 answers the first byte
\* of a poll, and the program reads it with the second.
Answering == {reply, osr} \cup (IF txFifo = <<>> THEN {} ELSE {Head(txFifo)})
AnswerOK ==
  /\ fpc \notin {"uncount", "push", "reply"} => reply = 0
  /\ ~answered => osr = 0
  /\ \A x \in Answering : x # 0 => cs = "low" /\ step \in {"get", "status"} /\ Len(out) = 1
  /\ acc # 0 => cs = "low" /\ step \in {"get", "status"} /\ out = <<>>
  /\ program = "echo" => Answering \cup {acc} \subseteq Keys \cup {0}
  /\ step = "put" => ch \in Keys \cup 1 .. Chars
  /\ program = "stress" => ch \in 1 .. Chars

\* From a status that said HOST_READY to the end of the transaction that was
\* sent on it, the queue has room: nobody else fills it.
RoomOK ==
  program = "stress" =>
    /\ (step = "put" \/ \E x \in Answering \cup {acc} : x >= HOST_READY) => Len(hostQ) < QueueDepth
    /\ ended # <<>> /\ ~IsPoll(Head(ended)) => step = "status" /\ Len(hostQ) < QueueDepth

FrameInv == TypeInv /\ ProgramOK /\ EdgesOK /\ FrameOK /\ AnswerOK /\ RoomOK

LEMMA AtMostOne == \A m, n \in Nat : m + n <= 1 /\ m >= 1 => m = 1 /\ n = 0
OBVIOUS

\* A byte is at one place, seen from each place.
LEMMA OneByte ==
  ASSUME TypeInv
  PROVE  /\ answered => rxFifo = <<>> /\ txFifo = <<>> /\ fpc \notin Working
         /\ fpc \in Working => rxFifo = <<>> /\ txFifo = <<>>
         /\ rxFifo # <<>> => Len(rxFifo) = 1 /\ txFifo = <<>> /\ fpc \notin Working
         /\ txFifo # <<>> => Len(txFifo) = 1 /\ rxFifo = <<>> /\ fpc \notin Working
<1>1. /\ Len(rxFifo) \in Nat /\ Len(txFifo) \in Nat
      /\ rxFifo # <<>> => Len(rxFifo) >= 1
      /\ txFifo # <<>> => Len(txFifo) >= 1
  BY EmptySeq DEF TypeInv, LinkTypes
<1>2. /\ answered => Len(rxFifo) + Len(txFifo) + (IF fpc \in Working THEN 1 ELSE 0) <= 0
      /\ Len(rxFifo) + Len(txFifo) + (IF fpc \in Working THEN 1 ELSE 0) <= 1
  BY DEF TypeInv, TokenOK, CpuTypes
<1>3. CASE fpc \in Working
  BY <1>1, <1>2, <1>3
<1>4. CASE fpc \notin Working
  <2>1. Len(rxFifo) + Len(txFifo) <= 1
    BY <1>1, <1>2, <1>4
  <2>2. answered => Len(rxFifo) = 0 /\ Len(txFifo) = 0
    BY <1>1, <1>2, <1>4
  <2>3. rxFifo # <<>> => Len(rxFifo) = 1 /\ Len(txFifo) = 0
    BY <1>1, <2>1, AtMostOne
  <2>4. txFifo # <<>> => Len(txFifo) = 1 /\ Len(rxFifo) = 0
    BY <1>1, <2>1, AtMostOne
  <2>5. answered => rxFifo = <<>> /\ txFifo = <<>>
    BY <1>1, <2>2
  <2> QED
    BY <1>1, <1>4, <2>3, <2>4, <2>5
<1> QED
  BY <1>3, <1>4

\* Who takes the byte leaves the FIFO empty.
LEMMA LastByte ==
  ASSUME TypeInv
  PROVE  (rxFifo # <<>> => Tail(rxFifo) = <<>>) /\ (txFifo # <<>> => Tail(txFifo) = <<>>)
<1>1. ASSUME NEW f \in Seq(Nat), f # <<>>, Len(f) = 1
      PROVE  Tail(f) = <<>>
  <2>1. Tail(f) \in Seq(Nat) /\ Len(Tail(f)) = 0
    BY <1>1, HeadTailProperties
  <2> QED
    BY <2>1, EmptySeq
<1> QED
  BY <1>1, OneByte DEF TypeInv, LinkTypes

\* The transaction of the board is a sequence of bytes, and some were clocked.
LEMMA CurTyped ==
  ASSUME TypeInv, ProgramOK
  PROVE  /\ Cur \in Seq(Nat) /\ Len(Cur) \in Nat /\ Clocked \in 0 .. Len(Cur) /\ Held \in Int
         /\ ended # <<>> => Clocked = Len(Cur) /\ Clocked >= 1 /\ Len(ended) = 1
<1>1. txn \in Seq(Nat) /\ out \in Seq(Nat) /\ Len(out) \in Nat /\ Len(txn) \in Nat /\ Len(out) <= Len(txn)
  <2>1. txn \in Seq(Nat) /\ out \in Seq(Nat) /\ Len(out) \in Nat /\ Len(txn) \in Nat
    BY DEF TypeInv, CpuTypes
  <2>2. cs = "high" => txn = out
    BY DEF ProgramOK
  <2>3. cs \in {"high", "low"}
    BY DEF TypeInv, CpuTypes
  <2> QED
    BY <2>1, <2>2, <2>3 DEF ProgramOK
<1>2. CASE ended = <<>>
  BY <1>1, <1>2 DEF Cur, Clocked, Held
<1>3. CASE ended # <<>>
  <2>1. Head(ended) \in Seq(Nat) /\ Head(ended) # <<>>
    BY <1>3, HeadTailProperties DEF TypeInv, CpuTypes, ProgramOK
  <2>2. Len(Head(ended)) \in Nat /\ Len(Head(ended)) >= 1
    BY <2>1, EmptySeq
  <2>3. Len(ended) = 1
    <3>1. ended \in Seq(Seq(Nat)) /\ Len(ended) <= 1
      BY DEF TypeInv, CpuTypes, ProgramOK
    <3>2. Len(ended) \in Nat \ {0}
      BY <1>3, <3>1, EmptySeq
    <3>3. 0 \in Nat /\ Len(ended) \in Nat /\ Len(ended) >= 1 /\ Len(ended) + 0 <= 1
      BY <3>1, <3>2
    <3> QED
      BY ONLY <3>3, AtMostOne
  <2>4. Cur = Head(ended) /\ Clocked = Len(Head(ended))
    BY <1>3 DEF Cur, Clocked
  <2>5. Held = Clocked - 1 \/ Held = Clocked
    BY DEF Held
  <2> QED
    BY <2>1, <2>2, <2>3, <2>4, <2>5
<1> QED
  BY <1>2, <1>3

\* When poll_cs_edges looks, it finds the end of a transaction exactly when the
\* program has ended one, and a buffer it clears is empty already.
LEMMA Polled ==
  ASSUME FrameInv, fpc \in {"timer", "word"}
  PROVE  /\ ~txnDone /\ (Done <=> ended # <<>>) /\ (Done => cs = "high") /\ PolledBuf = buf
         /\ fpc = "timer" /\ Done => rxFifo = <<>> /\ Drained = buf
         /\ fpc = "word" => rxFifo = <<>> /\ txFifo = <<>>
<1> USE DEF FrameInv
<1>1. ~txnDone
  BY DEF EdgesOK
<1>2. cs \in {"high", "low"}
  BY DEF TypeInv, CpuTypes
<1>3. Done <=> ended # <<>>
  <2>1. <<"low">> # <<>> /\ <<"high">> # <<>> /\ <<"low", "high">> # <<>>
        /\ <<"low">>[Len(<<"low">>)] = "low" /\ <<"high">>[Len(<<"high">>)] = "high"
        /\ <<"low", "high">>[Len(<<"low", "high">>)] = "high"
    OBVIOUS
  <2>2. CASE ended = <<>>
    BY <1>1, <2>1, <2>2 DEF EdgesOK, Done
  <2>3. CASE ended # <<>>
    BY <1>1, <1>2, <2>1, <2>3 DEF EdgesOK, Done
  <2> QED
    BY <2>2, <2>3
<1>4. Done => cs = "high"
  BY <1>1, <1>2, <1>3 DEF EdgesOK
<1>5. PolledBuf = buf
  <2>1. CASE Low
    <3>1. Held <= 0
      BY <1>1, <2>1, CurTyped DEF FrameOK, Held, Unpushed
    <3>2. buf \in Seq(Nat) /\ Len(buf) <= 0
      BY <3>1, CurTyped, Settings DEF FrameOK, TypeInv, TaskTypes
    <3>3. buf = <<>>
      BY <3>2, EmptySeq
    <3> QED
      BY <2>1, <3>3 DEF PolledBuf
  <2> QED
    BY <2>1 DEF PolledBuf
<1>6. fpc = "timer" /\ Done => rxFifo = <<>> /\ Drained = buf
  BY <1>3, <1>5 DEF EdgesOK, Drained
<1>7. fpc = "word" => rxFifo = <<>> /\ txFifo = <<>>
  BY OneByte DEF Working
<1> QED
  BY <1>1, <1>3, <1>4, <1>5, <1>6, <1>7

\* What the buffer holds when a transaction goes into the queue: all of it, up
\* to the capacity.
IsKept(b, t) ==
  /\ b \in Seq(Nat) /\ Len(b) = (IF Len(t) < TxnCapacity THEN Len(t) ELSE TxnCapacity)
  /\ \A i \in 1 .. Len(b) : b[i] = t[i]

\* push keeps the buffer what was clocked.
LEMMA PushKeeps ==
  ASSUME FrameInv, fpc = "push"
  PROVE  /\ Pushed(buf, word) \in Seq(Nat)
         /\ Len(Pushed(buf, word)) = (IF Clocked < TxnCapacity THEN Clocked ELSE TxnCapacity)
         /\ \A i \in 1 .. Len(Pushed(buf, word)) : Pushed(buf, word)[i] = Cur[i]
<1> USE DEF FrameInv
<1>1. rxFifo = <<>> /\ Unpushed
  BY OneByte DEF Working, Unpushed
<1>2. /\ Clocked >= 1 /\ Cur[Clocked] = word /\ Held = Clocked - 1 /\ Clocked \in Nat
      /\ TxnCapacity \in Nat /\ TxnCapacity >= 2 /\ buf \in Seq(Nat) /\ Len(buf) \in Nat /\ word \in Nat
  BY <1>1, CurTyped, Settings DEF FrameOK, Held, TypeInv, TaskTypes
<1>3. Len(buf) = (IF Held < TxnCapacity THEN Held ELSE TxnCapacity) /\ \A i \in 1 .. Len(buf) : buf[i] = Cur[i]
  BY DEF FrameOK
<1>4. CASE Len(buf) < TxnCapacity
  <2>1. Len(buf) = Clocked - 1
    BY <1>2, <1>3, <1>4
  <2>2. Pushed(buf, word) = Append(buf, word)
    BY <1>4 DEF Pushed
  <2>3. /\ Append(buf, word) \in Seq(Nat) /\ Len(Append(buf, word)) = Clocked
        /\ \A i \in 1 .. Len(buf) : Append(buf, word)[i] = buf[i]
        /\ Append(buf, word)[Len(buf) + 1] = word
    BY <1>2, <2>1, AppendProperties
  <2>4. ASSUME NEW i \in 1 .. Clocked
        PROVE  Append(buf, word)[i] = Cur[i]
    <3>1. i \in 1 .. Len(buf) \/ i = Len(buf) + 1
      BY <1>2, <2>1
    <3> QED
      BY <1>2, <1>3, <2>1, <2>3, <3>1
  <2> QED
    BY <1>2, <1>4, <2>1, <2>2, <2>3, <2>4
<1>5. CASE ~(Len(buf) < TxnCapacity)
  BY <1>2, <1>3, <1>5 DEF Pushed
<1> QED
  BY <1>4, <1>5

LEMMA Whole ==
  ASSUME FrameInv, NEW b,
         (fpc = "timer" /\ Done /\ b = Drained) \/ (fpc = "push" /\ txnDone /\ b = Pushed(buf, word))
  PROVE  ended # <<>> /\ IsKept(b, Head(ended))
<1> USE DEF FrameInv
<1>1. CASE fpc = "timer" /\ Done /\ b = Drained
  <2>1. ended # <<>> /\ b = buf /\ ~Unpushed
    BY <1>1, Polled DEF Unpushed
  <2>2. Clocked = Len(Head(ended)) /\ Held = Clocked /\ Cur = Head(ended)
    BY <2>1 DEF Clocked, Held, Cur
  <2> QED
    BY <2>1, <2>2 DEF IsKept, FrameOK, TypeInv, TaskTypes
<1>2. CASE fpc = "push" /\ txnDone /\ b = Pushed(buf, word)
  <2>1. ended # <<>>
    BY <1>2 DEF EdgesOK
  <2>2. Clocked = Len(Head(ended)) /\ Cur = Head(ended)
    BY <2>1 DEF Clocked, Cur
  <2> QED
    BY <1>2, <2>1, <2>2, PushKeeps DEF IsKept
<1> QED
  BY <1>1, <1>2

-----------------------------------------------------------------------------
(* Each part of the invariant is kept. *)

\* enqueue_txn is done with the transaction that ended.
LEMMA EnqueuedIsGone == ASSUME FrameInv, NEW b, EnqueueTxn(b) PROVE ended' = <<>>
<1>1. CASE ended = <<>>
  BY <1>1 DEF EnqueueTxn
<1>2. CASE ended # <<>>
  <2>1. ended \in Seq(Seq(Nat)) /\ Len(ended) = 1
    BY <1>2, CurTyped DEF FrameInv, TypeInv, CpuTypes
  <2>2. Tail(ended) \in Seq(Seq(Nat)) /\ Len(Tail(ended)) = 0
    BY <1>2, <2>1, HeadTailProperties
  <2>3. ended' = Tail(ended)
    BY <1>2 DEF EnqueueTxn
  <2> QED
    BY <2>2, <2>3, EmptySeq
<1> QED
  BY <1>1, <1>2

\* The board and core 0 leave the program alone, except that the board takes
\* the ended transaction.
LEMMA BoardSteps ==
  ASSUME FrameInv, SmPull \/ PioTask \/ ModesTake \/ KeyPress \/ KeySend \/ KeyCount
  PROVE  UNCHANGED cpuVars /\ (ended' = ended \/ (ended # <<>> /\ ended' = <<>>))
<1>1. UNCHANGED cpuVars
  BY DEF SmPull, PioTask, TimerFires, TimerPoll, TakeWord, PollWord, Respond, Uncount, PushByte, Reply,
     ModesTake, KeyPress, KeySend, KeyCount
<1>2. ended' = ended \/ (ended # <<>> /\ ended' = <<>>)
  <2>1. CASE TimerPoll \/ PushByte
    <3>1. ended' = ended \/ \E b \in {Drained, Pushed(buf, word)} : EnqueueTxn(b)
      BY <2>1 DEF TimerPoll, PushByte
    <3> QED
      BY <3>1, EnqueuedIsGone
  <2>2. CASE SmPull \/ TimerFires \/ TakeWord \/ PollWord \/ Respond \/ Uncount \/ Reply
             \/ ModesTake \/ KeyPress \/ KeySend \/ KeyCount
    BY <2>2 DEF SmPull, TimerFires, TakeWord, PollWord, Respond, Uncount, Reply, ModesTake, KeyPress,
       KeySend, KeyCount
  <2> QED
    BY <2>1, <2>2 DEF PioTask
<1> QED
  BY <1>1, <1>2

\* The transactions of the programs.
LEMMA TxnShapes ==
  ASSUME TypeInv, NEW t \in TxnsOf(step)
  PROVE  /\ IsPoll(t) => Len(t) = 2 /\ step \in {"get", "status"}
         /\ step \in {"get", "status"} => IsPoll(t) /\ Len(t) = 2
         /\ t # <<>> => Head(t) = t[1]
         /\ t # <<>> /\ t[1] = CMD_GET_CHAR => step = "get"
         /\ t # <<>> /\ t[1] = CMD_READ_STATUS => step = "status"
<1>1. step \in {"get", "put", "status", "send"}
  BY DEF TypeInv, CpuTypes
<1>2. t # <<>> => Head(t) = t[1]
  BY TxnsTyped DEF TypeInv
<1>3. CASE step = "get"
  BY <1>2, <1>3 DEF TxnsOf, IsPoll, CMD_READ_STATUS, CMD_GET_CHAR
<1>4. CASE step = "status"
  BY <1>2, <1>4 DEF TxnsOf, IsPoll, CMD_READ_STATUS, CMD_GET_CHAR
<1>5. CASE step = "put"
  BY <1>2, <1>5 DEF TxnsOf, IsPoll, CMD_READ_STATUS, CMD_GET_CHAR, CMD_PUT_CHAR
<1>6. CASE step = "send"
  BY <1>2, <1>6, Settings DEF TxnsOf, IsPoll
<1> QED
  BY <1>1, <1>3, <1>4, <1>5, <1>6

\* The program has all its transaction before it.
LEMMA SelectSeen ==
  ASSUME FrameInv, Select
  PROVE  /\ txn' \in TxnsOf(step) /\ txn' \in Seq(Nat) /\ txn' # <<>> /\ out' = txn' /\ Len(txn') \in Nat
         /\ cs = "high" /\ cs' = "low" /\ txn = <<>> /\ out = <<>>
         /\ UNCHANGED <<program, step, ch, acc, ended>>
BY TxnsTyped DEF FrameInv, TypeInv, CpuTypes, ProgramOK, Select

\* The next byte is clocked with the board waiting for it.
LEMMA ExchangeSeen ==
  ASSUME FrameInv, Exchange
  PROVE  /\ cs = "low" /\ cs' = "low" /\ ended = <<>> /\ ended' = <<>> /\ ~txnDone /\ ~txnDone'
         /\ Len(out') = Len(out) - 1 /\ Len(out) \in Nat /\ Len(out) >= 1 /\ Len(out') \in Nat
         /\ \A i \in 1 .. Len(out') : out'[i] = out[i + 1]
         /\ Head(out) = out[1]
         /\ rxFifo = <<>> /\ txFifo = <<>> /\ fpc \notin Working /\ ~Unpushed /\ Unpushed'
         /\ rxFifo' # <<>> /\ Head(rxFifo') = Head(out)
<1> USE DEF FrameInv
<1>1. out \in Seq(Nat) /\ out # <<>> /\ cs = "low" /\ answered /\ out' = Tail(out)
      /\ UNCHANGED <<cs, ended, txnDone, fpc>> /\ rxFifo' = Append(rxFifo, Head(out))
  BY DEF Exchange, TypeInv, CpuTypes, fwVars
<1>2. rxFifo = <<>> /\ txFifo = <<>> /\ fpc \notin Working
  BY <1>1, OneByte
<1>3. ~txnDone
  BY <1>2 DEF EdgesOK, Working
<1>4. ended = <<>>
  BY <1>1, <1>3 DEF EdgesOK
<1>5. /\ Len(out) \in Nat /\ Len(out) >= 1 /\ Len(Tail(out)) = Len(out) - 1 /\ Head(out) = out[1] /\ Head(out) \in Nat
      /\ \A i \in 1 .. Len(Tail(out)) : Tail(out)[i] = out[i + 1]
  BY <1>1, EmptySeq, HeadTailProperties
<1>6. rxFifo' # <<>> /\ Head(rxFifo') = Head(out)
  BY <1>1, <1>2
<1> QED
  BY <1>1, <1>2, <1>3, <1>4, <1>5, <1>6 DEF Unpushed, Working

\* The program ends a transaction that it clocked to the end.
LEMMA DeselectSeen ==
  ASSUME FrameInv, Deselect
  PROVE  /\ cs = "low" /\ cs' = "high" /\ ended = <<>> /\ ended' = <<txn>> /\ ended' # <<>>
         /\ Head(ended') = txn /\ out = <<>> /\ out' = <<>>
         /\ txn \in TxnsOf(step) /\ txn \in Seq(Nat) /\ txn # <<>> /\ txn' = <<>> /\ Len(txn) \in Nat
         /\ csFifo' = Append(csFifo, "high") /\ ~txnDone /\ (csFifo = <<>> \/ csFifo = <<"low">>)
         /\ Clocked = Len(txn)
<1> USE DEF FrameInv
<1>1. cs = "low" /\ cs' = "high" /\ out = <<>> /\ out' = <<>> /\ txn' = <<>> /\ ended' = Append(ended, txn)
      /\ csFifo' = Marked("high")
  BY DEF Deselect
<1>2. txn \in TxnsOf(step) /\ txn \in Seq(Nat) /\ txn # <<>> /\ Len(txn) \in Nat
  BY <1>1, TxnsTyped DEF ProgramOK, TypeInv, CpuTypes
<1>3. ended = <<>>
  BY <1>1, <1>2 DEF EdgesOK
<1>4. ~txnDone /\ (csFifo = <<>> \/ csFifo = <<"low">>)
  BY <1>3 DEF EdgesOK
<1>5. ended' = <<txn>> /\ ended' # <<>> /\ Head(ended') = txn
  BY <1>1, <1>3
<1>6. Len(csFifo) < CsFifoDepth
  BY <1>4 DEF CsFifoDepth
<1>7. Clocked = Len(txn)
  <2>1. Len(out) = 0
    BY <1>1
  <2> QED
    BY <1>2, <1>3, <2>1 DEF Clocked
<1> QED
  BY <1>1, <1>2, <1>3, <1>4, <1>5, <1>6, <1>7 DEF Marked

LEMMA TwoEdges == Append(<<"low">>, "high") = <<"low", "high">>
<1> DEFINE s == Append(<<"low">>, "high")
<1> DEFINE t == <<"low", "high">>
<1> DEFINE S == {"low", "high"}
<1>1. /\ <<"low">> \in Seq(S) /\ Len(<<"low">>) = 1 /\ <<"low">>[1] = "low" /\ "high" \in S
      /\ t \in Seq(S) /\ Len(t) = 2 /\ t[1] = "low" /\ t[2] = "high"
  OBVIOUS
<1>2. s \in Seq(S) /\ Len(s) = 2 /\ s[1] = "low" /\ s[2] = "high"
  BY <1>1, AppendProperties
<1> HIDE DEF s, t, S
<1>3. \A i \in 1 .. Len(s) : s[i] = t[i]
  <2>1. \A i \in 1 .. 2 : i = 1 \/ i = 2
    OBVIOUS
  <2> QED
    BY <1>1, <1>2, <2>1
<1>4. s = t
  BY <1>1, <1>2, <1>3, SeqEqual
<1> QED
  BY <1>4 DEF s, t

LEMMA ProgramStep == ASSUME FrameInv, Next PROVE ProgramOK'
<1> USE DEF FrameInv
<1>1. CASE Select
  <2>1. TxnsOf(step)' = TxnsOf(step)
    BY <1>1, SelectSeen DEF TxnsOf
  <2>2. Len(txn') - Len(out') = 0 /\ Len(out') <= Len(txn')
    BY <1>1, SelectSeen
  <2>3. \A i \in 1 .. Len(out') : out'[i] = txn'[Len(txn') - Len(out') + i]
    BY <1>1, <2>2, SelectSeen
  <2> QED
    BY <1>1, <2>1, <2>2, <2>3, SelectSeen DEF ProgramOK, IsPoll
<1>2. CASE Exchange
  <2>1. UNCHANGED <<program, step, ch, txn, cs, ended>>
    BY <1>2, ExchangeSeen DEF Exchange
  <2>2. TxnsOf(step)' = TxnsOf(step)
    BY <2>1 DEF TxnsOf
  <2>3. Len(txn) \in Nat /\ Len(out) <= Len(txn) /\ \A i \in 1 .. Len(out) : out[i] = txn[Len(txn) - Len(out) + i]
    BY <1>2, ExchangeSeen DEF ProgramOK, TypeInv, CpuTypes
  <2>4. ASSUME NEW i \in 1 .. Len(out')
        PROVE  out'[i] = txn[Len(txn) - Len(out') + i]
    <3>1. out'[i] = out[i + 1] /\ i + 1 \in 1 .. Len(out)
      BY <1>2, ExchangeSeen
    <3>2. Len(txn) - Len(out) + (i + 1) = Len(txn) - Len(out') + i
      <4>1. \A m, n, k \in Nat : m - n + (k + 1) = m - (n - 1) + k
        OBVIOUS
      <4>2. i \in Nat /\ Len(txn) \in Nat /\ Len(out) \in Nat /\ Len(out') = Len(out) - 1
        BY <1>2, <2>3, ExchangeSeen
      <4> QED
        BY <4>1, <4>2
    <3> QED
      BY <2>3, <3>1, <3>2
  <2>5. Len(out') <= Len(txn)
    BY <1>2, <2>3, ExchangeSeen
  <2> QED
    BY <1>2, <2>1, <2>2, <2>4, <2>5, ExchangeSeen DEF ProgramOK
<1>3. CASE Deselect
  <2>1. program' = program /\ step' = After.to
    BY <1>3 DEF Deselect
  <2>2. /\ program' = "echo" => step' \in {"get", "put"}
        /\ program' = "stress" => step' \in {"status", "put"}
        /\ program' = "sizes" => step' = "send"
    BY <2>1 DEF After, ProgramOK
  <2>3. Len(ended') <= 1
    <3>1. \A t \in Seq(Nat) : Len(<<t>>) = 1
      OBVIOUS
    <3>2. ended' = <<txn>> /\ txn \in Seq(Nat)
      BY <1>3, DeselectSeen
    <3> QED
      BY ONLY <3>1, <3>2
  <2>4. IsPoll(txn) => Len(txn) = 2
    BY <1>3, DeselectSeen, TxnShapes
  <2>5. IsPoll(Head(ended'))  => IsPoll(txn)
    BY <1>3, DeselectSeen
  <2> QED
    BY <1>3, <2>2, <2>3, <2>4, <2>5, DeselectSeen DEF ProgramOK, IsPoll
<1>4. CASE SmPull \/ PioTask \/ ModesTake \/ KeyPress \/ KeySend \/ KeyCount
  <2>1. UNCHANGED cpuVars /\ (ended' = ended \/ ended' = <<>>)
    BY <1>4, BoardSteps
  <2>2. TxnsOf(step)' = TxnsOf(step)
    BY <2>1 DEF TxnsOf, cpuVars
  <2>3. Len(ended') <= 1 /\ (ended' # <<>> => ended' = ended)
    BY <2>1 DEF ProgramOK
  <2> QED
    BY <2>1, <2>2, <2>3 DEF ProgramOK, cpuVars, IsPoll
<1> QED
  BY <1>1, <1>2, <1>3, <1>4 DEF Next, Cpu

LEMMA EdgesStep == ASSUME SelectGap, FrameInv, Next PROVE EdgesOK'
<1> USE DEF FrameInv
<1>0. cs \in {"high", "low"}
  BY DEF TypeInv, CpuTypes
<1>1. CASE Select
  <2>1. csFifo = <<>> /\ (ended # <<>> => txnDone)
    <3>1. /\ 1 \in 1 .. Len(<<"high">>) /\ <<"high">>[1] = "high"
          /\ 2 \in 1 .. Len(<<"low", "high">>) /\ <<"low", "high">>[2] = "high"
      OBVIOUS
    <3>2. \A i \in 1 .. Len(csFifo) : csFifo[i] # "high"
      BY <1>1, SelectGap DEF Select, GapLeft
    <3>3. csFifo # <<"high">> /\ csFifo # <<"low", "high">>
      BY <3>1, <3>2
    <3> QED
      BY <1>1, <3>3, SelectSeen DEF EdgesOK
  <2>2. csFifo' = <<"low">>
    BY <1>1, <2>1 DEF Select, Marked, CsFifoDepth
  <2> QED
    BY <1>1, <2>1, <2>2, SelectSeen DEF EdgesOK, Select, fwVars
<1>2. CASE Exchange
  BY <1>2, ExchangeSeen DEF EdgesOK, Exchange, fwVars
<1>3. CASE Deselect
  <2>1. csFifo' = <<"high">> \/ csFifo' = <<"low", "high">>
    <3>1. Append(<<>>, "high") = <<"high">> /\ Append(<<"low">>, "high") = <<"low", "high">>
      BY TwoEdges
    <3>2. CASE csFifo = <<>>
      BY <1>3, <3>1, <3>2, DeselectSeen
    <3>3. CASE csFifo = <<"low">>
      BY <1>3, <3>1, <3>3, DeselectSeen
    <3> QED
      BY <1>3, <3>2, <3>3, DeselectSeen
  <2>2. UNCHANGED fwVars /\ UNCHANGED rxFifo /\ ~(fpc = "timer" /\ rxFifo # <<>>)
    BY <1>3 DEF Deselect
  <2> QED
    BY <1>3, <2>1, <2>2, DeselectSeen DEF EdgesOK, fwVars
<1>4. CASE SmPull \/ Respond \/ Uncount \/ ModesTake \/ KeyPress \/ KeySend \/ KeyCount
  <2>1. UNCHANGED <<cs, txn, out, csFifo, rxFifo, txnDone, ended>>
    BY <1>4 DEF SmPull, Respond, Uncount, ModesTake, KeyPress, KeySend, KeyCount, cpuVars, fifos, fwVars
  <2>2. fpc' = fpc \/ (fpc \in {"respond", "uncount"} /\ fpc' \in {"uncount", "push"})
    BY <1>4 DEF SmPull, Respond, Uncount, ModesTake, KeyPress, KeySend, KeyCount, fwVars
  <2> QED
    BY <2>1, <2>2 DEF EdgesOK
<1>5. CASE TimerFires \/ TakeWord \/ Reply
  <2>1. UNCHANGED <<cs, txn, out, csFifo, txnDone, ended>> /\ ~txnDone
    BY <1>5 DEF TimerFires, TakeWord, Reply, cpuVars, fifos, EdgesOK
  <2>2. fpc' = "timer" => rxFifo' = <<>>
    BY <1>5 DEF TimerFires, TakeWord, Reply, fifos
  <2> QED
    BY <2>1, <2>2 DEF EdgesOK
<1>6. CASE TimerPoll
  <2>1. UNCHANGED <<cs, txn, out>> /\ csFifo' = <<>> /\ ~txnDone' /\ fpc' = "select" /\ fpc = "timer"
    BY <1>6 DEF TimerPoll, cpuVars
  <2>2. ended' = <<>>
    <3>1. CASE Done
      BY <1>6, <3>1, EnqueuedIsGone DEF TimerPoll
    <3>2. CASE ~Done
      BY <1>6, <2>1, <3>2, Polled DEF TimerPoll
    <3> QED
      BY <3>1, <3>2
  <2> QED
    BY <2>1, <2>2 DEF EdgesOK
<1>7. CASE PollWord
  <2>1. UNCHANGED <<cs, txn, out, rxFifo, ended>> /\ csFifo' = <<>> /\ txnDone' = Done /\ fpc' = "respond" /\ fpc = "word"
    BY <1>7 DEF PollWord, cpuVars
  <2>2. (Done <=> ended # <<>>) /\ (Done => cs = "high")
    BY <2>1, Polled
  <2> QED
    BY <2>1, <2>2 DEF EdgesOK
<1>8. CASE PushByte
  <2>1. UNCHANGED <<cs, txn, out, csFifo, rxFifo>> /\ ~txnDone' /\ fpc' = "reply" /\ fpc = "push"
    BY <1>8 DEF PushByte, cpuVars, fifos
  <2>2. CASE txnDone
    <3>1. ended' = <<>>
      BY <1>8, <2>2, EnqueuedIsGone DEF PushByte
    <3>2. csFifo = <<>> \/ (csFifo = <<"low">> /\ cs = "low")
      BY <1>0, <2>2 DEF EdgesOK
    <3> QED
      BY <2>1, <3>1, <3>2 DEF EdgesOK
  <2>3. CASE ~txnDone
    <3>1. ended' = ended
      BY <1>8, <2>3 DEF PushByte
    <3> QED
      BY <2>1, <2>3, <3>1 DEF EdgesOK
  <2> QED
    BY <2>2, <2>3
<1> QED
  BY <1>1, <1>2, <1>3, <1>4, <1>5, <1>6, <1>7, <1>8 DEF Next, Cpu, PioTask

\* Nothing of a transaction is there when it was taken, or has not begun.
LEMMA FreshFrame ==
  ASSUME buf' = <<>>, Len(txn') - Len(out') = 0, ended' = <<>>, ~Unpushed', fpc' \notin {"respond", "uncount", "push"}
  PROVE  FrameOK'
<1>1. Clocked' = 0 /\ Held' = 0
  BY DEF Clocked, Held
<1>2. Len(<<>>) = 0 /\ 0 < TxnCapacity
  BY Settings
<1> QED
  BY <1>1, <1>2 DEF FrameOK

\* The board takes a transaction off the wires.
LEMMA TakenFrame == ASSUME FrameInv, (TimerPoll /\ Done) \/ (PushByte /\ txnDone) PROVE FrameOK'
<1> USE DEF FrameInv
<1>1. /\ buf' = <<>> /\ rxFifo' = <<>> /\ UNCHANGED <<cs, txn, out>> /\ fpc' \in {"select", "reply"}
      /\ \E b \in {Drained, Pushed(buf, word)} : EnqueueTxn(b)
  BY OneByte DEF TimerPoll, PushByte, Working, cpuVars, fifos
<1>2. ended # <<>> /\ ended' = <<>>
  BY <1>1, EnqueuedIsGone, Polled DEF EdgesOK, TimerPoll, PushByte
<1>3. txn = out /\ Len(txn) \in Nat
  BY <1>2 DEF EdgesOK, ProgramOK, TypeInv, CpuTypes
<1>4. Len(txn') - Len(out') = 0
  BY <1>1, <1>3
<1>5. ~Unpushed' /\ fpc' \notin {"respond", "uncount", "push"}
  BY <1>1 DEF Unpushed
<1> QED
  BY <1>1, <1>2, <1>4, <1>5, FreshFrame

LEMMA ClockedFrame == ASSUME FrameInv, Exchange PROVE FrameOK'
<1> USE DEF FrameInv
<1>1. UNCHANGED <<txn, csFifo, fpc, word, buf, inTxn, txnDone>>
  BY DEF Exchange, fwVars
<1>2. /\ Clocked = Len(txn) - Len(out) /\ Clocked' = Len(txn) - Len(out') /\ Cur = txn /\ Cur' = txn
      /\ Clocked \in Nat /\ Held = Clocked
  BY <1>1, ExchangeSeen, CurTyped DEF Clocked, Cur, Held
<1>3. Clocked' = Clocked + 1 /\ Held' = Clocked
  <2>1. Len(txn) \in Nat /\ Len(out) \in Nat /\ Len(out') = Len(out) - 1
    BY ExchangeSeen DEF TypeInv, CpuTypes
  <2>2. Clocked' = Clocked + 1
    BY <1>2, <2>1
  <2>3. Held' = Clocked' - 1
    BY ExchangeSeen DEF Held
  <2> QED
    BY <1>2, <2>2, <2>3
<1>4. Cur'[Clocked'] = Head(rxFifo')
  <2>1. out[1] = txn[Len(txn) - Len(out) + 1]
    BY ExchangeSeen DEF ProgramOK
  <2> QED
    BY <1>2, <1>3, <2>1, ExchangeSeen
<1>5. Low' => Low
  BY <1>1 DEF Low
<1>6. fpc \notin {"word", "respond", "uncount", "push"}
  BY ExchangeSeen DEF Working
<1> QED
  BY <1>1, <1>2, <1>3, <1>4, <1>5, <1>6, ExchangeSeen DEF FrameOK

LEMMA PushedFrame == ASSUME FrameInv, PushByte, ~txnDone PROVE FrameOK'
<1> USE DEF FrameInv
<1>1. /\ fpc = "push" /\ fpc' = "reply" /\ buf' = Pushed(buf, word)
      /\ UNCHANGED <<txn, out, csFifo, rxFifo, inTxn, txnDone, ended>>
  BY DEF PushByte, cpuVars, fifos
<1>2. rxFifo = <<>> /\ Unpushed /\ ~Unpushed'
  BY <1>1, OneByte DEF Unpushed, Working
<1>3. Clocked' = Clocked /\ Cur' = Cur /\ Held' = Clocked
  BY <1>1, <1>2 DEF Clocked, Cur, Held
<1>4. inTxn /\ ~Low
  BY <1>1, <1>2, CurTyped DEF FrameOK
<1>5. ~Low'
  BY <1>1, <1>4 DEF Low
<1> QED
  BY <1>1, <1>2, <1>3, <1>4, <1>5, PushKeeps DEF FrameOK

LEMMA FrameStep == ASSUME SelectGap, FrameInv, Next PROVE FrameOK'
<1> USE DEF FrameInv
<1>1. CASE Select
  <2>1. UNCHANGED <<fpc, rxFifo, word, buf, inTxn, txnDone>> /\ Unpushed' = Unpushed
    BY <1>1 DEF Select, fwVars, Unpushed
  <2>2. CASE ended = <<>>
    <3>1. Clocked = 0 /\ ~Unpushed
      <4>1. Clocked = 0
        BY <1>1, <2>2, SelectSeen DEF Clocked
      <4> QED
        BY <4>1 DEF FrameOK
    <3>2. buf = <<>>
      <4>1. buf \in Seq(Nat) /\ Len(buf) = 0
        BY <3>1, Settings DEF FrameOK, Held, TypeInv, TaskTypes
      <4> QED
        BY <4>1, EmptySeq
    <3>3. Len(txn') - Len(out') = 0
      BY <1>1, SelectSeen
    <3> QED
      BY <1>1, <2>1, <2>2, <3>1, <3>2, <3>3, SelectSeen, FreshFrame DEF Unpushed
  <2>3. CASE ended # <<>>
    <3>1. txnDone
      <4>1. /\ 1 \in 1 .. Len(<<"high">>) /\ <<"high">>[1] = "high"
            /\ 2 \in 1 .. Len(<<"low", "high">>) /\ <<"low", "high">>[2] = "high"
        OBVIOUS
      <4>2. \A i \in 1 .. Len(csFifo) : csFifo[i] # "high"
        BY <1>1 DEF Select, GapLeft
      <4> QED
        BY <1>1, <2>3, <4>1, <4>2, SelectSeen DEF EdgesOK
    <3>2. Clocked' = Clocked /\ Cur' = Cur /\ Held' = Held
      BY <1>1, <2>1, <2>3, SelectSeen DEF Clocked, Cur, Held
    <3> QED
      BY <2>1, <3>1, <3>2 DEF FrameOK
  <2> QED
    BY <2>2, <2>3
<1>2. CASE Exchange
  BY <1>2, ClockedFrame
<1>3. CASE Deselect
  <2>1. UNCHANGED <<fpc, rxFifo, word, buf, inTxn, txnDone>> /\ Unpushed' = Unpushed
    BY <1>3 DEF Deselect, fwVars, Unpushed
  <2>2. Clocked' = Clocked /\ Cur' = Cur /\ Held' = Held
    BY <1>3, <2>1, DeselectSeen DEF Clocked, Cur, Held
  <2>3. Low' => Low
    <3>1. /\ \A i \in 1 .. Len(<<"high">>) : <<"high">>[i] # "low"
          /\ Append(<<>>, "high") = <<"high">> /\ 1 \in 1 .. Len(<<"low">>) /\ <<"low">>[1] = "low"
      OBVIOUS
    <3>2. CASE csFifo = <<>>
      BY <1>3, <3>1, <3>2, DeselectSeen DEF Low
    <3>3. CASE csFifo = <<"low">>
      BY <3>1, <3>3 DEF Low
    <3> QED
      BY <1>3, <3>2, <3>3, DeselectSeen
  <2> QED
    BY <2>1, <2>2, <2>3 DEF FrameOK
<1>4. CASE SmPull \/ TimerFires \/ TakeWord \/ Respond \/ Uncount \/ Reply \/ ModesTake \/ KeyPress \/ KeySend \/ KeyCount
  <2>1. UNCHANGED <<txn, out, csFifo, buf, inTxn, txnDone, ended>>
    BY <1>4 DEF SmPull, TimerFires, TakeWord, Respond, Uncount, Reply, ModesTake, KeyPress, KeySend, KeyCount,
       cpuVars, fifos, fwVars
  <2>2. Clocked' = Clocked /\ Cur' = Cur /\ Low' = Low
    BY <2>1 DEF Clocked, Cur, Low
  <2>3. CASE TakeWord
    <3>1. fpc = "select" /\ rxFifo # <<>> /\ fpc' = "word" /\ rxFifo' = <<>> /\ word' = Head(rxFifo)
      BY <2>3, LastByte DEF TakeWord
    <3>2. Unpushed /\ Unpushed' /\ Held' = Held
      BY <2>2, <3>1 DEF Unpushed, Held
    <3> QED
      BY <2>1, <2>2, <3>1, <3>2 DEF FrameOK
  <2>4. CASE TimerFires \/ Reply
    <3>1. fpc \in {"select", "reply"} /\ fpc' \in {"timer", "select"} /\ rxFifo' = rxFifo
      BY <2>4 DEF TimerFires, Reply, fifos
    <3>2. rxFifo = <<>>
      BY <2>4, OneByte DEF TimerFires, Reply, Working
    <3>3. ~Unpushed /\ ~Unpushed' /\ Held' = Held
      BY <2>2, <3>1, <3>2 DEF Unpushed, Held
    <3> QED
      BY <2>1, <2>2, <3>1, <3>2, <3>3 DEF FrameOK
  <2>5. CASE SmPull \/ Respond \/ Uncount \/ ModesTake \/ KeyPress \/ KeySend \/ KeyCount
    <3>1. UNCHANGED <<rxFifo, word>>
      BY <2>5 DEF SmPull, Respond, Uncount, ModesTake, KeyPress, KeySend, KeyCount, fifos, fwVars
    <3>2. fpc' = fpc \/ (fpc \in {"respond", "uncount"} /\ fpc' \in {"uncount", "push"})
      BY <2>5 DEF SmPull, Respond, Uncount, ModesTake, KeyPress, KeySend, KeyCount, fwVars
    <3>3. Unpushed' = Unpushed /\ Held' = Held
      BY <2>2, <3>1, <3>2 DEF Unpushed, Held
    <3> QED
      BY <2>1, <2>2, <3>1, <3>2, <3>3 DEF FrameOK
  <2> QED
    BY <1>4, <2>3, <2>4, <2>5
<1>5. CASE TimerPoll /\ ~Done
  <2>1. /\ fpc = "timer" /\ fpc' = "select" /\ csFifo' = <<>> /\ buf' = buf /\ inTxn' = (inTxn \/ Low) /\ txnDone' = FALSE
        /\ UNCHANGED <<txn, out, rxFifo, word, ended>>
    BY <1>5, Polled DEF TimerPoll, cpuVars
  <2>2. Clocked' = Clocked /\ Cur' = Cur /\ Unpushed' = Unpushed /\ Held' = Held
    BY <2>1 DEF Clocked, Cur, Unpushed, Held
  <2>3. ~Low'
    BY <2>1 DEF Low
  <2> QED
    BY <2>1, <2>2, <2>3 DEF FrameOK
<1>6. CASE PollWord
  <2>1. /\ fpc = "word" /\ fpc' = "respond" /\ csFifo' = <<>> /\ txnDone' = Done /\ inTxn' = (inTxn \/ Low \/ ~Done)
        /\ UNCHANGED <<txn, out, rxFifo, word, ended>> /\ ((buf' = <<>> /\ ~inTxn) \/ buf' = buf)
    BY <1>6, Polled DEF PollWord, cpuVars
  <2>2. buf' = buf
    BY <2>1 DEF FrameOK
  <2>3. Clocked' = Clocked /\ Cur' = Cur /\ Unpushed /\ Unpushed' /\ Held' = Held
    BY <2>1 DEF Clocked, Cur, Unpushed, Held
  <2>4. ~Low'
    BY <2>1 DEF Low
  <2> QED
    BY <2>1, <2>2, <2>3, <2>4 DEF FrameOK
<1> QED
  BY <1>1, <1>2, <1>3, <1>4, <1>5, <1>6, TakenFrame, PushedFrame DEF Next, Cpu, PioTask

\* Answers that only move on stay answers to the first byte of a poll.
LEMMA AnswersMove ==
  ASSUME AnswerOK, Answering' \subseteq Answering \cup {0}, UNCHANGED <<program, step, ch, cs, out, acc>>,
         fpc' \notin {"uncount", "push", "reply"} => reply' = 0,
         ~answered' => osr' = 0
  PROVE  AnswerOK'
BY DEF AnswerOK

\* next_response answers something else than 0 only to the first byte of a poll
\* that the program is still in.
LEMMA RespondSeen ==
  ASSUME FrameInv, Respond
  PROVE  \/ reply' = 0 /\ keyQ' = keyQ
         \/ /\ cs = "low" /\ Len(out) = 1 /\ step = "get"
            /\ keyQ # <<>> /\ reply' = Head(keyQ) /\ keyQ' = Tail(keyQ)
         \/ /\ cs = "low" /\ Len(out) = 1 /\ step = "status"
            /\ reply' = StatusByte /\ keyQ' = keyQ
<1> USE DEF FrameInv
<1>1. ASSUME buf = <<>>, word \in {CMD_READ_STATUS, CMD_GET_CHAR}
      PROVE  /\ cs = "low" /\ Len(out) = 1
             /\ word = CMD_GET_CHAR => step = "get"
             /\ word = CMD_READ_STATUS => step = "status"
  <2>1. fpc = "respond" /\ rxFifo = <<>> /\ Unpushed
    BY OneByte DEF Respond, Unpushed, Working
  <2>2. Clocked \in Nat /\ Clocked >= 1 /\ Held = Clocked - 1 /\ Cur[Clocked] = word
    BY <2>1, CurTyped DEF FrameOK, Held
  <2>3. Clocked = 1
    <3>1. (IF Held < TxnCapacity THEN Held ELSE TxnCapacity) = 0
      BY <1>1 DEF FrameOK
    <3> QED
      BY <2>2, <3>1, Settings
  <2>4. Cur \in Seq(Nat) /\ Len(Cur) \in Nat /\ Len(Cur) >= 1
    BY <2>3, CurTyped
  <2>5. Cur # <<>> /\ Head(Cur) = Cur[1]
    BY <2>4
  <2>6. IsPoll(Cur)
    BY <1>1, <2>2, <2>3, <2>5 DEF IsPoll
  <2>7. ended = <<>>
    <3>1. ASSUME ended # <<>>
          PROVE  FALSE
      <4>1. Cur = Head(ended) /\ Clocked = Len(Head(ended))
        BY <3>1 DEF Cur, Clocked
      <4> QED
        BY <2>3, <2>6, <3>1, <4>1 DEF ProgramOK
    <3> QED
      BY <3>1
  <2>8. Cur = txn /\ Clocked = Len(txn) - Len(out)
    BY <2>7 DEF Cur, Clocked
  <2>9. cs = "low" /\ txn \in TxnsOf(step)
    BY <2>5, <2>8 DEF ProgramOK, TypeInv, CpuTypes
  <2>10. Len(txn) = 2 /\ Len(out) \in Nat
    <3>1. IsPoll(txn)
      BY <2>6, <2>8 DEF IsPoll
    <3>2. Len(txn) = 2
      BY <2>9, <3>1, TxnShapes
    <3> QED
      BY <3>2 DEF TypeInv, CpuTypes
  <2>11. Len(out) = 1
    <3>1. \A n \in Nat : 2 - n = 1 => n = 1
      OBVIOUS
    <3>2. 2 - Len(out) = 1 /\ Len(out) \in Nat
      BY <2>3, <2>8, <2>10
    <3> QED
      BY <3>1, <3>2
  <2>12. txn[1] = word
    BY <2>2, <2>3, <2>8
  <2> QED
    BY <2>5, <2>8, <2>9, <2>11, <2>12, TxnShapes
<1> QED
  BY <1>1 DEF Respond, AtCommand

LEMMA AnswerStep == ASSUME FrameInv, Next PROVE AnswerOK'
<1> USE DEF FrameInv
<1>0. 0 \notin Keys /\ Keys \subseteq Nat /\ keyQ \in Seq(Keys) /\ Len(out) \in Nat
  BY Settings DEF TypeInv, KeyTypes, CpuTypes
<1>1. CASE Select
  BY <1>1, SelectSeen DEF AnswerOK, Answering, Select, smVars, fwVars
<1>2. CASE Exchange
  <2>1. /\ UNCHANGED <<program, step, ch, cs, fpc, reply, txFifo>> /\ acc' = osr /\ osr' = 0
    BY <1>2 DEF Exchange, fwVars
  <2>2. reply = 0 /\ txFifo = <<>>
    BY <1>2, ExchangeSeen DEF AnswerOK, Working
  <2>3. Answering' = {0}
    BY <2>1, <2>2 DEF Answering
  <2>4. osr # 0 => cs = "low" /\ step \in {"get", "status"} /\ Len(out) = 1
    BY DEF AnswerOK, Answering
  <2>5. Len(out) = 1 => out' = <<>>
    <3>1. out' \in Seq(Nat)
      BY <1>2, HeadTailProperties DEF Exchange, TypeInv, CpuTypes
    <3>2. Len(out) = 1 => Len(out') = 0
      BY <1>2, ExchangeSeen
    <3> QED
      BY <3>1, <3>2, EmptySeq
  <2>6. program = "echo" => osr \in Keys \cup {0}
    BY DEF AnswerOK, Answering
  <2>7. step = "put" => ch \in Keys \cup 1 .. Chars
    BY DEF AnswerOK
  <2>8. program = "stress" => ch \in 1 .. Chars
    BY DEF AnswerOK
  <2> QED
    BY <2>1, <2>2, <2>3, <2>4, <2>5, <2>6, <2>7, <2>8 DEF AnswerOK
<1>3. CASE Deselect
  <2>1. UNCHANGED <<program, osr, answered, fpc, reply, txFifo>> /\ acc' = 0 /\ step' = After.to /\ ch' = After.ch
    BY <1>3 DEF Deselect, smVars, fwVars
  <2>2. Len(out) = 0
    BY <1>3, DeselectSeen
  <2>3. \A x \in Answering : x = 0
    BY <2>2 DEF AnswerOK
  <2>4. Answering' = Answering
    BY <2>1 DEF Answering
  <2>5. program = "echo" \/ program = "stress" \/ program = "sizes"
    BY HostLinkAssumption DEF TypeInv, CpuTypes
  <2>6. (ch % Chars) + 1 \in 1 .. Chars
    BY Settings DEF TypeInv, CpuTypes
  <2>7. step' = "put" => ch' \in Keys \cup 1 .. Chars
    BY <2>1, <2>5 DEF After, AnswerOK, ProgramOK
  <2>8. program' = "stress" => ch' \in 1 .. Chars
    BY <2>1, <2>6 DEF After, AnswerOK, ProgramOK
  <2> QED
    BY <2>1, <2>3, <2>4, <2>7, <2>8 DEF AnswerOK
<1>4. CASE SmPull
  <2>1. /\ UNCHANGED <<program, step, ch, cs, out, acc, reply, fpc>> /\ ~answered /\ answered'
        /\ txFifo # <<>> /\ osr' = Head(txFifo) /\ txFifo' = Tail(txFifo)
    BY <1>4 DEF SmPull, cpuVars, fwVars
  <2>2. txFifo' = <<>>
    BY <2>1, LastByte
  <2>3. Answering' \subseteq Answering \cup {0}
    BY <2>1, <2>2 DEF Answering
  <2>4. fpc' \notin {"uncount", "push", "reply"} => reply' = 0
    BY <2>1 DEF AnswerOK
  <2> QED
    BY <2>1, <2>3, <2>4, AnswersMove
<1>5. CASE TimerFires \/ TimerPoll \/ TakeWord \/ PollWord \/ PushByte \/ Uncount \/ ModesTake \/ KeyPress \/ KeySend \/ KeyCount
  <2>1. UNCHANGED <<program, step, ch, cs, out, acc, reply, osr, answered, txFifo>>
    BY <1>5 DEF TimerFires, TimerPoll, TakeWord, PollWord, PushByte, Uncount, ModesTake, KeyPress, KeySend, KeyCount,
       cpuVars, smVars, fifos, fwVars
  <2>2. fpc' \notin {"uncount", "push", "reply"} => fpc \notin {"uncount", "push", "reply"}
    BY <1>5 DEF TimerFires, TimerPoll, TakeWord, PollWord, PushByte, Uncount, ModesTake, KeyPress, KeySend, KeyCount,
       fwVars
  <2>3. Answering' = Answering
    BY <2>1 DEF Answering
  <2>4. (fpc' \notin {"uncount", "push", "reply"} => reply' = 0) /\ (~answered' => osr' = 0)
    BY <2>1, <2>2 DEF AnswerOK
  <2> QED
    BY <2>1, <2>3, <2>4, AnswersMove
<1>6. CASE Respond
  <2>1. UNCHANGED <<program, step, ch, cs, out, acc, osr, answered, txFifo>> /\ fpc = "respond" /\ fpc' \in {"push", "uncount"}
    BY <1>6 DEF Respond, cpuVars, smVars, fifos
  <2>2. Answering' \subseteq Answering \cup {reply'}
    BY <2>1 DEF Answering
  <2>3. CASE reply' = 0
    BY <2>1, <2>2, <2>3, AnswersMove DEF AnswerOK
  <2>4. CASE reply' # 0
    <3>1. cs = "low" /\ step \in {"get", "status"} /\ Len(out) = 1 /\ (step = "get" => keyQ # <<>> /\ reply' = Head(keyQ))
      BY <1>6, <2>4, RespondSeen
    <3>2. program = "echo" => reply' \in Keys
      BY <1>0, <3>1, HeadTailProperties DEF ProgramOK
    <3> QED
      BY <2>1, <2>2, <3>1, <3>2 DEF AnswerOK
  <2> QED
    BY <2>3, <2>4
<1>7. CASE Reply
  <2>1. /\ UNCHANGED <<program, step, ch, cs, out, acc, osr, answered>> /\ reply' = 0 /\ fpc' = "select"
        /\ txFifo' = Append(txFifo, reply) /\ txFifo = <<>>
    BY <1>7, OneByte DEF Reply, Answers, cpuVars, smVars, Working
  <2>2. txFifo' # <<>> /\ Head(txFifo') = reply
    BY <2>1
  <2>3. Answering' \subseteq Answering \cup {0}
    BY <2>1, <2>2 DEF Answering
  <2> QED
    BY <2>1, <2>3, AnswersMove DEF AnswerOK
<1> QED
  BY <1>1, <1>2, <1>3, <1>4, <1>5, <1>6, <1>7 DEF Next, Cpu, PioTask

\* What enqueue_txn is given of a transaction tells whether that was a poll, and
\* is the transaction up to the capacity.
LEMMA KeptPart ==
  ASSUME NEW t \in Seq(Nat), t # <<>>, NEW b, IsKept(b, t)
  PROVE  b # <<>> /\ (IsPoll(b) <=> IsPoll(t)) /\ (~IsPoll(t) => Kept(t) = b)
<1> DEFINE n == IF Len(t) < TxnCapacity THEN Len(t) ELSE TxnCapacity
<1>1. Len(t) \in Nat /\ Len(t) >= 1 /\ n \in Nat /\ n >= 1 /\ n <= Len(t)
  <2>1. Len(t) \in Nat /\ Len(t) >= 1
    BY EmptySeq
  <2> QED
    BY <2>1, Settings
<1>2. b \in Seq(Nat) /\ Len(b) = n /\ \A i \in 1 .. Len(b) : b[i] = t[i]
  BY DEF IsKept
<1> HIDE DEF n
<1>3. b # <<>>
  BY <1>1, <1>2
<1>4. Head(b) = Head(t)
  BY <1>1, <1>2, <1>3
<1>5. IsPoll(b) <=> IsPoll(t)
  BY <1>3, <1>4 DEF IsPoll
<1>6. SubSeq(t, 1, n) = b
  <2>1. \A i \in 1 .. n : t[i] \in Nat
    BY <1>1, ElementOfSeq
  <2>2. /\ SubSeq(t, 1, n) \in Seq(Nat) /\ Len(SubSeq(t, 1, n)) = n
        /\ \A i \in 1 .. n : SubSeq(t, 1, n)[i] = t[i]
    BY <1>1, <2>1, SubSeqProperties
  <2> HIDE DEF n
  <2> QED
    BY <1>2, <2>2, SeqEqual
<1>7. Kept(t) = IF IsPoll(t) THEN <<>> ELSE SubSeq(t, 1, n)
  BY DEF Kept, n
<1> QED
  BY <1>2, <1>3, <1>5, <1>6, <1>7

\* Where enqueue_txn is called, the transaction that ended is what it is given.
LEMMA EnqueueSeen ==
  ASSUME FrameInv, (TimerPoll /\ Done) \/ (PushByte /\ txnDone)
  PROVE  \E b : /\ EnqueueTxn(b) /\ ended # <<>> /\ IsKept(b, Head(ended))
                /\ Head(ended) \in Seq(Nat) /\ Head(ended) # <<>> /\ ended' = <<>>
<1> USE DEF FrameInv
<1>1. \E b : /\ EnqueueTxn(b)
             /\ (fpc = "timer" /\ Done /\ b = Drained) \/ (fpc = "push" /\ txnDone /\ b = Pushed(buf, word))
  <2>1. CASE TimerPoll /\ Done
    <3>1. EnqueueTxn(Drained) /\ fpc = "timer"
      BY <2>1 DEF TimerPoll
    <3> QED
      BY <2>1, <3>1
  <2>2. CASE PushByte /\ txnDone
    <3>1. EnqueueTxn(Pushed(buf, word)) /\ fpc = "push"
      BY <2>2 DEF PushByte
    <3> QED
      BY <2>2, <3>1
  <2> QED
    BY <2>1, <2>2
<1>2. PICK b : /\ EnqueueTxn(b)
               /\ (fpc = "timer" /\ Done /\ b = Drained) \/ (fpc = "push" /\ txnDone /\ b = Pushed(buf, word))
  BY <1>1
<1>3. ended # <<>> /\ IsKept(b, Head(ended))
  BY <1>2, Whole
<1>4. Head(ended) \in Seq(Nat)
  BY <1>3, HeadTailProperties DEF TypeInv, CpuTypes
<1>5. ended' = <<>> /\ Head(ended) # <<>>
  BY <1>2, <1>3, EnqueuedIsGone DEF ProgramOK
<1> QED
  BY <1>2, <1>3, <1>4, <1>5

LEMMA RoomStep == ASSUME FrameInv, Next PROVE RoomOK'
<1> USE DEF FrameInv
<1>0. /\ HOST_READY = 2 /\ Len(out) \in Nat /\ hostQ \in Seq(Seq(Nat)) /\ Len(hostQ) \in Nat
      /\ QueueDepth \in Nat /\ ReadyFree \in Nat /\ ReadyFree >= 1
  BY Settings DEF HOST_READY, TypeInv, CpuTypes, QueueTypes
<1> SUFFICES ASSUME program' = "stress"
             PROVE  RoomOK'
  BY DEF RoomOK
<1>1. program' = program /\ program = "stress"
  <2>1. program' = program
    BY BoardSteps DEF Next, Cpu, Select, Exchange, Deselect, cpuVars
  <2> QED
    BY <2>1
<1>2. step \in {"status", "put"}
  BY <1>1 DEF ProgramOK
<1>3. ASSUME UNCHANGED <<step, ended>>, hostQ' = hostQ,
             Answering' \cup {acc'} \subseteq Answering \cup {acc, 0}
      PROVE  RoomOK'
  <2>1. (\E x \in Answering' \cup {acc'} : x >= HOST_READY) => \E x \in Answering \cup {acc} : x >= HOST_READY
    BY <1>0, <1>3
  <2> QED
    BY <1>1, <1>3, <2>1 DEF RoomOK, IsPoll
<1>4. CASE Select
  <2>1. UNCHANGED <<step, ended, hostQ, acc, osr, reply, txFifo>>
    BY <1>4, SelectSeen DEF Select, smVars, fwVars, modeVars
  <2> QED
    BY <1>3, <2>1 DEF Answering
<1>5. CASE Exchange
  <2>1. UNCHANGED <<step, ended, hostQ, reply, txFifo>> /\ acc' = osr /\ osr' = 0
    BY <1>5 DEF Exchange, fwVars, modeVars
  <2> QED
    BY <1>3, <2>1 DEF Answering
<1>6. CASE Deselect
  <2>1. UNCHANGED <<hostQ, osr, reply, txFifo>> /\ acc' = 0 /\ step' = After.to
    BY <1>6 DEF Deselect, smVars, fwVars, modeVars
  <2>2. Len(out) = 0
    BY <1>6, DeselectSeen
  <2>3. \A x \in Answering' \cup {acc'} : x = 0
    BY <2>1, <2>2 DEF AnswerOK, Answering
  <2>4. ~\E x \in Answering' \cup {acc'} : x >= HOST_READY
    <3>1. ~(0 >= HOST_READY)
      BY <1>0
    <3> QED
      BY ONLY <2>3, <3>1
  <2>5. step' = "put" => step = "status" /\ acc >= HOST_READY
    BY <1>1, <1>2, <2>1 DEF After
  <2>6. step' = "put" => Len(hostQ') < QueueDepth
    BY <1>1, <2>1, <2>5 DEF RoomOK
  <2>7. ~IsPoll(Head(ended')) => step = "put"
    <3>1. step = "status" => IsPoll(txn)
      BY <1>6, DeselectSeen, TxnShapes
    <3> QED
      BY <1>2, <1>6, <3>1, DeselectSeen DEF IsPoll
  <2>8. step = "put" => step' = "status" /\ Len(hostQ') < QueueDepth
    BY <1>1, <2>1 DEF After, RoomOK
  <2> QED
    BY <2>4, <2>6, <2>7, <2>8 DEF RoomOK, IsPoll
<1>7. CASE (TimerPoll /\ Done) \/ (PushByte /\ txnDone)
  <2>1. UNCHANGED <<step, acc, osr, reply, txFifo>>
    BY <1>7 DEF TimerPoll, PushByte, cpuVars, smVars, fifos
  <2>2. PICK b : /\ EnqueueTxn(b) /\ ended # <<>> /\ IsKept(b, Head(ended))
                 /\ Head(ended) \in Seq(Nat) /\ Head(ended) # <<>> /\ ended' = <<>>
    BY <1>7, EnqueueSeen
  <2>3. CASE hostQ' = hostQ
    <3>1. Answering' \cup {acc'} = Answering \cup {acc}
      BY <2>1 DEF Answering
    <3> QED
      BY <1>1, <2>1, <2>2, <2>3, <3>1 DEF RoomOK
  <2>4. CASE hostQ' # hostQ
    <3>1. ~IsPoll(Head(ended))
      BY <2>2, <2>4, KeptPart DEF EnqueueTxn
    <3>2. step = "status"
      BY <1>1, <2>2, <3>1 DEF RoomOK
    <3>3. cs = "low" => Len(out) = 2 /\ out # <<>>
      BY <2>2, <3>2, TxnShapes DEF EdgesOK, ProgramOK
    <3>4. \A x \in Answering \cup {acc} : x = 0
      <4>1. cs = "low" => Len(out) # 1 /\ out # <<>>
        BY <3>3
      <4>2. \A x \in Answering : x = 0
        BY <4>1 DEF AnswerOK
      <4>3. acc = 0
        BY <4>1 DEF AnswerOK
      <4> QED
        BY <4>2, <4>3
    <3>5. \A x \in Answering' \cup {acc'} : x = 0
      BY <2>1, <3>4 DEF Answering
    <3>6. ~\E x \in Answering' \cup {acc'} : x >= HOST_READY
      <4>1. ~(0 >= HOST_READY)
        BY <1>0
      <4> QED
        BY ONLY <3>5, <4>1
    <3> QED
      BY <2>1, <2>2, <3>2, <3>6 DEF RoomOK
  <2> QED
    BY <2>3, <2>4
<1>8. CASE TimerFires \/ (TimerPoll /\ ~Done) \/ TakeWord \/ PollWord \/ Uncount \/ (PushByte /\ ~txnDone)
           \/ KeyPress \/ KeySend \/ KeyCount
  <2>1. UNCHANGED <<step, acc, osr, reply, txFifo, ended, hostQ>>
    BY <1>8 DEF TimerFires, TimerPoll, TakeWord, PollWord, Uncount, PushByte, KeyPress, KeySend, KeyCount,
       cpuVars, smVars, fifos, fwVars, modeVars
  <2> QED
    BY <1>3, <2>1 DEF Answering
<1>9. CASE SmPull \/ Reply
  <2>1. UNCHANGED <<step, acc, ended, hostQ>>
    BY <1>9 DEF SmPull, Reply, cpuVars, modeVars
  <2>2. Answering' \subseteq Answering \cup {0}
    <3>1. CASE SmPull
      <4>1. reply' = reply /\ txFifo # <<>> /\ osr' = Head(txFifo) /\ txFifo' = Tail(txFifo)
        BY <3>1 DEF SmPull, fwVars
      <4> QED
        BY <4>1, LastByte DEF Answering
    <3>2. CASE Reply
      <4>1. osr' = osr /\ reply' = 0 /\ txFifo' = Append(txFifo, reply) /\ txFifo = <<>>
        BY <3>2, OneByte DEF Reply, Answers, smVars, Working
      <4>2. txFifo' # <<>> /\ Head(txFifo') = reply
        BY <4>1
      <4> QED
        BY <4>1, <4>2 DEF Answering
    <3> QED
      BY <1>9, <3>1, <3>2
  <2> QED
    BY <1>3, <2>1, <2>2
<1>10. CASE Respond
  <2>1. UNCHANGED <<step, acc, osr, txFifo, ended, hostQ>>
    BY <1>10 DEF Respond, cpuVars, smVars, fifos, modeVars
  <2>2. Answering' \subseteq Answering \cup {reply'}
    BY <2>1 DEF Answering
  <2>3. CASE reply' = 0
    BY <1>3, <2>1, <2>2, <2>3
  <2>4. CASE reply' = StatusByte
    <3>1. reply' >= HOST_READY => Len(hostQ) < QueueDepth
      BY <1>0, <2>4 DEF StatusByte, KEYBOARD_READY
    <3>2. (\E x \in Answering' \cup {acc'} : x >= HOST_READY)
            => (\E x \in Answering \cup {acc} : x >= HOST_READY) \/ reply' >= HOST_READY
      BY <2>1, <2>2
    <3> QED
      BY <1>1, <2>1, <3>1, <3>2 DEF RoomOK, IsPoll
  <2> QED
    BY <1>2, <1>10, <2>3, <2>4, RespondSeen
<1>11. CASE ModesTake
  <2>1. UNCHANGED <<step, acc, osr, reply, txFifo, ended>> /\ hostQ # <<>> /\ hostQ' = Tail(hostQ)
    BY <1>11 DEF ModesTake, cpuVars, smVars, fifos, fwVars
  <2>2. Len(hostQ') = Len(hostQ) - 1
    BY <1>0, <2>1, HeadTailProperties
  <2>3. Len(hostQ) < QueueDepth => Len(hostQ') < QueueDepth
    BY <1>0, <2>2
  <2>4. Answering' \cup {acc'} = Answering \cup {acc}
    BY <2>1 DEF Answering
  <2> QED
    BY <1>1, <2>1, <2>3, <2>4 DEF RoomOK, IsPoll
<1> QED
  BY <1>4, <1>5, <1>6, <1>7, <1>8, <1>9, <1>10, <1>11 DEF Next, Cpu, PioTask

\* What is kept of a transaction that is not a poll.
LEMMA KeptOfTxn ==
  ASSUME NEW t \in Seq(Nat), t # <<>>, ~IsPoll(t)
  PROVE  Kept(t) \in Seq(Nat) /\ Kept(t) # <<>>
<1> DEFINE n == IF Len(t) < TxnCapacity THEN Len(t) ELSE TxnCapacity
<1>1. n \in Nat /\ n >= 1 /\ n <= Len(t) /\ Len(t) \in Nat
  <2>1. Len(t) \in Nat /\ Len(t) >= 1
    BY EmptySeq
  <2> QED
    BY <2>1, Settings
<1>2. Kept(t) = SubSeq(t, 1, n)
  BY DEF Kept
<1> HIDE DEF n
<1>3. \A i \in 1 .. n : t[i] \in Nat
  BY <1>1, ElementOfSeq
<1>4. SubSeq(t, 1, n) \in Seq(Nat) /\ Len(SubSeq(t, 1, n)) = n
  BY <1>1, <1>3, SubSeqProperties
<1> QED
  BY <1>1, <1>2, <1>4

\* The invariant holds before the first transaction.
LEMMA FrameInit == ASSUME Init PROVE FrameInv
<1>1. Len(<<>>) = 0 /\ 0 < TxnCapacity
  BY Settings
<1>2. step \in {"get", "status", "send"} /\ program = "stress" => ch = 1 /\ 1 \in 1 .. Chars
  BY Settings DEF Init, FirstStep, FirstChar
<1>3. ProgramOK
  BY <1>1, HostLinkAssumption DEF Init, ProgramOK, FirstStep
<1>4. EdgesOK
  BY DEF Init, EdgesOK
<1>5. FrameOK
  <2>1. Clocked = 0 /\ ~Unpushed /\ Held = 0
    BY <1>1 DEF Init, Clocked, Unpushed, Held
  <2> QED
    BY <1>1, <2>1 DEF Init, FrameOK
<1>6. Answering = {0} /\ acc = 0
  BY DEF Init, Answering
<1>7. AnswerOK
  <2>1. step # "put"
    BY DEF Init, FirstStep
  <2>2. program = "stress" => ch \in 1 .. Chars
    BY Settings DEF Init, FirstChar
  <2> QED
    BY <1>6, <2>1, <2>2 DEF Init, AnswerOK
<1>8. RoomOK
  <2>1. ~(0 >= HOST_READY)
    BY DEF HOST_READY
  <2>2. ~\E x \in Answering \cup {acc} : x >= HOST_READY
    BY <1>6, <2>1
  <2> QED
    BY <2>2 DEF Init, RoomOK, FirstStep
<1> QED
  BY <1>3, <1>4, <1>5, <1>7, <1>8, TypeInit DEF FrameInv

LEMMA FrameStays == ASSUME SelectGap, FrameInv, UNCHANGED vars PROVE FrameInv'
<1>1. UNCHANGED <<program, step, ch, cs, txn, out, acc, osr, answered, rxFifo, txFifo, csFifo, fpc, word, reply, buf,
                  inTxn, txnDone, hostQ, ended>>
  BY DEF vars, cpuVars, smVars, fifos, fwVars, modeVars
<1>2. TypeInv'
  BY TypeStep DEF FrameInv
<1>3. Cur' = Cur /\ Clocked' = Clocked /\ Unpushed' = Unpushed /\ Held' = Held /\ Low' = Low /\ Answering' = Answering
      /\ TxnsOf(step)' = TxnsOf(step)
  BY <1>1 DEF Cur, Clocked, Unpushed, Held, Low, Answering, TxnsOf
<1>4. ProgramOK' /\ EdgesOK'
  BY <1>1, <1>3 DEF FrameInv, ProgramOK, EdgesOK, IsPoll
<1>5. FrameOK' /\ AnswerOK' /\ RoomOK'
  BY <1>1, <1>3 DEF FrameInv, FrameOK, AnswerOK, RoomOK, IsPoll
<1> QED
  BY <1>2, <1>4, <1>5 DEF FrameInv

LEMMA FrameInvariance == ASSUME SelectGap PROVE Spec => []FrameInv
<1>1. ASSUME FrameInv, Next
      PROVE  FrameInv'
  BY <1>1, TypeStep, ProgramStep, EdgesStep, FrameStep, AnswerStep, RoomStep DEF FrameInv
<1>2. FrameInv /\ [Next]_vars => FrameInv'
  BY <1>1, FrameStays
<1> QED
  BY <1>2, FrameInit, PTL DEF Spec

-----------------------------------------------------------------------------
(* Keys. *)

\* Characters between the key queue and the program of console.s.
Wires ==
  Carried(acc) \o Carried(osr) \o (IF txFifo = <<>> THEN <<>> ELSE Carried(Head(txFifo))) \o Carried(reply)

LEMMA CarriedTyped == \A x \in Nat : Carried(x) \in Seq(Nat)
BY DEF Carried

LEMMA WiresTyped ==
  ASSUME TypeInv
  PROVE  /\ Carried(acc) \in Seq(Nat) /\ Carried(osr) \in Seq(Nat) /\ Carried(reply) \in Seq(Nat)
         /\ (IF txFifo = <<>> THEN <<>> ELSE Carried(Head(txFifo))) \in Seq(Nat)
         /\ Wires \in Seq(Nat) /\ keyQ \in Seq(Nat)
<1>1. acc \in Nat /\ osr \in Nat /\ reply \in Nat /\ (txFifo # <<>> => Head(txFifo) \in Nat)
  BY HeadTailProperties DEF TypeInv, CpuTypes, LinkTypes, TaskTypes
<1>2. (IF txFifo = <<>> THEN <<>> ELSE Carried(Head(txFifo))) \in Seq(Nat)
  <2>1. <<>> \in Seq(Nat)
    OBVIOUS
  <2> QED
    BY <1>1, <2>1, CarriedTyped
<1>3. Carried(acc) \in Seq(Nat) /\ Carried(osr) \in Seq(Nat) /\ Carried(reply) \in Seq(Nat)
  BY <1>1, CarriedTyped
<1>4. Wires \in Seq(Nat)
  BY <1>2, <1>3, ConcatProperties DEF Wires
<1>5. keyQ \in Seq(Nat)
  BY DEF TypeInv, CounterInv
<1> QED
  BY <1>2, <1>3, <1>4, <1>5

\* An empty wire carries nothing.
LEMMA NoneCarried ==
  /\ Carried(0) = <<>>
  /\ \A s \in Seq(Nat) : s \o <<>> = s /\ <<>> \o s = s
BY ConcatEmptySeq DEF Carried

\* A sequence is its first element before the rest.
LEMMA HeadBack == ASSUME NEW S, NEW q \in Seq(S), q # <<>> PROVE <<Head(q)>> \o Tail(q) = q
<1> DEFINE h == <<Head(q)>>
<1> DEFINE r == Tail(q)
<1> DEFINE s == h \o r
<1>1. /\ Head(q) \in S /\ r \in Seq(S) /\ Len(r) = Len(q) - 1 /\ Len(r) \in Nat
      /\ \A i \in 1 .. Len(r) : r[i] = q[i + 1]
      /\ Head(q) = q[1] /\ Len(q) \in Nat
  BY HeadTailProperties
<1>2. h \in Seq(S) /\ Len(h) = 1 /\ h[1] = q[1]
  BY <1>1
<1>3. h \in Seq(S) /\ r \in Seq(S)
  BY <1>1, <1>2
<1> HIDE DEF h, r
<1>4. /\ s \in Seq(S) /\ Len(s) = Len(h) + Len(r)
      /\ \A i \in 1 .. Len(h) + Len(r) : s[i] = IF i <= Len(h) THEN h[i] ELSE r[i - Len(h)]
  BY <1>3, ConcatProperties
<1> HIDE DEF s
<1>5. Len(s) = Len(q)
  BY <1>1, <1>2, <1>4
<1>6. ASSUME NEW i \in 1 .. Len(s)
      PROVE  s[i] = q[i]
  <2>1. i \in 1 .. 1 + Len(r) /\ s[i] = IF i <= 1 THEN h[i] ELSE r[i - 1]
    BY <1>2, <1>4
  <2>2. CASE i = 1
    BY <1>2, <2>1, <2>2
  <2>3. CASE i # 1
    <3>1. i - 1 \in 1 .. Len(r) /\ (i - 1) + 1 = i /\ ~(i <= 1)
      BY <1>1, <2>1, <2>3
    <3> QED
      BY <1>1, <2>1, <3>1
  <2> QED
    BY <2>2, <2>3
<1>7. s = q
  BY <1>4, <1>5, <1>6, SeqEqual
<1> QED
  BY <1>7 DEF s, h, r

\* One element before a sequence is its head.
LEMMA OneBefore ==
  ASSUME NEW S, NEW a \in S, NEW q \in Seq(S)
  PROVE  LET s == <<a>> \o q IN s # <<>> /\ Head(s) = a /\ Tail(s) = q
<1> DEFINE h == <<a>>
<1> DEFINE s == h \o q
<1>1. h \in Seq(S) /\ Len(h) = 1 /\ h[1] = a /\ Len(q) \in Nat
  OBVIOUS
<1> HIDE DEF h
<1>2. /\ s \in Seq(S) /\ Len(s) = Len(h) + Len(q)
      /\ \A i \in 1 .. Len(h) + Len(q) : s[i] = IF i <= Len(h) THEN h[i] ELSE q[i - Len(h)]
  BY <1>1, ConcatProperties
<1> HIDE DEF s
<1>3. Len(s) = 1 + Len(q) /\ \A i \in 1 .. 1 + Len(q) : s[i] = IF i <= 1 THEN h[i] ELSE q[i - 1]
  BY <1>1, <1>2
<1>4. s # <<>> /\ s[1] = a
  BY <1>1, <1>2, <1>3
<1>5. /\ Tail(s) \in Seq(S) /\ Len(Tail(s)) = Len(s) - 1
      /\ \A i \in 1 .. Len(Tail(s)) : Tail(s)[i] = s[i + 1]
  BY <1>2, <1>4, HeadTailProperties
<1>6. Len(Tail(s)) = Len(q)
  BY <1>1, <1>3, <1>5
<1>7. ASSUME NEW i \in 1 .. Len(Tail(s))
      PROVE  Tail(s)[i] = q[i]
  <2>1. i + 1 \in 1 .. 1 + Len(q) /\ ~(i + 1 <= 1) /\ (i + 1) - 1 = i
    BY <1>1, <1>6
  <2> QED
    BY <1>3, <1>5, <2>1
<1>8. Tail(s) = q
  BY <1>5, <1>6, <1>7, SeqEqual
<1>9. Head(s) = a
  BY <1>2, <1>4
<1> QED
  BY <1>4, <1>8, <1>9 DEF s, h

\* Appending to the second of two parts appends to the whole.
LEMMA AppendOfConcat ==
  ASSUME NEW S, NEW s \in Seq(S), NEW q \in Seq(S), NEW a \in S
  PROVE  s \o Append(q, a) = Append(s \o q, a)
<1>1. Append(q, a) = q \o <<a>> /\ s \o q \in Seq(S) /\ <<a>> \in Seq(S)
  BY AppendIsConcat, ConcatProperties
<1>2. Append(s \o q, a) = (s \o q) \o <<a>>
  BY <1>1, AppendIsConcat
<1> QED
  BY <1>1, <1>2, ConcatAssociative

\* What Drop leaves of a queue that was appended to.
LEMMA FrontOfAppend ==
  ASSUME NEW S, NEW s \in Seq(S), NEW a \in S
  PROVE  Append(s, a) # <<>> /\ Len(Append(s, a)) - 1 = Len(s) /\ SubSeq(Append(s, a), 1, Len(s)) = s
<1> DEFINE l == Append(s, a)
<1>1. /\ l \in Seq(S) /\ l # <<>> /\ Len(l) = Len(s) + 1 /\ Len(s) \in Nat
      /\ \A i \in 1 .. Len(s) : l[i] = s[i] /\ s[i] \in S
  BY AppendProperties, ElementOfSeq
<1> HIDE DEF l
<1>2. /\ SubSeq(l, 1, Len(s)) \in Seq(S) /\ Len(SubSeq(l, 1, Len(s))) = Len(s)
      /\ \A i \in 1 .. Len(s) : SubSeq(l, 1, Len(s))[i] = l[i]
  BY <1>1, SubSeqProperties
<1>3. SubSeq(l, 1, Len(s)) = s
  BY <1>1, <1>2, SeqEqual
<1> QED
  BY <1>1, <1>3 DEF l

\* The head of the first part is the head of the whole.
LEMMA HeadOfConcat ==
  ASSUME NEW S, NEW q \in Seq(S), q # <<>>, NEW r \in Seq(S)
  PROVE  q \o r # <<>> /\ Head(q \o r) = Head(q) /\ Tail(q \o r) = Tail(q) \o r
<1>1. <<Head(q)>> \o Tail(q) = q
  BY HeadBack
<1>2. Head(q) \in S /\ Tail(q) \in Seq(S) /\ <<Head(q)>> \in Seq(S)
  BY HeadTailProperties
<1>3. q \o r = <<Head(q)>> \o (Tail(q) \o r)
  BY <1>1, <1>2, ConcatAssociative
<1>4. Tail(q) \o r \in Seq(S)
  BY <1>2, ConcatProperties
<1> QED
  BY <1>2, <1>3, <1>4, OneBefore

\* A step that moves no key to or from the program.
LEMMA KeysRest ==
  ASSUME UNCHANGED <<program, key, ch, keyQ>>, program = "echo" => Wires' = Wires
  PROVE  [KeyPipe!Next]_<<key, KeysOnTheWay, IF program = "echo" THEN ch ELSE 0, FALSE>>
<1>1. KeysOnTheWay = (IF program # "echo" THEN keyQ ELSE Wires \o keyQ)
  BY DEF KeysOnTheWay, Wires
<1>2. KeysOnTheWay' = (IF program' # "echo" THEN keyQ' ELSE Wires' \o keyQ')
  BY DEF KeysOnTheWay, Wires
<1> QED
  BY <1>1, <1>2

\* The answer moves from one wire to the next.
LEMMA WiresMove ==
  ASSUME FrameInv, Exchange \/ SmPull \/ Reply
  PROVE  Wires' = Wires
<1> USE DEF FrameInv
<1> DEFINE sent == IF txFifo = <<>> THEN <<>> ELSE Carried(Head(txFifo))
<1>0. /\ Carried(acc) \in Seq(Nat) /\ Carried(osr) \in Seq(Nat) /\ Carried(reply) \in Seq(Nat) /\ sent \in Seq(Nat)
      /\ Wires = Carried(acc) \o Carried(osr) \o sent \o Carried(reply)
      /\ Wires' = Carried(acc') \o Carried(osr') \o sent' \o Carried(reply')
  BY WiresTyped DEF Wires
<1>1. CASE Exchange
  <2>1. out # <<>> /\ acc' = osr /\ osr' = 0 /\ UNCHANGED <<reply, txFifo>>
    BY <1>1 DEF Exchange, fwVars
  <2>2. acc = 0 /\ reply = 0 /\ sent = <<>> /\ sent' = <<>>
    BY <1>1, <2>1, ExchangeSeen DEF AnswerOK, Working
  <2> HIDE DEF sent
  <2> QED
    BY <1>0, <2>1, <2>2, NoneCarried
<1>2. CASE SmPull
  <2>1. ~answered /\ txFifo # <<>> /\ osr' = Head(txFifo) /\ txFifo' = Tail(txFifo) /\ UNCHANGED <<acc, reply>>
    BY <1>2 DEF SmPull, cpuVars, fwVars
  <2>2. txFifo' = <<>>
    BY <2>1, LastByte
  <2>3. osr = 0 /\ reply = 0 /\ sent' = <<>> /\ sent = Carried(osr')
    BY <2>1, <2>2, OneByte DEF AnswerOK, Working
  <2> HIDE DEF sent
  <2>4. Carried(acc) \o sent \in Seq(Nat)
    BY <1>0, ConcatProperties
  <2>5. Wires = Carried(acc) \o sent
    BY <1>0, <2>3, <2>4, NoneCarried
  <2>6. Wires' = Carried(acc) \o sent
    BY <1>0, <2>1, <2>3, <2>4, NoneCarried
  <2> QED
    BY <2>5, <2>6
<1>3. CASE Reply
  <2>1. /\ UNCHANGED <<acc, osr>> /\ reply' = 0 /\ txFifo = <<>> /\ txFifo' = Append(txFifo, reply)
    BY <1>3, OneByte DEF Reply, Answers, cpuVars, smVars, Working
  <2>2. txFifo' # <<>> /\ Head(txFifo') = reply
    BY <2>1
  <2>3. sent = <<>> /\ sent' = Carried(reply)
    BY <2>1, <2>2
  <2> HIDE DEF sent
  <2>4. Carried(acc) \o Carried(osr) \in Seq(Nat)
    BY <1>0, ConcatProperties
  <2>5. Carried(acc) \o Carried(osr) \o sent = Carried(acc) \o Carried(osr)
    BY <2>3, <2>4, NoneCarried
  <2>6. Carried(acc) \o Carried(osr) \o Carried(reply) \in Seq(Nat)
    BY <1>0, <2>4, ConcatProperties
  <2>7. Wires' = Carried(acc) \o Carried(osr) \o Carried(reply) \o <<>>
    BY <1>0, <2>1, <2>3, NoneCarried
  <2> QED
    BY <1>0, <2>5, <2>6, <2>7, NoneCarried
<1> QED
  BY <1>1, <1>2, <1>3

\* The program has read the answer, and takes it for its next transaction.
LEMMA KeyRead ==
  ASSUME FrameInv, Deselect
  PROVE  [KeyPipe!Next]_<<key, KeysOnTheWay, IF program = "echo" THEN ch ELSE 0, FALSE>>
<1> USE DEF FrameInv
<1>1. UNCHANGED <<program, key, keyQ, osr, reply, txFifo>> /\ acc' = 0 /\ step' = After.to /\ ch' = After.ch
  BY DEF Deselect, smVars, fwVars, keyVars
<1>2. CASE program = "echo"
  <2> DEFINE sent == IF txFifo = <<>> THEN <<>> ELSE Carried(Head(txFifo))
  <2>1. Len(out) = 0
    BY DeselectSeen
  <2>2. \A x \in Answering : x = 0
    BY <2>1 DEF AnswerOK
  <2>3. osr = 0 /\ reply = 0 /\ (txFifo # <<>> => Head(txFifo) = 0)
    BY <2>2 DEF Answering
  <2>4. sent = <<>> /\ sent' = <<>>
    BY <1>1, <2>3, NoneCarried
  <2>5. /\ Wires = Carried(acc) \o Carried(osr) \o sent \o Carried(reply)
        /\ Wires' = Carried(acc') \o Carried(osr') \o sent' \o Carried(reply')
    BY DEF Wires
  <2> HIDE DEF sent
  <2>6. Carried(acc) \in Seq(Nat) /\ <<>> \in Seq(Nat)
    BY WiresTyped
  <2>7. Wires = Carried(acc) /\ Wires' = <<>>
    BY <1>1, <2>3, <2>4, <2>5, <2>6, NoneCarried
  <2>8. KeysOnTheWay = Carried(acc) \o keyQ /\ KeysOnTheWay' = keyQ /\ keyQ \in Seq(Nat)
    <3>1. keyQ \in Seq(Nat)
      BY WiresTyped
    <3>2. KeysOnTheWay = Wires \o keyQ /\ KeysOnTheWay' = Wires' \o keyQ'
      BY <1>1, <1>2 DEF KeysOnTheWay, Wires
    <3> QED
      BY <1>1, <2>7, <3>1, <3>2, NoneCarried
  <2>9. CASE acc = 0
    <3>1. ch' = ch
      BY <1>1, <1>2, <2>9 DEF After, ProgramOK
    <3>2. KeysOnTheWay' = KeysOnTheWay
      BY <2>8, <2>9, NoneCarried
    <3> QED
      BY <1>1, <3>1, <3>2
  <2>10. CASE acc # 0
    <3>1. step = "get"
      BY <1>2, <2>10 DEF AnswerOK, ProgramOK
    <3>2. ch' = acc
      BY <1>1, <2>10, <3>1 DEF After
    <3>3. acc \in Nat /\ KeysOnTheWay = <<acc>> \o keyQ
      BY <2>8, <2>10 DEF Carried, TypeInv, CpuTypes
    <3>4. Head(<<acc>> \o keyQ) = acc /\ Tail(<<acc>> \o keyQ) = keyQ /\ <<acc>> \o keyQ # <<>>
      <4>1. <<acc>> \in Seq(Nat) /\ <<acc>> # <<>> /\ Append(<<>>, acc) = <<acc>>
        BY <3>3
      <4> QED
        BY <2>8, <3>3, <4>1, OneBefore
    <3>5. KeyPipe!HandOver
      BY <1>1, <1>2, <2>8, <3>2, <3>3, <3>4 DEF KeyPipe!HandOver
    <3> QED
      BY <3>5 DEF KeyPipe!Next
  <2> QED
    BY <2>9, <2>10
<1>3. CASE program # "echo"
  BY <1>1, <1>3 DEF KeysOnTheWay
<1> QED
  BY <1>2, <1>3

LEMMA KeysStep ==
  ASSUME FrameInv, Next
  PROVE  [KeyPipe!Next]_<<key, KeysOnTheWay, IF program = "echo" THEN ch ELSE 0, FALSE>>
<1> USE DEF FrameInv
<1>0. KeysOnTheWay = (IF program # "echo" THEN keyQ ELSE Wires \o keyQ)
      /\ KeysOnTheWay' = (IF program' # "echo" THEN keyQ' ELSE Wires' \o keyQ')
  BY DEF KeysOnTheWay, Wires
<1>1. CASE Select \/ TimerFires \/ TimerPoll \/ TakeWord \/ PollWord \/ Uncount \/ PushByte \/ ModesTake \/ KeyCount
  <2>1. UNCHANGED <<program, key, ch, keyQ, acc, osr, txFifo, reply>>
    BY <1>1 DEF Select, TimerFires, TimerPoll, TakeWord, PollWord, Uncount, PushByte, ModesTake, KeyCount,
       cpuVars, smVars, fifos, fwVars, keyVars
  <2>2. Wires' = Wires
    BY <2>1 DEF Wires
  <2> QED
    BY <2>1, <2>2, KeysRest
<1>2. CASE Exchange \/ SmPull \/ Reply
  <2>1. UNCHANGED <<program, key, ch, keyQ>>
    BY <1>2 DEF Exchange, SmPull, Reply, cpuVars, keyVars
  <2> QED
    BY <1>2, <2>1, WiresMove, KeysRest
<1>3. CASE Respond
  <2>1. UNCHANGED <<program, key, ch, acc, osr, txFifo>> /\ reply = 0
    BY <1>3 DEF Respond, cpuVars, smVars, fifos, AnswerOK
  <2>2. CASE reply' = 0 /\ keyQ' = keyQ
    <3>1. Wires' = Wires
      BY <2>1, <2>2 DEF Wires
    <3> QED
      BY <2>1, <2>2, <3>1, KeysRest
  <2>3. CASE step = "get" /\ keyQ # <<>> /\ reply' = Head(keyQ) /\ keyQ' = Tail(keyQ)
    <3>1. program = "echo"
      BY <2>3, HostLinkAssumption DEF ProgramOK, TypeInv, CpuTypes
    <3> DEFINE sent == IF txFifo = <<>> THEN <<>> ELSE Carried(Head(txFifo))
    <3> DEFINE w == Carried(acc) \o Carried(osr) \o sent
    <3>2. w \in Seq(Nat) /\ w' = w /\ Wires = w \o Carried(0) /\ Wires' = w \o Carried(reply')
      <4>1. w \in Seq(Nat)
        BY WiresTyped, ConcatProperties
      <4>2. w' = w
        BY <2>1
      <4> QED
        BY <2>1, <4>1, <4>2 DEF Wires
    <3> HIDE DEF w
    <3>3. reply' # 0 /\ Carried(reply') = <<Head(keyQ)>> /\ <<Head(keyQ)>> \in Seq(Nat) /\ Tail(keyQ) \in Seq(Nat)
          /\ keyQ \in Seq(Nat)
      <4>1. keyQ \in Seq(Keys) /\ Keys \subseteq Nat /\ 0 \notin Keys
        BY Settings DEF TypeInv, KeyTypes
      <4>2. Head(keyQ) \in Keys
        BY <2>3, <4>1, HeadTailProperties
      <4>3. keyQ \in Seq(Nat)
        BY WiresTyped
      <4>4. Tail(keyQ) \in Seq(Nat)
        BY <2>3, <4>3, HeadTailProperties
      <4> QED
        BY <2>3, <4>1, <4>2, <4>3, <4>4 DEF Carried
    <3>4. Wires = w
      BY <3>2, NoneCarried
    <3>5. (w \o <<Head(keyQ)>>) \o Tail(keyQ) = w \o (<<Head(keyQ)>> \o Tail(keyQ))
      BY <3>2, <3>3, ConcatAssociative
    <3>6. <<Head(keyQ)>> \o Tail(keyQ) = keyQ
      BY <2>3, <3>3, HeadBack
    <3>7. KeysOnTheWay' = KeysOnTheWay
      BY <1>0, <2>1, <2>3, <3>1, <3>2, <3>3, <3>4, <3>5, <3>6
    <3> QED
      BY <2>1, <3>1, <3>7
  <2>4. CASE step = "status" /\ reply' = StatusByte /\ keyQ' = keyQ
    <3>1. program # "echo"
      BY <2>4 DEF ProgramOK
    <3> QED
      BY <2>1, <2>4, <3>1, KeysRest
  <2> QED
    BY <1>3, <2>2, <2>3, <2>4, RespondSeen
<1>4. CASE KeyPress
  <2>1. UNCHANGED <<program, ch, keyQ, acc, osr, txFifo, reply>> /\ key = 0 /\ key' \in Keys
    BY <1>4 DEF KeyPress, cpuVars, smVars, fifos, fwVars, TypeInv, KeyTypes
  <2>2. KeysOnTheWay' = KeysOnTheWay
    BY <2>1 DEF KeysOnTheWay
  <2>3. KeyPipe!Offer(key')
    BY <2>1, <2>2 DEF KeyPipe!Offer
  <2> QED
    BY <2>1, <2>3 DEF KeyPipe!Next
<1>5. CASE KeySend
  <2>1. UNCHANGED <<program, ch, acc, osr, txFifo, reply>> /\ key' = 0 /\ keyQ' = Append(keyQ, key) /\ key \in Keys
    BY <1>5 DEF KeySend, cpuVars, smVars, fifos, fwVars, TypeInv, KeyTypes
  <2>2. Wires' = Wires /\ Wires \in Seq(Nat) /\ keyQ \in Seq(Nat) /\ key \in Nat /\ key # 0
    BY <2>1, WiresTyped, Settings DEF Wires
  <2>3. Wires \o Append(keyQ, key) = Append(Wires \o keyQ, key)
    BY <2>2, AppendOfConcat
  <2>4. KeysOnTheWay' = Append(KeysOnTheWay, key)
    BY <1>0, <2>1, <2>2, <2>3
  <2>5. KeyPipe!Accept
    BY <2>1, <2>2, <2>4 DEF KeyPipe!Accept
  <2> QED
    BY <2>5 DEF KeyPipe!Next
<1> QED
  BY <1>1, <1>2, <1>3, <1>4, <1>5, KeyRead DEF Next, Cpu, PioTask

\* A key that the keyboard puts into the queue gets to the program of console.s
\* once and in order, whatever the capacities and speeds, as long as programs
\* leave the gap: no answer is lost or read twice between the queue, pio_task, the
\* two FIFOs and the 6502, and a space is never taken for the command.
THEOREM KeysArrive == ASSUME SelectGap PROVE Spec => KeysDelivered
<1>1. Init => KeyPipe!Init
  <2>1. ASSUME Init
        PROVE  KeyPipe!Init
    <3>1. txFifo = <<>> /\ Carried(acc) = <<>> /\ Carried(osr) = <<>> /\ Carried(reply) = <<>> /\ keyQ = <<>>
      BY <2>1 DEF Init, Carried
    <3>2. <<>> \o <<>> = <<>>
      BY NoneCarried, EmptySeq
    <3>3. KeysOnTheWay = <<>>
      BY <3>1, <3>2 DEF KeysOnTheWay
    <3>4. key = 0 /\ (IF program = "echo" THEN ch ELSE 0) = 0
      BY <2>1 DEF Init, FirstChar
    <3> QED
      BY <3>3, <3>4 DEF KeyPipe!Init
  <2> QED
    BY <2>1
<1>2. FrameInv /\ [Next]_vars => [KeyPipe!Next]_<<key, KeysOnTheWay, IF program = "echo" THEN ch ELSE 0, FALSE>>
  <2>1. ASSUME UNCHANGED vars
        PROVE  UNCHANGED <<key, KeysOnTheWay, IF program = "echo" THEN ch ELSE 0, FALSE>>
    BY <2>1 DEF vars, cpuVars, smVars, fifos, fwVars, keyVars, KeysOnTheWay
  <2> QED
    BY <2>1, KeysStep
<1> QED
  BY <1>1, <1>2, FrameInvariance, PTL DEF Spec, KeysDelivered, KeyPipe!Spec

-----------------------------------------------------------------------------
(* Transactions. *)

TxnWay == hostQ \o Unqueued

\* A step that leaves the queue and the program's transaction.
LEMMA TxnsRest ==
  ASSUME UNCHANGED <<program, txn, hostQ, ended, shown>>
  PROVE  UNCHANGED <<Kept(txn), TxnWay, shown, program # "stress">>
BY DEF Kept, IsPoll, TxnWay, Unqueued

LEMMA TxnOffered ==
  ASSUME FrameInv, Select
  PROVE  [TxnPipe!Next]_<<Kept(txn), TxnWay, shown, program # "stress">>
<1> USE DEF FrameInv
<1>1. UNCHANGED <<program, hostQ, ended, shown>> /\ txn = <<>> /\ txn' \in TxnsOf(step)
  BY SelectSeen DEF Select, modeVars
<1>2. TxnWay' = TxnWay
  BY <1>1 DEF TxnWay, Unqueued, Kept, IsPoll
<1>3. Kept(txn) = <<>>
  <2>1. Len(<<>>) = 0 /\ ~(0 < 0) /\ 0 < TxnCapacity
    BY Settings
  <2>2. SubSeq(<<>>, 1, 0) = <<>>
    BY SubSeqEmpty
  <2> QED
    BY <1>1, <2>1, <2>2 DEF Kept
<1>4. Kept(txn)' = Kept(txn')
  BY DEF Kept, IsPoll
<1>5. CASE IsPoll(txn')
  BY <1>1, <1>2, <1>3, <1>4, <1>5 DEF Kept
<1>6. CASE ~IsPoll(txn')
  <2>1. step \in {"put", "send"}
    BY <1>1, <1>6, TxnShapes DEF TypeInv, CpuTypes
  <2>2. step = "put" => ch \in Keys \cup 1 .. Chars
    BY DEF AnswerOK
  <2>3. txn' \in Txns
    BY <1>1, <2>1, <2>2 DEF TxnsOf, Txns
  <2>4. TxnPipe!Offer(Kept(txn'))
    BY <1>1, <1>2, <1>3, <1>4 DEF TxnPipe!Offer, TxnWay
  <2> QED
    BY <1>1, <2>3, <2>4 DEF TxnPipe!Next
<1> QED
  BY <1>5, <1>6

LEMMA TxnAccepted ==
  ASSUME FrameInv, Deselect
  PROVE  [TxnPipe!Next]_<<Kept(txn), TxnWay, shown, program # "stress">>
<1> USE DEF FrameInv
<1>1. /\ UNCHANGED <<program, hostQ, shown>> /\ ended = <<>> /\ ended' = <<txn>> /\ Head(ended') = txn /\ ended' # <<>>
      /\ txn' = <<>> /\ txn \in Seq(Nat) /\ txn # <<>>
  BY DeselectSeen DEF Deselect, modeVars
<1>2. Kept(txn)' = <<>>
  <2>1. Len(<<>>) = 0 /\ ~(0 < 0) /\ 0 < TxnCapacity
    BY Settings
  <2>2. SubSeq(<<>>, 1, 0) = <<>>
    BY SubSeqEmpty
  <2> QED
    BY <1>1, <2>1, <2>2 DEF Kept, IsPoll
<1>3. hostQ \in Seq(Seq(Nat)) /\ hostQ \o <<>> = hostQ
  BY ConcatEmptySeq DEF TypeInv, QueueTypes
<1>4. TxnWay = hostQ
  BY <1>1, <1>3 DEF TxnWay, Unqueued
<1>5. Unqueued' = IF IsPoll(txn) THEN <<>> ELSE <<Kept(txn)>>
  BY <1>1 DEF Unqueued, Kept, IsPoll
<1>6. CASE IsPoll(txn)
  <2>1. TxnWay' = hostQ
    BY <1>1, <1>3, <1>5, <1>6 DEF TxnWay
  <2>2. Kept(txn) = <<>>
    BY <1>6 DEF Kept
  <2> QED
    BY <1>1, <1>2, <1>4, <2>1, <2>2
<1>7. CASE ~IsPoll(txn)
  <2>1. Kept(txn) \in Seq(Nat) /\ Kept(txn) # <<>>
    BY <1>1, <1>7, KeptOfTxn
  <2>2. TxnWay' = hostQ \o <<Kept(txn)>>
    BY <1>1, <1>5, <1>7 DEF TxnWay
  <2>3. TxnWay' = Append(TxnWay, Kept(txn))
    BY <1>3, <1>4, <2>1, <2>2, AppendIsConcat
  <2>4. TxnPipe!Accept
    BY <1>1, <1>2, <2>1, <2>3 DEF TxnPipe!Accept, TxnWay
  <2> QED
    BY <1>1, <2>4 DEF TxnPipe!Next
<1> QED
  BY <1>6, <1>7

LEMMA TxnQueued ==
  ASSUME FrameInv, (TimerPoll /\ Done) \/ (PushByte /\ txnDone)
  PROVE  [TxnPipe!Next]_<<Kept(txn), TxnWay, shown, program # "stress">>
<1> USE DEF FrameInv
<1>1. PICK b : /\ EnqueueTxn(b) /\ ended # <<>> /\ IsKept(b, Head(ended))
               /\ Head(ended) \in Seq(Nat) /\ Head(ended) # <<>> /\ ended' = <<>>
  BY EnqueueSeen
<1>2. UNCHANGED <<program, txn, shown>>
  BY DEF TimerPoll, PushByte, cpuVars
<1>3. Kept(txn)' = Kept(txn)
  BY <1>2 DEF Kept, IsPoll
<1>4. b # <<>> /\ (IsPoll(b) <=> IsPoll(Head(ended))) /\ (~IsPoll(Head(ended)) => Kept(Head(ended)) = b) /\ b \in Seq(Nat)
  BY <1>1, KeptPart DEF IsKept
<1>5. hostQ \in Seq(Seq(Nat)) /\ Len(hostQ) \in Nat /\ hostQ \o <<>> = hostQ
  BY ConcatEmptySeq DEF TypeInv, QueueTypes
<1>6. Unqueued' = <<>>
  BY <1>1 DEF Unqueued
<1>7. CASE IsPoll(Head(ended))
  <2>1. hostQ' = hostQ
    BY <1>1, <1>4, <1>7 DEF EnqueueTxn
  <2>2. Unqueued = <<>>
    BY <1>7 DEF Unqueued
  <2> QED
    BY <1>2, <1>3, <1>6, <2>1, <2>2 DEF TxnWay
<1>8. CASE ~IsPoll(Head(ended))
  <2>1. TxnWay = hostQ \o <<b>> /\ hostQ \o <<b>> = Append(hostQ, b)
    BY <1>1, <1>4, <1>5, <1>8, AppendIsConcat DEF TxnWay, Unqueued
  <2>2. CASE Len(hostQ) = QueueDepth
    <3>1. hostQ' = hostQ /\ TxnWay' = hostQ
      BY <1>1, <1>5, <1>6, <2>2 DEF EnqueueTxn, TxnWay
    <3>2. program # "stress"
      BY <1>1, <1>8, <2>2, Settings DEF RoomOK
    <3>3. /\ TxnWay # <<>> /\ Len(TxnWay) - 1 = Len(hostQ) /\ SubSeq(Append(hostQ, b), 1, Len(hostQ)) = hostQ
      BY <1>4, <1>5, <2>1, FrontOfAppend
    <3>5. Len(TxnWay) > QueueDepth
      BY <1>5, <2>1, <2>2
    <3>4. TxnPipe!Drop
      BY <1>2, <1>3, <2>1, <3>1, <3>2, <3>3, <3>5 DEF TxnPipe!Drop, TxnWay
    <3> QED
      BY <1>2, <3>4 DEF TxnPipe!Next
  <2>3. CASE Len(hostQ) # QueueDepth
    <3>1. hostQ' = Append(hostQ, b)
      BY <1>1, <1>4, <1>8, <2>3 DEF EnqueueTxn
    <3>2. Append(hostQ, b) \in Seq(Seq(Nat)) /\ Append(hostQ, b) \o <<>> = Append(hostQ, b)
      BY <1>4, <1>5, AppendProperties, ConcatEmptySeq
    <3>3. TxnWay' = TxnWay
      BY <1>6, <2>1, <3>1, <3>2 DEF TxnWay
    <3> QED
      BY <1>2, <1>3, <3>3
  <2> QED
    BY <2>2, <2>3
<1> QED
  BY <1>7, <1>8

LEMMA TxnTaken ==
  ASSUME FrameInv, ModesTake
  PROVE  [TxnPipe!Next]_<<Kept(txn), TxnWay, shown, program # "stress">>
<1> USE DEF FrameInv
<1>1. UNCHANGED <<program, txn, ended>> /\ hostQ # <<>> /\ hostQ' = Tail(hostQ) /\ shown' = Head(hostQ)
  BY DEF ModesTake, cpuVars
<1>2. Kept(txn)' = Kept(txn) /\ Unqueued' = Unqueued
  BY <1>1 DEF Kept, IsPoll, Unqueued
<1>3. hostQ \in Seq(Seq(Nat)) /\ Unqueued \in Seq(Seq(Nat))
  <2>1. hostQ \in Seq(Seq(Nat))
    BY DEF TypeInv, QueueTypes
  <2>2. CASE Unqueued = <<>>
    BY <2>1, <2>2
  <2>3. CASE Unqueued # <<>>
    <3>1. ended # <<>> /\ ~IsPoll(Head(ended)) /\ Unqueued = <<Kept(Head(ended))>>
      BY <2>3 DEF Unqueued
    <3>2. Head(ended) \in Seq(Nat) /\ Head(ended) # <<>>
      BY <3>1, HeadTailProperties DEF TypeInv, CpuTypes, ProgramOK
    <3>3. Kept(Head(ended)) \in Seq(Nat)
      BY <3>1, <3>2, KeptOfTxn
    <3> QED
      BY <2>1, <3>1, <3>3
  <2> QED
    BY <2>1, <2>2, <2>3
<1>4. TxnWay # <<>> /\ Head(TxnWay) = Head(hostQ) /\ Tail(TxnWay) = Tail(hostQ) \o Unqueued
  BY <1>1, <1>3, HeadOfConcat DEF TxnWay
<1>5. TxnPipe!HandOver
  BY <1>1, <1>2, <1>4 DEF TxnPipe!HandOver, TxnWay
<1> QED
  BY <1>1, <1>5 DEF TxnPipe!Next

\* Transactions of a program that leaves the gap come to modes_task whole up to
\* the capacity, in order and once; only the newest may be missing, when it found
\* the queue full, and none of console_stress.s, for every depth of the queue and
\* every margin of HOST_READY of at least one slot.
THEOREM TransactionsArrive == ASSUME SelectGap PROVE Spec => TxnsIntact
<1>1. Init => TxnPipe!Init
  <2>1. ASSUME Init
        PROVE  TxnPipe!Init
    <3>1. Len(<<>>) = 0 /\ 0 < TxnCapacity /\ SubSeq(<<>>, 1, 0) = <<>>
      BY Settings, SubSeqEmpty
    <3>2. Kept(txn) = <<>>
      BY <2>1, <3>1 DEF Init, Kept
    <3>3. hostQ \o Unqueued = <<>>
      BY <2>1, NoneCarried, EmptySeq DEF Init, Unqueued
    <3> QED
      BY <2>1, <3>2, <3>3 DEF Init, TxnPipe!Init
  <2> QED
    BY <2>1
<1>2. FrameInv /\ [Next]_vars => [TxnPipe!Next]_<<Kept(txn), hostQ \o Unqueued, shown, program # "stress">>
  <2>1. CASE UNCHANGED vars
    BY <2>1, TxnsRest DEF vars, cpuVars, modeVars, TxnWay
  <2>2. ASSUME FrameInv, Exchange \/ SmPull \/ TimerFires \/ (TimerPoll /\ ~Done) \/ TakeWord \/ PollWord \/ Respond
                 \/ Uncount \/ (PushByte /\ ~txnDone) \/ Reply \/ KeyPress \/ KeySend \/ KeyCount
        PROVE  UNCHANGED <<program, txn, hostQ, ended, shown>>
    BY <2>2 DEF Exchange, SmPull, TimerFires, TimerPoll, TakeWord, PollWord, Respond, Uncount, PushByte, Reply,
       KeyPress, KeySend, KeyCount, cpuVars, modeVars
  <2>3. ASSUME FrameInv, Next
        PROVE  [TxnPipe!Next]_<<Kept(txn), TxnWay, shown, program # "stress">>
    BY <2>2, <2>3, TxnsRest, TxnOffered, TxnAccepted, TxnQueued, TxnTaken DEF Next, Cpu, PioTask
  <2> QED
    BY <2>1, <2>3 DEF TxnWay
<1> QED
  BY <1>1, <1>2, FrameInvariance, PTL DEF Spec, TxnsIntact, TxnPipe!Spec
=============================================================================

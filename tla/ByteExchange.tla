---------------------------- MODULE ByteExchange ----------------------------
(***************************************************************************)
(* What one transfer of the SPI controller is for: the byte that was       *)
(* written goes to the device that is selected, and the device's byte      *)
(* comes back. What was received stays until the next transfer begins.     *)
(***************************************************************************)
CONSTANTS Bytes, None,
          Cleared   \* what a reset leaves where the bytes received are

VARIABLES selected, \* the device is selected
          tx,       \* the byte being sent
          rx,       \* the byte received, once the transfer is over
          got,      \* the byte the device got last
          dev       \* the byte the device sends next

Init ==
  /\ selected = FALSE
  /\ tx = None /\ rx = Cleared /\ got = Cleared
  /\ dev \in Bytes

\* Between two transfers only.
Select ==
  /\ tx = None
  /\ selected' \in BOOLEAN
  /\ UNCHANGED <<tx, rx, got, dev>>

Start(b) ==
  /\ selected /\ tx = None
  /\ tx' = b
  /\ rx' = None /\ got' = None
  /\ UNCHANGED <<selected, dev>>

\* The end of the transfer: the device has the byte sent, and has sent its own.
Swap ==
  /\ tx # None
  /\ got' = tx
  /\ rx' = dev
  /\ dev' \in Bytes
  /\ tx' = None
  /\ UNCHANGED selected

\* A reset deselects the device, which keeps its byte. Neither end has received
\* anything of a transfer that was under way.
Abandon ==
  /\ selected' = FALSE
  /\ tx' = None
  /\ rx' = Cleared /\ got' = Cleared
  /\ UNCHANGED dev

Next == Select \/ (\E b \in Bytes : Start(b)) \/ Swap \/ Abandon

Spec == Init /\ [][Next]_<<selected, tx, rx, got, dev>>
=============================================================================

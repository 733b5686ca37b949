------------------------------ MODULE FileLog ------------------------------
(***************************************************************************)
(* What the FRAM filesystem promises to its callers, with the FRAM left    *)
(* out: a volume is a log of file records, oldest first, that only grows,  *)
(* loses liveness record by record, or is rewritten by a compaction that   *)
(* drops the dead records and keeps the live ones in order, byte for byte. *)
(* The promise ends when the power fails while the high byte of a number   *)
(* is being written; a format renews it.                                   *)
(***************************************************************************)
EXTENDS Sequences, Naturals

CONSTANTS Names,   \* file names
          Files    \* file contents, each a sequence of bytes

VARIABLES
  log,      \* sequence of [name, live, data]
  broken,   \* the volume was lost to a power failure
  crossing  \* the high byte of a number on the FRAM is about to change

Live(r) == r.live

Init == log = <<>> /\ ~broken

\* FS_FORMAT: the volume is empty whatever it held.
Format == log' = <<>> /\ ~broken'

\* FS_WRITE: one live record more, newest.
AppendFile(n, d) == log' = Append(log, [name |-> n, live |-> TRUE, data |-> d])

\* FS_DELETE: one record dies, its name and its data stay.
Tombstone(i) == log' = [log EXCEPT ![i].live = FALSE]

\* FS_COMPACT: the live records, in their order, and nothing else.
Compact ==
  LET alive == {i \in DOMAIN log : Live(log[i])}
  IN \E from \in [DOMAIN log' -> alive] :
       /\ \A i, j \in DOMAIN log' : i < j => from[i] < from[j]
       /\ \A a \in alive : \E i \in DOMAIN log' : from[i] = a
       /\ \A i \in DOMAIN log' : log'[i] = log[from[i]]

\* FS_COMPACT of an empty volume reads the slot of the boundary marker too: a
\* record that an interrupted FS_WRITE left there becomes a file.
Adopt ==
  /\ log = <<>>
  /\ Len(log') = 1
  /\ log'[1].live

\* The operations of a volume that is not broken.
Operate ==
  /\ ~broken /\ ~broken'
  /\ \/ \E n \in Names, d \in Files : AppendFile(n, d)
     \/ \E i \in DOMAIN log : Tombstone(i)
     \/ Compact
     \/ Adopt

\* A power failure between the two bytes of a number.
Break == crossing /\ broken' /\ log' = <<>>

Next == Format \/ Operate \/ Break

Spec == Init /\ [][Next]_<<log, broken>>
=============================================================================

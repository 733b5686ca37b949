----------------------------- MODULE MCHostLink -----------------------------
EXTENDS HostLink

\* A space is the GET_CHAR byte, which is a character like any other when it is
\* not the first byte of a transaction.
KeySet == {32, 65}

AllPrograms == {"echo", "stress", "sizes"}

\* One byte and one byte too many; the other programs send a full buffer.
SomeSizes == {<<34>>, <<34, 1, 32>>}
=============================================================================

-------------------------- MODULE MCSpiController --------------------------
(***************************************************************************)
(* The SPI controller with the bytes and rates it really has. Of the bytes *)
(* sent, no two agree when a bit is lost, doubled or in the wrong place.   *)
(***************************************************************************)
EXTENDS SpiController

MCBytes == {<<1, 0, 0, 1, 0, 1, 1, 0>>, <<0, 1, 1, 1, 0, 0, 1, 0>>, <<0, 0, 0, 0, 1, 0, 1, 1>>}
=============================================================================

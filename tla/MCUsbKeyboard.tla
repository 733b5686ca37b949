---------------------------- MODULE MCUsbKeyboard ----------------------------
(***************************************************************************)
(* A keyboard and a device without an interrupt endpoint; and find_hid_ep  *)
(* against a definition that knows where the descriptors are.              *)
(***************************************************************************)
EXTENDS UsbKeyboard

MCKeyboard == <<4, 2, 0, 1, 7, 5, 129, 3, 8, 0, 10>>
MCDisk     == <<7, 5, 2, 2, 8, 0, 0>>
MCConfigs  == {MCKeyboard, MCDisk}

Descriptors ==
  {<<2, 4>>, <<0, 5>>, <<5, 5, 129, 3, 8>>, <<6, 5, 129, 2, 8, 0>>, <<6, 5, 1, 3, 8, 0>>,
   <<6, 5, 129, 3, 8, 0>>, <<7, 5, 130, 3, 64, 0, 9>>}

\* The first interrupt IN endpoint among those before an empty one and before the cut.
FirstEp(ds, cut) ==
  LET end(n) == Len(FlattenSeq(SubSeq(ds, 1, n)))
      seen   == {n \in DOMAIN ds : end(n) <= cut /\ \A i \in 1 .. n : ds[i][1] # 0}
      eps    == {n \in seen : Len(ds[n]) >= 6 /\ ds[n][3] >= 128 /\ ds[n][4] = 3}
  IN {[addr |-> ds[n][3], maxPacket |-> ds[n][5]] : n \in {n \in eps : \A i \in eps : n <= i}}

ASSUME FirstEndpointIsFound ==
  \A ds \in SeqOf(Descriptors, 3) :
    \A cut \in 0 .. Len(FlattenSeq(ds)) :
      FindHidEp(SubSeq(FlattenSeq(ds), 1, cut)) = FirstEp(ds, cut)
=============================================================================

---------------------------- MODULE Modes_proofs ----------------------------
(***************************************************************************)
(* Proofs about Modes, for any queue, channel and frame, any end of a      *)
(* frame of the chip and either of its two lists: its types; that a mode   *)
(* which is not dirty has its picture asked for or on the way there; that  *)
(* frames go through the channel as items go through Pipe; and what is on  *)
(* the panel, which shows the picture memory while it is written.          *)
(*                                                                         *)
(* All rest on where the frames that are under way are cut: what is in the *)
(* channel and what render has not sent yet are, one after the other, the  *)
(* rest of the oldest frame and the frames after it, and the chip is as    *)
(* far as the commands and the bytes it was given.                         *)
(***************************************************************************)
EXTENDS Modes, WellFoundedInduction, TLAPS

-----------------------------------------------------------------------------
(* Commands, frames and places. *)

MaxDl   == IF TextDl > TuiDl THEN TextDl ELSE TuiDl
Cells   == (Pictures \cup {Empty}) \X BOOLEAN \X (1 .. FrameLen)
Entries == {MODE_TEXT, MODE_TUI} \X Nat

Commands ==
  [op : {"begin", "end", "swap"}] \cup [op : {"byte"}, byte : Cells]
    \cup [op : {"write"}, at : 1 .. MaxDl, entry : Entries]

TextScene(v) == v.list = List(MODE_TEXT)

\* The commands that bring scene v into the memories of the chip.
Cmds(v) == IF TextScene(v) THEN TextFrame(v.grid) ELSE TuiFrame

\* What is on its way: commands, and the frames they belong to.
Pending == chan \o out
Queue   == IF mpc = "render" THEN Append(sent, View) ELSE sent

\* s cuts pend into the frames of queue: s[k] is where frame k begins, zero or
\* less for the oldest one, which may have been begun.
Cuts(s, pend, queue) ==
  /\ s \in [1 .. Len(queue) + 1 -> Int]
  /\ IF queue = <<>> THEN s[1] = 0 ELSE -s[1] \in 0 .. Len(Cmds(queue[1])) - 1
  /\ s[Len(queue) + 1] = Len(pend)
  /\ \A k, l \in 1 .. Len(queue) + 1 : k < l => s[k] < s[l]
  /\ \A k \in 1 .. Len(queue) :
       /\ s[k + 1] = s[k] + Len(Cmds(queue[k]))
       /\ \A j \in 1 .. Len(Cmds(queue[k])) : s[k] + j >= 1 => pend[s[k] + j] = Cmds(queue[k])[j]

\* Where the chip is after c commands of the frame of scene v.
Progress(v, c) ==
  /\ dpc = "bulk" => TextScene(v) /\ c = FrameLen + 2
  /\ list = "none" <=> c <= IF TextScene(v) THEN FrameLen + 2 ELSE 0
  /\ IF TextScene(v)
     THEN /\ c \in 1 .. FrameLen + 1 => bulkAddr /\ bulkBuf = [i \in 1 .. c - 1 |-> v.grid[i]]
          /\ c >= FrameLen + 2 => ramG = v.grid \/ dpc = "bulk"
          /\ dpc = "bulk" => bulkBuf = v.grid /\ \A i \in 1 .. written : ramG[i] = v.grid[i]
          /\ list # "torn" => \A i \in 1 .. c - FrameLen - 2 : ramDl[i] = List(MODE_TEXT)[i]
     ELSE list # "torn" => \A i \in 1 .. c : i <= TuiDl => ramDl[i] = List(MODE_TUI)[i]

Under(s) ==
  /\ Cuts(s, Pending, Queue)
  /\ IF Queue = <<>> THEN dpc = "receive" /\ list = "none" ELSE Progress(Queue[1], -s[1])
Framed == \E s : Under(s)

DisplayTyped ==
  /\ chan \in Seq(Commands) /\ Len(chan) <= ChanDepth
  /\ sent \in Seq(Frames) /\ asked \in Frames \cup {Nothing}
  /\ bulkBuf \in Seq(Cells) /\ Len(bulkBuf) <= BulkCapacity
  /\ dpc \in {"receive", "bulk"} /\ (bulkBuf # <<>> => bulkAddr \/ dpc = "bulk")
  /\ written \in 0 .. Len(bulkBuf) /\ (dpc = "receive" => written = 0)
  /\ DOMAIN ramG = 1 .. FrameLen /\ ramG = [i \in 1 .. FrameLen |-> ramG[i]]
  /\ ramDl \in [1 .. MaxDl -> Entries] /\ front \in [1 .. MaxDl -> Entries]
  /\ swapping \in BOOLEAN /\ list \in {"none", "begun", "torn"}

Typed ==
  /\ TypeOK
  /\ hostQ \in Seq(Txns) /\ backlog \in Nat
  /\ out \in Seq(Commands)
  /\ DisplayTyped

\* The list asked for is the one the chip obeys, or will; the picture asked for is
\* in its memory until the next frame comes.
Shown ==
  asked # Nothing =>
    /\ list # "torn" /\ ~swapping => Obeyed(front) = asked.list
    /\ list = "none" /\ swapping => Obeyed(ramDl) = asked.list
    /\ Queue = <<>> => Scene(asked.list, ramG) = asked

Redrawn == CleanIsDrawn /\ (mpc = "render" => Dirty)

IInv == Typed /\ Framed /\ Redrawn /\ Shown

-----------------------------------------------------------------------------
(* Sequences. *)

\* A command that render sends goes from the front of what is left to the end of
\* the channel.
LEMMA Moves ==
  ASSUME NEW C, NEW c \in Seq(C), NEW o \in Seq(C), o # <<>>
  PROVE  /\ Append(c, Head(o)) \in Seq(C) /\ Tail(o) \in Seq(C)
         /\ Append(c, Head(o)) \o Tail(o) = c \o o
<1>1. Append(c, Head(o)) \in Seq(C) /\ Tail(o) \in Seq(C) OBVIOUS
<1>2. Len(Append(c, Head(o)) \o Tail(o)) = Len(c \o o) BY <1>1
<1>3. ASSUME NEW i \in 1 .. Len(c \o o)
      PROVE  (Append(c, Head(o)) \o Tail(o))[i] = (c \o o)[i]
  <2>1. CASE i <= Len(c) BY <2>1, <1>1
  <2>2. CASE i = Len(c) + 1 BY <2>2, <1>1
  <2>3. CASE i > Len(c) + 1 BY <2>3, <1>1
  <2>. QED BY <2>1, <2>2, <2>3
<1>. QED BY <1>1, <1>2, <1>3

\* What the display task takes from the channel is the first of all that is left.
LEMMA Takes ==
  ASSUME NEW C, NEW c \in Seq(C), NEW o \in Seq(C), c # <<>>
  PROVE  /\ Tail(c) \in Seq(C) /\ c \o o \in Seq(C) /\ c \o o # <<>>
         /\ Head(c) = (c \o o)[1]
         /\ Tail(c) \o o = Tail(c \o o)
<1>1. Tail(c) \in Seq(C) /\ c \o o \in Seq(C) /\ c \o o # <<>> OBVIOUS
<1>2. Len(Tail(c) \o o) = Len(Tail(c \o o)) BY <1>1
<1>3. ASSUME NEW i \in 1 .. Len(Tail(c \o o)) PROVE (Tail(c) \o o)[i] = Tail(c \o o)[i]
  <2>1. CASE i <= Len(c) - 1 BY <2>1, <1>1
  <2>2. CASE i > Len(c) - 1 BY <2>2, <1>1
  <2>. QED BY <2>1, <2>2
<1>4. Head(c) = (c \o o)[1] OBVIOUS
<1>. QED BY <1>1, <1>2, <1>3, <1>4

-----------------------------------------------------------------------------
(* Frames. *)

\* The lists of the two modes differ, and neither is empty.
LEMMA ListsDiffer ==
  /\ List(MODE_TEXT) # List(MODE_TUI)
  /\ List(MODE_TEXT) # <<>> /\ List(MODE_TUI) # <<>>
<1>1. TextDl \in Nat /\ TextDl > 1 /\ TuiDl \in Nat /\ TuiDl > 1 BY ModesAssumption
<1>2. List(MODE_TEXT)[1] = <<0, 1>> /\ List(MODE_TUI)[1] = <<1, 1>>
      /\ DOMAIN List(MODE_TEXT) = 1 .. TextDl /\ DOMAIN List(MODE_TUI) = 1 .. TuiDl
  BY <1>1 DEF List, MODE_TEXT, MODE_TUI
<1>3. DOMAIN <<>> = {} /\ 1 \in 1 .. TextDl /\ 1 \in 1 .. TuiDl BY <1>1
<1>4. <<0, 1>> # <<1, 1>> OBVIOUS
<1>. QED BY <1>2, <1>3, <1>4

LEMMA ListType ==
  ASSUME NEW m \in {MODE_TEXT, MODE_TUI}, NEW n, n = IF m = MODE_TEXT THEN TextDl ELSE TuiDl
  PROVE  /\ n \in 1 .. MaxDl /\ MaxDl \in Nat
         /\ List(m) \in [1 .. n -> Entries]
         /\ List(m)[n] = EndMark
         /\ \A i \in 1 .. n - 1 : List(m)[i] # EndMark
<1>1. n \in 1 .. MaxDl /\ MaxDl \in Nat BY ModesAssumption DEF MaxDl
<1>2. List(m) = [i \in 1 .. n |-> IF i = n THEN EndMark ELSE <<m, i>>] BY DEF List
<1>3. EndMark \in Entries /\ \A i \in 1 .. n : <<m, i>> \in Entries
  BY <1>1 DEF EndMark, Entries, MODE_TEXT
<1>4. \A i \in 1 .. n : <<m, i>> # EndMark BY <1>1 DEF EndMark
<1>. QED BY <1>1, <1>2, <1>3, <1>4

\* The commands of a frame of the text mode, one by one.
LEMMA TextFrameAt ==
  ASSUME NEW grid, \A i \in 1 .. FrameLen : grid[i] \in Cells
  PROVE  LET F == TextFrame(grid)
         IN /\ F \in Seq(Commands) /\ Len(F) = FrameLen + TextDl + 3
            /\ F[1] = Op("begin") /\ F[FrameLen + 2] = Op("end")
            /\ F[FrameLen + TextDl + 3] = Op("swap")
            /\ \A i \in 1 .. FrameLen : F[i + 1] = [op |-> "byte", byte |-> grid[i]]
            /\ \A i \in 1 .. TextDl :
                 F[FrameLen + 2 + i] = [op |-> "write", at |-> i, entry |-> List(MODE_TEXT)[i]]
<1> DEFINE bytes == [i \in 1 .. FrameLen |-> [op |-> "byte", byte |-> grid[i]]]
           b == <<Op("begin")>>
           e == <<Op("end")>>
           w == DlCmds(MODE_TEXT)
           z == <<Op("swap")>>
<1>1. FrameLen \in Nat /\ TextDl \in Nat BY ModesAssumption
<1>2. bytes \in Seq(Commands) /\ Len(bytes) = FrameLen
  <2>1. \A i \in 1 .. FrameLen : bytes[i] \in Commands BY DEF Commands
  <2>. QED BY <1>1, <2>1
<1>3. b \in Seq(Commands) /\ e \in Seq(Commands) /\ z \in Seq(Commands)
      /\ Len(b) = 1 /\ Len(e) = 1 /\ Len(z) = 1 /\ b[1] = Op("begin") /\ e[1] = Op("end") /\ z[1] = Op("swap")
  <2>1. Op("begin") \in Commands /\ Op("end") \in Commands /\ Op("swap") \in Commands BY DEF Op, Commands
  <2>. QED BY <2>1
<1>4. w \in Seq(Commands) /\ Len(w) = TextDl
      /\ \A i \in 1 .. TextDl : w[i] = [op |-> "write", at |-> i, entry |-> List(MODE_TEXT)[i]]
  <2>1. List(MODE_TEXT) \in [1 .. TextDl -> Entries] /\ TextDl \in 1 .. MaxDl /\ MaxDl \in Nat
    BY ListType
  <2>2. w = [i \in 1 .. TextDl |-> [op |-> "write", at |-> i, entry |-> List(MODE_TEXT)[i]]]
    BY <2>1 DEF DlCmds
  <2>3. \A i \in 1 .. TextDl :
          [op |-> "write", at |-> i, entry |-> List(MODE_TEXT)[i]] \in Commands
    BY <2>1, <1>1 DEF Commands
  <2>. QED BY <1>1, <2>2, <2>3
<1>5. TextFrame(grid) = b \o bytes \o e \o w \o z BY DEF TextFrame
<1> HIDE DEF bytes, b, e, w, z
<1>6. /\ b \o bytes \in Seq(Commands) /\ Len(b \o bytes) = FrameLen + 1
      /\ (b \o bytes)[1] = Op("begin")
      /\ \A i \in 1 .. FrameLen : (b \o bytes)[i + 1] = bytes[i]
  <2> DEFINE x == b \o bytes
  <2>1. /\ x \in Seq(Commands) /\ Len(x) = Len(b) + Len(bytes)
        /\ \A i \in 1 .. Len(b) : x[i] = b[i]
        /\ \A i \in 1 .. Len(bytes) : x[Len(b) + i] = bytes[i]
    <3>1. b \in Seq(Commands) /\ bytes \in Seq(Commands) BY <1>2, <1>3
    <3>. QED BY <3>1
  <2>. HIDE DEF x
  <2>2. x \in Seq(Commands) /\ Len(x) = FrameLen + 1 /\ x[1] = Op("begin")
        /\ \A i \in 1 .. FrameLen : x[i + 1] = bytes[i]
    BY <1>1, <1>2, <1>3, <2>1
  <2>. QED BY <2>2 DEF x
<1> DEFINE x == b \o bytes
<1> HIDE DEF x
<1>7. x \in Seq(Commands) /\ Len(x) = FrameLen + 1 /\ x[1] = Op("begin")
      /\ \A i \in 1 .. FrameLen : x[i + 1] = bytes[i]
  BY <1>6 DEF x
<1> DEFINE y == x \o e
<1>8. /\ y \in Seq(Commands) /\ Len(y) = FrameLen + 2 /\ y[FrameLen + 2] = Op("end")
      /\ \A i \in 1 .. FrameLen + 1 : y[i] = x[i]
  <2>1. /\ y \in Seq(Commands) /\ Len(y) = Len(x) + Len(e)
        /\ \A i \in 1 .. Len(x) : y[i] = x[i]
        /\ \A i \in 1 .. Len(e) : y[Len(x) + i] = e[i]
    <3>1. x \in Seq(Commands) /\ e \in Seq(Commands) BY <1>3, <1>7
    <3>. QED BY <3>1
  <2>. HIDE DEF y
  <2>. QED BY <1>1, <1>3, <1>7, <2>1
<1> HIDE DEF y
<1> DEFINE u == y \o w
<1>9. /\ u \in Seq(Commands) /\ Len(u) = FrameLen + 2 + TextDl
      /\ \A i \in 1 .. FrameLen + 2 : u[i] = y[i]
      /\ \A i \in 1 .. TextDl : u[FrameLen + 2 + i] = w[i]
  <2>1. /\ u \in Seq(Commands) /\ Len(u) = Len(y) + Len(w)
        /\ \A i \in 1 .. Len(y) : u[i] = y[i]
        /\ \A i \in 1 .. Len(w) : u[Len(y) + i] = w[i]
    <3>1. y \in Seq(Commands) /\ w \in Seq(Commands) BY <1>4, <1>8
    <3>. QED BY <3>1
  <2>. HIDE DEF u
  <2>. QED BY <1>1, <1>4, <1>8, <2>1
<1> HIDE DEF u
<1> DEFINE F == u \o z
<1>10. /\ F \in Seq(Commands) /\ Len(F) = FrameLen + 3 + TextDl /\ F[FrameLen + TextDl + 3] = Op("swap")
       /\ \A i \in 1 .. FrameLen + 2 + TextDl : F[i] = u[i]
  <2>1. /\ F \in Seq(Commands) /\ Len(F) = Len(u) + Len(z)
        /\ \A i \in 1 .. Len(u) : F[i] = u[i]
        /\ \A i \in 1 .. Len(z) : F[Len(u) + i] = z[i]
    <3>1. u \in Seq(Commands) /\ z \in Seq(Commands) BY <1>3, <1>9
    <3>. QED BY <3>1
  <2>. HIDE DEF F
  <2>2. Len(u) = FrameLen + 2 + TextDl /\ Len(z) = 1 /\ z[1] = Op("swap") BY <1>3, <1>9
  <2>. QED BY <1>1, <2>1, <2>2
<1>11. F = TextFrame(grid) BY <1>5 DEF u, y, x
<1> HIDE DEF F
<1>12. F[1] = Op("begin") /\ F[FrameLen + 2] = Op("end")
  <2>1. F[1] = x[1]
    <3>1. F[1] = u[1] BY <1>1, <1>10
    <3>2. u[1] = y[1] BY <1>1, <1>9
    <3>3. y[1] = x[1] BY <1>1, <1>8
    <3>. QED BY <3>1, <3>2, <3>3
  <2>2. F[FrameLen + 2] = y[FrameLen + 2]
    <3>1. F[FrameLen + 2] = u[FrameLen + 2] BY <1>1, <1>10
    <3>2. u[FrameLen + 2] = y[FrameLen + 2] BY <1>1, <1>9
    <3>. QED BY <3>1, <3>2
  <2>. QED BY <2>1, <2>2, <1>7, <1>8
<1>13. ASSUME NEW i \in 1 .. FrameLen PROVE F[i + 1] = [op |-> "byte", byte |-> grid[i]]
  <2>1. F[i + 1] = u[i + 1] /\ u[i + 1] = y[i + 1] /\ y[i + 1] = x[i + 1] BY <1>1, <1>8, <1>9, <1>10
  <2>2. F[i + 1] = bytes[i] BY <2>1, <1>7
  <2>. QED BY <2>2 DEF bytes
<1>14. ASSUME NEW i \in 1 .. TextDl
       PROVE  F[FrameLen + 2 + i] = [op |-> "write", at |-> i, entry |-> List(MODE_TEXT)[i]]
  <2>1. F[FrameLen + 2 + i] = u[FrameLen + 2 + i] BY <1>1, <1>10
  <2>. QED BY <2>1, <1>9, <1>4
<1>. QED BY <1>1, <1>10, <1>11, <1>12, <1>13, <1>14

LEMMA TuiFrameAt ==
  /\ TuiFrame \in Seq(Commands) /\ Len(TuiFrame) = TuiDl + 1
  /\ TuiFrame[TuiDl + 1] = Op("swap")
  /\ \A i \in 1 .. TuiDl :
       TuiFrame[i] = [op |-> "write", at |-> i, entry |-> List(MODE_TUI)[i]]
<1>1. TuiDl \in Nat /\ MODE_TUI # MODE_TEXT BY ModesAssumption DEF MODE_TUI, MODE_TEXT
<1> DEFINE w == DlCmds(MODE_TUI)
           z == <<Op("swap")>>
<1>2. w \in Seq(Commands) /\ Len(w) = TuiDl
      /\ \A i \in 1 .. TuiDl : w[i] = [op |-> "write", at |-> i, entry |-> List(MODE_TUI)[i]]
  <2>1. List(MODE_TUI) \in [1 .. TuiDl -> Entries] /\ TuiDl \in 1 .. MaxDl /\ MaxDl \in Nat
    BY <1>1, ListType
  <2>2. w = [i \in 1 .. TuiDl |-> [op |-> "write", at |-> i, entry |-> List(MODE_TUI)[i]]]
    BY <2>1 DEF DlCmds
  <2>3. \A i \in 1 .. TuiDl :
          [op |-> "write", at |-> i, entry |-> List(MODE_TUI)[i]] \in Commands
    BY <2>1, <1>1 DEF Commands
  <2>. QED BY <1>1, <2>2, <2>3
<1>3. z \in Seq(Commands) /\ Len(z) = 1 /\ z[1] = Op("swap")
  <2>1. Op("swap") \in Commands BY DEF Op, Commands
  <2>. QED BY <2>1
<1>4. TuiFrame = w \o z BY DEF TuiFrame
<1> HIDE DEF w, z
<1>5. /\ w \o z \in Seq(Commands) /\ Len(w \o z) = Len(w) + Len(z)
      /\ \A i \in 1 .. Len(w) : (w \o z)[i] = w[i]
      /\ \A i \in 1 .. Len(z) : (w \o z)[Len(w) + i] = z[i]
  <2>1. w \in Seq(Commands) /\ z \in Seq(Commands) BY <1>2, <1>3
  <2>. QED BY <2>1
<1>6. /\ TuiFrame \in Seq(Commands) /\ Len(TuiFrame) = Len(w) + Len(z)
      /\ \A i \in 1 .. Len(w) : TuiFrame[i] = w[i]
      /\ \A i \in 1 .. Len(z) : TuiFrame[Len(w) + i] = z[i]
  BY <1>4, <1>5
<1>. QED BY <1>1, <1>2, <1>3, <1>6

\* A scene of the text mode has a grid, one of the TUI has none.
LEMMA FrameType ==
  ASSUME NEW v \in Frames
  PROVE  /\ TextScene(v) => \E p \in Pictures \cup {Empty}, c \in BOOLEAN :
              v = [list |-> List(MODE_TEXT), grid |-> Grid([pic |-> p, cursor |-> c])]
         /\ ~TextScene(v) => v = [list |-> List(MODE_TUI), grid |-> <<>>]
<1>1. List(MODE_TEXT) # List(MODE_TUI) BY ListsDiffer
<1>2. \/ v = Scene(List(MODE_TUI), <<>>)
      \/ \E p \in Pictures \cup {Empty}, c \in BOOLEAN :
           v = Scene(List(MODE_TEXT), Grid([pic |-> p, cursor |-> c]))
  BY DEF Frames
<1>3. CASE v = Scene(List(MODE_TUI), <<>>)
  <2>1. v = [list |-> List(MODE_TUI), grid |-> <<>>] BY <1>1, <1>3 DEF Scene
  <2>2. v.list = List(MODE_TUI) BY <2>1
  <2>. QED BY <1>1, <2>1, <2>2 DEF TextScene
<1>4. ASSUME NEW p \in Pictures \cup {Empty}, NEW c \in BOOLEAN,
             v = Scene(List(MODE_TEXT), Grid([pic |-> p, cursor |-> c]))
      PROVE  TextScene(v) /\ v = [list |-> List(MODE_TEXT), grid |-> Grid([pic |-> p, cursor |-> c])]
  <2>1. v = [list |-> List(MODE_TEXT), grid |-> Grid([pic |-> p, cursor |-> c])] BY <1>4 DEF Scene
  <2>2. v.list = List(MODE_TEXT) BY <2>1
  <2>. QED BY <2>1, <2>2 DEF TextScene
<1>. QED BY <1>2, <1>3, <1>4

LEMMA GridType ==
  ASSUME NEW p \in Pictures \cup {Empty}, NEW c \in BOOLEAN
  PROVE  /\ Grid([pic |-> p, cursor |-> c]) \in [1 .. FrameLen -> Cells]
         /\ \A d : Grid([pic |-> p, cursor |-> c, dirty |-> d]) = Grid([pic |-> p, cursor |-> c])
BY DEF Grid, Cells

LEMMA CmdsType ==
  ASSUME NEW v \in Frames
  PROVE  Cmds(v) \in Seq(Commands) /\ Len(Cmds(v)) \in Nat \ {0}
<1>0. FrameLen \in Nat /\ TextDl \in Nat /\ TuiDl \in Nat BY ModesAssumption
<1>1. CASE TextScene(v)
  <2>1. PICK p \in Pictures \cup {Empty}, c \in BOOLEAN :
          v = [list |-> List(MODE_TEXT), grid |-> Grid([pic |-> p, cursor |-> c])]
    BY <1>1, FrameType
  <2>2. \A i \in 1 .. FrameLen : v.grid[i] \in Cells BY <2>1, GridType
  <2>3. TextFrame(v.grid) \in Seq(Commands) /\ Len(TextFrame(v.grid)) = FrameLen + TextDl + 3
    BY <2>2, TextFrameAt
  <2>. QED BY <1>0, <1>1, <2>3 DEF Cmds
<1>2. CASE ~TextScene(v) BY <1>0, <1>2, TuiFrameAt DEF Cmds
<1>. QED BY <1>1, <1>2

-----------------------------------------------------------------------------
(* Cuts. *)

LEMMA NegatedZero ==
  ASSUME NEW x \in Int, x <= 0, x >= 0
  PROVE  -x = 0
OBVIOUS

LEMMA OneEarlier ==
  ASSUME NEW x \in Int, NEW y \in Int, y = x - 1, NEW j \in Nat, NEW n \in Nat,
         y + j >= 1, x + j <= n
  PROVE  y + j \in 1 .. n - 1 /\ (y + j) + 1 = x + j /\ x + j >= 1
OBVIOUS

\* The first command is the next one of the oldest frame.
LEMMA CutsHead ==
  ASSUME NEW pend \in Seq(Commands), NEW queue \in Seq(Frames), NEW s, Cuts(s, pend, queue),
         pend # <<>>
  PROVE  /\ queue # <<>> /\ queue[1] \in Frames
         /\ -s[1] \in 0 .. Len(Cmds(queue[1])) - 1
         /\ pend[1] = Cmds(queue[1])[1 - s[1]]
         /\ 1 - s[1] = Len(Cmds(queue[1])) /\ Len(queue) = 1 => Len(pend) = 1
<1>1. queue # <<>>
  <2>1. SUFFICES ASSUME queue = <<>> PROVE FALSE OBVIOUS
  <2>2. Len(queue) + 1 = 1 BY <2>1
  <2>3. s[1] = 0 /\ s[1] = Len(pend) BY <2>1, <2>2 DEF Cuts
  <2>. QED BY <2>3
<1>2. 1 \in 1 .. Len(queue) /\ queue[1] \in Frames BY <1>1
<1>3. Len(Cmds(queue[1])) \in Nat \ {0} BY <1>2, CmdsType
<1>4. -s[1] \in 0 .. Len(Cmds(queue[1])) - 1 BY <1>1 DEF Cuts
<1>5. s[1] \in Int BY <1>2 DEF Cuts
<1>6. 1 - s[1] \in 1 .. Len(Cmds(queue[1])) /\ s[1] + (1 - s[1]) = 1 BY <1>3, <1>4, <1>5
<1>7. \A j \in 1 .. Len(Cmds(queue[1])) : s[1] + j >= 1 => pend[s[1] + j] = Cmds(queue[1])[j]
  BY <1>2 DEF Cuts
<1>8. pend[1] = Cmds(queue[1])[1 - s[1]]
  <2>1. s[1] + (1 - s[1]) >= 1 BY <1>6
  <2>. QED BY <1>6, <1>7, <2>1
<1>9. ASSUME 1 - s[1] = Len(Cmds(queue[1])), Len(queue) = 1 PROVE Len(pend) = 1
  <2>1. s[1 + 1] = s[1] + Len(Cmds(queue[1])) BY <1>2 DEF Cuts
  <2>2. s[1 + 1] = Len(pend) BY <1>9 DEF Cuts
  <2>. QED BY <1>5, <1>9, <2>1, <2>2
<1>. QED BY <1>1, <1>2, <1>4, <1>8, <1>9

\* The places in pend that a frame takes.
LEMMA CutsWithin ==
  ASSUME NEW pend \in Seq(Commands), NEW queue \in Seq(Frames), NEW s, Cuts(s, pend, queue),
         NEW k \in 1 .. Len(queue), NEW j \in 1 .. Len(Cmds(queue[k]))
  PROVE  s[k] \in Int /\ s[k] + j <= Len(pend)
<1>1. s[k] \in Int /\ s[k + 1] \in Int /\ s[Len(queue) + 1] = Len(pend) BY DEF Cuts
<1>2. s[k + 1] = s[k] + Len(Cmds(queue[k])) BY DEF Cuts
<1>3. k + 1 = Len(queue) + 1 \/ s[k + 1] < s[Len(queue) + 1]
  <2>1. k + 1 \in 1 .. Len(queue) + 1 /\ Len(queue) + 1 \in 1 .. Len(queue) + 1
        /\ (k + 1 < Len(queue) + 1 \/ k + 1 = Len(queue) + 1) OBVIOUS
  <2>. QED BY <2>1 DEF Cuts
<1>4. queue[k] \in Frames OBVIOUS
<1>5. Len(Cmds(queue[k])) \in Nat BY <1>4, CmdsType
<1>. QED BY <1>1, <1>2, <1>3, <1>5

\* A command is taken and the frame is not over.
LEMMA CutsAdvance ==
  ASSUME NEW pend \in Seq(Commands), NEW queue \in Seq(Frames), NEW s, Cuts(s, pend, queue),
         pend # <<>>, 1 - s[1] # Len(Cmds(queue[1]))
  PROVE  \E r : Cuts(r, Tail(pend), queue) /\ -r[1] = 1 - s[1]
<1> DEFINE r == [k \in 1 .. Len(queue) + 1 |-> s[k] - 1]
<1>1. queue # <<>> /\ queue[1] \in Frames /\ -s[1] \in 0 .. Len(Cmds(queue[1])) - 1 BY CutsHead
<1>2. \A k \in 1 .. Len(queue) + 1 : s[k] \in Int /\ r[k] = s[k] - 1 BY DEF Cuts
<1>3. s[1] \in Int /\ r[1] = s[1] - 1 BY <1>2
<1>4. Len(Cmds(queue[1])) \in Nat BY <1>1, CmdsType
<1>5. -r[1] \in 0 .. Len(Cmds(queue[1])) - 1 BY <1>1, <1>3, <1>4
<1>6. Tail(pend) \in Seq(Commands) /\ Len(Tail(pend)) = Len(pend) - 1
      /\ \A i \in 1 .. Len(pend) - 1 : Tail(pend)[i] = pend[i + 1] OBVIOUS
<1>7. r \in [1 .. Len(queue) + 1 -> Int] BY <1>2
<1>8. r[Len(queue) + 1] = Len(Tail(pend))
  <2>1. s[Len(queue) + 1] = Len(pend) /\ r[Len(queue) + 1] = s[Len(queue) + 1] - 1 BY DEF Cuts
  <2>. QED BY <2>1, <1>6
<1>9. ASSUME NEW k \in 1 .. Len(queue) + 1, NEW l \in 1 .. Len(queue) + 1, k < l PROVE r[k] < r[l]
  <2>1. s[k] < s[l] BY <1>9 DEF Cuts
  <2>. QED BY <2>1, <1>2
<1>10. ASSUME NEW k \in 1 .. Len(queue)
       PROVE  /\ r[k + 1] = r[k] + Len(Cmds(queue[k]))
              /\ \A j \in 1 .. Len(Cmds(queue[k])) :
                   r[k] + j >= 1 => Tail(pend)[r[k] + j] = Cmds(queue[k])[j]
  <2>0. k \in 1 .. Len(queue) + 1 /\ k + 1 \in 1 .. Len(queue) + 1 OBVIOUS
  <2>1. s[k + 1] = s[k] + Len(Cmds(queue[k])) BY DEF Cuts
  <2>2. r[k] = s[k] - 1 /\ r[k + 1] = s[k + 1] - 1 /\ s[k] \in Int /\ s[k + 1] \in Int BY <2>0, <1>2
  <2>3. queue[k] \in Frames OBVIOUS
  <2>4. Len(Cmds(queue[k])) \in Nat BY <2>3, CmdsType
  <2>5. r[k + 1] = r[k] + Len(Cmds(queue[k])) BY <2>1, <2>2, <2>4
  <2>6. ASSUME NEW j \in 1 .. Len(Cmds(queue[k])), r[k] + j >= 1
        PROVE  Tail(pend)[r[k] + j] = Cmds(queue[k])[j]
    <3>1. s[k] + j <= Len(pend) BY CutsWithin
    <3>2. r[k] + j \in 1 .. Len(pend) - 1 /\ (r[k] + j) + 1 = s[k] + j /\ s[k] + j >= 1
      <4>1. j \in Nat /\ Len(pend) \in Nat BY <2>4
      <4>. HIDE DEF r
      <4>2. r[k] \in Int BY <2>2
      <4>. QED BY <2>2, <2>6, <3>1, <4>1, <4>2, OneEarlier
    <3>3. Tail(pend)[r[k] + j] = pend[s[k] + j] BY <3>2, <1>6
    <3>4. pend[s[k] + j] = Cmds(queue[k])[j] BY <3>2 DEF Cuts
    <3>. QED BY <3>3, <3>4
  <2>. QED BY <2>5, <2>6
<1>11. -r[1] = 1 - s[1] BY <1>3
<1> HIDE DEF r
<1>12. Cuts(r, Tail(pend), queue) BY <1>1, <1>5, <1>7, <1>8, <1>9, <1>10 DEF Cuts
<1>. QED BY <1>11, <1>12

\* The last command of the oldest frame is taken.
LEMMA CutsFinish ==
  ASSUME NEW pend \in Seq(Commands), NEW queue \in Seq(Frames), NEW s, Cuts(s, pend, queue),
         pend # <<>>, 1 - s[1] = Len(Cmds(queue[1]))
  PROVE  \E r : Cuts(r, Tail(pend), Tail(queue)) /\ r[1] = 0
<1> DEFINE r == [k \in 1 .. Len(queue) |-> s[k + 1] - 1]
           rest == Tail(queue)
<1>1. queue # <<>> /\ queue[1] \in Frames /\ -s[1] \in 0 .. Len(Cmds(queue[1])) - 1 BY CutsHead
<1>2. ASSUME NEW k \in 1 .. Len(queue) PROVE s[k + 1] \in Int /\ r[k] = s[k + 1] - 1
  <2>1. s \in [1 .. Len(queue) + 1 -> Int] BY DEF Cuts
  <2>2. k + 1 \in 1 .. Len(queue) + 1 OBVIOUS
  <2>. QED BY <2>1, <2>2
<1>3. s[1] \in Int /\ r[1] = s[1 + 1] - 1 /\ s[1 + 1] \in Int /\ s[1 + 1] = s[1] + Len(Cmds(queue[1]))
  <2>1. 1 \in 1 .. Len(queue) /\ 1 \in 1 .. Len(queue) + 1 BY <1>1
  <2>2. s[1] \in Int BY <2>1 DEF Cuts
  <2>3. s[1 + 1] = s[1] + Len(Cmds(queue[1])) BY <2>1 DEF Cuts
  <2>. QED BY <1>2, <2>1, <2>2, <2>3
<1>4. Len(Cmds(queue[1])) \in Nat BY <1>1, CmdsType
<1>5. r[1] = 0 BY <1>3, <1>4
<1>6. Tail(pend) \in Seq(Commands) /\ Len(Tail(pend)) = Len(pend) - 1
      /\ \A i \in 1 .. Len(pend) - 1 : Tail(pend)[i] = pend[i + 1] OBVIOUS
<1>7. rest \in Seq(Frames) /\ Len(rest) = Len(queue) - 1 /\ Len(rest) + 1 = Len(queue)
      /\ \A i \in 1 .. Len(rest) : rest[i] = queue[i + 1] BY <1>1
<1>8. r \in [1 .. Len(rest) + 1 -> Int] BY <1>2, <1>7
<1>9. r[Len(rest) + 1] = Len(Tail(pend))
  <2>1. Len(queue) \in 1 .. Len(queue) BY <1>1
  <2>2. s[Len(queue) + 1] = Len(pend) /\ r[Len(queue)] = s[Len(queue) + 1] - 1 BY <2>1 DEF Cuts
  <2>. QED BY <2>2, <1>6, <1>7
<1>10. ASSUME NEW k \in 1 .. Len(rest) + 1, NEW l \in 1 .. Len(rest) + 1, k < l PROVE r[k] < r[l]
  <2>1. k \in 1 .. Len(queue) /\ l \in 1 .. Len(queue) /\ k + 1 < l + 1
        /\ k + 1 \in 1 .. Len(queue) + 1 /\ l + 1 \in 1 .. Len(queue) + 1 BY <1>7, <1>10
  <2>2. s[k + 1] < s[l + 1] BY <2>1 DEF Cuts
  <2>. QED BY <2>1, <2>2, <1>2
<1>11. ASSUME NEW k \in 1 .. Len(rest)
       PROVE  /\ r[k + 1] = r[k] + Len(Cmds(rest[k]))
              /\ \A j \in 1 .. Len(Cmds(rest[k])) :
                   r[k] + j >= 1 => Tail(pend)[r[k] + j] = Cmds(rest[k])[j]
  <2>0. k \in 1 .. Len(queue) /\ k + 1 \in 1 .. Len(queue) /\ rest[k] = queue[k + 1] BY <1>7
  <2>1. s[(k + 1) + 1] = s[k + 1] + Len(Cmds(rest[k])) BY <2>0 DEF Cuts
  <2>2. r[k] = s[k + 1] - 1 /\ r[k + 1] = s[(k + 1) + 1] - 1
        /\ s[k + 1] \in Int /\ s[(k + 1) + 1] \in Int BY <2>0, <1>2
  <2>3. rest[k] \in Frames BY <2>0
  <2>4. Len(Cmds(rest[k])) \in Nat BY <2>3, CmdsType
  <2>5. r[k + 1] = r[k] + Len(Cmds(rest[k])) BY <2>1, <2>2, <2>4
  <2>6. ASSUME NEW j \in 1 .. Len(Cmds(rest[k])), r[k] + j >= 1
        PROVE  Tail(pend)[r[k] + j] = Cmds(rest[k])[j]
    <3>0. j \in 1 .. Len(Cmds(queue[k + 1])) BY <2>0
    <3>1. s[k + 1] + j <= Len(pend) BY <2>0, <3>0, CutsWithin
    <3>2. r[k] + j \in 1 .. Len(pend) - 1 /\ (r[k] + j) + 1 = s[k + 1] + j /\ s[k + 1] + j >= 1
      <4>1. j \in Nat /\ Len(pend) \in Nat BY <2>4
      <4>. HIDE DEF r
      <4>2. r[k] \in Int BY <2>2
      <4>. QED BY <2>2, <2>6, <3>1, <4>1, <4>2, OneEarlier
    <3>3. Tail(pend)[r[k] + j] = pend[s[k + 1] + j] BY <3>2, <1>6
    <3>4. pend[s[k + 1] + j] = Cmds(queue[k + 1])[j] BY <2>0, <3>0, <3>2 DEF Cuts
    <3>. QED BY <2>0, <3>3, <3>4
  <2>. QED BY <2>5, <2>6
<1> HIDE DEF r
<1>12. Cuts(r, Tail(pend), rest)
  <2>1. IF rest = <<>> THEN r[1] = 0 ELSE -r[1] \in 0 .. Len(Cmds(rest[1])) - 1
    <3>1. CASE rest = <<>> BY <3>1, <1>5
    <3>2. CASE rest # <<>>
      <4>1. rest[1] \in Frames BY <3>2, <1>7
      <4>2. Len(Cmds(rest[1])) \in Nat \ {0} BY <4>1, CmdsType
      <4>. QED BY <3>2, <4>2, <1>5
    <3>. QED BY <3>1, <3>2
  <2>. HIDE DEF rest
  <2>. QED BY <2>1, <1>8, <1>9, <1>10, <1>11 DEF Cuts
<1>. QED BY <1>5, <1>12

\* A frame is added.
LEMMA CutsOffer ==
  ASSUME NEW pend \in Seq(Commands), NEW queue \in Seq(Frames), NEW s, Cuts(s, pend, queue),
         NEW v \in Frames
  PROVE  \E r : Cuts(r, pend \o Cmds(v), Append(queue, v)) /\ r[1] = s[1]
<1> DEFINE n == Len(queue)
           r == [k \in 1 .. n + 2 |-> IF k <= n + 1 THEN s[k] ELSE Len(pend) + Len(Cmds(v))]
           more == Append(queue, v)
           p == pend \o Cmds(v)
<1>1. Cmds(v) \in Seq(Commands) /\ Len(Cmds(v)) \in Nat \ {0} BY CmdsType
<1>2. more \in Seq(Frames) /\ Len(more) = n + 1 /\ more[n + 1] = v /\ more # <<>>
      /\ \A i \in 1 .. n : more[i] = queue[i] OBVIOUS
<1>3. p \in Seq(Commands) /\ Len(p) = Len(pend) + Len(Cmds(v))
      /\ (\A i \in 1 .. Len(pend) : p[i] = pend[i])
      /\ \A i \in 1 .. Len(Cmds(v)) : p[Len(pend) + i] = Cmds(v)[i]
  <2> DEFINE c == Cmds(v)
  <2> HIDE DEF c
  <2>1. c \in Seq(Commands) BY <1>1 DEF c
  <2>2. pend \o c \in Seq(Commands) /\ Len(pend \o c) = Len(pend) + Len(c)
        /\ (\A i \in 1 .. Len(pend) : (pend \o c)[i] = pend[i])
        /\ \A i \in 1 .. Len(c) : (pend \o c)[Len(pend) + i] = c[i] BY <2>1
  <2>. QED BY <2>2 DEF c
<1>4. n \in Nat /\ Len(pend) \in Nat OBVIOUS
<1>5. \A k \in 1 .. n + 1 : s[k] \in Int /\ r[k] = s[k] BY <1>4 DEF Cuts
<1>6. r[n + 2] = Len(pend) + Len(Cmds(v)) BY <1>4
<1>7. s[n + 1] = Len(pend) BY DEF Cuts
<1>8. r[1] = s[1] /\ s[1] \in Int
  <2>1. 1 \in 1 .. n + 1 BY <1>4
  <2>. QED BY <1>5, <2>1
<1> HIDE DEF r, more, p
<1>9. -r[1] \in 0 .. Len(Cmds(more[1])) - 1
  <2>1. CASE n = 0
    <3>1. queue = <<>> /\ more[1] = v BY <2>1, <1>2
    <3>2. s[1] = 0 BY <3>1 DEF Cuts
    <3>. QED BY <3>1, <3>2, <1>1, <1>8
  <2>2. CASE n # 0
    <3>1. queue # <<>> /\ more[1] = queue[1] BY <2>2, <1>2, <1>4
    <3>2. -s[1] \in 0 .. Len(Cmds(queue[1])) - 1 BY <3>1 DEF Cuts
    <3>. QED BY <3>1, <3>2, <1>8
  <2>. QED BY <2>1, <2>2
<1>10. r \in [1 .. Len(more) + 1 -> Int]
  <2>1. \A k \in 1 .. n + 2 : r[k] \in Int BY <1>1, <1>4, <1>5, <1>6
  <2>2. r = [k \in 1 .. n + 2 |-> r[k]] BY DEF r
  <2>3. Len(more) + 1 = n + 2 BY <1>2, <1>4
  <2>. QED BY <2>1, <2>2, <2>3
<1>11. ASSUME NEW k \in 1 .. Len(more) + 1, NEW l \in 1 .. Len(more) + 1, k < l PROVE r[k] < r[l]
  <2>1. k \in 1 .. n + 1 /\ l \in 1 .. n + 2 BY <1>2, <1>4, <1>11
  <2>2. CASE l <= n + 1
    <3>1. l \in 1 .. n + 1 BY <2>1, <2>2, <1>4
    <3>2. s[k] < s[l] BY <2>1, <3>1, <1>11 DEF Cuts
    <3>. QED BY <2>1, <3>1, <3>2, <1>5
  <2>3. CASE l = n + 2
    <3>1. s[k] <= Len(pend)
      <4>1. k = n + 1 \/ s[k] < s[n + 1] BY <2>1, <1>4 DEF Cuts
      <4>. QED BY <4>1, <2>1, <1>4, <1>5, <1>7
    <3>2. r[k] = s[k] /\ s[k] \in Int BY <2>1, <1>5
    <3>. QED BY <3>1, <3>2, <2>3, <1>1, <1>4, <1>6
  <2>. QED BY <2>1, <2>2, <2>3, <1>4
<1>12. ASSUME NEW k \in 1 .. Len(more)
       PROVE  /\ r[k + 1] = r[k] + Len(Cmds(more[k]))
              /\ \A j \in 1 .. Len(Cmds(more[k])) :
                   r[k] + j >= 1 => p[r[k] + j] = Cmds(more[k])[j]
  <2>1. CASE k <= n
    <3>1. k \in 1 .. n /\ k \in 1 .. n + 1 /\ k + 1 \in 1 .. n + 1 /\ more[k] = queue[k] BY <2>1, <1>2, <1>4
    <3>2. r[k] = s[k] /\ r[k + 1] = s[k + 1] /\ s[k] \in Int BY <3>1, <1>5
    <3>3. s[k + 1] = s[k] + Len(Cmds(queue[k])) BY <3>1 DEF Cuts
    <3>4. ASSUME NEW j \in 1 .. Len(Cmds(queue[k])), s[k] + j >= 1 PROVE p[s[k] + j] = Cmds(queue[k])[j]
      <4>1. s[k] + j <= Len(pend) BY <3>1, CutsWithin
      <4>2. pend[s[k] + j] = Cmds(queue[k])[j] BY <3>1, <3>4 DEF Cuts
      <4>3. s[k] + j \in 1 .. Len(pend) BY <4>1, <3>2, <3>4, <1>4
      <4>. QED BY <4>2, <4>3, <1>3
    <3>. QED BY <3>1, <3>2, <3>3, <3>4
  <2>2. CASE k = n + 1
    <3>1. more[k] = v /\ r[k] = Len(pend) /\ r[k + 1] = Len(pend) + Len(Cmds(v))
      <4>1. n + 1 \in 1 .. n + 1 /\ (n + 1) + 1 = n + 2 BY <1>4
      <4>. QED BY <4>1, <2>2, <1>2, <1>5, <1>6, <1>7
    <3>. QED BY <3>1, <1>3
  <2>. QED BY <2>1, <2>2, <1>2, <1>4
<1>13. r[Len(more) + 1] = Len(p)
  <2>1. Len(more) + 1 = n + 2 BY <1>2, <1>4
  <2>. QED BY <2>1, <1>3, <1>6
<1>14. Cuts(r, p, more) BY <1>2, <1>9, <1>10, <1>11, <1>12, <1>13 DEF Cuts
<1>. QED BY <1>8, <1>14 DEF p, more

-----------------------------------------------------------------------------
(* What a transaction makes of the modes. *)

Texts  == [pic : Pictures \cup {Empty}, cursor : BOOLEAN, dirty : BOOLEAN]
States == [active : {MODE_TEXT, MODE_TUI}, text : Texts, tui : [dirty : BOOLEAN]]
Marked(m) == IF m.active = MODE_TEXT THEN m.text.dirty ELSE m.tui.dirty

LEMMA Minimal ==
  ASSUME NEW R, IsWellFoundedOn(R, Nat), NEW T, T \subseteq Nat, T # {}
  PROVE  \E x \in T : \A y \in T : ~(<<y, x>> \in R)
BY WFMin

LEMMA Least ==
  ASSUME NEW T, T \subseteq Nat, T # {}
  PROVE  \E x \in T : \A y \in T : x <= y
<1>1. ASSUME NEW R, IsWellFoundedOn(R, Nat), \A x, y \in Nat : <<x, y>> \in R <=> x < y
      PROVE  \E x \in T : \A y \in T : x <= y
  <2>1. PICK x \in T : \A y \in T : ~(<<y, x>> \in R)
    <3>. HIDE <1>1
    <3>1. IsWellFoundedOn(R, Nat) BY <1>1
    <3>. QED BY <3>1, Minimal
  <2>2. ASSUME NEW y \in T PROVE x <= y
    <3>1. x \in Nat /\ y \in Nat /\ ~(<<y, x>> \in R) BY <2>1
    <3>. QED BY <1>1, <3>1
  <2>. QED BY <2>2
<1>2. IsWellFoundedOn(OpToRel(<, Nat), Nat) BY NatLessThanWellFounded
<1>3. \A x, y \in Nat : <<x, y>> \in OpToRel(<, Nat) <=> x < y BY DEF OpToRel
<1>4. \E R : IsWellFoundedOn(R, Nat) /\ \A x, y \in Nat : <<x, y>> \in R <=> x < y
  <2>. WITNESS OpToRel(<, Nat)
  <2>. QED BY <1>2, <1>3, Zenon
<1>. QED BY <1>1, <1>4

LEMMA MaxIn ==
  ASSUME NEW n \in Nat, NEW T, T \subseteq 1 .. n, T # {}
  PROVE  Max(T) \in T
<1> DEFINE U == {n - y : y \in T}
<1>1. U \subseteq Nat /\ U # {}
  <2>1. \A y \in T : n - y \in Nat OBVIOUS
  <2>2. PICK y \in T : TRUE OBVIOUS
  <2>3. n - y \in U OBVIOUS
  <2>. QED BY <2>1, <2>3
<1>2. PICK x \in U : \A y \in U : x <= y
  <2> HIDE DEF U
  <2>. QED BY <1>1, Least
<1>3. PICK z \in T : x = n - z OBVIOUS
<1>4. ASSUME NEW y \in T PROVE z >= y
  <2>1. n - z <= n - y BY <1>2, <1>3
  <2>2. y \in 1 .. n /\ z \in 1 .. n OBVIOUS
  <2>. QED BY <2>1, <2>2
<1>. QED BY <1>4 DEF Max

LEMMA ConsumedType ==
  ASSUME NEW m \in States, NEW bytes, NEW n \in Nat, DOMAIN bytes \subseteq 1 .. n
  PROVE  /\ Consumed(m, bytes) \in States
         /\ Consumed(m, bytes) = m \/ Marked(Consumed(m, bytes))
<1>1. CASE Drawn(bytes) = {} BY <1>1 DEF Consumed
<1>2. CASE Drawn(bytes) # {} /\ m.active = MODE_TEXT
  <2>1. Drawn(bytes) \subseteq 1 .. n BY DEF Drawn
  <2>2. Max(Drawn(bytes)) \in Drawn(bytes) BY <1>2, <2>1, MaxIn
  <2>3. bytes[Max(Drawn(bytes))] \in Pictures BY <2>2 DEF Drawn
  <2> DEFINE t == [pic |-> bytes[Max(Drawn(bytes))], cursor |-> FALSE, dirty |-> TRUE]
  <2>4. t \in Texts /\ t.dirty BY <2>3 DEF Texts
  <2>5. Consumed(m, bytes) = [m EXCEPT !.text = t] BY <1>2 DEF Consumed, MODE_TUI, MODE_TEXT
  <2>. HIDE DEF t
  <2>. QED BY <1>2, <2>4, <2>5 DEF States, Marked
<1>3. CASE Drawn(bytes) # {} /\ m.active = MODE_TUI
  <2>1. Consumed(m, bytes) = [m EXCEPT !.tui.dirty = TRUE] BY <1>3 DEF Consumed, MODE_TUI, MODE_TEXT
  <2>2. m.tui \in [dirty : BOOLEAN] BY DEF States
  <2> DEFINE u == [m.tui EXCEPT !.dirty = TRUE]
  <2>3. u \in [dirty : BOOLEAN] /\ u.dirty BY <2>2
  <2>4. Consumed(m, bytes) = [m EXCEPT !.tui = u] BY <2>1
  <2>. HIDE DEF u
  <2>5. Consumed(m, bytes) \in States /\ Consumed(m, bytes).tui = u /\ Consumed(m, bytes).active = MODE_TUI
    BY <1>3, <2>3, <2>4 DEF States
  <2>. QED BY <2>3, <2>5 DEF Marked, MODE_TUI, MODE_TEXT
<1>. QED BY <1>1, <1>2, <1>3 DEF States

\* A transaction leaves the modes as they are or leaves the active one dirty.
LEMMA HandledType ==
  ASSUME NEW m \in States, NEW txn \in Txns
  PROVE  /\ Handled(m, txn) \in States
         /\ Handled(m, txn) = m \/ Marked(Handled(m, txn))
<1>1. txn \in Seq(0 .. 255) /\ txn # <<>> BY ModesAssumption
<1>2. CASE txn[1] # SWITCH_MODE_OPCODE
  <2>1. DOMAIN txn \subseteq 1 .. Len(txn) /\ Len(txn) \in Nat BY <1>1
  <2>. QED BY <1>2, <2>1, ConsumedType DEF Handled
<1>3. CASE txn[1] = SWITCH_MODE_OPCODE
  <2> DEFINE named == IF Len(txn) > 1 THEN Switched(m, txn[2]) ELSE m
             rest  == SubSeq(txn, 3, Len(txn))
  <2>1. DOMAIN rest \subseteq 1 .. Len(txn) /\ Len(txn) \in Nat
    <3>1. Len(txn) \in Nat BY <1>1
    <3>2. DOMAIN rest = 1 .. Len(txn) - 2 BY <3>1 DEF SubSeq
    <3>. QED BY <3>1, <3>2
  <2>2. NewText \in Texts /\ NewText.dirty /\ NewTui \in [dirty : BOOLEAN] /\ NewTui.dirty
    BY DEF NewText, NewTui, Texts
  <2>3. named \in States /\ (named = m \/ Marked(named))
    <3> DEFINE b == txn[2]
    <3>1. CASE b = MODE_TEXT /\ Len(txn) > 1
      <4>1. named = [m EXCEPT !.active = MODE_TEXT, !.text = NewText]
        BY <3>1 DEF Switched, MODE_TEXT, MODE_TUI
      <4>. HIDE DEF named
      <4>. QED BY <2>2, <4>1 DEF States, Marked
    <3>2. CASE b = MODE_TUI /\ Len(txn) > 1
      <4>1. named = [m EXCEPT !.active = MODE_TUI, !.tui = NewTui]
        BY <3>2 DEF Switched, MODE_TEXT, MODE_TUI
      <4>. HIDE DEF named
      <4>2. named \in States /\ named.active = MODE_TUI /\ named.tui = NewTui BY <2>2, <4>1 DEF States
      <4>. QED BY <2>2, <4>2 DEF Marked, MODE_TEXT, MODE_TUI
    <3>3. CASE b \notin {MODE_TEXT, MODE_TUI} \/ ~(Len(txn) > 1) BY <3>3 DEF Switched
    <3>. QED BY <3>1, <3>2, <3>3
  <2>4. Handled(m, txn) = Consumed(named, rest) BY <1>3 DEF Handled
  <2>. HIDE DEF named, rest
  <2>5. Consumed(named, rest) \in States /\ (Consumed(named, rest) = named \/ Marked(Consumed(named, rest)))
    BY <2>1, <2>3, ConsumedType
  <2>. QED BY <2>3, <2>4, <2>5
<1>. QED BY <1>2, <1>3

LEMMA TxnHandled ==
  ASSUME Typed, HandleTxn
  PROVE  /\ hostQ' \in Seq(Txns) /\ Len(hostQ') <= QueueDepth
         /\ active' \in {MODE_TEXT, MODE_TUI} /\ text' \in Texts /\ tui' \in [dirty : BOOLEAN]
         /\ Dirty' \/ UNCHANGED <<active, text, tui>>
<1> DEFINE m == [active |-> active, text |-> text, tui |-> tui]
           r == Handled(m, Head(hostQ))
<1>1. m \in States BY DEF Typed, TypeOK, States, Texts
<1>2. hostQ # <<>> /\ hostQ' = Tail(hostQ) /\ active' = r.active /\ text' = r.text /\ tui' = r.tui
  BY DEF HandleTxn
<1>3. hostQ \in Seq(Txns) /\ Len(hostQ) <= QueueDepth /\ QueueDepth \in Nat
  BY ModesAssumption DEF Typed, TypeOK
<1>4. Head(hostQ) \in Txns BY <1>2, <1>3
<1>5. r \in States /\ (r = m \/ Marked(r))
  <2> HIDE DEF m
  <2>. QED BY <1>1, <1>4, HandledType
<1>6. hostQ' \in Seq(Txns) /\ Len(hostQ') <= QueueDepth BY <1>2, <1>3
<1>7. CASE r = m
  <2>1. m.active = active /\ m.text = text /\ m.tui = tui OBVIOUS
  <2> HIDE DEF r, m
  <2>. QED BY <1>1, <1>2, <1>6, <1>7, <2>1 DEF States
<1>8. CASE Marked(r)
  <2> HIDE DEF r
  <2>1. Dirty' BY <1>2, <1>8 DEF Dirty, Marked
  <2>. QED BY <1>2, <1>5, <1>6, <2>1 DEF States
<1>. QED BY <1>5, <1>7, <1>8

-----------------------------------------------------------------------------
(* What is to be seen. *)

LEMMA ViewType ==
  ASSUME NEW a \in {MODE_TEXT, MODE_TUI}, NEW t \in Texts, NEW v, v = Scene(List(a), Grid(t))
  PROVE  /\ v \in Frames /\ v # Nothing
         /\ Cmds(v) = IF a = MODE_TEXT THEN TextFrame(Grid(t)) ELSE TuiFrame
<1>1. List(MODE_TEXT) # List(MODE_TUI) /\ List(a) # <<>> BY ListsDiffer
<1>2. v.list = List(a) BY DEF Scene
<1>3. v # Nothing
  <2>1. Nothing.list = <<>> BY DEF Nothing, Scene
  <2>. QED BY <1>1, <1>2, <2>1
<1>4. CASE a = MODE_TEXT
  <2>1. Grid(t) = Grid([pic |-> t.pic, cursor |-> t.cursor]) BY DEF Grid
  <2>2. v = Scene(List(MODE_TEXT), Grid([pic |-> t.pic, cursor |-> t.cursor])) BY <1>4, <2>1
  <2>3. t.pic \in Pictures \cup {Empty} /\ t.cursor \in BOOLEAN BY DEF Texts
  <2>4. v \in Frames BY <2>2, <2>3 DEF Frames
  <2>5. v.grid = Grid(t) /\ TextScene(v) BY <1>2, <1>4 DEF Scene, TextScene
  <2>. QED BY <1>3, <1>4, <2>4, <2>5 DEF Cmds
<1>5. CASE a # MODE_TEXT
  <2>1. v = [list |-> List(MODE_TUI), grid |-> <<>>] BY <1>1, <1>5 DEF Scene
  <2>2. v = Scene(List(MODE_TUI), <<>>) BY <1>1, <2>1 DEF Scene
  <2>3. v \in Frames BY <2>2 DEF Frames
  <2>4. ~TextScene(v) BY <1>1, <1>2, <1>5 DEF TextScene
  <2>. QED BY <1>3, <1>5, <2>3, <2>4 DEF Cmds
<1>. QED BY <1>4, <1>5

LEMMA ViewTyped ==
  ASSUME Typed
  PROVE  View \in Frames /\ View # Nothing /\ Queue \in Seq(Frames) /\ Pending \in Seq(Commands)
<1>1. active \in {MODE_TEXT, MODE_TUI} /\ text \in Texts /\ sent \in Seq(Frames)
      /\ chan \in Seq(Commands) /\ out \in Seq(Commands)
  BY DEF Typed, DisplayTyped, TypeOK, Texts
<1>2. View \in Frames /\ View # Nothing BY <1>1, ViewType DEF View
<1>3. Queue \in Seq(Frames) BY <1>1, <1>2 DEF Queue
<1>4. Pending \in Seq(Commands) BY <1>1 DEF Pending
<1>. QED BY <1>2, <1>3, <1>4

-----------------------------------------------------------------------------
(* Steps that leave the frames under way alone. *)

LEMMA FramesStand ==
  ASSUME Framed, Shown, UNCHANGED <<out, chan, sent, displayVars>>,
         UNCHANGED <<mpc, active, text>> \/ (mpc # "render" /\ mpc' # "render")
  PROVE  Framed' /\ Shown'
<1>1. PICK s : Under(s) BY DEF Framed
<1>2. Pending' = Pending BY DEF Pending
<1>3. Queue' = Queue BY DEF Queue, View
<1>4. \A v, c : Progress(v, c)' = Progress(v, c) BY DEF Progress, displayVars, bulkVars, chipVars
<1>5. Under(s)' BY <1>1, <1>2, <1>3, <1>4 DEF Under, displayVars, bulkVars, chipVars
<1>6. Shown' BY <1>3 DEF Shown, displayVars, chipVars
<1>. QED BY <1>5, <1>6 DEF Framed

\* What the display task has is as it was.
LEMMA TypedStands ==
  ASSUME DisplayTyped, UNCHANGED <<chan, sent, displayVars>>
  PROVE  /\ DisplayTyped'
         /\ Len(chan') <= ChanDepth /\ Len(bulkBuf') <= BulkCapacity
         /\ dpc' \in {"receive", "bulk"} /\ (bulkBuf' # <<>> => bulkAddr' \/ dpc' = "bulk")
         /\ written' \in 0 .. Len(bulkBuf')
         /\ swapping' \in BOOLEAN /\ list' \in {"none", "begun", "torn"}
BY DEF DisplayTyped, displayVars, bulkVars, chipVars

\* A clean mode is left clean only by steps that leave what it shows.
LEMMA RedrawnStands ==
  ASSUME Redrawn, UNCHANGED <<sent, asked>>,
         Dirty' \/ UNCHANGED <<active, text, tui>>, mpc' = "render" => mpc = "render" \/ Dirty'
  PROVE  Redrawn'
BY DEF Redrawn, CleanIsDrawn, Newest, Dirty, View

LEMMA HostSendsKeeps ==
  ASSUME IInv, NEW txn \in Txns, HostSends(txn)
  PROVE  IInv'
<1>1. UNCHANGED <<out, chan, sent, displayVars, mpc, active, text, tui>> BY DEF HostSends, managerVars
<1>2. Framed' /\ Shown' BY <1>1, FramesStand DEF IInv
<1>3. Redrawn' BY <1>1, RedrawnStands DEF IInv, displayVars
<1>4. Typed'
  <2>1. hostQ \in Seq(Txns) /\ Len(hostQ) < QueueDepth /\ hostQ' = Append(hostQ, txn)
    BY DEF HostSends, IInv, Typed, DisplayTyped
  <2>2. QueueDepth \in Nat BY ModesAssumption
  <2>3. hostQ' \in Seq(Txns) /\ Len(hostQ') <= QueueDepth BY <2>1, <2>2
  <2>. QED BY <1>1, <2>3, TypedStands DEF IInv, Typed, TypeOK, HostSends, managerVars
<1>. QED BY <1>2, <1>3, <1>4 DEF IInv

LEMMA TickerTicksKeeps ==
  ASSUME IInv, TickerTicks
  PROVE  IInv'
<1>1. UNCHANGED <<out, chan, sent, displayVars, mpc, active, text, tui>> BY DEF TickerTicks, managerVars
<1>2. Framed' /\ Shown' BY <1>1, FramesStand DEF IInv
<1>3. Redrawn' BY <1>1, RedrawnStands DEF IInv, displayVars
<1>4. Typed'
  <2>1. MaxBacklog \in Nat BY ModesAssumption
  <2>0. backlog \in Nat BY DEF IInv, Typed, DisplayTyped
  <2>2. backlog' \in 0 .. MaxBacklog /\ backlog' \in Nat
    BY <2>0, <2>1 DEF TickerTicks
  <2>. QED BY <1>1, <2>2, TypedStands DEF IInv, Typed, TypeOK, TickerTicks, managerVars
<1>. QED BY <1>2, <1>3, <1>4 DEF IInv

\* Wherever the manager handles a transaction.
LEMMA TxnKeeps ==
  ASSUME IInv, HandleTxn, UNCHANGED <<backlog, renderPending, out, chan, displayVars, sent>>,
         mpc # "render", mpc' \in {"drain", "drained late"}
  PROVE  IInv'
<1>1. Framed' /\ Shown' BY FramesStand DEF IInv
<1>2. /\ hostQ' \in Seq(Txns) /\ Len(hostQ') <= QueueDepth
      /\ active' \in {MODE_TEXT, MODE_TUI} /\ text' \in Texts /\ tui' \in [dirty : BOOLEAN]
      /\ Dirty' \/ UNCHANGED <<active, text, tui>>
  BY TxnHandled DEF IInv
<1>3. Redrawn' BY <1>2, RedrawnStands DEF IInv, displayVars
<1>4. Typed' BY <1>2, TypedStands DEF IInv, Typed, TypeOK, Texts
<1>. QED BY <1>1, <1>3, <1>4 DEF IInv

LEMMA WaitTickKeeps ==
  ASSUME IInv, WaitTick
  PROVE  IInv'
<1>1. UNCHANGED <<hostQ, active, text, tui, out, chan, displayVars, sent>>
      /\ mpc = "wait" /\ mpc' = "drain" BY DEF WaitTick
<1>2. Framed' /\ Shown' BY <1>1, FramesStand DEF IInv
<1>3. Redrawn' BY <1>1, RedrawnStands DEF IInv, displayVars
<1>4. Typed'
  <2>1. MaxBacklog \in Nat BY ModesAssumption
  <2>2. backlog' \in 0 .. MaxBacklog /\ backlog' \in Nat /\ renderPending' \in BOOLEAN
    BY <2>1 DEF WaitTick, IInv, Typed, DisplayTyped, TypeOK
  <2>. QED BY <1>1, <2>2, TypedStands DEF IInv, Typed, TypeOK
<1>. QED BY <1>2, <1>3, <1>4 DEF IInv

LEMMA DrainKeeps ==
  ASSUME IInv, Drain
  PROVE  IInv'
<1>1. CASE hostQ # <<>>
  <2>1. HandleTxn /\ mpc' = mpc /\ mpc \in {"drain", "drained late"}
        /\ UNCHANGED <<backlog, renderPending, out, chan, displayVars, sent>>
    BY <1>1 DEF Drain
  <2>. QED BY <2>1, TxnKeeps
<1>2. CASE hostQ = <<>>
  <2>1. /\ UNCHANGED <<hostQ, active, text, tui, backlog, renderPending, out, chan, displayVars, sent>>
        /\ mpc \in {"drain", "drained late"} /\ mpc' \in {"check", "wait"}
    BY <1>2 DEF Drain
  <2>2. Framed' /\ Shown' BY <2>1, FramesStand DEF IInv
  <2>3. Redrawn' BY <2>1, RedrawnStands DEF IInv, displayVars
  <2>4. Typed' BY <2>1, TypedStands DEF IInv, Typed, TypeOK
  <2>. QED BY <2>2, <2>3, <2>4 DEF IInv
<1>. QED BY <1>1, <1>2

-----------------------------------------------------------------------------
(* Steps of render. *)

\* A tick leaves the text mode as it is or leaves it dirty.
LEMMA TickedType ==
  ASSUME Typed, NEW t \in Ticked
  PROVE  t \in Texts /\ (t = text \/ (active = MODE_TEXT /\ t.dirty))
<1>1. text \in Texts BY DEF Typed, DisplayTyped, TypeOK, Texts
<1> DEFINE b == [text EXCEPT !.cursor = ~@, !.dirty = TRUE]
<1>2. b \in Texts /\ b.dirty BY <1>1 DEF Texts
<1>3. t = text \/ (active = MODE_TEXT /\ t = b) BY DEF Ticked
<1>. QED BY <1>1, <1>2, <1>3

LEMMA CheckRenderKeeps ==
  ASSUME IInv, CheckRender
  PROVE  IInv' /\ (mpc' = "render" => View' \in Frames)
<1>1. /\ mpc = "check" /\ renderPending' = FALSE /\ text' \in Ticked
      /\ out' = FrameOf(active, text', tui)
      /\ mpc' = IF out' = <<>> THEN "wait" ELSE "render"
      /\ UNCHANGED <<hostQ, backlog, active, tui, chan, displayVars, sent>>
  BY DEF CheckRender
<1>2. Typed BY DEF IInv
<1>3. text' \in Texts /\ (text' = text \/ (active = MODE_TEXT /\ text'.dirty)) BY <1>1, <1>2, TickedType
<1>4. active \in {MODE_TEXT, MODE_TUI} /\ tui \in [dirty : BOOLEAN] /\ out = <<>>
      /\ chan \in Seq(Commands) /\ sent \in Seq(Frames)
  BY <1>1, <1>2 DEF Typed, DisplayTyped, TypeOK
<1> DEFINE v == Scene(List(active), Grid(text'))
<1>5. v = View' BY <1>1 DEF View
<1>6. v \in Frames /\ Cmds(v) = IF active = MODE_TEXT THEN TextFrame(Grid(text')) ELSE TuiFrame
  BY <1>3, <1>4, ViewType
<1> HIDE DEF v
<1>7. Cmds(v) \in Seq(Commands) /\ Len(Cmds(v)) \in Nat \ {0} BY <1>6, CmdsType
<1>8. out' = IF Dirty' THEN Cmds(v) ELSE <<>>
  BY <1>1, <1>6 DEF FrameOf, Dirty
<1>9. Dirty' \/ UNCHANGED <<active, text, tui>> BY <1>1, <1>3 DEF Dirty
<1>10. /\ out' \in Seq(Commands) /\ (mpc' = "render" <=> out' # <<>>) /\ (mpc' = "render" <=> Dirty')
       /\ mpc' \in {"wait", "render"}
  <2>1. Cmds(v) # <<>> BY <1>7
  <2>. QED BY <1>1, <1>7, <1>8, <2>1
<1>11. Redrawn' BY <1>1, <1>9, <1>10, RedrawnStands DEF IInv, displayVars
<1>12. Typed' BY <1>1, <1>2, <1>3, <1>10, TypedStands DEF Typed, TypeOK, Texts
<1>13. Framed' /\ Shown'
  <2>1. PICK s : Under(s) BY DEF IInv, Framed
  <2>2. Pending = chan /\ Queue = sent BY <1>1, <1>4 DEF Pending, Queue
  <2>3. \A w, c : Progress(w, c)' = Progress(w, c) BY <1>1 DEF Progress, displayVars, bulkVars, chipVars
  <2>0. UNCHANGED <<dpc, list>> BY <1>1 DEF displayVars, bulkVars
  <2>6. Queue' = <<>> => Queue = <<>>
    <3>1. CASE mpc' = "render"
      <4>1. Queue' = Append(sent, v) BY <1>1, <1>5, <1>10, <3>1 DEF Queue
      <4>2. Len(Append(sent, v)) = Len(sent) + 1 /\ Len(sent) \in Nat BY <1>4, <1>6
      <4>3. Len(<<>>) = 0 OBVIOUS
      <4>. QED BY <4>1, <4>2, <4>3
    <3>2. CASE mpc' = "wait" BY <1>1, <2>2, <3>2 DEF Queue
    <3>. QED BY <1>10, <3>1, <3>2
  <2>7. Shown' BY <1>1, <2>6 DEF IInv, Shown, displayVars, chipVars
  <2>4. CASE mpc' = "wait"
    <3>1. Pending' = Pending /\ Queue' = Queue BY <1>1, <1>4, <1>10, <2>2, <2>4 DEF Pending, Queue
    <3>2. Under(s)' BY <2>0, <2>1, <2>3, <3>1 DEF Under
    <3>. QED BY <2>7, <3>2 DEF Framed
  <2>5. CASE mpc' = "render"
    <3>1. Pending' = chan \o Cmds(v) /\ Queue' = Append(sent, v)
      BY <1>1, <1>5, <1>8, <1>10, <2>5 DEF Pending, Queue
    <3>2. Cuts(s, chan, sent) BY <2>1, <2>2 DEF Under
    <3>3. PICK r : Cuts(r, chan \o Cmds(v), Append(sent, v)) /\ r[1] = s[1]
      BY <1>4, <1>6, <3>2, CutsOffer
    <3>6. PICK w : w = Append(sent, v)[1] OBVIOUS
    <3>4. Progress(w, -r[1])
      <4>1. CASE sent = <<>>
        <5>1. r[1] = 0 BY <3>2, <3>3, <4>1 DEF Cuts
        <5>2. -r[1] = 0
          <6>1. r[1] \in Int /\ r[1] <= 0 /\ r[1] >= 0 BY <5>1
          <6>. QED BY <6>1, NegatedZero
        <5>3. Progress(w, 0)
          <6>1. FrameLen \in Nat \ {0} /\ TuiDl \in Nat BY ModesAssumption
          <6>2. dpc = "receive" /\ list = "none" BY <2>1, <2>2, <4>1 DEF Under
          <6>3. 1 .. 0 - FrameLen - 2 = {} /\ 0 \notin 1 .. FrameLen + 1 /\ 0 <= FrameLen + 2
                /\ ~(0 >= FrameLen + 2) /\ 1 .. 0 = {}
            BY <6>1
          <6>. QED BY <6>2, <6>3 DEF Progress
        <5>. QED BY <5>1, <5>2, <5>3
      <4>2. CASE sent # <<>>
        <5>1. w = sent[1] BY <1>4, <1>6, <3>6, <4>2
        <5>2. Progress(sent[1], -s[1]) BY <2>1, <2>2, <4>2 DEF Under
        <5>3. -r[1] = -s[1] BY <3>3
        <5>. QED BY <5>1, <5>2, <5>3
      <4>. QED BY <4>1, <4>2
    <3>5. Under(r)'
      <4>1. Cuts(r, Pending', Queue') BY <3>1, <3>3
      <4>2. Progress(w, -r[1])' BY <2>3, <3>4
      <4>3. Queue' # <<>> /\ Queue'[1] = w BY <1>4, <1>6, <3>1, <3>6
      <4>. QED BY <4>1, <4>2, <4>3 DEF Under
    <3>. QED BY <2>7, <3>5 DEF Framed
  <2>. QED BY <1>10, <2>4, <2>5
<1>. QED BY <1>5, <1>6, <1>11, <1>12, <1>13 DEF IInv

LEMMA SendKeeps ==
  ASSUME IInv, Send
  PROVE  IInv'
<1>1. /\ mpc = "render" /\ Len(chan) < ChanDepth
      /\ chan' = Append(chan, Head(out)) /\ out' = Tail(out)
      /\ UNCHANGED <<hostQ, backlog, renderPending, active, displayVars>>
  BY DEF Send, Room
<1>2. /\ Typed /\ out # <<>> /\ chan \in Seq(Commands) /\ out \in Seq(Commands)
      /\ sent \in Seq(Frames) /\ View \in Frames
      /\ active \in {MODE_TEXT, MODE_TUI} /\ text \in Texts /\ tui \in [dirty : BOOLEAN]
  BY <1>1, ViewTyped DEF IInv, Typed, DisplayTyped, TypeOK, Texts
<1>3. /\ chan' \in Seq(Commands) /\ out' \in Seq(Commands) /\ Pending' = Pending
  BY <1>1, <1>2, Moves DEF Pending
<1>4. Len(chan') <= ChanDepth
  <2>1. ChanDepth \in Nat BY ModesAssumption
  <2>. QED BY <1>1, <1>2, <2>1
<1>5. \A w, c : Progress(w, c)' = Progress(w, c) BY <1>1 DEF Progress, displayVars, bulkVars, chipVars
<1>6. PICK s : Under(s) BY DEF IInv, Framed
<1>7. Queue' = Queue => Framed' /\ Shown'
  <2>0. UNCHANGED <<dpc, list>> BY <1>1 DEF displayVars, bulkVars
  <2>1. Queue' = Queue => Under(s)' BY <1>3, <1>5, <1>6, <2>0 DEF Under
  <2>2. Queue' = Queue => Shown' BY <1>1 DEF IInv, Shown, displayVars, chipVars
  <2>. QED BY <2>1, <2>2 DEF Framed
<1>8. sent' \in Seq(Frames) => /\ DisplayTyped'
      /\ Len(bulkBuf') <= BulkCapacity
      /\ dpc' \in {"receive", "bulk"} /\ (bulkBuf' # <<>> => bulkAddr' \/ dpc' = "bulk")
      /\ written' \in 0 .. Len(bulkBuf')
      /\ swapping' \in BOOLEAN /\ list' \in {"none", "begun", "torn"}
  <2>1. DisplayTyped BY <1>2 DEF Typed
  <2>. QED BY <1>1, <1>3, <1>4, <2>1 DEF DisplayTyped, displayVars, bulkVars, chipVars
<1>9. CASE Tail(out) # <<>>
  <2>1. UNCHANGED <<mpc, text, tui, sent>> BY <1>9 DEF Send
  <2>2. Queue' = Queue BY <1>1, <2>1 DEF Queue, View
  <2>3. Redrawn' BY <1>1, <2>1, RedrawnStands DEF IInv, displayVars
  <2>4. Typed' BY <1>1, <1>2, <1>3, <1>4, <1>8, <1>9, <2>1 DEF Typed, TypeOK
  <2>. QED BY <1>7, <2>2, <2>3, <2>4 DEF IInv
<1>10. CASE Tail(out) = <<>>
  <2>1. /\ mpc' = "wait"
        /\ text' = IF active = MODE_TEXT THEN [text EXCEPT !.dirty = FALSE] ELSE text
        /\ tui' = IF active = MODE_TUI THEN [tui EXCEPT !.dirty = FALSE] ELSE tui
        /\ sent' = Append(sent, View)
    BY <1>10 DEF Send
  <2>2. Queue' = Queue BY <1>1, <2>1 DEF Queue
  <2>3. text' \in Texts /\ tui' \in [dirty : BOOLEAN] /\ text'.pic = text.pic /\ text'.cursor = text.cursor
    BY <1>2, <2>1 DEF Texts
  <2>4. View' = View BY <1>1, <2>3 DEF View, Grid
  <2>5. sent' \in Seq(Frames) /\ Newest' = View
    <3>0. \A q \in Seq(Frames), w \in Frames :
            Append(q, w) \in Seq(Frames) /\ Append(q, w) # <<>> /\ Append(q, w)[Len(Append(q, w))] = w
      OBVIOUS
    <3>1. sent' \in Seq(Frames) /\ sent' # <<>> /\ sent'[Len(sent')] = View BY <1>2, <2>1, <3>0
    <3>. QED BY <3>1 DEF Newest
  <2>6. Redrawn' BY <2>1, <2>4, <2>5 DEF Redrawn, CleanIsDrawn
  <2>7. Typed' BY <1>1, <1>2, <1>3, <1>4, <1>8, <1>10, <2>1, <2>3, <2>5 DEF Typed, TypeOK, Texts
  <2>. QED BY <1>7, <2>2, <2>6, <2>7 DEF IInv
<1>. QED BY <1>9, <1>10

-----------------------------------------------------------------------------
(* Steps of the display task. *)

\* What the next command x is says how many commands c of a frame were done.
CommandAt(v, c, x) ==
  /\ x.op = "swap" <=> c + 1 = Len(Cmds(v))
  /\ x.op = "begin" => TextScene(v) /\ c = 0
  /\ x.op = "byte" => TextScene(v) /\ c \in 1 .. FrameLen /\ x.byte = v.grid[c]
  /\ x.op = "end" => TextScene(v) /\ c = FrameLen + 1
  /\ x.op = "write" =>
       IF TextScene(v)
       THEN /\ c >= FrameLen + 2 /\ x.at = c - FrameLen - 1 /\ x.at \in 1 .. TextDl
            /\ x.entry = List(MODE_TEXT)[x.at]
       ELSE /\ x.at = c + 1 /\ x.at \in 1 .. TuiDl /\ x.entry = List(MODE_TUI)[x.at]

LEMMA NextCommand ==
  ASSUME NEW v \in Frames, NEW c \in 0 .. Len(Cmds(v)) - 1, NEW x, x = Cmds(v)[c + 1]
  PROVE  CommandAt(v, c, x)
<1> USE DEF CommandAt
<1>0. FrameLen \in Nat \ {0} /\ TextDl \in Nat \ {0} /\ TuiDl \in Nat \ {0} BY ModesAssumption
<1>1. CASE TextScene(v)
  <2> DEFINE F == TextFrame(v.grid)
  <2>1. PICK p \in Pictures \cup {Empty}, b \in BOOLEAN :
          v = [list |-> List(MODE_TEXT), grid |-> Grid([pic |-> p, cursor |-> b])]
    BY <1>1, FrameType
  <2>2. \A i \in 1 .. FrameLen : v.grid[i] \in Cells BY <2>1, GridType
  <2>3. /\ Len(F) = FrameLen + TextDl + 3
        /\ F[1] = Op("begin") /\ F[FrameLen + 2] = Op("end")
        /\ F[FrameLen + TextDl + 3] = Op("swap")
        /\ \A i \in 1 .. FrameLen : F[i + 1] = [op |-> "byte", byte |-> v.grid[i]]
        /\ \A i \in 1 .. TextDl :
             F[FrameLen + 2 + i] = [op |-> "write", at |-> i, entry |-> List(MODE_TEXT)[i]]
    BY <2>2, TextFrameAt
  <2>4. Cmds(v) = F BY <1>1 DEF Cmds
  <2> HIDE DEF F
  <2>5. c \in Nat /\ c <= FrameLen + TextDl + 2 BY <1>0, <2>3, <2>4
  <2>6. CASE c = 0
    <3>1. x.op = "begin" BY <2>3, <2>4, <2>6 DEF Op
    <3>. QED BY <1>0, <1>1, <2>3, <2>4, <2>6, <3>1
  <2>7. CASE c \in 1 .. FrameLen
    <3>1. x = [op |-> "byte", byte |-> v.grid[c]] BY <2>3, <2>4, <2>7
    <3>2. x.op = "byte" /\ x.byte = v.grid[c] BY <3>1
    <3>3. c + 1 # Len(Cmds(v)) BY <1>0, <2>3, <2>4, <2>7
    <3>. QED BY <1>1, <2>7, <3>2, <3>3
  <2>8. CASE c = FrameLen + 1
    <3>1. c + 1 = FrameLen + 2 BY <1>0, <2>8
    <3>2. x.op = "end" BY <2>3, <2>4, <3>1 DEF Op
    <3>3. c + 1 # Len(Cmds(v)) BY <1>0, <2>3, <2>4, <2>8
    <3>. QED BY <1>1, <2>8, <3>2, <3>3
  <2>9. CASE c \in FrameLen + 2 .. FrameLen + TextDl + 1
    <3> DEFINE i == c - FrameLen - 1
    <3>1. i \in 1 .. TextDl /\ c + 1 = FrameLen + 2 + i BY <1>0, <2>9
    <3>2. x = [op |-> "write", at |-> i, entry |-> List(MODE_TEXT)[i]] BY <2>3, <2>4, <3>1
    <3>3. x.op = "write" /\ x.at = i /\ x.entry = List(MODE_TEXT)[i] BY <3>2
    <3>4. c + 1 # Len(Cmds(v)) BY <1>0, <2>3, <2>4, <2>9
    <3>5. c >= FrameLen + 2 BY <2>9
    <3>. QED BY <1>1, <3>1, <3>3, <3>4, <3>5
  <2>10. CASE c = FrameLen + TextDl + 2
    <3>1. c + 1 = FrameLen + TextDl + 3 BY <1>0, <2>10
    <3>2. x.op = "swap" BY <2>3, <2>4, <3>1 DEF Op
    <3>. QED BY <2>3, <2>4, <3>1, <3>2
  <2>. QED BY <1>0, <2>5, <2>6, <2>7, <2>8, <2>9, <2>10
<1>2. CASE ~TextScene(v)
  <2>1. Cmds(v) = TuiFrame BY <1>2 DEF Cmds
  <2>2. c \in 0 .. TuiDl BY <1>0, <2>1, TuiFrameAt
  <2>3. CASE c = TuiDl
    <3>1. x.op = "swap" BY <2>1, <2>3, TuiFrameAt DEF Op
    <3>2. c + 1 = Len(Cmds(v)) BY <2>1, <2>3, TuiFrameAt
    <3>. QED BY <3>1, <3>2
  <2>4. CASE c \in 0 .. TuiDl - 1
    <3>1. c + 1 \in 1 .. TuiDl BY <1>0, <2>4
    <3>2. x = [op |-> "write", at |-> c + 1, entry |-> List(MODE_TUI)[c + 1]] BY <2>1, <3>1, TuiFrameAt
    <3>3. x.op = "write" /\ x.at = c + 1 /\ x.entry = List(MODE_TUI)[c + 1] BY <3>2
    <3>4. c + 1 # Len(Cmds(v)) BY <1>0, <2>1, <2>4, TuiFrameAt
    <3>. QED BY <1>2, <3>1, <3>3, <3>4
  <2>. QED BY <1>0, <2>2, <2>3, <2>4
<1>. QED BY <1>1, <1>2

\* The command that is taken belongs to the oldest frame under way.
Foremost(s, v, c) ==
  /\ Under(s) /\ Queue # <<>> /\ Queue \in Seq(Frames) /\ v = Queue[1] /\ v \in Frames
  /\ c = -s[1] /\ c \in 0 .. Len(Cmds(v)) - 1 /\ 1 - s[1] = c + 1
  /\ CommandAt(v, c, Head(chan)) /\ Progress(v, c)
  /\ Pending \in Seq(Commands) /\ Pending # <<>>
  /\ c + 1 = Len(Cmds(v)) => sent # <<>>

LEMMA Taken ==
  ASSUME Typed, Framed, chan # <<>>
  PROVE  \E s, v, c : Foremost(s, v, c)
<1>0. PICK s : Under(s) BY DEF Framed
<1>1. chan \in Seq(Commands) /\ out \in Seq(Commands) /\ sent \in Seq(Frames) /\ (mpc = "render" <=> out # <<>>)
  BY DEF Typed, DisplayTyped, TypeOK
<1>2. Queue \in Seq(Frames) /\ Pending \in Seq(Commands) BY ViewTyped
<1>3. Pending # <<>> /\ Head(chan) = Pending[1] BY <1>1, Takes DEF Pending
<1>4. Cuts(s, Pending, Queue) BY <1>0 DEF Under
<1>5. /\ Queue # <<>> /\ Queue[1] \in Frames /\ -s[1] \in 0 .. Len(Cmds(Queue[1])) - 1
      /\ Pending[1] = Cmds(Queue[1])[1 - s[1]]
      /\ 1 - s[1] = Len(Cmds(Queue[1])) /\ Len(Queue) = 1 => Len(Pending) = 1
  BY <1>2, <1>3, <1>4, CutsHead
<1>6. s[1] \in Int
  <2>1. 1 \in 1 .. Len(Queue) + 1 /\ s \in [1 .. Len(Queue) + 1 -> Int] BY <1>2, <1>4 DEF Cuts
  <2>. QED BY <2>1
<1>7. ASSUME 1 - s[1] = Len(Cmds(Queue[1])), sent = <<>> PROVE FALSE
  <2>1. mpc = "render" /\ Queue = Append(sent, View) BY <1>5, <1>7 DEF Queue
  <2>2. Len(Queue) = 1 BY <1>1, <1>7, <2>1
  <2>3. Len(chan \o out) = 1 BY <1>5, <1>7, <2>2 DEF Pending
  <2>4. out # <<>> BY <1>1, <2>1
  <2>. QED BY <1>1, <2>3, <2>4
<1>8. 1 - s[1] = -s[1] + 1 BY <1>6
<1>9. CommandAt(Queue[1], -s[1], Head(chan)) BY <1>3, <1>5, <1>8, NextCommand
<1>10. Progress(Queue[1], -s[1]) BY <1>0, <1>5 DEF Under
<1>11. Foremost(s, Queue[1], -s[1]) BY <1>0, <1>2, <1>3, <1>4, <1>5, <1>6, <1>7, <1>8, <1>9, <1>10 DEF Foremost
<1>. QED BY <1>11

\* A command that does not end the frame, done as it should be.
LEMMA Advances ==
  ASSUME IInv, NEW s, NEW v, NEW c, Foremost(s, v, c), Head(chan).op # "swap",
         chan # <<>>, chan' = Tail(chan), UNCHANGED <<managerVars, sent>>,
         Progress(v, c + 1)'
  PROVE  Framed' /\ chan' \in Seq(Commands) /\ Len(chan') <= ChanDepth /\ Queue' # <<>>
<1>1. /\ Cuts(s, Pending, Queue) /\ Queue # <<>> /\ Queue \in Seq(Frames)
      /\ v = Queue[1] /\ 1 - s[1] = c + 1 /\ Pending \in Seq(Commands) /\ Pending # <<>>
  BY DEF Foremost, Under
<1>2. 1 - s[1] # Len(Cmds(Queue[1])) BY DEF Foremost, CommandAt
<1>3. PICK r : Cuts(r, Tail(Pending), Queue) /\ -r[1] = 1 - s[1] BY <1>1, <1>2, CutsAdvance
<1>4. chan \in Seq(Commands) /\ out \in Seq(Commands) /\ Len(chan) <= ChanDepth /\ ChanDepth \in Nat
  BY ModesAssumption DEF IInv, Typed, DisplayTyped, TypeOK
<1>5. Pending' = Tail(Pending) BY <1>4, Takes DEF Pending, managerVars
<1>6. Queue' = Queue BY DEF Queue, View, managerVars
<1>7. chan' \in Seq(Commands) /\ Len(chan') <= ChanDepth BY <1>4
<1>8. Under(r)'
  <2>1. Cuts(r, Pending', Queue') BY <1>3, <1>5, <1>6
  <2>2. Queue'[1] = v /\ -r[1] = c + 1 BY <1>1, <1>3, <1>6
  <2>. QED BY <1>1, <1>6, <2>1, <2>2 DEF Under
<1>. QED BY <1>1, <1>6, <1>7, <1>8 DEF Framed

\* The manager's part of the types.
\* The manager's part of the types.
LEMMA TypedRest ==
  ASSUME Typed, UNCHANGED <<hostQ, backlog, managerVars>>, DisplayTyped'
  PROVE  Typed'
BY DEF Typed, TypeOK, managerVars, DisplayTyped

LEMMA BeginBulkKeeps ==
  ASSUME IInv, BeginBulk
  PROVE  IInv'
<1>1. /\ chan # <<>> /\ Head(chan).op = "begin" /\ chan' = Tail(chan) /\ dpc = "receive"
      /\ UNCHANGED <<hostQ, backlog, managerVars>>
      /\ bulkAddr' = TRUE /\ bulkBuf' = <<>>
      /\ UNCHANGED <<dpc, written, ramG, ramDl, front, swapping, sent, asked, list>>
  BY DEF BeginBulk, Take, chipVars
<1>2. PICK s, v, c : Foremost(s, v, c) BY <1>1, Taken DEF IInv
<1>3. v \in Frames /\ Progress(v, c) /\ CommandAt(v, c, Head(chan)) BY <1>2 DEF Foremost
<1>4. TextScene(v) /\ c = 0 BY <1>1, <1>3 DEF CommandAt
<1>5. Progress(v, c + 1)'
  <2>1. FrameLen \in Nat \ {0} BY ModesAssumption
  <2>2. <<>> = [i \in 1 .. 0 |-> v.grid[i]] OBVIOUS
  <2>3. c + 1 = 1 /\ (c + 1) - 1 = 0 /\ ~(c + 1 >= FrameLen + 2) /\ 1 .. (c + 1) - FrameLen - 2 = {}
        /\ c <= FrameLen + 2 /\ c + 1 <= FrameLen + 2
    BY <1>4, <2>1
  <2>4. list = "none" BY <1>3, <1>4, <2>3 DEF Progress
  <2>. QED BY <1>1, <1>4, <2>2, <2>3, <2>4 DEF Progress
<1>6. Framed' /\ chan' \in Seq(Commands) /\ Len(chan') <= ChanDepth /\ Queue' # <<>>
  <2>1. Head(chan).op # "swap" BY <1>1
  <2>. QED BY <1>1, <1>2, <1>5, <2>1, Advances
<1>7. Typed'
  <2>1. bulkBuf' \in Seq(Cells) /\ Len(bulkBuf') = 0 BY <1>1
  <2>2. DisplayTyped /\ Typed /\ BulkCapacity \in Nat BY ModesAssumption DEF IInv, Typed
  <2>3. DisplayTyped' BY <1>1, <1>6, <2>1, <2>2 DEF DisplayTyped
  <2>. QED BY <1>1, <2>2, <2>3, TypedRest
<1>8. Redrawn' BY <1>1, RedrawnStands DEF IInv, managerVars
<1>9. Shown' BY <1>1, <1>6 DEF IInv, Shown
<1>. QED BY <1>6, <1>7, <1>8, <1>9 DEF IInv

LEMMA BulkByteKeeps ==
  ASSUME IInv, BulkByte
  PROVE  IInv'
<1>1. /\ chan # <<>> /\ Head(chan).op = "byte" /\ chan' = Tail(chan) /\ dpc = "receive"
      /\ UNCHANGED <<hostQ, backlog, managerVars>>
      /\ bulkBuf' = IF Len(bulkBuf) < BulkCapacity THEN Append(bulkBuf, Head(chan).byte) ELSE bulkBuf
      /\ UNCHANGED <<dpc, bulkAddr, written, ramG, ramDl, front, swapping, sent, asked, list>>
  BY DEF BulkByte, Take, chipVars
<1>2. PICK s, v, c : Foremost(s, v, c) BY <1>1, Taken DEF IInv
<1>3. v \in Frames /\ Progress(v, c) /\ CommandAt(v, c, Head(chan)) BY <1>2 DEF Foremost
<1>4. TextScene(v) /\ c \in 1 .. FrameLen /\ Head(chan).byte = v.grid[c] BY <1>1, <1>3 DEF CommandAt
<1>5. FrameLen \in Nat \ {0} /\ BulkCapacity \in Nat /\ BulkCapacity >= FrameLen BY ModesAssumption
<1>6. bulkAddr /\ bulkBuf = [i \in 1 .. c - 1 |-> v.grid[i]] BY <1>3, <1>4, <1>5 DEF Progress
<1>7. bulkBuf \in Seq(Cells) /\ Len(bulkBuf) = c - 1
  <2>1. c - 1 \in Nat BY <1>4
  <2>. QED BY <1>6, <2>1 DEF IInv, Typed, DisplayTyped
<1>8. v.grid[c] \in Cells
  <2>1. PICK p \in Pictures \cup {Empty}, b \in BOOLEAN :
          v = [list |-> List(MODE_TEXT), grid |-> Grid([pic |-> p, cursor |-> b])]
    BY <1>3, <1>4, FrameType
  <2>. QED BY <1>4, <2>1, GridType
<1>9. bulkBuf' = Append(bulkBuf, v.grid[c]) BY <1>1, <1>4, <1>5, <1>7
<1>10. bulkBuf' \in Seq(Cells) /\ Len(bulkBuf') = c BY <1>4, <1>7, <1>8, <1>9
<1>11. bulkBuf' = [i \in 1 .. c |-> v.grid[i]]
  <2>1. ASSUME NEW i \in 1 .. c PROVE bulkBuf'[i] = v.grid[i]
    <3>1. CASE i = c BY <1>4, <1>7, <1>9, <3>1
    <3>2. CASE i # c
      <4>1. i \in 1 .. c - 1 BY <1>4, <3>2
      <4>2. bulkBuf[i] = v.grid[i] BY <1>6, <4>1
      <4>3. Append(bulkBuf, v.grid[c])[i] = bulkBuf[i] BY <1>7, <4>1
      <4>. QED BY <1>9, <4>2, <4>3
    <3>. QED BY <3>1, <3>2
  <2>. QED BY <1>10, <2>1
<1>12. Progress(v, c + 1)'
  <2>1. (c + 1) - 1 = c /\ ~(c + 1 >= FrameLen + 2) /\ 1 .. (c + 1) - FrameLen - 2 = {}
        /\ c <= FrameLen + 2 /\ c + 1 <= FrameLen + 2
    BY <1>4, <1>5
  <2>2. list = "none" BY <1>3, <1>4, <2>1 DEF Progress
  <2>. QED BY <1>1, <1>4, <1>6, <1>11, <2>1, <2>2 DEF Progress
<1>13. Framed' /\ chan' \in Seq(Commands) /\ Len(chan') <= ChanDepth /\ Queue' # <<>>
  <2>1. Head(chan).op # "swap" BY <1>1
  <2>. QED BY <1>1, <1>2, <1>12, <2>1, Advances
<1>14. Typed'
  <2>1. Len(bulkBuf') <= BulkCapacity /\ bulkAddr' BY <1>1, <1>4, <1>5, <1>6, <1>10
  <2>2. DisplayTyped /\ Typed BY DEF IInv, Typed
  <2>3. written' \in 0 .. Len(bulkBuf') BY <1>1, <1>4, <1>10, <2>2 DEF DisplayTyped
  <2>4. DisplayTyped' BY <1>1, <1>10, <1>13, <2>1, <2>2, <2>3 DEF DisplayTyped
  <2>. QED BY <1>1, <2>2, <2>4, TypedRest
<1>15. Redrawn' BY <1>1, RedrawnStands DEF IInv, managerVars
<1>16. Shown' BY <1>1, <1>13 DEF IInv, Shown
<1>. QED BY <1>13, <1>14, <1>15, <1>16 DEF IInv

LEMMA EndBulkKeeps ==
  ASSUME IInv, EndBulk
  PROVE  IInv'
<1>1. /\ chan # <<>> /\ Head(chan).op = "end" /\ chan' = Tail(chan) /\ dpc = "receive"
      /\ UNCHANGED <<hostQ, backlog, managerVars>>
      /\ bulkAddr' = FALSE /\ dpc' = IF bulkAddr THEN "bulk" ELSE dpc
      /\ UNCHANGED <<bulkBuf, written, ramG, ramDl, front, swapping, sent, asked, list>>
  BY DEF EndBulk, Take, chipVars
<1>2. PICK s, v, c : Foremost(s, v, c) BY <1>1, Taken DEF IInv
<1>3. v \in Frames /\ Progress(v, c) /\ CommandAt(v, c, Head(chan)) BY <1>2 DEF Foremost
<1>4. TextScene(v) /\ c = FrameLen + 1 BY <1>1, <1>3 DEF CommandAt
<1>5. FrameLen \in Nat \ {0} BY ModesAssumption
<1>6. bulkAddr /\ bulkBuf = [i \in 1 .. FrameLen |-> v.grid[i]]
  <2>1. c \in 1 .. FrameLen + 1 /\ c - 1 = FrameLen BY <1>4, <1>5
  <2>. QED BY <1>3, <1>4, <2>1 DEF Progress
<1>7. v.grid = [i \in 1 .. FrameLen |-> v.grid[i]]
  <2>1. PICK p \in Pictures \cup {Empty}, b \in BOOLEAN :
          v = [list |-> List(MODE_TEXT), grid |-> Grid([pic |-> p, cursor |-> b])]
    BY <1>3, <1>4, FrameType
  <2>2. v.grid \in [1 .. FrameLen -> Cells] BY <2>1, GridType
  <2>. QED BY <2>2
<1>8. DisplayTyped /\ Typed BY DEF IInv, Typed
<1>9. written = 0 BY <1>1, <1>8 DEF DisplayTyped
<1>10. Progress(v, c + 1)'
  <2>1. c + 1 \notin 1 .. FrameLen + 1 /\ 1 .. (c + 1) - FrameLen - 2 = {} /\ 1 .. 0 = {}
        /\ c <= FrameLen + 2 /\ c + 1 <= FrameLen + 2 /\ c + 1 = FrameLen + 2
    BY <1>4, <1>5
  <2>2. list = "none" BY <1>3, <1>4, <2>1 DEF Progress
  <2>. QED BY <1>1, <1>4, <1>6, <1>7, <1>9, <2>1, <2>2 DEF Progress
<1>11. Framed' /\ chan' \in Seq(Commands) /\ Len(chan') <= ChanDepth /\ Queue' # <<>>
  <2>1. Head(chan).op # "swap" BY <1>1
  <2>. QED BY <1>1, <1>2, <1>10, <2>1, Advances
<1>12. Typed'
  <2>1. DisplayTyped' BY <1>1, <1>6, <1>8, <1>11 DEF DisplayTyped
  <2>. QED BY <1>1, <1>8, <2>1, TypedRest
<1>13. Redrawn' BY <1>1, RedrawnStands DEF IInv, managerVars
<1>14. Shown' BY <1>1, <1>11 DEF IInv, Shown
<1>. QED BY <1>11, <1>12, <1>13, <1>14 DEF IInv

LEMMA BulkKeeps ==
  ASSUME IInv, BulkWrite \/ BulkDone
  PROVE  IInv'
<1>1. /\ dpc = "bulk"
      /\ UNCHANGED <<hostQ, backlog, managerVars, chan, bulkAddr, ramDl, front, swapping, sent, asked, list>>
  BY DEF BulkWrite, BulkDone, chipVars
<1>2. DisplayTyped /\ Typed /\ Framed /\ Redrawn /\ Shown BY DEF IInv, Typed
<1>3. /\ DOMAIN ramG = 1 .. FrameLen /\ ramG = [i \in 1 .. FrameLen |-> ramG[i]]
      /\ bulkBuf \in Seq(Cells) /\ written \in 0 .. Len(bulkBuf)
  BY <1>2 DEF DisplayTyped
<1>4. FrameLen \in Nat \ {0} BY ModesAssumption
<1>5. PICK s : Under(s) BY <1>2 DEF Framed
<1>6. Queue # <<>> /\ Progress(Queue[1], -s[1]) BY <1>1, <1>5 DEF Under
<1>16. PICK v, c : v = Queue[1] /\ c = -s[1] OBVIOUS
<1>7. /\ TextScene(v) /\ c = FrameLen + 2 /\ bulkBuf = v.grid
      /\ \A i \in 1 .. written : ramG[i] = v.grid[i]
  BY <1>1, <1>6, <1>16 DEF Progress
<1>8. v \in Frames
  <2>1. Queue \in Seq(Frames) BY <1>2, ViewTyped
  <2>. QED BY <1>6, <1>16, <2>1
<1>9. v.grid = [i \in 1 .. FrameLen |-> v.grid[i]] /\ Len(bulkBuf) = FrameLen
  <2>1. PICK p \in Pictures \cup {Empty}, b \in BOOLEAN :
          v = [list |-> List(MODE_TEXT), grid |-> Grid([pic |-> p, cursor |-> b])]
    BY <1>7, <1>8, FrameType
  <2>2. v.grid \in [1 .. FrameLen -> Cells] BY <2>1, GridType
  <2>. QED BY <1>3, <1>4, <1>7, <2>2
<1>10. Pending' = Pending /\ Queue' = Queue BY <1>1 DEF Pending, Queue, View, managerVars
<1>11. Progress(v, c)' /\ DisplayTyped'
  <2>1. c \notin 1 .. FrameLen + 1 /\ 1 .. c - FrameLen - 2 = {} /\ c <= FrameLen + 2
    BY <1>4, <1>7
  <2>2. list = "none" BY <1>6, <1>7, <1>16, <2>1 DEF Progress
  <2>3. CASE BulkWrite
    <3>1. /\ written < Len(bulkBuf) /\ ramG' = [ramG EXCEPT ![written + 1] = bulkBuf[written + 1]]
          /\ written' = written + 1 /\ UNCHANGED <<dpc, bulkBuf>>
      BY <2>3 DEF BulkWrite
    <3>2. written + 1 \in 1 .. FrameLen /\ written \in Nat BY <1>3, <1>9, <3>1
    <3>3. \A i \in 1 .. written + 1 : ramG'[i] = v.grid[i]
      <4>1. SUFFICES ASSUME NEW i \in 1 .. written + 1 PROVE ramG'[i] = v.grid[i] OBVIOUS
      <4>2. i \in 1 .. FrameLen BY <1>4, <3>2
      <4>3. CASE i = written + 1 BY <1>3, <1>7, <3>1, <4>2, <4>3
      <4>4. CASE i # written + 1
        <5>1. i \in 1 .. written BY <3>2, <4>4
        <5>. QED BY <1>3, <1>7, <3>1, <4>2, <4>4, <5>1
      <4>. QED BY <4>3, <4>4
    <3>4. DOMAIN ramG' = 1 .. FrameLen /\ ramG' = [i \in 1 .. FrameLen |-> ramG'[i]] BY <1>3, <3>1
    <3>5. written' \in 0 .. Len(bulkBuf') BY <1>9, <3>1, <3>2
    <3>6. Progress(v, c)' BY <1>1, <1>7, <2>1, <2>2, <3>1, <3>3 DEF Progress
    <3>7. DisplayTyped' BY <1>1, <1>2, <3>1, <3>4, <3>5 DEF DisplayTyped
    <3>. QED BY <3>6, <3>7
  <2>4. CASE BulkDone
    <3>1. /\ written = Len(bulkBuf) /\ dpc' = "receive" /\ bulkBuf' = <<>> /\ written' = 0 /\ ramG' = ramG
      BY <2>4 DEF BulkDone, chipVars
    <3>2. ramG = v.grid BY <1>3, <1>7, <1>9, <3>1
    <3>3. Progress(v, c)' BY <1>1, <1>7, <2>1, <2>2, <3>1, <3>2 DEF Progress
    <3>4. bulkBuf' \in Seq(Cells) /\ Len(bulkBuf') = 0 BY <3>1
    <3>5. Len(bulkBuf') <= BulkCapacity BY <3>4, ModesAssumption
    <3>6. DisplayTyped' BY <1>1, <1>2, <3>1, <3>4, <3>5 DEF DisplayTyped
    <3>. QED BY <3>3, <3>6
  <2>. QED BY <2>3, <2>4
<1>12. Framed'
  <2>1. Under(s)' BY <1>5, <1>6, <1>10, <1>11, <1>16 DEF Under
  <2>. QED BY <2>1 DEF Framed
<1>13. Typed' BY <1>1, <1>2, <1>11, TypedRest
<1>14. Redrawn' BY <1>1, <1>2, RedrawnStands DEF managerVars
<1>15. Shown' BY <1>1, <1>2, <1>6, <1>10 DEF Shown
<1>. QED BY <1>12, <1>13, <1>14, <1>15 DEF IInv

\* The chip takes the list over: one that is not begun as it was asked for.
LEMMA FrameEndKeeps ==
  ASSUME IInv, FrameEnd
  PROVE  IInv'
<1>1. /\ swapping /\ swapping' = FALSE /\ front' = ramDl /\ ramDl' \in {ramDl, front}
      /\ list' = IF list = "begun" THEN "torn" ELSE list
      /\ UNCHANGED <<hostQ, backlog, managerVars, chan, dpc, bulkAddr, bulkBuf, written, ramG, sent, asked>>
  BY DEF FrameEnd, bulkVars
<1>2. DisplayTyped /\ Typed /\ Framed /\ Redrawn /\ Shown BY DEF IInv, Typed
<1>3. list \in {"none", "begun", "torn"} BY <1>2 DEF DisplayTyped
<1>4. ASSUME NEW v, NEW c, Progress(v, c), c \in Int PROVE Progress(v, c)'
  <2>1. FrameLen \in Nat \ {0} BY ModesAssumption
  <2>2. list' = "none" <=> list = "none" BY <1>1
  <2>3. CASE list = "none"
    <3>1. c <= IF TextScene(v) THEN FrameLen + 2 ELSE 0 BY <1>4, <2>3 DEF Progress
    <3>2. IF TextScene(v) THEN 1 .. c - FrameLen - 2 = {} ELSE 1 .. c = {} BY <1>4, <2>1, <3>1
    <3>. QED BY <1>1, <1>4, <2>2, <3>2 DEF Progress
  <2>4. CASE list # "none"
    <3>1. list' = "torn" BY <1>1, <1>3, <2>4
    <3>. QED BY <1>1, <1>4, <2>2, <3>1 DEF Progress
  <2>. QED BY <2>3, <2>4
<1>5. Framed' /\ Queue' = Queue
  <2>1. PICK s : Under(s) BY <1>2 DEF Framed
  <2>2. Pending' = Pending /\ Queue' = Queue BY <1>1 DEF Pending, Queue, View, managerVars
  <2>3. Queue # <<>> => -s[1] \in Int
    <3>1. ASSUME Queue # <<>> PROVE -s[1] \in Int
      <4>1. -s[1] \in 0 .. Len(Cmds(Queue[1])) - 1 BY <2>1, <3>1 DEF Under, Cuts
      <4>. QED BY <4>1
    <3>. QED BY <3>1
  <2>4. Under(s)' BY <1>1, <1>4, <2>1, <2>2, <2>3 DEF Under
  <2>. QED BY <2>2, <2>4 DEF Framed
<1>6. Typed'
  <2>1. DisplayTyped' BY <1>1, <1>2 DEF DisplayTyped
  <2>. QED BY <1>1, <1>2, <2>1, TypedRest
<1>7. Redrawn' BY <1>1, <1>2, RedrawnStands DEF managerVars
<1>8. Shown' BY <1>1, <1>2, <1>3, <1>5 DEF Shown
<1>. QED BY <1>5, <1>6, <1>7, <1>8 DEF IInv

LEMMA Write32Keeps ==
  ASSUME IInv, Write32
  PROVE  IInv'
<1>1. /\ chan # <<>> /\ Head(chan).op = "write" /\ chan' = Tail(chan) /\ dpc = "receive"
      /\ UNCHANGED <<hostQ, backlog, managerVars>>
      /\ ramDl' = [ramDl EXCEPT ![Head(chan).at] = Head(chan).entry]
      /\ list' = IF list = "none" THEN "begun" ELSE list
      /\ UNCHANGED <<dpc, bulkAddr, bulkBuf, written, ramG, front, swapping, sent, asked>>
  BY DEF Write32, Take, bulkVars
<1>2. PICK s, v, c : Foremost(s, v, c) BY <1>1, Taken DEF IInv
<1>3. v \in Frames /\ Progress(v, c) /\ CommandAt(v, c, Head(chan)) BY <1>2 DEF Foremost
<1>4. ramDl \in [1 .. MaxDl -> Entries] /\ list \in {"none", "begun", "torn"}
  BY DEF IInv, Typed, DisplayTyped
<1>5. FrameLen \in Nat \ {0} /\ TextDl \in Nat /\ TuiDl \in Nat BY ModesAssumption
<1>0. list' # "none" /\ (list' = "torn" <=> list = "torn") BY <1>1, <1>4
<1>6. ASSUME TextScene(v) PROVE ramDl' \in [1 .. MaxDl -> Entries] /\ Progress(v, c + 1)'
  <2> DEFINE i == Head(chan).at
  <2>1. c >= FrameLen + 2 /\ i = c - FrameLen - 1 /\ i \in 1 .. TextDl
        /\ Head(chan).entry = List(MODE_TEXT)[i]
    BY <1>1, <1>3, <1>6 DEF CommandAt
  <2>2. TextDl \in 1 .. MaxDl /\ MaxDl \in Nat /\ List(MODE_TEXT) \in [1 .. TextDl -> Entries] BY ListType
  <2>3. ramDl' = [ramDl EXCEPT ![i] = List(MODE_TEXT)[i]] BY <1>1, <2>1
  <2> HIDE DEF i
  <2>4. ramDl' \in [1 .. MaxDl -> Entries] BY <1>4, <2>1, <2>2, <2>3
  <2>5. c \in Nat /\ (c + 1) - FrameLen - 2 = i /\ c - FrameLen - 2 = i - 1
    <3>1. c \in 0 .. Len(Cmds(v)) - 1 /\ Len(Cmds(v)) \in Nat BY <1>2, <1>3, CmdsType DEF Foremost
    <3>2. c \in Nat BY <3>1
    <3>. QED BY <1>5, <2>1, <3>2
  <2>6. ramG = v.grid /\ (list # "torn" => \A k \in 1 .. i - 1 : ramDl[k] = List(MODE_TEXT)[k])
    BY <1>1, <1>3, <1>6, <2>1, <2>5 DEF Progress
  <2>7. ASSUME NEW k \in 1 .. i, list # "torn" PROVE ramDl'[k] = List(MODE_TEXT)[k]
    <3>1. k \in 1 .. MaxDl BY <2>1, <2>2
    <3>2. CASE k = i BY <1>4, <2>3, <3>1, <3>2
    <3>3. CASE k # i
      <4>1. k \in 1 .. i - 1 BY <2>1, <3>3
      <4>. QED BY <1>4, <2>3, <2>6, <2>7, <3>1, <3>3, <4>1
    <3>. QED BY <3>2, <3>3
  <2>8. c + 1 \notin 1 .. FrameLen + 1 /\ ~(c + 1 <= FrameLen + 2) BY <1>5, <2>1, <2>5
  <2>9. Progress(v, c + 1)' BY <1>0, <1>1, <1>6, <2>5, <2>6, <2>7, <2>8 DEF Progress
  <2>. QED BY <2>4, <2>9
<1>7. ASSUME ~TextScene(v) PROVE ramDl' \in [1 .. MaxDl -> Entries] /\ Progress(v, c + 1)'
  <2> DEFINE i == Head(chan).at
  <2>1. i = c + 1 /\ i \in 1 .. TuiDl /\ Head(chan).entry = List(MODE_TUI)[i]
    BY <1>1, <1>3, <1>7 DEF CommandAt
  <2>2. TuiDl \in 1 .. MaxDl /\ MaxDl \in Nat /\ List(MODE_TUI) \in [1 .. TuiDl -> Entries]
    BY ListType DEF MODE_TUI, MODE_TEXT
  <2>3. ramDl' = [ramDl EXCEPT ![i] = List(MODE_TUI)[i]] BY <1>1, <2>1
  <2> HIDE DEF i
  <2>4. ramDl' \in [1 .. MaxDl -> Entries] BY <1>4, <2>1, <2>2, <2>3
  <2>5. c \in Nat
    <3>1. c \in 0 .. Len(Cmds(v)) - 1 /\ Len(Cmds(v)) \in Nat BY <1>2, <1>3, CmdsType DEF Foremost
    <3>. QED BY <3>1
  <2>6. list # "torn" => \A k \in 1 .. c : k <= TuiDl => ramDl[k] = List(MODE_TUI)[k]
    BY <1>3, <1>7 DEF Progress
  <2>7. ASSUME NEW k \in 1 .. c + 1, k <= TuiDl, list # "torn" PROVE ramDl'[k] = List(MODE_TUI)[k]
    <3>1. k \in 1 .. MaxDl BY <1>5, <2>2, <2>5, <2>7
    <3>2. CASE k = i BY <1>4, <2>3, <3>1, <3>2
    <3>3. CASE k # i
      <4>1. k \in 1 .. c BY <2>1, <2>5, <3>3
      <4>. QED BY <1>4, <2>3, <2>6, <2>7, <3>1, <3>3, <4>1
    <3>. QED BY <3>2, <3>3
  <2>8. ~(c + 1 <= 0) BY <2>5
  <2>9. Progress(v, c + 1)' BY <1>0, <1>1, <1>7, <2>7, <2>8 DEF Progress
  <2>. QED BY <2>4, <2>9
<1>8. ramDl' \in [1 .. MaxDl -> Entries] /\ Progress(v, c + 1)' BY <1>6, <1>7
<1>9. Framed' /\ chan' \in Seq(Commands) /\ Len(chan') <= ChanDepth /\ Queue' # <<>>
  <2>1. Head(chan).op # "swap" BY <1>1
  <2>. QED BY <1>1, <1>2, <1>8, <2>1, Advances
<1>10. Typed'
  <2>1. DisplayTyped /\ Typed BY DEF IInv, Typed
  <2>2. DisplayTyped' BY <1>1, <1>4, <1>8, <1>9, <2>1 DEF DisplayTyped
  <2>. QED BY <1>1, <2>1, <2>2, TypedRest
<1>11. Redrawn' BY <1>1, RedrawnStands DEF IInv, managerVars
<1>12. Shown' BY <1>0, <1>1, <1>9 DEF IInv, Shown
<1>. QED BY <1>9, <1>10, <1>11, <1>12 DEF IInv

LEMMA Between ==
  ASSUME NEW n \in Nat, NEW k \in Nat, n >= 1, n < k
  PROVE  n \in 1 .. k - 1
OBVIOUS

LEMMA NoneLeft ==
  ASSUME NEW C, NEW q \in Seq(C), Len(q) = 0
  PROVE  q = <<>>
OBVIOUS

LEMMA OneLess ==
  ASSUME NEW n \in Nat, n # 0, n # 1
  PROVE  n - 1 \in 1 .. n - 1 /\ n - 1 # 0 /\ (n - 1) + 1 = n
OBVIOUS

\* The chip obeys the list that was written, whatever is left behind its end.
LEMMA ObeyedList ==
  ASSUME NEW dl \in [1 .. MaxDl -> Entries], NEW m \in {MODE_TEXT, MODE_TUI},
         NEW n, n = IF m = MODE_TEXT THEN TextDl ELSE TuiDl,
         \A i \in 1 .. n : dl[i] = List(m)[i]
  PROVE  Obeyed(dl) = List(m)
<1>1. /\ n \in 1 .. MaxDl /\ MaxDl \in Nat /\ List(m) \in [1 .. n -> Entries]
      /\ List(m)[n] = EndMark /\ \A i \in 1 .. n - 1 : List(m)[i] # EndMark
  BY ListType
<1> DEFINE Ends(k) == dl[k] = EndMark /\ \A i \in 1 .. k - 1 : dl[i] # EndMark
           k0 == CHOOSE k \in DOMAIN dl : Ends(k)
<1>2. n \in DOMAIN dl /\ Ends(n)
  <2>1. \A i \in 1 .. n - 1 : i \in 1 .. n BY <1>1
  <2>2. n \in 1 .. n BY <1>1
  <2>. QED BY <1>1, <2>1, <2>2
<1>3. ASSUME NEW k \in DOMAIN dl, Ends(k) PROVE k = n
  <2>1. k \in 1 .. MaxDl OBVIOUS
  <2>2. ~(k < n) /\ ~(n < k)
    <3>1. ASSUME k < n PROVE FALSE
      <4>1. k \in 1 .. n - 1 BY <1>1, <2>1, <3>1
      <4>. QED BY <1>2, <1>3, <4>1
    <3>2. ASSUME n < k PROVE FALSE
      <4>0. n \in Nat /\ n >= 1 /\ k \in Nat BY <1>1, <2>1
      <4>1. n \in 1 .. k - 1 BY <3>2, <4>0, Between
      <4>. QED BY <1>2, <1>3, <4>1
    <3>. QED BY <3>1, <3>2
  <2>. QED BY <1>1, <2>1, <2>2
<1>4. k0 = n
  <2>. HIDE DEF Ends
  <2>1. k0 \in DOMAIN dl /\ Ends(k0) BY <1>2
  <2>. QED BY <1>3, <2>1
<1>5. Obeyed(dl) = SubSeq(dl, 1, n) BY <1>4 DEF Obeyed
<1>6. SubSeq(dl, 1, n) = [i \in 1 .. n |-> dl[i]]
  <2>1. dl \in Seq(Entries) /\ Len(dl) = MaxDl BY <1>1
  <2>. QED BY <1>1, <2>1
<1>7. List(m) = [i \in 1 .. n |-> List(m)[i]] BY <1>1
<1>. QED BY <1>5, <1>6, <1>7

LEMMA LastOfTail ==
  ASSUME NEW C, NEW q \in Seq(C), q # <<>>
  PROVE  /\ Len(q) = 1 => Tail(q) = <<>> /\ q[Len(q)] = Head(q)
         /\ Len(q) # 1 => Tail(q) # <<>> /\ Tail(q)[Len(Tail(q))] = q[Len(q)]
<1>0. Len(q) \in Nat /\ Len(q) # 0 /\ Tail(q) \in Seq(C) /\ Len(Tail(q)) = Len(q) - 1
      /\ \A i \in 1 .. Len(q) - 1 : Tail(q)[i] = q[i + 1]
  OBVIOUS
<1>1. CASE Len(q) = 1
  <2>1. Len(Tail(q)) = 0 BY <1>0, <1>1
  <2>2. Tail(q) = <<>> BY <1>0, <2>1, NoneLeft
  <2>. QED BY <1>1, <2>2
<1>2. CASE Len(q) # 1
  <2>1. Len(q) - 1 \in 1 .. Len(q) - 1 /\ Len(q) - 1 # 0 /\ (Len(q) - 1) + 1 = Len(q)
    BY <1>0, <1>2, OneLess
  <2>2. Tail(q)[Len(q) - 1] = q[Len(q)] BY <1>0, <2>1
  <2>3. Tail(q) # <<>> BY <1>0, <2>1
  <2>. QED BY <1>0, <1>2, <2>2, <2>3
<1>. QED BY <1>1, <1>2

LEMMA SwapKeeps ==
  ASSUME IInv, Swap
  PROVE  IInv' /\ sent # <<>> /\ sent' = Tail(sent)
         /\ asked' = IF list = "torn" THEN Nothing ELSE Head(sent)
<1>1. /\ chan # <<>> /\ Head(chan).op = "swap" /\ chan' = Tail(chan) /\ dpc = "receive"
      /\ UNCHANGED <<hostQ, backlog, managerVars>>
      /\ asked' = IF list = "torn" THEN Nothing ELSE Scene(Obeyed(ramDl), ramG)
      /\ sent' = IF sent = <<>> THEN sent ELSE Tail(sent)
      /\ swapping' = TRUE /\ list' = "none"
      /\ UNCHANGED <<dpc, bulkAddr, bulkBuf, written, ramG, ramDl, front>>
  BY DEF Swap, Take, bulkVars
<1>2. PICK s, v, c : Foremost(s, v, c) BY <1>1, Taken DEF IInv
<1>3. /\ v \in Frames /\ Progress(v, c) /\ CommandAt(v, c, Head(chan)) /\ Under(s)
      /\ Queue \in Seq(Frames) /\ v = Queue[1] /\ 1 - s[1] = c + 1
      /\ Pending \in Seq(Commands) /\ Pending # <<>>
      /\ c + 1 = Len(Cmds(v)) => sent # <<>>
  BY <1>2 DEF Foremost
<1>4. c + 1 = Len(Cmds(v)) /\ sent # <<>> BY <1>1, <1>3 DEF CommandAt
<1>5. /\ chan \in Seq(Commands) /\ out \in Seq(Commands) /\ Len(chan) <= ChanDepth /\ ChanDepth \in Nat
      /\ sent \in Seq(Frames) /\ ramDl \in [1 .. MaxDl -> Entries]
  BY ModesAssumption DEF IInv, Typed, DisplayTyped, TypeOK
<1>6. v = Head(sent) /\ Queue' = Tail(Queue) /\ sent' = Tail(sent) /\ sent' \in Seq(Frames)
  <2>1. View' = View BY <1>1 DEF View, managerVars
  <2>2. mpc' = mpc BY <1>1 DEF managerVars
  <2>3. CASE mpc = "render"
    <3>1. Queue = Append(sent, View) /\ Queue' = Append(sent', View) BY <2>1, <2>2, <2>3 DEF Queue
    <3>2. View \in Frames BY ViewTyped DEF IInv
    <3>3. Append(sent, View)[1] = Head(sent) BY <1>4, <1>5, <3>2
    <3>4. Tail(Append(sent, View)) = Append(Tail(sent), View)
      <4>1. Len(Tail(Append(sent, View))) = Len(Append(Tail(sent), View)) BY <1>4, <1>5, <3>2
      <4>2. ASSUME NEW i \in 1 .. Len(sent)
            PROVE  Tail(Append(sent, View))[i] = Append(Tail(sent), View)[i]
        <5>1. CASE i = Len(sent) BY <1>4, <1>5, <3>2, <5>1
        <5>2. CASE i # Len(sent) BY <1>4, <1>5, <3>2, <5>2
        <5>. QED BY <5>1, <5>2
      <4>. QED BY <1>4, <1>5, <3>2, <4>1, <4>2
    <3>. QED BY <1>1, <1>3, <1>4, <1>5, <3>1, <3>3, <3>4
  <2>4. CASE mpc # "render" BY <1>1, <1>3, <1>4, <1>5, <2>2, <2>4 DEF Queue
  <2>. QED BY <2>3, <2>4
<1>7. list # "torn" => Scene(Obeyed(ramDl), ramG) = v
  <2> SUFFICES ASSUME list # "torn" PROVE Scene(Obeyed(ramDl), ramG) = v OBVIOUS
  <2>0. FrameLen \in Nat \ {0} /\ TextDl \in Nat /\ TuiDl \in Nat BY ModesAssumption
  <2>1. CASE TextScene(v)
    <3>1. PICK p \in Pictures \cup {Empty}, b \in BOOLEAN :
            v = [list |-> List(MODE_TEXT), grid |-> Grid([pic |-> p, cursor |-> b])]
      BY <1>3, <2>1, FrameType
    <3>2. \A i \in 1 .. FrameLen : v.grid[i] \in Cells BY <3>1, GridType
    <3>3. Len(Cmds(v)) = FrameLen + TextDl + 3 BY <2>1, <3>2, TextFrameAt DEF Cmds
    <3>4. c + 1 = FrameLen + TextDl + 3 /\ c \in Nat
      <4>1. c \in 0 .. Len(Cmds(v)) - 1 BY <1>2 DEF Foremost
      <4>. QED BY <1>4, <2>0, <3>3, <4>1
    <3>5. c >= FrameLen + 2 /\ c - FrameLen - 2 = TextDl BY <2>0, <3>4
    <3>6. ramG = v.grid /\ \A i \in 1 .. TextDl : ramDl[i] = List(MODE_TEXT)[i]
      BY <1>1, <1>3, <2>1, <3>5 DEF Progress
    <3>7. Obeyed(ramDl) = List(MODE_TEXT) BY <1>5, <3>6, ObeyedList
    <3>. QED BY <1>1, <3>1, <3>6, <3>7 DEF Scene
  <2>2. CASE ~TextScene(v)
    <3>1. c + 1 = TuiDl + 1 /\ c \in Nat
      <4>1. c \in 0 .. Len(Cmds(v)) - 1 BY <1>2 DEF Foremost
      <4>. QED BY <1>4, <2>0, <2>2, <4>1, TuiFrameAt DEF Cmds
    <3>2. \A i \in 1 .. TuiDl : ramDl[i] = List(MODE_TUI)[i]
      <4>1. c = TuiDl BY <2>0, <3>1
      <4>2. \A i \in 1 .. TuiDl : i <= TuiDl => ramDl[i] = List(MODE_TUI)[i]
        BY <1>3, <2>2, <4>1 DEF Progress
      <4>. QED BY <2>0, <4>2
    <3>5. TuiDl = IF MODE_TUI = MODE_TEXT THEN TextDl ELSE TuiDl BY DEF MODE_TUI, MODE_TEXT
    <3>3. Obeyed(ramDl) = List(MODE_TUI) BY <1>5, <3>2, <3>5, ObeyedList
    <3>4. v = [list |-> List(MODE_TUI), grid |-> <<>>] BY <1>3, <2>2, FrameType
    <3>. QED BY <1>1, <3>3, <3>4, ListsDiffer DEF Scene
  <2>. QED BY <2>1, <2>2
<1>8. Framed' /\ chan' \in Seq(Commands) /\ Len(chan') <= ChanDepth
  <2>1. Cuts(s, Pending, Queue) /\ 1 - s[1] = Len(Cmds(Queue[1])) BY <1>3, <1>4 DEF Under
  <2>2. PICK r : Cuts(r, Tail(Pending), Tail(Queue)) /\ r[1] = 0 BY <1>3, <2>1, CutsFinish
  <2>3. Pending' = Tail(Pending) /\ chan' \in Seq(Commands) BY <1>1, <1>5, Takes DEF Pending, managerVars
  <2>4. Len(chan') <= ChanDepth BY <1>1, <1>5
  <2>5. Under(r)'
    <3>1. Cuts(r, Pending', Queue') BY <1>6, <2>2, <2>3
    <3>2. -r[1] = 0
      <4>1. r[1] \in Int BY <2>2
      <4>2. r[1] <= 0 /\ r[1] >= 0 BY <2>2
      <4>. QED BY <4>1, <4>2, NegatedZero
    <3>3. FrameLen \in Nat \ {0} BY ModesAssumption
    <3>4. 1 .. 0 - FrameLen - 2 = {} /\ 0 \notin 1 .. FrameLen + 1 /\ 0 <= FrameLen + 2
          /\ ~(0 >= FrameLen + 2) /\ 1 .. 0 = {}
      BY <3>3
    <3>5. \A x : Progress(x, 0)' BY <1>1, <3>4 DEF Progress
    <3>. QED BY <1>1, <3>1, <3>2, <3>5 DEF Under
  <2>. QED BY <2>3, <2>4, <2>5 DEF Framed
<1>9. Typed'
  <2>1. DisplayTyped /\ Typed BY DEF IInv, Typed
  <2>2. asked' \in Frames \cup {Nothing} BY <1>1, <1>3, <1>7
  <2>3. DisplayTyped' BY <1>1, <1>6, <1>8, <2>1, <2>2 DEF DisplayTyped
  <2>. QED BY <1>1, <2>1, <2>3, TypedRest
<1>10. Redrawn'
  <2>1. Newest' = Newest \/ Newest' = Nothing
    <3>1. CASE Len(sent) = 1
      <4>1. Tail(sent) = <<>> /\ sent[Len(sent)] = Head(sent) BY <1>4, <1>5, <3>1, LastOfTail
      <4>2. Newest = Head(sent) BY <1>4, <4>1 DEF Newest
      <4>. QED BY <1>1, <1>6, <1>7, <4>1, <4>2 DEF Newest
    <3>2. CASE Len(sent) # 1
      <4>1. Tail(sent) # <<>> /\ Tail(sent)[Len(Tail(sent))] = sent[Len(sent)]
        BY <1>4, <1>5, <3>2, LastOfTail
      <4>. QED BY <1>4, <1>6, <4>1 DEF Newest
    <3>. QED BY <3>1, <3>2
  <2>. QED BY <1>1, <2>1 DEF IInv, Redrawn, CleanIsDrawn, Dirty, View, managerVars
<1>11. Shown'
  <2>1. CASE list = "torn" BY <1>1, <2>1 DEF Shown
  <2>2. CASE list # "torn"
    <3>1. asked' = Scene(Obeyed(ramDl), ramG) BY <1>1, <2>2
    <3>2. asked'.list = Obeyed(ramDl) BY <3>1 DEF Scene
    <3>. QED BY <1>1, <3>1, <3>2 DEF Shown
  <2>. QED BY <2>1, <2>2
<1>. QED BY <1>1, <1>4, <1>6, <1>7, <1>8, <1>9, <1>10, <1>11 DEF IInv

-----------------------------------------------------------------------------
(* The theorems. *)

LEMMA InitKeeps == Init => IInv
<1>1. SUFFICES ASSUME Init PROVE IInv OBVIOUS
<1>2. /\ FrameLen \in Nat \ {0} /\ TextDl \in Nat \ {0} /\ TuiDl \in Nat \ {0} /\ MaxBacklog \in Nat
      /\ QueueDepth \in Nat /\ ChanDepth \in Nat /\ BulkCapacity \in Nat
  BY ModesAssumption
<1>3. Typed
  <2>1. ramDl = [i \in 1 .. MaxDl |-> EndMark] /\ front = ramDl BY <1>1 DEF Init, MaxDl
  <2>2. EndMark \in Entries BY DEF EndMark, Entries, MODE_TEXT
  <2>3. ramDl \in [1 .. MaxDl -> Entries] /\ front \in [1 .. MaxDl -> Entries] BY <2>1, <2>2
  <2>4. text \in [pic : Pictures \cup {Empty}, cursor : BOOLEAN, dirty : BOOLEAN]
        /\ tui \in [dirty : BOOLEAN] /\ active \in {MODE_TEXT, MODE_TUI}
    BY <1>1 DEF Init, NewText, NewTui
  <2>5. hostQ = <<>> /\ chan = <<>> /\ bulkBuf = <<>> /\ out = <<>> /\ backlog = 0 /\ sent = <<>>
        /\ mpc = "wait" /\ renderPending = FALSE /\ dpc = "receive" /\ written = 0
        /\ asked = Nothing /\ swapping = FALSE /\ list = "none"
    BY <1>1 DEF Init
  <2>6. Len(hostQ) <= QueueDepth /\ Len(chan) <= ChanDepth /\ Len(bulkBuf) <= BulkCapacity
        /\ backlog \in 0 .. MaxBacklog /\ written \in 0 .. Len(bulkBuf)
    BY <1>2, <2>5
  <2>7. TypeOK BY <2>4, <2>5, <2>6 DEF TypeOK
  <2>8. DOMAIN ramG = 1 .. FrameLen /\ ramG = [i \in 1 .. FrameLen |-> ramG[i]] BY <1>1 DEF Init
  <2>10. chan \in Seq(Commands) /\ sent \in Seq(Frames) /\ bulkBuf \in Seq(Cells) BY <2>5
  <2>11. /\ dpc \in {"receive", "bulk"} /\ (bulkBuf # <<>> => bulkAddr \/ dpc = "bulk")
         /\ asked \in Frames \cup {Nothing} /\ swapping \in BOOLEAN /\ list \in {"none", "begun", "torn"}
    BY <2>5
  <2>9. DisplayTyped BY <2>3, <2>5, <2>6, <2>8, <2>10, <2>11 DEF DisplayTyped
  <2>. QED BY <2>5, <2>7, <2>9 DEF Typed
<1>4. Framed
  <2> DEFINE s == [k \in 1 .. 1 |-> 0]
  <2>1. Pending = <<>> /\ Queue = <<>> BY <1>1 DEF Init, Pending, Queue
  <2>2. Cuts(s, <<>>, <<>>) BY DEF Cuts
  <2>3. Under(s) BY <1>1, <2>1, <2>2 DEF Under, Init
  <2>. QED BY <2>3 DEF Framed
<1>5. Redrawn BY <1>1 DEF Init, Redrawn, CleanIsDrawn, Dirty, NewText
<1>6. Shown BY <1>1 DEF Init, Shown
<1>. QED BY <1>3, <1>4, <1>5, <1>6 DEF IInv

LEMMA WaitTxnKeeps ==
  ASSUME IInv, WaitTxn \/ CheckTxn
  PROVE  IInv'
<1>1. /\ HandleTxn /\ mpc # "render" /\ mpc' \in {"drain", "drained late"}
      /\ UNCHANGED <<backlog, renderPending, out, chan, displayVars, sent>>
  BY DEF WaitTxn, CheckTxn
<1>. QED BY <1>1, TxnKeeps

LEMMA RestKeeps ==
  ASSUME IInv, UNCHANGED vars
  PROVE  IInv'
<1>1. UNCHANGED <<hostQ, backlog, mpc, renderPending, active, text, tui, out, chan, sent, displayVars>>
  BY DEF vars, managerVars
<1>2. Framed' /\ Shown' BY <1>1, FramesStand DEF IInv
<1>3. Redrawn' BY <1>1, RedrawnStands DEF IInv, displayVars
<1>4. Typed' BY <1>1, TypedStands DEF IInv, Typed, TypeOK
<1>. QED BY <1>2, <1>3, <1>4 DEF IInv

LEMMA Invariance == IInv /\ [Next]_vars => IInv'
<1>1. SUFFICES ASSUME IInv, [Next]_vars PROVE IInv' OBVIOUS
<1>2. CASE UNCHANGED vars BY <1>1, <1>2, RestKeeps
<1>3. CASE Next
  <2>1. CASE \E txn \in Txns : HostSends(txn) BY <1>1, <2>1, HostSendsKeeps
  <2>2. CASE TickerTicks BY <1>1, <2>2, TickerTicksKeeps
  <2>3. CASE Manager
    BY <1>1, <2>3, WaitTxnKeeps, WaitTickKeeps, DrainKeeps, CheckRenderKeeps, SendKeeps DEF Manager
  <2>4. CASE DisplayTask
    BY <1>1, <2>4, BeginBulkKeeps, BulkByteKeeps, EndBulkKeeps, BulkKeeps, Write32Keeps, SwapKeeps
    DEF DisplayTask
  <2>5. CASE FrameEnd BY <1>1, <2>5, FrameEndKeeps
  <2>. QED BY <1>3, <2>1, <2>2, <2>3, <2>4, <2>5 DEF Next
<1>. QED BY <1>1, <1>2, <1>3

\* The queue and the channel keep to their depths, bulk_buf to its capacity, and
\* a mode is never anything but one of the two with a picture of its own.
THEOREM TypeCorrect == Spec => []TypeOK
<1>1. IInv => TypeOK BY DEF IInv, Typed
<1>. QED BY <1>1, InitKeeps, Invariance, PTL DEF Spec

\* Whatever the host sends and whenever, a mode that is not dirty has what it shows
\* asked for or behind the last frame that is under way: no picture is forgotten,
\* unless the chip swapped in the middle of its list.
THEOREM NothingForgotten == Spec => []CleanIsDrawn
<1>1. IInv => CleanIsDrawn BY DEF IInv, Redrawn
<1>. QED BY <1>1, InitKeeps, Invariance, PTL DEF Spec

\* The chip obeys the list asked for last from its swap on, until it swaps in the
\* middle of another; and the panel, which shows the picture memory as it is, shows
\* the frame asked for last as soon as no other is on its way.
THEOREM PanelShowsFrames == Spec => []PanelShows
<1>1. IInv => PanelShows
  <2>1. SUFFICES ASSUME IInv, asked # Nothing, ~swapping, list # "torn"
                 PROVE  /\ Obeyed(front) = asked.list
                        /\ sent = <<>> /\ mpc # "render" => Panel = asked
    BY DEF PanelShows
  <2>2. Obeyed(front) = asked.list BY <2>1 DEF IInv, Shown
  <2>3. sent = <<>> /\ mpc # "render" => Queue = <<>> BY DEF Queue
  <2>4. Queue = <<>> => Scene(asked.list, ramG) = asked BY <2>1 DEF IInv, Shown
  <2>. QED BY <2>2, <2>3, <2>4 DEF Panel
<1>. QED BY <1>1, InitKeeps, Invariance, PTL DEF Spec

\* What Pipe is offered: the frame that render is sending.
Offered   == IF mpc = "render" THEN View ELSE Nothing
FrameVars == <<Offered, sent, asked, FALSE>>

LEMMA CheckOffers ==
  ASSUME IInv, CheckRender
  PROVE  [FramePipe!Next]_FrameVars
<1>1. mpc = "check" /\ mpc' \in {"wait", "render"} /\ UNCHANGED <<sent, asked>>
  BY DEF CheckRender, displayVars
<1>2. mpc' = "render" => View' \in Frames BY CheckRenderKeeps
<1>3. Offered = Nothing BY <1>1 DEF Offered
<1>4. CASE mpc' = "render"
  <2>1. Offered' = View' BY <1>4 DEF Offered
  <2>2. FramePipe!Offer(View') BY <1>1, <1>3, <2>1 DEF FramePipe!Offer, Offered
  <2>. QED BY <1>2, <1>4, <2>2 DEF FramePipe!Next
<1>5. CASE mpc' = "wait"
  <2>1. Offered' = Nothing BY <1>5 DEF Offered
  <2>. QED BY <1>1, <1>3, <2>1 DEF FrameVars
<1>. QED BY <1>1, <1>4, <1>5

LEMMA SendAccepts ==
  ASSUME IInv, Send
  PROVE  [FramePipe!Next]_FrameVars
<1>1. mpc = "render" /\ UNCHANGED <<active, asked>> BY DEF Send, displayVars
<1>2. View # Nothing BY ViewTyped DEF IInv
<1>3. Offered = View BY <1>1 DEF Offered
<1>4. CASE Tail(out) = <<>>
  <2>1. mpc' = "wait" /\ sent' = Append(sent, View) BY <1>4 DEF Send
  <2>2. Offered' = Nothing BY <2>1 DEF Offered
  <2>3. FramePipe!Accept BY <1>1, <1>2, <1>3, <2>1, <2>2 DEF FramePipe!Accept, Offered
  <2>. QED BY <2>3 DEF FramePipe!Next
<1>5. CASE Tail(out) # <<>>
  <2>1. UNCHANGED <<mpc, text, tui, sent>> BY <1>5 DEF Send
  <2>2. Offered' = Offered BY <1>1, <2>1 DEF Offered, View
  <2>. QED BY <1>1, <2>1, <2>2 DEF FrameVars
<1>. QED BY <1>4, <1>5

LEMMA SwapHandsOver ==
  ASSUME IInv, Swap
  PROVE  [FramePipe!Next]_FrameVars
<1>1. sent # <<>> /\ sent' = Tail(sent) /\ asked' = IF list = "torn" THEN Nothing ELSE Head(sent)
  BY SwapKeeps
<1>2. UNCHANGED <<mpc, active, text>> BY DEF Swap, Take, managerVars
<1>3. Offered' = Offered BY <1>2 DEF Offered, View
<1>4. FramePipe!HandOver BY <1>1, <1>3 DEF FramePipe!HandOver, Offered
<1>. QED BY <1>4 DEF FramePipe!Next

\* Every other step leaves the frames that are sent whole where they are.
LEMMA OthersStutter ==
  ASSUME UNCHANGED <<sent, asked>>,
         UNCHANGED <<mpc, active, text>> \/ (mpc # "render" /\ mpc' # "render")
  PROVE  UNCHANGED FrameVars
BY DEF FrameVars, Offered, View

\* Frames come to the memories of the chip whole, in order and once each, whatever
\* the depth of the channel and the length of a frame; one is lost only where the
\* chip swapped in the middle of its list.
THEOREM FramesArrive == Spec => FramesIntact
<1>1. Init => FramePipe!Init
  BY DEF Init, FramePipe!Init
<1>2. IInv /\ [Next]_vars => [FramePipe!Next]_FrameVars
  <2>1. SUFFICES ASSUME IInv, [Next]_vars PROVE [FramePipe!Next]_FrameVars OBVIOUS
  <2>2. CASE UNCHANGED vars \/ (\E txn \in Txns : HostSends(txn)) \/ TickerTicks
    <3>1. UNCHANGED <<sent, asked, mpc, active, text>>
      BY <2>2 DEF vars, managerVars, displayVars, HostSends, TickerTicks
    <3>. QED BY <3>1, OthersStutter
  <2>3. CASE WaitTxn \/ WaitTick \/ Drain \/ CheckTxn
    <3>1. UNCHANGED <<sent, asked>> /\ mpc # "render" /\ mpc' # "render"
      BY <2>3 DEF WaitTxn, WaitTick, Drain, CheckTxn, displayVars
    <3>. QED BY <3>1, OthersStutter
  <2>4. CASE CheckRender BY <2>1, <2>4, CheckOffers
  <2>5. CASE Send BY <2>1, <2>5, SendAccepts
  <2>6. CASE BeginBulk \/ BulkByte \/ EndBulk \/ BulkWrite \/ BulkDone \/ Write32 \/ FrameEnd
    <3>1. UNCHANGED <<sent, asked, mpc, active, text>>
      BY <2>6 DEF BeginBulk, BulkByte, EndBulk, BulkWrite, BulkDone, Write32, FrameEnd, Take, managerVars
    <3>. QED BY <3>1, OthersStutter
  <2>7. CASE Swap BY <2>1, <2>7, SwapHandsOver
  <2>. QED BY <2>1, <2>2, <2>3, <2>4, <2>5, <2>6, <2>7 DEF Next, Manager, DisplayTask
<1>3. FramePipe!Spec <=> (FramePipe!Init /\ [][FramePipe!Next]_FrameVars)
  BY DEF FramePipe!Spec, FrameVars, Offered
<1>. QED BY <1>1, <1>2, <1>3, InitKeeps, Invariance, PTL DEF Spec, FramesIntact
=============================================================================

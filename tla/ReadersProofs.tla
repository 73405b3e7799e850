---------------------------- MODULE ReadersProofs ----------------------------
(***************************************************************************)
(* What the line readers do with bytes of any kind, in pieces of any size  *)
(* and number, whatever reads and echoes fail: the screen shows get_line's *)
(* line, and tb_getline stays inside its caller's buffer.  That the lines  *)
(* are those typed is a statement about the fold of everything typed, and  *)
(* is left to the model checker.                                           *)
(***************************************************************************)
EXTENDS MCReaders, SequenceTheorems, TLAPS

Octet == 0 .. 255

(* get_line and getchar keep the line and its echo in step: what was typed *)
(* and what DEL took off again are on the screen exactly when they are in  *)
(* the line.                                                               *)
THEOREM EchoKeepsUp == RSpec => []EchoIsLine
  <1>1. RInit => EchoIsLine
    BY DEF RInit, Init, EchoIsLine
  <1>2. EchoIsLine /\ [RNext]_<<vars, c_state>> => EchoIsLine'
    <2> SUFFICES ASSUME EchoIsLine, [RNext]_<<vars, c_state>> PROVE EchoIsLine'
      OBVIOUS
    <2>1. ASSUME NEW c, reading, GetLine(c) PROVE screen' = res'
      BY <2>1 DEF EchoIsLine, GetLine, EndLine, Delete, Push, Rubbed
    <2>2. CASE GivesUp
      BY <2>2 DEF GivesUp, EchoIsLine
    <2>3. ASSUME NEW c, reading, Getchar(c) PROVE EchoIsLine'
      BY <2>1, <2>2, <2>3 DEF Getchar, EchoIsLine
    <2>4. CASE FirstByte \/ NextByte \/ EndOfFile \/ ReadFails
      BY <2>2, <2>3, <2>4 DEF FirstByte, NextByte, EndOfFile, ReadFails, Byte, EchoIsLine
    <2>5. CASE \/ \E piece \in Source : BothReceive(piece)
               \/ Close \/ UNCHANGED vars
      BY <2>5 DEF BothReceive, Deliver, Close, vars, EchoIsLine
    <2> QED BY <2>4, <2>5 DEF RNext
  <1> QED BY <1>1, <1>2, PTL DEF RSpec

----------------------------------------------------------------------------
(* tb_getline's place in the buffer leaves room for one byte and the NUL,  *)
(* and the buffer holds bytes, of this line and of older ones.             *)
InBuffer ==
  /\ c_wire \in Seq(Octet)
  /\ c_p \in 0 .. BufSize - 2
  /\ c_buf \in [C!Index -> Octet]

LEMMA ReturnInBuffer ==
  ASSUME NEW b \in [C!Index -> Octet], NEW at \in C!Index, C!Return(b, at)
  PROVE  c_p' \in 0 .. BufSize - 2 /\ c_buf' \in [C!Index -> Octet]
  <1>1. c_p' = 0 /\ c_buf' = [b EXCEPT ![at] = C!NUL]
    BY DEF C!Return
  <1>2. C!NUL \in Octet
    BY DEF C!NUL, Octet
  <1>3. 0 \in 0 .. BufSize - 2
    BY BufSizeAssumption
  <1> QED BY <1>1, <1>2, <1>3

LEMMA GetByteInBuffer == ASSUME InBuffer, C!GetByte PROVE InBuffer'
  <1> DEFINE c == Head(c_wire)
  <1>1. c \in Octet /\ c_wire' \in Seq(Octet)
    BY HeadTailProperties DEF InBuffer, C!GetByte
  <1>2. c_p \in C!Index /\ c_p + 1 \in C!Index /\ c_p \in Nat
    BY BufSizeAssumption DEF InBuffer, C!Index
  <1>3. c_buf \in [C!Index -> Octet]
    BY DEF InBuffer
  <1> HIDE DEF c
  <1>4. CASE C!Return(c_buf, c_p)
    BY <1>1, <1>2, <1>3, <1>4, ReturnInBuffer DEF InBuffer
  <1>5. CASE C!Delete
    <2>1. c_p' \in 0 .. BufSize - 2
      <3>1. c_p' = IF c_p = 0 THEN c_p ELSE c_p - 1
        BY <1>5 DEF C!Delete, C!Back
      <3>2. c_p \in 0 .. BufSize - 2
        BY DEF InBuffer
      <3> QED BY <3>1, <3>2, BufSizeAssumption
    <2>2. c_buf' \in [C!Index -> Octet]
      BY <1>2, <1>3, <1>5 DEF C!Delete, C!NUL, Octet
    <2> QED BY <1>1, <2>1, <2>2 DEF InBuffer
  <1>6. CASE C!Push(c)
    <2> DEFINE stored == [c_buf EXCEPT ![c_p] = c]
    <2>1. stored \in [C!Index -> Octet]
      BY <1>1, <1>2, <1>3
    <2>2. CASE c_p + 1 < BufSize - 1
      <3>1. c_buf' = stored /\ c_p' = c_p + 1
        BY <1>6, <2>2 DEF C!Push
      <3>2. c_p' \in 0 .. BufSize - 2
        BY <1>2, <2>2, <3>1, BufSizeAssumption
      <3> QED BY <1>1, <2>1, <3>1, <3>2 DEF InBuffer
    <2>3. CASE ~ (c_p + 1 < BufSize - 1)
      <3>1. C!Return(stored, c_p + 1)
        BY <1>6, <2>3 DEF C!Push
      <3> HIDE DEF stored
      <3> QED BY <1>1, <1>2, <2>1, <3>1, ReturnInBuffer DEF InBuffer
    <2> QED BY <2>2, <2>3
  <1> QED BY <1>4, <1>5, <1>6 DEF C!GetByte, c

(* However long the lines are, and whatever DEL takes back, tb_getline     *)
(* stores the byte it has read, and the NUL behind it, in the buffer it    *)
(* was given.                                                              *)
THEOREM StaysInBuffer == RSpec => [](c_p \in C!Index /\ c_p + 1 \in C!Index)
  <1>1. RInit => InBuffer
    <2> SUFFICES ASSUME RInit PROVE InBuffer
      OBVIOUS
    <2>1. c_wire \in Seq(Octet)
      BY EmptySeq DEF RInit, C!CInit
    <2>2. c_p \in 0 .. BufSize - 2
      BY BufSizeAssumption DEF RInit, C!CInit
    <2>3. c_buf \in [C!Index -> Octet]
      BY DEF RInit, C!CInit, C!NO_CHAR, Octet
    <2> QED BY <2>1, <2>2, <2>3 DEF InBuffer
  <1>2. InBuffer /\ [RNext]_<<vars, c_state>> => InBuffer'
    <2> SUFFICES ASSUME InBuffer, [RNext]_<<vars, c_state>> PROVE InBuffer'
      OBVIOUS
    <2>1. CASE \E piece \in Source : BothReceive(piece)
      <3>1. PICK piece \in Source : c_wire' = c_wire \o piece
        BY <2>1 DEF BothReceive
      <3>2. piece \in Seq(Octet)
        BY BytesAssumption DEF Octet
      <3>3. c_wire' \in Seq(Octet)
        BY <3>1, <3>2, ConcatProperties DEF InBuffer
      <3> QED BY <2>1, <3>3 DEF BothReceive, InBuffer
    <2>2. CASE C!GetByte
      BY <2>2, GetByteInBuffer
    <2>3. CASE C!EndOfFile
      <3>1. C!Return(c_buf, c_p) /\ c_wire' = c_wire
        BY <2>3 DEF C!EndOfFile
      <3>2. c_p \in C!Index /\ c_buf \in [C!Index -> Octet]
        BY BufSizeAssumption DEF InBuffer, C!Index
      <3> QED BY <3>1, <3>2, ReturnInBuffer DEF InBuffer
    <2>4. CASE C!ReadRefused
      <3>1. C!Return(c_buf, c_p) /\ c_wire' = c_wire
        BY <2>4 DEF C!ReadRefused
      <3>2. c_p \in C!Index /\ c_buf \in [C!Index -> Octet]
        BY BufSizeAssumption DEF InBuffer, C!Index
      <3> QED BY <3>1, <3>2, ReturnInBuffer DEF InBuffer
    <2>5. CASE UNCHANGED c_state
      BY <2>5 DEF c_state, InBuffer
    <2> QED BY <2>1, <2>2, <2>3, <2>4, <2>5 DEF RNext, C!CNext
  <1>3. InBuffer => c_p \in C!Index /\ c_p + 1 \in C!Index
    BY BufSizeAssumption DEF InBuffer, C!Index
  <1> QED BY <1>1, <1>2, <1>3, PTL DEF RSpec
=============================================================================

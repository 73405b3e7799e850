------------------------------ MODULE Readers ------------------------------
(***************************************************************************)
(* The two libraries' line readers on the same input: get_line of the Rust *)
(* library (LineInput) and tb_getline of the C library (CLineInput), each  *)
(* at its own pace.                                                        *)
(***************************************************************************)
EXTENDS LineInput

CONSTANTS
  BufSize,     \* of the buffer given to tb_getline, which returns at once for 0 and 1
  MaxRefused   \* reads of the C library the kernel refuses: a bound

ASSUME BufSizeAssumption == BufSize \in Nat /\ BufSize > 1 /\ MaxRefused \in Nat

VARIABLES c_wire, c_buf, c_p, c_lines, c_ended, c_refused

c_state == <<c_wire, c_buf, c_p, c_lines, c_ended, c_refused>>

C == INSTANCE CLineInput
       WITH wire <- c_wire, buf <- c_buf, p <- c_p, lines <- c_lines, ended <- c_ended,
            refused <- c_refused

RInit == Init /\ C!CInit

BothReceive(piece) ==
  /\ Deliver(piece) /\ c_wire' = c_wire \o piece
  /\ UNCHANGED <<c_buf, c_p, c_lines, c_ended, c_refused>>

RNext ==
  \/ \E piece \in Source : BothReceive(piece)
  \/ Close /\ UNCHANGED c_state
  \/ (FirstByte \/ NextByte \/ EndOfFile \/ ReadFails) /\ UNCHANGED c_state
  \/ C!CNext /\ UNCHANGED vars

RSpec == RInit /\ [][RNext]_<<vars, c_state>>
=============================================================================

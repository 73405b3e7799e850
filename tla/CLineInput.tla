----------------------------- MODULE CLineInput -----------------------------
(***************************************************************************)
(* tb_getline, tb_getc and getc_noecho of usrlib/parch/basic_io.c: lines   *)
(* of bytes, edited with DEL, in a buffer of the caller's.  A step is one  *)
(* byte; the calls follow each other on one buffer, whose old contents     *)
(* stay.  The echo is left out.                                            *)
(***************************************************************************)
EXTENDS Integers, Sequences, FiniteSetsExt

CONSTANTS
  BufSize,     \* the length given to tb_getline: 0 and 1 return at once
  MaxRefused   \* reads the kernel refuses: a bound

NUL == 0
EOT == 4
LF == 10
CR == 13
DEL == 127
NO_CHAR == 255   \* getc_noecho's answer at the end of a file or to an error

VARIABLES
  wire,     \* bytes delivered and not read
  closed,   \* no byte will follow
  buf, p,   \* the buffer, and where in it the next byte goes
  lines,    \* what the caller found in the buffer after each call
  ended,    \* a call has met the end of the file: the next ones would too
  refused   \* reads refused so far

c_vars == <<wire, closed, buf, p, lines, ended, refused>>

Index == 0 .. BufSize - 1

(* A string ends at its first NUL, or goes on past the buffer.             *)
CString(b) ==
  LET ends == {i \in Index : b[i] = NUL}
  IN  [k \in 1 .. (IF ends = {} THEN BufSize ELSE Min(ends)) |-> b[k - 1]]

Return(b, at) ==
  LET line == [b EXCEPT ![at] = NUL]
  IN  buf' = line /\ lines' = Append(lines, CString(line)) /\ p' = 0

EndsLine(c) == c \in {LF, CR, NO_CHAR, EOT}

(* Mutant: DEL on an empty line steps back, too.                           *)
BackTooFar == p - 1

Back == IF p = 0 THEN p ELSE p - 1

Delete ==
  buf' = [buf EXCEPT ![p] = NUL] /\ p' = Back /\ UNCHANGED lines

(* Mutant: the test for a full buffer comes after the read.                *)
PushLate(c) ==
  IF p < BufSize - 1
  THEN buf' = [buf EXCEPT ![p] = c] /\ p' = p + 1 /\ UNCHANGED lines
  ELSE Return(buf, p)

(* A full buffer ends the call; the rest of the line is for the next one.  *)
Push(c) ==
  LET stored == [buf EXCEPT ![p] = c]
  IN  IF p + 1 < BufSize - 1
      THEN buf' = stored /\ p' = p + 1 /\ UNCHANGED lines
      ELSE Return(stored, p + 1)

GetByte ==
  /\ ~ ended /\ wire # <<>>
  /\ wire' = Tail(wire)
  /\ LET c == Head(wire)
     IN  \/ EndsLine(c) /\ Return(buf, p)
         \/ c = DEL /\ Delete
         \/ ~ EndsLine(c) /\ c # DEL /\ Push(c)
  /\ UNCHANGED <<closed, ended, refused>>

(* The line begun is returned; later calls return the empty line, and one  *)
(* is as good as many.                                                     *)
EndOfFile ==
  /\ ~ ended /\ wire = <<>> /\ closed
  /\ Return(buf, p) /\ ended' = TRUE
  /\ UNCHANGED <<wire, closed, refused>>

(* A refused read is taken for the end of the line; the next call goes on. *)
ReadRefused ==
  /\ ~ ended /\ refused < MaxRefused
  /\ Return(buf, p) /\ refused' = refused + 1
  /\ UNCHANGED <<wire, closed, ended>>

(* The first buffer holds anything.                                        *)
CInit ==
  /\ wire = <<>> /\ closed = FALSE
  /\ buf = [i \in Index |-> NO_CHAR] /\ p = 0
  /\ lines = <<>> /\ ended = FALSE /\ refused = 0

CNext == GetByte \/ EndOfFile \/ ReadRefused
=============================================================================

------------------------------ MODULE LineInput ------------------------------
(***************************************************************************)
(* get_line, getchar and getchar_noecho of usrlib_rust/src/fmt_io.rs: bytes*)
(* from stdin, decoded as UTF-8, echoed, and edited with DEL.  A step is   *)
(* one byte.  Stdin (external) is a terminal or a file: it delivers bytes  *)
(* in order, and a file ends; a read may fail and an echo be refused.      *)
(***************************************************************************)
EXTENDS Integers, Sequences, SequencesExt

CONSTANTS
  Source,     \* pieces of input: each a sequence of bytes
  MaxPieces   \* pieces delivered: a bound

ASSUME BytesAssumption == Source \subseteq Seq(0 .. 255)

LF == 10
CR == 13
DEL == 127
REPLACEMENT == 65533

VARIABLES
  sent,     \* the pieces delivered so far
  wire,     \* bytes delivered and not read
  closed,   \* no byte will follow
  need,     \* continuation bytes getchar_noecho still expects
  buf,      \* what it has decoded of the character
  res,      \* get_line's line so far
  lines,    \* lines returned
  screen,   \* the characters of the line the user sees
  reading   \* FALSE after get_line has returned an error or panicked

vars == <<sent, wire, closed, need, buf, res, lines, screen, reading>>

----------------------------------------------------------------------------
(* Stdin                                                                   *)

Deliver(piece) ==
  /\ ~ closed /\ Len(sent) < MaxPieces
  /\ sent' = Append(sent, piece) /\ wire' = wire \o piece
  /\ UNCHANGED <<closed, need, buf, res, lines, screen, reading>>

Close ==
  /\ ~ closed /\ closed' = TRUE
  /\ UNCHANGED <<sent, wire, need, buf, res, lines, screen, reading>>

----------------------------------------------------------------------------
(* getchar_noecho                                                          *)

(* Bytes a character takes, by its first byte.  The bytes 128 to 191, which*)
(* start no character, are taken for the start of one of two bytes.        *)
Length(init) ==
  CASE init < 128 -> 1
    [] init \in 128 .. 223 -> 2
    [] init \in 224 .. 239 -> 3
    [] init \in 240 .. 247 -> 4
    [] init \in 248 .. 251 -> 5
    [] init \in 252 .. 253 -> 6
    [] OTHER -> 0

(* Mutant: the mask is one bit short.                                      *)
LowShort(init) == init % 2 ^ (6 - Length(init))

(* init & (0b01111111 >> length)                                           *)
Low(init) == init % 2 ^ (7 - Length(init))

Continues(b) == b \in 128 .. 191

(* char::from_u32: neither a surrogate nor past the last code point.       *)
IsChar(n) == n <= 1114111 /\ n \notin 55296 .. 57343

ToChar(n) == IF IsChar(n) THEN n ELSE REPLACEMENT

----------------------------------------------------------------------------
(* getchar echoes the character; get_line edits the line.                  *)

(* "\b \b" takes one column off what the user sees.                        *)
Rubbed(s) == IF s = <<>> THEN s ELSE Front(s)

EndLine(c) ==
  /\ c \in {CR, LF}
  /\ lines' = Append(lines, res) /\ res' = <<>> /\ screen' = <<>>

(* Mutant: nothing is taken off the screen.                                *)
DeleteUnseen(c) ==
  /\ c = DEL
  /\ IF res = <<>> THEN UNCHANGED res ELSE res' = Front(res)
  /\ UNCHANGED <<screen, lines>>

Delete(c) ==
  /\ c = DEL
  /\ IF res = <<>> THEN UNCHANGED <<res, screen>>
     ELSE res' = Front(res) /\ screen' = Rubbed(screen)
  /\ UNCHANGED lines

Push(c) ==
  /\ c \notin {CR, LF, DEL}
  /\ res' = Append(res, c) /\ screen' = Append(screen, c)
  /\ UNCHANGED lines

GetLine(c) == EndLine(c) \/ Delete(c) \/ Push(c)

(* Mutant: the line begun is handed out, as tb_getline does.               *)
GivesUpWithLine ==
  /\ reading' = FALSE /\ need' = 0 /\ buf' = 0 /\ res' = <<>>
  /\ lines' = Append(lines, res) /\ UNCHANGED screen

(* The error of a read goes through to the caller of get_line, and what    *)
(* had been read is dropped, as it is when a print! panics.                *)
GivesUp ==
  /\ reading' = FALSE /\ need' = 0 /\ buf' = 0 /\ res' = <<>>
  /\ UNCHANGED <<lines, screen>>

(* A character that is complete; any of the writes that echo it may fail.  *)
Getchar(c) ==
  \/ GetLine(c) /\ need' = 0 /\ buf' = 0 /\ UNCHANGED reading
  \/ GivesUp

----------------------------------------------------------------------------
(* The next byte                                                           *)

Byte == reading /\ wire # <<>> /\ wire' = Tail(wire)

FirstByte ==
  /\ Byte /\ need = 0
  /\ LET init == Head(wire)
     IN  IF Length(init) \in {0, 1}
         THEN Getchar(IF Length(init) = 0 THEN REPLACEMENT ELSE init)
         ELSE /\ need' = Length(init) - 1 /\ buf' = Low(init)
              /\ UNCHANGED <<res, lines, screen, reading>>
  /\ UNCHANGED <<sent, closed>>

(* A byte that does not continue the character is taken with it.           *)
NextByte ==
  /\ Byte /\ need > 0
  /\ LET b == Head(wire)
         n == buf * 64 + (b % 64)
     IN  IF ~ Continues(b) THEN Getchar(REPLACEMENT)
         ELSE IF need = 1 THEN Getchar(ToChar(n))
         ELSE need' = need - 1 /\ buf' = n /\ UNCHANGED <<res, lines, screen, reading>>
  /\ UNCHANGED <<sent, closed>>

(* EEOF, or the error of the kernel: before a line or a character, or in   *)
(* the middle of one.                                                      *)
EndOfFile ==
  /\ reading /\ wire = <<>> /\ closed
  /\ GivesUp /\ UNCHANGED <<sent, wire, closed>>

ReadFails == reading /\ GivesUp /\ UNCHANGED <<sent, wire, closed>>

----------------------------------------------------------------------------

Init ==
  /\ sent = <<>> /\ wire = <<>> /\ closed = FALSE
  /\ need = 0 /\ buf = 0 /\ res = <<>> /\ lines = <<>> /\ screen = <<>>
  /\ reading = TRUE

Next ==
  \/ \E piece \in Source : Deliver(piece)
  \/ Close
  \/ FirstByte \/ NextByte \/ EndOfFile \/ ReadFails

Spec == Init /\ [][Next]_vars
=============================================================================

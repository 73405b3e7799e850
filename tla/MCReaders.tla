----------------------------- MODULE MCReaders -----------------------------
(* Characters typed by a user, and bytes no encoder writes.                 *)
EXTENDS Readers

(* UTF-8 by its definition.                                                *)
Utf8(c) ==
  CASE c < 128 -> <<c>>
    [] c < 2048 -> <<192 + c \div 64, 128 + (c % 64)>>
    [] c < 65536 -> <<224 + c \div 4096, 128 + ((c \div 64) % 64), 128 + (c % 64)>>
    [] OTHER -> <<240 + c \div 262144, 128 + ((c \div 4096) % 64),
                  128 + ((c \div 64) % 64), 128 + (c % 64)>>

(* 'a', the first and last characters of two, three and four bytes.        *)
Characters == {97, 128, 2047, 2048, 65536, 1114111, LF, CR, DEL}
Typed == {Utf8(c) : c \in Characters}
Decoded(piece) == CHOOSE c \in Characters : Utf8(c) = piece

Broken == {<<4>>, <<255>>, <<130>>, <<195>>, <<226>>, <<237, 160, 128>>, <<244, 144, 128, 128>>}
Pieces == Typed \cup Broken

(* What a line editor makes of the characters typed.                       *)
Edit(ed, piece) ==
  LET c == Decoded(piece) IN
  IF c \in {LF, CR} THEN [done |-> Append(ed.done, ed.now), now |-> <<>>]
  ELSE IF c = DEL THEN [ed EXCEPT !.now = IF @ = <<>> THEN @ ELSE Front(@)]
  ELSE [ed EXCEPT !.now = Append(@, c)]
EditedOf(pieces) == FoldLeft(Edit, [done |-> <<>>, now |-> <<>>], pieces)
Edited == EditedOf(sent)

(* Whatever the pace at which bytes arrive, the lines returned, and the one *)
(* being typed, are what the user typed.                                   *)
LinesAsTyped ==
  ToSet(sent) \subseteq Typed /\ wire = <<>> /\ reading =>
    lines = Edited.done /\ res = Edited.now

(* The echo shows the line as it is: nothing rubbed out stays, and nothing *)
(* else goes (for characters one column wide).                             *)
EchoIsLine == reading => screen = res

(* What the C program has been given, and what tb_getline has so far.      *)
CNow == [i \in 1 .. c_p |-> c_buf[i - 1]]
CHasRead == c_wire = <<>> /\ ~ c_ended

(* Lines of single bytes that fit the buffer: tb_getline, whose DEL writes *)
(* a NUL and steps back in a buffer full of older lines, returns the same  *)
(* lines as get_line.                                                      *)
Ascii == {<<97>>, <<LF>>, <<CR>>, <<DEL>>}
Fits == \A k \in 0 .. Len(sent) : Len(EditedOf(SubSeq(sent, 1, k)).now) < BufSize - 1
SameLines ==
  CHasRead /\ c_refused = 0 /\ ToSet(sent) \subseteq Ascii /\ Fits =>
    c_lines = Edited.done /\ CNow = Edited.now

(* A line without an end.  However input stops, by the end of the file, a   *)
(* failing read or a refused echo, in the middle of a line or a character, *)
(* get_line has handed out whole lines only, and of those a first part;    *)
(* tb_getline hands out what there is at the end of the file.              *)
LastLine ==
  /\ ToSet(sent) \subseteq Typed => IsPrefix(lines, Edited.done)
  /\ c_ended /\ c_refused = 0 /\ ToSet(sent) \subseteq Ascii /\ Fits =>
       c_lines = Append(Edited.done, Edited.now)

(* A line longer than the buffer comes in parts, over several calls, and so *)
(* does one in which a read fails: nothing of it is lost or read twice,    *)
(* wherever the buffer fills up or the read fails.                         *)
CutGoesOn ==
  CHasRead /\ ToSet(sent) \cap {<<DEL>>} = {} =>
    FlattenSeq(c_lines) \o CNow
      = SelectSeq(FlattenSeq(sent), LAMBDA b : b \notin {LF, CR, 4, 255})
=============================================================================

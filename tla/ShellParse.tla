----------------------------- MODULE ShellParse -----------------------------
(***************************************************************************)
(* Command::parse of shell/src/main.rs, on lines of characters.  The code  *)
(* counts positions from 0 in find and from the start of what is left in   *)
(* split_at; here positions count from 1.                                  *)
(***************************************************************************)
EXTENDS Naturals, Sequences, FiniteSetsExt, SequencesExt

CONSTANT Lines   \* the lines the user may enter

VARIABLES line, result

(* IOType: Default, or the path of a file.                                 *)
Default == <<>>
Path(p) == <<p>>

Command(exec, args, input, output) ==
  [kind |-> "Ok", exec_path |-> exec, args |-> args, input |-> input, output |-> output]
ParseErr == [kind |-> "ParseErr"]
Panic == [kind |-> "panic"]
Unread == [kind |-> "none"]

----------------------------------------------------------------------------
(* str                                                                     *)

(* The first place of a character, 0 when it is not there.                 *)
Find(s, c) == LET at == {i \in 1 .. Len(s) : s[i] = c} IN IF at = {} THEN 0 ELSE Min(at)

Before(s, i) == SubSeq(s, 1, i - 1)

(* Mutant: one place too far.                                              *)
FromLate(s, i) == SubSeq(s, i + 1, Len(s))

From(s, i) == SubSeq(s, i, Len(s))

Trim(s) ==
  LET solid == {i \in 1 .. Len(s) : s[i] # " "}
  IN  IF solid = {} THEN <<>> ELSE SubSeq(s, Min(solid), Max(solid))

(* split(' '), without the empty pieces.                                   *)
Words(s) ==
  LET solid == {i \in 1 .. Len(s) : s[i] # " "}
      first == {i \in solid : i - 1 \notin solid}
      last(i) == Min({j \in solid : j >= i /\ j + 1 \notin solid})
      words == SetToSortSeq(first, <)
  IN  [k \in 1 .. Len(words) |-> SubSeq(s, words[k], last(words[k]))]

----------------------------------------------------------------------------
(* parse                                                                   *)

(* exec_path and arguments.                                                *)
WithWords(exec, input, output) ==
  LET words == Words(exec)
  IN  IF words = <<>> THEN ParseErr
      ELSE Command(Head(words), Tail(words), input, output)

(* Both redirections: what follows the first sign is split where the       *)
(* second one would be, had the first one not been taken off, and must     *)
(* start with the second one there (an unwrap).                            *)
(* Mutant: the sign that was taken off is counted.                         *)
SecondFileBefore(rest, gap) == SubSeq(rest, gap, Len(rest))

SecondFile(rest, gap) == SubSeq(rest, gap + 1, Len(rest))
FirstFile(rest, gap) == SubSeq(rest, 1, gap)

ParseBoth(cmd, i, o) ==
  LET first == Min({i, o})
      gap == Max({i, o}) - first
      rest == From(cmd, first + 1)
      sign == IF i < o THEN ">" ELSE "<"
      second == SecondFile(rest, gap)
      one == Path(Trim(FirstFile(rest, gap)))
      other == Path(Trim(From(second, 2)))
  IN  IF second = <<>> \/ second[1] # sign THEN Panic
      ELSE IF i < o THEN WithWords(Before(cmd, first), one, other)
      ELSE WithWords(Before(cmd, first), other, one)

(* Mutant: the file starts at the sign.                                    *)
ParseRedirectionUncut(cmd, i, o) ==
  CASE i > 0 -> WithWords(Before(cmd, i), Path(Trim(From(cmd, i))), Default)
    [] o > 0 -> WithWords(Before(cmd, o), Default, Path(Trim(From(cmd, o + 1))))
    [] OTHER -> WithWords(cmd, Default, Default)

ParseRedirection(cmd, i, o) ==
  CASE i > 0 -> WithWords(Before(cmd, i), Path(Trim(From(cmd, i + 1))), Default)
    [] o > 0 -> WithWords(Before(cmd, o), Default, Path(Trim(From(cmd, o + 1))))
    [] OTHER -> WithWords(cmd, Default, Default)

(* A pipe is looked for first.  The right side starts with the sign.       *)
RECURSIVE Parse(_)
Parse(cmd) ==
  LET pipe == Find(cmd, "|")
      i == Find(cmd, "<")
      o == Find(cmd, ">")
  IN  IF pipe > 0
      THEN LET l == Parse(Trim(Before(cmd, pipe)))
           IN  IF l.kind # "Ok" THEN l
               ELSE LET r == Parse(Trim(From(cmd, pipe)))
                    IN  IF r.kind # "Ok" THEN r
                        ELSE IF l.output # Default \/ r.input # Default THEN ParseErr
                        ELSE [l EXCEPT !.output = Path(r)]
      ELSE IF i > 0 /\ o > 0 THEN ParseBoth(cmd, i, o)
      ELSE ParseRedirection(cmd, i, o)

----------------------------------------------------------------------------

Init == line \in Lines /\ result = Unread

(* serve_exec: a line is parsed whole.                                     *)
ServeExec == result = Unread /\ result' = Parse(line) /\ UNCHANGED line

Spec == Init /\ [][ServeExec]_<<line, result>>
=============================================================================

---------------------------- MODULE MCShellParse ----------------------------
(* Lines written by the grammar of Command::parse's comment, and what they  *)
(* should be read as.                                                       *)
EXTENDS ShellParse, TLC

CONSTANT MaxLength   \* of a raw line

Names == {<<"a">>, <<"b", "a">>}
Args == {<<>>} \cup {<<x>> : x \in Names} \cup {<<x, y>> : x, y \in Names}
Redirection == {Default} \cup {Path(x) : x \in Names}
Commands ==
  {Command(e, a, i, o) : e \in Names, a \in Args, i \in Redirection, o \in Redirection}

(* cmd [args] [> dst] [< src], with or without spaces about the signs.      *)
Spaces == {<<>>, <<" ">>}
JoinWords(ws) == FoldLeft(LAMBDA s, w : s \o <<" ">> \o w, <<>>, ws)
Signed(sign, file, sp) ==
  IF file = Default THEN <<>> ELSE sp \o <<sign>> \o sp \o file[1]
Written(c, sp) ==
  c.exec_path \o JoinWords(c.args) \o Signed(">", c.output, sp) \o Signed("<", c.input, sp)

Renders(c) == {Written(c, sp) : sp \in Spaces}
LinesOf(cs) == UNION {Renders(c) : c \in cs}

OneFile == {c \in Commands : c.input = Default \/ c.output = Default}
TwoFiles == Commands \ OneFile
Plain == {c \in Commands : c.input = Default /\ c.output = Default}

OneFileLines == LinesOf(OneFile)
TwoFileLines == LinesOf(TwoFiles)
PipeLines == {Written(l, sp) \o sp \o <<"|">> \o sp \o Written(r, sp) : l, r \in Plain, sp \in Spaces}
Characters == {"a", " ", "<", ">", "|"}
RawLines == UNION {[1 .. n -> Characters] : n \in 0 .. MaxLength}
MixedLines == OneFileLines \cup RawLines

Read == result # Unread

(* A command with at most one redirection is read as it was meant.         *)
OneFileAsMeant ==
  Read => \A c \in OneFile : line \in Renders(c) => result = c

(* main.rs:132 writes the grammar as "cmd [args] [ | nxt_cmd or > dst_file] *)
(* [ < src_file ]": both redirections may be there, or a pipe and the next  *)
(* command instead of the output file.                                      *)
GrammarLines == TwoFileLines \cup PipeLines
GrammarAsMeant ==
  Read =>
    /\ \A c \in TwoFiles : line \in Renders(c) => result = c
    /\ line \in PipeLines => result.kind = "Ok"

(* What was written is in what is read: no character of a name is lost,    *)
(* doubled or made up, however the signs and spaces are placed.            *)
Letters(s) == Cardinality({k \in 1 .. Len(s) : s[k] = "a"})
NothingLost ==
  result.kind = "Ok" =>
    Letters(line) = Letters(result.exec_path \o FlattenSeq(result.args)
                            \o FlattenSeq(result.input) \o FlattenSeq(result.output))

(* What the two limits of parse come to, on any line: a pipe is refused,    *)
(* whatever is about it; and a line with at most one of each redirection    *)
(* before the pipe ends the shell (an unwrap) when it has both, and only    *)
(* then.                                                                    *)
Times(sign, s) == Cardinality({k \in 1 .. Len(s) : s[k] = sign})
Left == LET pipe == Find(line, "|") IN IF pipe = 0 THEN line ELSE Before(line, pipe)
SignsDecide ==
  Read =>
    /\ Times("|", line) > 0 => result.kind # "Ok"
    /\ Times("<", Left) <= 1 /\ Times(">", Left) <= 1 =>
         (result = Panic <=> Times("<", Left) + Times(">", Left) = 2)
=============================================================================

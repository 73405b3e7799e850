----------------------------- MODULE MCPrograms -----------------------------
(* Commands for TLC: every file of up to MaxFile bytes, and arguments with *)
(* NULs in them, too many of them, or none.                                *)
EXTENDS ProgramsProperties

CONSTANTS MaxFile, MaxWords

Names == {<<ASCII>>, <<LEAD, CONT>>, <<CONT>>, <<NUL>>, <<ASCII, NUL, CONT>>}
Files == UNION {[1 .. n -> {ASCII, LEAD, CONT}] : n \in 0 .. MaxFile}

Run(prog, words, content, self) ==
  [prog |-> prog, words |-> words, content |-> content, self |-> self]

MCCommands ==
  {Run("cat", << <<ASCII>>, <<ASCII>> >>, f, s) : f \in Files, s \in BOOLEAN}
  \cup {Run(p, << <<ASCII>>, w >>, <<ASCII>>, FALSE) : p \in {"cat", "mkdir"}, w \in Names}
  \cup {Run(p, [i \in 1 .. n |-> <<ASCII>>], <<>>, FALSE) :
          p \in {"cat", "mkdir"}, n \in 1 .. MaxWords}
=============================================================================

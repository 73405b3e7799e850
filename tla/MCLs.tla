-------------------------------- MODULE MCLs --------------------------------
(* Small directories, and calls with every conversion and every number.    *)
EXTENDS Ls

Entry(n, t, name) == [inode |-> n, f_type |-> t, name |-> name]
MCDirectories ==
  LET a == Entry(0, 16, <<"a">>)
      b == Entry(NARROW - 1, 4, <<"b", "b">>)
  IN  {<<>>, <<a>>, <<b, a>>, <<a, b, a>>}

Unsigned(n) == [chars |-> <<"%", "u">>, args |-> <<Num(n)>>, text |-> Numeral(n, 10)]
Hex(n) == [chars |-> <<"%", "x">>, args |-> <<Num(n)>>, text |-> Numeral(n, 16)]
Pointer(n) ==
  [chars |-> <<"%", "p">>, args |-> <<Num(n)>>, text |-> <<"0", "x">> \o Numeral(n, 16)]
Character(c) == [chars |-> <<"%", "c">>, args |-> <<Str(<<c>>)>>, text |-> <<c>>]
NullString == [chars |-> <<"%", "s">>, args |-> <<NullStr>>, text |-> <<"(null)">>]
Percent == [chars |-> <<"%", "%">>, args |-> <<>>, text |-> <<"%">>]
Unknown == Chars(<<"%", "q">>)

Conversions ==
  {k : k \in UNION {{Decimal(n), Unsigned(n), Long(n), Hex(n), Pointer(n)} : n \in 0 .. WORD - 1}}
  \cup {Chars(<<"w">>), Character("c"), String(<<>>), String(<<"s", "t">>), NullString, Percent, Unknown}

(* A format that ends after a "%" shows nothing for it.                    *)
Lone == [chars |-> <<"%">>, args |-> <<>>, text |-> <<>>]

MCCalls ==
  {<<k>> : k \in Conversions} \cup {<<k, Lone>> : k \in Conversions}
  \cup {<<k, m>> : k, m \in {Decimal(WORD - 1), Pointer(0), Chars(<<"w">>), NullString, Percent, Unknown}}

(* The characters of s are among those of t, in the same order.            *)
Within(s, t) ==
  FoldLeft(LAMBDA k, x : IF k < Len(s) /\ s[k + 1] = x THEN k + 1 ELSE k, 0, t) = Len(s)

(* No number runs over put_int's buffer, and what a program prints is what *)
(* its calls mean: all of it, or without what a refused write took and in  *)
(* order.  ls means the first entries of the directory it was told, or of  *)
(* the one it is in, as many as its buffer holds, or a complaint with the  *)
(* code -1; when getcwd failed, nothing is said of the entries.            *)
Rows(d) == FlattenSeq([k \in DOMAIN d |-> FlattenSeq([m \in 1 .. 6 |-> RowParts(d[k])[m].text])])
Told == dirs[IF argc = 1 THEN CWD ELSE ARG]
Listing == <<"header">> \o Rows(Filled(Told))
Complaint == code = WORD - 1 /\ Len(meant) > 1 /\ Head(meant) \in {"only 1 argument", "returned"}
PrintsAsMeant ==
  /\ conversion # "overrun"
  /\ Idle =>
       /\ Within(console, meant) /\ (refused = 0 => console = meant)
       /\ pc = "ended" /\ named => Complaint \/ meant = Listing
=============================================================================

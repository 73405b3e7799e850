--------------------------------- MODULE Ls ---------------------------------
(***************************************************************************)
(* ls (parch_utils/ls/ls.c), on the C library; and, as what any other C    *)
(* program does with tb_printf, single calls of it.  The kernel (external) *)
(* answers a refused call with a negated error number.                     *)
(***************************************************************************)
EXTENDS CPrintf

CONSTANTS
  Directories,  \* what they may hold: see Dirent
  ROOM,         \* entries of the buffer (128)
  Errors,       \* error numbers
  Leftovers,    \* what a0 may hold when main ends without a return
  Calls         \* calls of another program: see Part

ftype_name ==
  [n \in {1, 2, 4, 8, 16, 32, 64, 128, 256} |->
     CASE n = 1 -> "SOCKET" [] n = 2 -> "LINK" [] n = 4 -> "REGULAR" [] n = 8 -> "BLOCK"
       [] n = 16 -> "DIR" [] n = 32 -> "CHAR" [] n = 64 -> "FIFO" [] n = 128 -> "UNKNOWN"
       [] n = 256 -> "MOUNT"]

Dirent == [inode : 0 .. NARROW - 1, f_type : DOMAIN ftype_name, name : Seq(STRING)]

(* A call as its program means it: parts with the characters they have in  *)
(* the format, the arguments they take, and the text they stand for.       *)
Part == [chars : Seq(STRING), args : Seq([num : Nat, str : Seq(STRING)]), text : Seq(STRING)]

ASSUME LsAssumption ==
  /\ ROOM \in Nat /\ Errors \subseteq 1 .. WORD \div 2
  /\ \A s \in Directories : \A d \in ToSet(s) :
       d.inode \in 0 .. NARROW - 1 /\ d.f_type \in DOMAIN ftype_name

VARIABLES
  prog, argc,          \* the program, and its number of arguments
  dirs,                \* the directory of each name
  pc, dir_name, named, \* where it is, and whether getcwd gave the name
  desc, entries, i,    \* the descriptor, what getdents gave, the entry shown next
  meant,               \* what the calls of tb_printf so far should show
  code                 \* the exit code, -1 before

program == <<prog, argc, dirs>>
vars == <<program, pc, dir_name, named, desc, entries, i, meant, code, printfVars>>

(* The directory a program is in, the one it is told, and what the stack   *)
(* held before.                                                            *)
CWD == "cwd"
ARG == "arg"
STACK == "stack"

----------------------------------------------------------------------------
(* Calls of tb_printf                                                      *)

Numeral(n, b) ==
  LET places == CHOOSE k \in 1 .. BUF : n < b ^ k /\ (k > 1 => n >= b ^ (k - 1))
  IN  [k \in 1 .. places |-> digits[((n \div b ^ (places - k)) % b) + 1]]
SignedNumeral(n, b) ==
  IF 2 * n >= WORD THEN <<"-">> \o Numeral(WORD - n, b) ELSE Numeral(n, b)

Chars(s) == [chars |-> s, args |-> <<>>, text |-> s]
Decimal(n) == [chars |-> <<"%", "d">>, args |-> <<Num(n)>>, text |-> SignedNumeral(n, 10)]
Long(n) == [chars |-> <<"%", "l">>, args |-> <<Num(n)>>, text |-> Numeral(n % NARROW, 10)]
String(s) == [chars |-> <<"%", "s">>, args |-> <<Str(s)>>, text |-> s]

Say(parts) ==
  /\ TbPrintf(FlattenSeq([k \in DOMAIN parts |-> parts[k].chars]),
              FlattenSeq([k \in DOMAIN parts |-> parts[k].args]))
  /\ meant' = meant \o FlattenSeq([k \in DOMAIN parts |-> parts[k].text])

----------------------------------------------------------------------------
(* ls                                                                      *)

At(l) == prog = "ls" /\ pc = l /\ Idle

(* The answer of getcwd is not looked at.                                  *)
Named ==
  /\ At("main") /\ argc \in {1, 2} /\ pc' = "open"
  /\ IF argc = 2 THEN dir_name' = ARG /\ UNCHANGED named
     ELSE \/ dir_name' = CWD /\ UNCHANGED named
          \/ dir_name' = STACK /\ named' = FALSE
  /\ UNCHANGED <<program, desc, entries, i, meant, code, printfVars>>

Usage ==
  /\ At("main") /\ argc > 2 /\ pc' = "fail"
  /\ Say(<<Chars(<<"only 1 argument">>), Decimal(argc - 1), Chars(<<"CRLF">>)>>)
  /\ UNCHANGED <<program, dir_name, named, desc, entries, i, code>>

Returned(n) == Say(<<Chars(<<"returned">>), Decimal(n), Chars(<<"CRLF">>)>>)

Open ==
  /\ At("open")
  /\ \/ desc' = 3 /\ pc' = "getdents" /\ UNCHANGED <<meant, printfVars>>
     \/ \E e \in Errors : desc' = WORD - e /\ pc' = "fail" /\ Returned(desc')
  /\ UNCHANGED <<program, dir_name, named, entries, i, code>>

(* The buffer takes the first ROOM entries, and nothing tells of the rest. *)
Filled(d) == SubSeq(d, 1, Min({Len(d), ROOM}))

(* What it complains of is the descriptor.                                 *)
Getdents ==
  /\ At("getdents")
  /\ \/ /\ entries' = Filled(dirs[dir_name])
        /\ pc' = "header" /\ UNCHANGED <<meant, printfVars>>
     \/ pc' = "fail" /\ Returned(desc) /\ UNCHANGED entries
  /\ UNCHANGED <<program, dir_name, named, desc, i, code>>

Header ==
  /\ At("header") /\ pc' = "rows" /\ i' = 0 /\ Say(<<Chars(<<"header">>)>>)
  /\ UNCHANGED <<program, dir_name, named, desc, entries, code>>

RowParts(d) ==
  <<Long(d.inode), Chars(<<"TAB">>), String(<<ftype_name[d.f_type]>>), Chars(<<"TAB">>),
    String(d.name), Chars(<<"CRLF">>)>>

Row ==
  /\ At("rows") /\ i < Len(entries) /\ i' = i + 1 /\ Say(RowParts(entries[i + 1]))
  /\ UNCHANGED <<program, pc, dir_name, named, desc, entries, code>>

(* In a freestanding program main returns what is in the register.         *)
End ==
  /\ At("rows") /\ i = Len(entries) /\ pc' = "ended" /\ code' \in Leftovers
  /\ UNCHANGED <<program, dir_name, named, desc, entries, i, meant, printfVars>>

Fail ==
  /\ At("fail") /\ pc' = "ended" /\ code' = WORD - 1
  /\ UNCHANGED <<program, dir_name, named, desc, entries, i, meant, printfVars>>

(* Another program.                                                        *)
CallOnce ==
  /\ prog = "other" /\ pc = "main" /\ Idle /\ pc' = "called"
  /\ \E parts \in Calls : Say(parts)
  /\ UNCHANGED <<program, dir_name, named, desc, entries, i, code>>

Init ==
  /\ prog \in {"ls", "other"} /\ argc \in IF prog = "ls" THEN 1 .. 3 ELSE {1}
  /\ dirs \in [{CWD, ARG, STACK} -> IF prog = "ls" THEN Directories ELSE {<<>>}]
  /\ pc = "main" /\ dir_name = STACK /\ named = TRUE
  /\ desc = 0 /\ entries = <<>> /\ i = 0 /\ meant = <<>> /\ code = -1
  /\ PrintfInit

Library == VfPrintf /\ UNCHANGED <<program, pc, dir_name, named, desc, entries, i, meant, code>>

Next ==
  \/ Named \/ Usage \/ Open \/ Getdents \/ Header \/ Row \/ End \/ Fail \/ CallOnce
  \/ Library

Spec == Init /\ [][Next]_vars
=============================================================================

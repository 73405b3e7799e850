------------------------------ MODULE CPrintf ------------------------------
(***************************************************************************)
(* tb_printf of the C library (usrlib/parch/basic_io.c): a step takes a    *)
(* character of the format or a digit of a number, and each string it      *)
(* comes to is one write, whose answer nobody looks at.  Only this process *)
(* writes.                                                                 *)
(***************************************************************************)
EXTENDS Integers, SequencesExt

CONSTANTS
  WORD,     \* values of a register (2^64)
  NARROW,   \* values of a u32 (2^32)
  BUF,      \* bytes of put_int's buffer (30)
  MaxRefused   \* writes refused: a bound

ASSUME CPrintfAssumption ==
  WORD \in Nat \ {0} /\ NARROW \in 1 .. WORD /\ BUF \in Nat /\ MaxRefused \in Nat

VARIABLES
  format, args,     \* what is left of them
  conversion,       \* what the last characters were: see vfprintf's state
  unsigned_num, base, neg, buf,   \* of put_int; buf from ptr + 1 on
  console, refused  \* what arrived of what was written, and the writes refused

call == <<format, args>>
int == <<unsigned_num, base, neg, buf>>
written == <<console, refused>>
printfVars == <<call, conversion, int, written>>

digits == <<"0", "1", "2", "3", "4", "5", "6", "7", "8", "9", "A", "B", "C", "D", "E", "F">>

(* An argument: a number, or a string, whose address is the number.        *)
Num(n) == [num |-> n, str |-> <<>>]
Str(s) == [num |-> 1, str |-> s]
NullStr == [num |-> 0, str |-> <<>>]

(* Writes, one after the other; the kernel may refuse any.                 *)
Puts(strings) ==
  \E lost \in SUBSET DOMAIN strings :
    /\ refused' = refused + Cardinality(lost) /\ refused' <= MaxRefused
    /\ console' = console \o
         FlattenSeq([k \in DOMAIN strings |-> IF k \in lost THEN <<>> ELSE strings[k]])

Idle == conversion = "none" /\ format = <<>>

(* va_arg: the next argument, of the type the conversion says.             *)
Arg == Head(args)

----------------------------------------------------------------------------
(* put_int                                                                 *)

(* Mutant: the sign is looked at, but the number is taken as it is.        *)
PutIntKept(num, b, sign) ==
  /\ neg' = (sign /\ 2 * num >= WORD) /\ unsigned_num' = num
  /\ base' = b /\ buf' = <<>> /\ conversion' = "digits"

(* A negative number is negated as a u64, the smallest to itself.          *)
PutInt(num, b, sign) ==
  /\ neg' = (sign /\ 2 * num >= WORD)
  /\ unsigned_num' = IF neg' THEN WORD - num ELSE num
  /\ base' = b /\ buf' = <<>> /\ conversion' = "digits"

(* The buffer's last byte is the NUL, and nothing stops ptr at its first.  *)
Full == Len(buf) = BUF - 1

(* do .. while: one digit at least, the last one first.                    *)
PutDigit ==
  /\ conversion = "digits"
  /\ IF Full
     THEN conversion' = "overrun" /\ UNCHANGED <<buf, unsigned_num>>
     ELSE /\ buf' = <<digits[(unsigned_num % base) + 1]>> \o buf
          /\ unsigned_num' = unsigned_num \div base
          /\ conversion' = IF unsigned_num' = 0 THEN "int" ELSE "digits"
  /\ UNCHANGED <<call, base, neg, written>>

PutsInt ==
  /\ conversion = "int"
  /\ IF neg /\ Full
     THEN conversion' = "overrun" /\ UNCHANGED written
     ELSE conversion' = "none" /\ Puts(<<IF neg THEN <<"-">> \o buf ELSE buf>>)
  /\ UNCHANGED <<call, int>>

----------------------------------------------------------------------------
(* vfprintf                                                                *)

Consume == format' = Tail(format)

PutText ==
  /\ conversion = "none" /\ format # <<>> /\ Consume
  /\ IF Head(format) = "%"
     THEN conversion' = "%" /\ UNCHANGED written
     ELSE Puts(<< <<Head(format)>> >>) /\ UNCHANGED conversion
  /\ UNCHANGED <<args, int>>

(* %d, %u, %l, %x and %p.  Only %d is signed.                              *)
ConvertInt ==
  /\ conversion = "%" /\ format # <<>> /\ Consume
  /\ \/ Head(format) = "d" /\ PutInt(Arg.num, 10, TRUE) /\ UNCHANGED written
     \/ Head(format) = "u" /\ PutInt(Arg.num, 10, FALSE) /\ UNCHANGED written
     \/ Head(format) = "l" /\ PutInt(Arg.num % NARROW, 10, FALSE) /\ UNCHANGED written
     \/ Head(format) = "x" /\ PutInt(Arg.num, 16, FALSE) /\ UNCHANGED written
     \/ Head(format) = "p" /\ PutInt(Arg.num, 16, FALSE) /\ Puts(<< <<"0", "x">> >>)
  /\ args' = Tail(args)

(* %s and %c; the character is passed as a string of one.                  *)
ConvertString ==
  /\ conversion = "%" /\ format # <<>> /\ Head(format) \in {"s", "c"}
  /\ Puts(<<IF Arg.num = 0 THEN <<"(null)">> ELSE Arg.str>>)
  /\ Consume /\ args' = Tail(args) /\ conversion' = "none" /\ UNCHANGED int

(* %% and what is no conversion.                                           *)
ConvertOther ==
  /\ conversion = "%" /\ format # <<>>
  /\ Head(format) \notin {"d", "u", "l", "x", "p", "s", "c"}
  /\ Puts(IF Head(format) = "%" THEN << <<"%">> >> ELSE << <<"%">>, <<Head(format)>> >>)
  /\ Consume /\ conversion' = "none" /\ UNCHANGED <<args, int>>

(* A format may end after a "%".                                           *)
EndInConversion ==
  /\ conversion = "%" /\ format = <<>> /\ conversion' = "none"
  /\ UNCHANGED <<call, int, written>>

VfPrintf ==
  PutText \/ ConvertInt \/ ConvertString \/ ConvertOther \/ EndInConversion
    \/ PutDigit \/ PutsInt

PrintfInit ==
  /\ format = <<>> /\ args = <<>> /\ conversion = "none"
  /\ unsigned_num = 0 /\ base = 10 /\ neg = FALSE /\ buf = <<>>
  /\ console = <<>> /\ refused = 0

(* The call.                                                               *)
TbPrintf(f, a) ==
  /\ Idle /\ format' = f /\ args' = a /\ UNCHANGED <<conversion, int, written>>
=============================================================================

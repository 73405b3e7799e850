------------------------------ MODULE Programs ------------------------------
(***************************************************************************)
(* A command of the shell from the exec in its child to the exit code it   *)
(* reports: the startup of the Rust library (lib.rs), cat and mkdir, what  *)
(* they print (fmt_io.rs), their panic handlers, and the heap they have    *)
(* (allocator.rs).  A step of a program leads from the answer of one       *)
(* system call to the next call; a step of the kernel (external) answers.  *)
(***************************************************************************)
EXTENDS Syscalls

CONSTANTS
  Commands,    \* what is run: see Command
  ARGS,        \* room for arguments in _start (16)
  CHUNK,       \* the buffer of cat (128)
  HEAP_SIZE,   \* bytes of heap (32768)
  MIN_CAP,     \* what a byte vector holds when it first grows (8)
  MaxPanics,   \* panics within panics the stack has room for
  Refusals,    \* what the kernel leaves in a0 when it refuses
  Killed       \* the exit code of a program the kernel ended

(* Bytes of files and arguments: a character of one byte, the two bytes of *)
(* another, and the terminator.                                            *)
ASCII == "a"
LEAD == "lead"
CONT == "cont"
Byte == {ASCII, LEAD, CONT, NUL}
REPLACED == "?"   \* what stands for bytes that are no character
WIDE == "wide"    \* the character of two bytes

(* A program with its arguments, the first of which is its path; the file  *)
(* cat opens; and whether stdout was redirected to that file.              *)
Command == [prog : {"cat", "mkdir"}, words : Seq(Seq(Byte)), content : Seq(Byte),
            self : BOOLEAN]

ASSUME ProgramsAssumption ==
  /\ Commands \subseteq Command /\ \A c \in Commands : c.words # <<>>
  /\ ARGS \in Nat /\ CHUNK \in Nat \ {0} /\ HEAP_SIZE \in Nat
  /\ MIN_CAP \in Nat /\ MaxPanics \in Nat \ {0}
  /\ Refusals \subseteq 0 .. WORD - 1
  /\ Killed \in Int \ {0, -1}

STDOUT == 1
Opened == 3   \* the number a file gets

VARIABLES
  cmd,      \* the command, chosen in the initial state
  image,    \* the program in memory: until exec, the shell's
  pc,       \* where it is
  todo, next,   \* pieces still to print, and what is done after them
  trap, result, \* the call the kernel is asked for, and the answer
  argv,     \* what the kernel, then _start, made of the arguments
  pos, grown,   \* the position in the file, and what was written behind its end
  buffer, res, cap,   \* cat's buffer, the vector it fills and its capacity
  dirs,     \* directories made
  out,      \* pieces that reached stdout
  panics,   \* panics so far
  met,      \* what went wrong: a number not in the table, no memory, writes refused
  code, report  \* the exit code, and what the shell reports

process == <<image, pc, todo, next, argv, res, cap, panics>>
kernel == <<pos, grown, buffer, dirs, out>>
vars == <<cmd, process, kernel, trap, result, met, code, report>>

NoCall == [nr |-> -1, regs |-> <<>>]
NoCode == [is |-> "none", value |-> 0]
Code(n) == [is |-> "code", value |-> n]

At(l) == pc = l /\ trap = NoCall
Ask(call, l) == trap' = call /\ pc' = l
NoAsk == UNCHANGED trap

----------------------------------------------------------------------------
(* Strings                                                                 *)

(* strlen, and the slice _start makes of it; the kernel copies as far.     *)
StrLen(s) ==
  CHOOSE n \in 0 .. Len(s) - 1 : s[n + 1] = NUL /\ \A i \in 1 .. n : s[i] # NUL

(* Mutant: the terminator is taken along.                                  *)
SliceWithEnd(s) == SubSeq(s, 1, StrLen(s) + 1)
Slice(s) == SubSeq(s, 1, StrLen(s))

Utf8(s) ==
  /\ \A i \in 1 .. Len(s) : s[i] = LEAD => i < Len(s) /\ s[i + 1] = CONT
  /\ \A i \in 1 .. Len(s) : s[i] = CONT => i > 1 /\ s[i - 1] = LEAD

(* from_utf8_lossy, with an entry for each byte: the last of a character   *)
(* stands for it, and one that belongs to none is replaced.                *)
Lossy(s) ==
  [i \in 1 .. Len(s) |->
     CASE s[i] = LEAD -> IF i < Len(s) /\ s[i + 1] = CONT THEN "" ELSE REPLACED
       [] s[i] = CONT -> IF i > 1 /\ s[i - 1] = LEAD THEN WIDE ELSE REPLACED
       [] OTHER -> s[i]]

----------------------------------------------------------------------------
(* What a program does next                                                *)

AskFor(call, l) ==
  trap' = call /\ pc' = l /\ UNCHANGED <<todo, next, panics, code>>

Goto(l) == pc' = l /\ UNCHANGED <<trap, todo, next, panics, code>>

Say(pieces, then) ==
  /\ todo' = pieces /\ next' = then /\ pc' = "print"
  /\ UNCHANGED <<trap, panics, code>>

(* Mutant: mkdir's handler is written like cat's.                          *)
PanicLooping ==
  /\ panics' = panics + 1
  /\ IF panics = MaxPanics
     THEN pc' = "zombie" /\ code' = Code(Killed) /\ UNCHANGED <<todo, next, trap>>
     ELSE /\ todo' = << <<"panicked">>, <<"why">> >> /\ next' = "loop"
          /\ pc' = "print" /\ UNCHANGED <<trap, code>>

(* The handlers print.  cat's then loops for ever, the others exit(-1).    *)
(* They run on the stack of what panicked, a handler included.             *)
Panic ==
  /\ panics' = panics + 1
  /\ IF panics = MaxPanics
     THEN pc' = "zombie" /\ code' = Code(Killed) /\ UNCHANGED <<todo, next, trap>>
     ELSE /\ todo' = << <<"panicked">>, <<"why">> >>
          /\ next' = IF image = "cat" THEN "loop" ELSE "failure"
          /\ pc' = "print" /\ UNCHANGED <<trap, code>>

(* rust_main of cat returned Err, main reports it and returns -1.          *)
Fail(why) == Say(<< <<"failed">>, <<why>>, <<"CRLF">> >>, "failure")

(* An allocation beside the cap bytes of the vector.  It fails when they   *)
(* do not fit, and may fail before: the heap is kept in powers of two.     *)
Allocate(bytes, proceed) ==
  \/ cap + bytes <= HEAP_SIZE /\ proceed /\ UNCHANGED met
  \/ Panic /\ met' = [met EXCEPT !.memory = TRUE] /\ UNCHANGED <<res, cap>>

Own == UNCHANGED <<cmd, image, kernel, result, report>>

----------------------------------------------------------------------------
(* The child of the shell (Command::execute, after the redirections)       *)

Launch ==
  /\ At("launch") /\ AskFor(Exec(cmd.words[1], Tail(cmd.words)), "launched")
  /\ Own /\ UNCHANGED <<argv, res, cap, met>>

(* The error reaches main, which prompts: a second shell on the same input. *)
LaunchFails ==
  /\ At("launched")
  /\ IF result.is = "err" THEN Goto("nested") ELSE Panic
  /\ Own /\ UNCHANGED <<argv, res, cap, met>>

(* It ends like any shell: see Shell.                                      *)
NestedEnds ==
  /\ At("nested") /\ \E s \in {0, -1} : AskFor(Exit(s), "leaving")
  /\ Own /\ UNCHANGED <<argv, res, cap, met>>

----------------------------------------------------------------------------
(* _start                                                                  *)

Start ==
  /\ At("_start")
  /\ IF Len(argv) > ARGS
     THEN Panic /\ UNCHANGED argv
     ELSE Goto("main") /\ argv' = [i \in DOMAIN argv |-> Slice(argv[i])]
  /\ Own /\ UNCHANGED <<res, cap, met>>

----------------------------------------------------------------------------
(* cat                                                                     *)

CatMain ==
  /\ At("main") /\ image = "cat"
  /\ IF Len(argv) # 2 THEN Fail("arguments")
     ELSE IF ~ Utf8(argv[2]) THEN Fail("utf-8")
     ELSE AskFor(Open(argv[2], OpenMode.READ), "opened")
  /\ Own /\ UNCHANGED <<argv, res, cap, met>>

CatOpened ==
  /\ At("opened")
  /\ CASE result.is = "ok" -> AskFor(Read(result.value, "buffer", CHUNK), "got")
       [] result.is = "err" -> Fail("open")
       [] OTHER -> Panic
  /\ Own /\ UNCHANGED <<argv, res, cap, met>>

(* Mutant: a vector always doubles.                                        *)
GrownDouble(needed) == 2 * cap

(* The capacity a vector grows to.                                         *)
Grown(needed) ==
  CHOOSE c \in {2 * cap, needed, MIN_CAP} : c >= 2 * cap /\ c >= needed /\ c >= MIN_CAP

(* Mutant: the whole buffer is taken.                                      *)
ExtendByBuffer(n) ==
  Allocate(Grown(Len(res) + CHUNK),
    /\ res' = res \o buffer /\ cap' = Grown(Len(res) + CHUNK)
    /\ AskFor(Read(Opened, "buffer", CHUNK), "got"))

(* res.extend(buffer[0..length]): old and new vector exist side by side    *)
(* while one is copied into the other.                                     *)
Extend(n) ==
  LET longer == res \o SubSeq(buffer, 1, n)
      again == res' = longer /\ AskFor(Read(Opened, "buffer", CHUNK), "got")
  IN  IF Len(longer) <= cap THEN again /\ UNCHANGED <<cap, met>>
      ELSE Allocate(Grown(Len(longer)), again /\ cap' = Grown(Len(longer)))

(* A text that is valid is printed where it is, another is copied.         *)
Show ==
  LET print == Say(<<Lossy(res), <<"EOF">> >>, "success") /\ UNCHANGED <<res, cap>>
  IN  IF Utf8(res) THEN print /\ UNCHANGED met ELSE Allocate(Len(res), print)

CatGot ==
  /\ At("got")
  /\ CASE result.is = "ok" -> IF result.value = 0 THEN Show ELSE Extend(result.value)
       [] result.is = "err" -> Fail("read") /\ UNCHANGED <<res, cap, met>>
       [] OTHER -> Panic /\ UNCHANGED <<res, cap, met>>
  /\ Own /\ UNCHANGED argv

----------------------------------------------------------------------------
(* mkdir                                                                   *)

MkdirMain ==
  /\ At("main") /\ image = "mkdir"
  /\ IF Len(argv) # 2 \/ ~ Utf8(argv[2]) THEN Panic
     ELSE AskFor(Mkdir(argv[2], DefaultPermission), "made")
  /\ Own /\ UNCHANGED <<argv, res, cap, met>>

(* Mutant: the result is not looked at.                                    *)
MkdirMadeAnyway ==
  /\ At("made") /\ AskFor(Exit(0), "leaving")
  /\ Own /\ UNCHANGED <<argv, res, cap, met>>

MkdirMade ==
  /\ At("made")
  /\ IF result.is = "ok" THEN AskFor(Exit(0), "leaving") ELSE Panic
  /\ Own /\ UNCHANGED <<argv, res, cap, met>>

----------------------------------------------------------------------------
(* print: a write for each piece; one that is refused is unwrapped.        *)

WritePiece ==
  /\ At("print") /\ todo # <<>>
  /\ AskFor(Write(STDOUT, Head(todo)), "written")
  /\ Own /\ UNCHANGED <<argv, res, cap, met>>

Written ==
  /\ At("written")
  /\ IF result.is = "ok"
     THEN todo' = Tail(todo) /\ pc' = "print" /\ UNCHANGED <<next, trap, panics, code>>
     ELSE Panic
  /\ Own /\ UNCHANGED <<argv, res, cap, met>>

Printed ==
  /\ At("print") /\ todo = <<>>
  /\ CASE next = "success" -> AskFor(Exit(0), "leaving")
       [] next = "failure" -> AskFor(Exit(-1), "leaving")
       [] next = "loop" -> Goto("loop")
  /\ Own /\ UNCHANGED <<argv, res, cap, met>>

Program ==
  \/ Launch \/ LaunchFails \/ Start \/ CatMain \/ CatOpened \/ CatGot
  \/ MkdirMain \/ MkdirMade \/ WritePiece \/ Written \/ Printed

----------------------------------------------------------------------------
(* The kernel (external)                                                   *)

Asked(name) == trap.nr = Number[name]
Answer(v) == result' = DoSyscall(v, 0) /\ trap' = NoCall

KernelRefuses ==
  /\ trap # NoCall /\ ~ Asked("exit")
  /\ \E a0 \in Refusals : result' = DoSyscall(a0, 1)
  /\ trap' = NoCall
  /\ met' = [met EXCEPT !.number = @ \/ result'.is = "panic",
                        !.writes = IF Asked("write") THEN @ + 1 ELSE @]
  /\ UNCHANGED <<cmd, process, kernel, code, report>>

(* The new image starts with the path and copies of the strings.           *)
KernelExec ==
  /\ Asked("exec") /\ Answer(0)
  /\ image' = cmd.prog /\ pc' = "_start"
  /\ argv' = [i \in 1 .. Len(trap.regs[2]) + 1 |->
                Terminated(Slice(IF i = 1 THEN trap.regs[1] ELSE trap.regs[2][i - 1]))]
  /\ UNCHANGED <<cmd, kernel, todo, next, res, cap, panics, met, code, report>>

KernelOpen ==
  /\ Asked("open") /\ Answer(Opened)
  /\ pos' = 0
  /\ UNCHANGED <<cmd, process, grown, buffer, dirs, out, met, code, report>>

File == cmd.content \o [i \in 1 .. grown |-> ASCII]

(* Any number of bytes up to the length asked for, none at the end only.   *)
KernelRead ==
  /\ Asked("read")
  /\ \E n \in 0 .. trap.regs[3] :
       /\ pos + n <= Len(File) /\ (n = 0 => pos = Len(File))
       /\ Answer(n) /\ pos' = pos + n
       /\ buffer' = [i \in 1 .. CHUNK |-> IF i <= n THEN File[pos + i] ELSE NUL]
  /\ UNCHANGED <<cmd, process, grown, dirs, out, met, code, report>>

(* What is written to the file that is read lands, in the end, behind it.  *)
KernelWrite ==
  /\ Asked("write") /\ Answer(trap.regs[3])
  /\ out' = Append(out, trap.regs[2])
  /\ grown' = IF cmd.self /\ image = "cat" THEN grown + Len(trap.regs[2]) ELSE grown
  /\ UNCHANGED <<cmd, process, pos, buffer, dirs, met, code, report>>

KernelMkdir ==
  /\ Asked("mkdir") /\ Slice(trap.regs[1]) \notin dirs /\ Answer(0)
  /\ dirs' = dirs \cup {Slice(trap.regs[1])}
  /\ UNCHANGED <<cmd, process, pos, grown, buffer, out, met, code, report>>

KernelExit ==
  /\ Asked("exit")
  /\ trap' = NoCall /\ pc' = "zombie" /\ code' = Code(Signed(trap.regs[1]))
  /\ UNCHANGED <<cmd, image, todo, next, argv, res, cap, panics, kernel, result, met, report>>

Kernel ==
  \/ KernelRefuses \/ KernelExec \/ KernelOpen \/ KernelRead
  \/ KernelWrite \/ KernelMkdir \/ KernelExit

(* waitpid returns in the shell, and serve_exec prints the code.           *)
Report ==
  /\ pc = "zombie" /\ report' = code /\ pc' = "reported"
  /\ UNCHANGED <<cmd, image, todo, next, argv, res, cap, panics, kernel, trap, result, met, code>>

----------------------------------------------------------------------------

Init ==
  /\ cmd \in Commands
  /\ image = "shell" /\ pc = "launch" /\ todo = <<>> /\ next = "failure"
  /\ argv = <<>> /\ res = <<>> /\ cap = 0 /\ panics = 0
  /\ pos = 0 /\ grown = 0 /\ buffer = [i \in 1 .. CHUNK |-> NUL]
  /\ dirs = {} /\ out = <<>>
  /\ trap = NoCall /\ result = Ok(0)
  /\ met = [number |-> FALSE, memory |-> FALSE, writes |-> 0]
  /\ code = NoCode /\ report = NoCode

Next == Program \/ NestedEnds \/ Kernel \/ Report

(* The kernel answers and lets programs run; a nested shell need not end.  *)
Spec == Init /\ [][Next]_vars /\ WF_vars(Program \/ Kernel \/ Report)
=============================================================================

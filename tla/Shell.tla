-------------------------------- MODULE Shell --------------------------------
(***************************************************************************)
(* The processes of a session: init_proc, which starts the shell and reaps *)
(* (init.c); the shell, which reads a line, forks, redirects and executes  *)
(* (shell/src/main.rs); and the programs it runs.  A step goes from one    *)
(* system call other processes can notice to the next.  The kernel is      *)
(* external: fork copies the descriptors, which go on sharing their file   *)
(* positions, open takes the lowest free number, exec keeps descriptors,   *)
(* exit leaves a zombie for the parent.                                    *)
(***************************************************************************)
EXTENDS Naturals

CONSTANTS
  Procs, InitPid,   \* process numbers; InitPid is init_proc's
  Nobody,           \* no process
  MaxFd,         \* the last descriptor of a process
  MaxLines,      \* lines of a file: a bound
  MaxTyped       \* lines the user types: a bound

ASSUME ProcsAssumption ==
  /\ InitPid \in Procs /\ Nobody \notin Procs
  /\ MaxFd \in Nat /\ MaxFd >= 3 /\ MaxLines \in Nat
  /\ MaxTyped \in Nat

Lines == 0 .. MaxLines
Unread == Lines \cup 0 .. MaxTyped

(* What a descriptor leads to: the terminal opened for reading or ("screen") *)
(* for writing, a file opened for either, a device; opener tells two       *)
(* openings apart.                                                         *)
File == [kind : {"tty", "screen", "read", "write", "dev", "closed"}, opener : Procs]
Closed == [kind |-> "closed", opener |-> InitPid]
Tty == [kind |-> "tty", opener |-> InitPid]
Screen == [kind |-> "screen", opener |-> InitPid]

(* A line as the shell understands it.                                     *)
Word == {"cd", "exit", "poweroff", "noparse", "unwrap", "elf", "script", "missing"}
Line == {l \in [word : Word, in : BOOLEAN, out : BOOLEAN] :
           l.word \notin {"elf", "script", "missing"} => ~ l.in /\ ~ l.out}
NoLine == [word |-> "cd", in |-> FALSE, out |-> FALSE]

VARIABLES
  state,   \* of each process: "free", "run" or "zombie"
  pc,      \* what each running process does next
  parent, child,   \* who waits for whom
  line,    \* the line each process works on
  fd,      \* the descriptors of each process
  left,    \* lines not yet read, by the opener of the file
  power

vars == <<state, pc, parent, child, line, fd, left, power>>

PCs == {"boot", "launch", "reap", "exec_shell", "start", "prompt", "read",
        "poweroff", "fork", "redirect_in", "redirect_out", "exec", "failed",
        "wait", "leave", "elf"}

At(q, l) == power /\ state[q] = "run" /\ pc[q] = l
Goto(q, l) == pc' = [pc EXCEPT ![q] = l]

(* open takes the lowest free descriptor of a table.                       *)
HasFree(table) == \E n \in 0 .. MaxFd : table[n].kind = "closed"
Lowest(table) ==
  CHOOSE n \in 0 .. MaxFd :
    table[n].kind = "closed" /\ \A i \in 0 .. n - 1 : table[i].kind # "closed"
Opened(table, f) == [table EXCEPT ![Lowest(table)] = f]
Without(table, n) == [table EXCEPT ![n] = Closed]

(* The lines of a file opened to be read; a file to be written has none.   *)
Opens(q, f) ==
  \E n \in IF f.kind = "read" THEN Lines ELSE {left[q]} : left' = [left EXCEPT ![q] = n]

(* print! unwraps the result of the write, and so does the handler of the  *)
(* panic that follows: the process recurses until the kernel ends it.  The *)
(* write may be refused on an open stdout, too (a full disk).              *)
CanPrint(q) == fd[q][1].kind \in {"screen", "write"}

----------------------------------------------------------------------------
(* Kernel (external)                                                       *)

(* The process is a zombie, which keeps nothing; init inherits children.   *)
(* A file it opened is closed with it, since nobody it started is left.    *)
Exit(q) ==
  /\ state' = [state EXCEPT ![q] = "zombie"]
  /\ pc' = [pc EXCEPT ![q] = "leave"]
  /\ line' = [line EXCEPT ![q] = NoLine]
  /\ child' = [child EXCEPT ![q] = Nobody]
  /\ fd' = [fd EXCEPT ![q] = [n \in 0 .. MaxFd |-> Closed]]
  /\ parent' = [c \in Procs |-> IF parent[c] = q THEN InitPid ELSE parent[c]]
  /\ left' = [left EXCEPT ![q] = 0]
  /\ UNCHANGED power

(* A zombie's number is free again once its parent has waited for it.      *)
Reap(q) ==
  /\ state' = [state EXCEPT ![q] = "free"]
  /\ parent' = [parent EXCEPT ![q] = Nobody]

(* The line is the child's: the parent has no more use for its own copy.   *)
ForkTo(q, c, here, there) ==
  /\ state[c] = "free"
  /\ state' = [state EXCEPT ![c] = "run"]
  /\ pc' = [pc EXCEPT ![q] = here, ![c] = there]
  /\ parent' = [parent EXCEPT ![c] = q]
  /\ child' = [child EXCEPT ![q] = c, ![c] = Nobody]
  /\ fd' = [fd EXCEPT ![c] = fd[q]]
  /\ line' = [line EXCEPT ![c] = line[q], ![q] = NoLine]
  /\ UNCHANGED <<left, power>>

----------------------------------------------------------------------------
(* init_proc                                                               *)

(* The terminal is opened to read and twice to write; no result is looked  *)
(* at, and an open that fails leaves its number to the next.               *)
Boot ==
  /\ At(InitPid, "boot")
  /\ \E in \in 0 .. 1, out \in 0 .. 2 :
       fd' = [fd EXCEPT ![InitPid] =
                [n \in 0 .. MaxFd |-> IF n < in THEN Tty
                                     ELSE IF n < in + out THEN Screen ELSE Closed]]
  /\ Goto(InitPid, "launch")
  /\ UNCHANGED <<state, parent, child, line, left, power>>

InitFork == At(InitPid, "launch") /\ \E c \in Procs : ForkTo(InitPid, c, "reap", "exec_shell")

(* A fork that fails returns a number other than 0, and init goes on as    *)
(* the parent of a shell it never started.                                 *)
InitForkFails ==
  /\ At(InitPid, "launch") /\ Goto(InitPid, "reap")
  /\ UNCHANGED <<state, parent, child, line, fd, left, power>>

(* waitpid(-1), for ever.  Without children it fails and init loops on.    *)
InitReap ==
  /\ At(InitPid, "reap")
  /\ \E c \in Procs : state[c] = "zombie" /\ parent[c] = InitPid /\ Reap(c)
  /\ UNCHANGED <<pc, child, line, fd, left, power>>

(* When exec fails the child's main returns.                               *)
ExecShell(q) ==
  /\ At(q, "exec_shell")
  /\ \/ Goto(q, "start") /\ UNCHANGED <<state, parent, child, line, fd, left, power>>
     \/ Exit(q)

----------------------------------------------------------------------------
(* The shell                                                               *)

(* main greets; run for a script (argc > 1), it makes it its stdin.        *)
Start(q) ==
  /\ At(q, "start") /\ line[q].word # "script"
  /\ \/ CanPrint(q) /\ Goto(q, "prompt") /\ UNCHANGED <<state, parent, child, line, fd, left, power>>
     \/ Exit(q)

StartScript(q) ==
  /\ At(q, "start") /\ line[q].word = "script"
  /\ \/ /\ CanPrint(q) /\ Lowest(Without(fd[q], 0)) = 0
        /\ fd' = [fd EXCEPT ![q] = Opened(Without(fd[q], 0), [kind |-> "read", opener |-> q])]
        /\ Opens(q, [kind |-> "read", opener |-> q])
        /\ Goto(q, "prompt")
        /\ line' = [line EXCEPT ![q] = NoLine]
        /\ UNCHANGED <<state, parent, child, power>>
     \/ Exit(q)

(* Mutant: the clock stays open.                                           *)
PrintHeaderLeaks(q) ==
  /\ At(q, "prompt") /\ CanPrint(q) /\ Goto(q, "read") /\ HasFree(fd[q])
  /\ fd' = [fd EXCEPT ![q] = Opened(fd[q], [kind |-> "dev", opener |-> q])]
  /\ UNCHANGED <<state, parent, child, line, left, power>>

(* print_header: the clock is opened, read and closed again.  A refused    *)
(* open is passed over; a refused getcwd, read or close is unwrapped.      *)
PrintHeader(q) ==
  /\ At(q, "prompt")
  /\ \/ CanPrint(q) /\ Goto(q, "read") /\ UNCHANGED <<state, parent, child, line, fd, left, power>>
     \/ Exit(q)

(* get_line.  On a terminal the shell waits for the user.                  *)
Readable(q) == fd[q][0].kind \in {"tty", "read"} /\ left[fd[q][0].opener] > 0

Consume(q) == left' = [left EXCEPT ![fd[q][0].opener] = @ - 1]

(* Mutant: the loop of main goes on after an error.                        *)
EndOfInputIgnored(q) ==
  /\ At(q, "read") /\ ~ Readable(q) /\ fd[q][0].kind # "tty" /\ Goto(q, "prompt")
  /\ UNCHANGED <<state, parent, child, line, fd, left, power>>

(* main returns at the end of a file, without stdin and after any other    *)
(* error of a read; a refused echo is a panic.                             *)
EndOfInput(q) == At(q, "read") /\ Exit(q)

(* serve_command, up to the first system call of each kind of line.        *)
Serve(word) ==
  CASE word = "cd" -> {"prompt", "failed"}
    [] word \in {"exit", "unwrap"} -> {"leave"}
    [] word = "poweroff" -> {"poweroff"}
    [] word = "noparse" -> {"failed"}
    [] OTHER -> {"fork"}

(* Mutant: a read of 0 bytes is taken for a line.                          *)
GetLineAtEnd(q, l) ==
  /\ At(q, "read") /\ fd[q][0].kind \in {"tty", "read"}
  /\ Consume(q)
  /\ line' = [line EXCEPT ![q] = l]
  /\ \E next \in Serve(l.word) : Goto(q, next)
  /\ UNCHANGED <<state, parent, child, fd, power>>

GetLine(q, l) ==
  /\ At(q, "read") /\ Readable(q)
  /\ Consume(q)
  /\ line' = [line EXCEPT ![q] = l]
  /\ \E next \in Serve(l.word) : Goto(q, next)
  /\ UNCHANGED <<state, parent, child, fd, power>>

Leave(q) == At(q, "leave") /\ Exit(q)

(* serve_shutdown, serve_reboot: the device is never closed.               *)
PowerOff(q) ==
  /\ At(q, "poweroff") /\ HasFree(fd[q])
  /\ fd' = [fd EXCEPT ![q] = Opened(fd[q], [kind |-> "dev", opener |-> q])]
  /\ \/ power' = FALSE /\ UNCHANGED pc
     \/ Goto(q, "failed") /\ UNCHANGED power
  /\ UNCHANGED <<state, parent, child, line, left>>

PowerOffPanics(q) == At(q, "poweroff") /\ Exit(q)

(* Mutants: the parent does not wait; a fork that failed is waited for.    *)
ForkInBackground(q) ==
  At(q, "fork") /\ \E c \in Procs : ForkTo(q, c, "prompt", "redirect_in")

ForkFailsWaits(q) ==
  /\ At(q, "fork") /\ Goto(q, "wait")
  /\ UNCHANGED <<state, parent, child, line, fd, left, power>>

(* execute                                                                 *)
Fork(q) == At(q, "fork") /\ \E c \in Procs : ForkTo(q, c, "wait", "redirect_in")

ForkFails(q) ==
  /\ At(q, "fork") /\ Goto(q, "failed")
  /\ UNCHANGED <<state, parent, child, line, fd, left, power>>

(* Mutant: an open that failed is passed over.                             *)
RedirectAnyway(q, n, f, next) ==
  LET table == Without(fd[q], n)
  IN  /\ \/ fd' = [fd EXCEPT ![q] = Opened(table, f)] /\ Opens(q, f)
         \/ fd' = [fd EXCEPT ![q] = table] /\ UNCHANGED left
      /\ Goto(q, next)
      /\ UNCHANGED <<state, parent, child, line, power>>

(* Descriptor n is closed and the file opened in its place; a process that *)
(* does not get n panics, one that cannot close or open goes on as a shell.*)
Redirect(q, n, f, next) ==
  LET table == Without(fd[q], n)
  IN  \/ /\ IF Lowest(table) = n
           THEN /\ fd' = [fd EXCEPT ![q] = Opened(table, f)]
                /\ Opens(q, f)
                /\ Goto(q, next)
                /\ UNCHANGED <<state, parent, child, line, power>>
           ELSE Exit(q)
      \/ /\ fd' \in {fd, [fd EXCEPT ![q] = table]}
         /\ Goto(q, "failed")
         /\ UNCHANGED <<state, parent, child, line, left, power>>

RedirectIn(q) ==
  /\ At(q, "redirect_in") /\ line[q].in
  /\ Redirect(q, 0, [kind |-> "read", opener |-> q], "redirect_out")

RedirectOut(q) ==
  /\ At(q, "redirect_out") /\ line[q].out
  /\ Redirect(q, 1, [kind |-> "write", opener |-> q], "exec")

NoRedirect(q) ==
  /\ \/ At(q, "redirect_in") /\ ~ line[q].in /\ Goto(q, "redirect_out")
     \/ At(q, "redirect_out") /\ ~ line[q].out /\ Goto(q, "exec")
  /\ UNCHANGED <<state, parent, child, line, fd, left, power>>

(* A script's interpreter is the shell (the kernel, external, starts it).  *)
Exec(q) ==
  /\ At(q, "exec")
  /\ Goto(q, CASE line[q].word = "elf" -> "elf"
                [] line[q].word = "script" -> "start"
                [] OTHER -> "failed")
  /\ UNCHANGED <<state, parent, child, line, fd, left, power>>

(* main reports the error, in the child too, and prompts again.            *)
CommandFailed(q) ==
  /\ At(q, "failed")
  /\ \/ /\ CanPrint(q) /\ Goto(q, "prompt")
        /\ line' = [line EXCEPT ![q] = NoLine]
        /\ UNCHANGED <<state, parent, child, fd, left, power>>
     \/ Exit(q)

(* waitpid returns when the child has ended, and fails when the number is  *)
(* not a child's.                                                          *)
IsChild(q, c) == c \in Procs /\ state[c] # "free" /\ parent[c] = q

Wait(q) ==
  /\ At(q, "wait")
  /\ IF IsChild(q, child[q])
     THEN state[child[q]] = "zombie" /\ Reap(child[q]) /\ Goto(q, "prompt")
     ELSE Goto(q, "failed") /\ UNCHANGED <<state, parent>>
  /\ child' = [child EXCEPT ![q] = Nobody]
  /\ UNCHANGED <<line, fd, left, power>>

----------------------------------------------------------------------------
(* Programs: they may read their stdin, and end.                           *)

ElfReads(q) ==
  /\ At(q, "elf") /\ Readable(q) /\ Consume(q)
  /\ UNCHANGED <<state, pc, parent, child, line, fd, power>>

ElfExits(q) == At(q, "elf") /\ Exit(q)

----------------------------------------------------------------------------

Init ==
  /\ state = [q \in Procs |-> IF q = InitPid THEN "run" ELSE "free"]
  /\ pc = [q \in Procs |-> "boot"]
  /\ parent = [q \in Procs |-> Nobody] /\ child = [q \in Procs |-> Nobody]
  /\ line = [q \in Procs |-> NoLine]
  /\ fd = [q \in Procs |-> [n \in 0 .. MaxFd |-> Closed]]
  /\ left = [q \in Procs |-> IF q = InitPid THEN MaxTyped ELSE 0]
  /\ power = TRUE

InitProc == Boot \/ InitFork \/ InitForkFails \/ InitReap

Step(q) ==
  \/ ExecShell(q) \/ Start(q) \/ StartScript(q) \/ PrintHeader(q)
  \/ EndOfInput(q) \/ (\E l \in Line : GetLine(q, l)) \/ Leave(q)
  \/ PowerOff(q) \/ PowerOffPanics(q)
  \/ Fork(q) \/ ForkFails(q) \/ RedirectIn(q) \/ RedirectOut(q) \/ NoRedirect(q)
  \/ Exec(q) \/ CommandFailed(q) \/ Wait(q)
  \/ ElfReads(q) \/ ElfExits(q)

Next == InitProc \/ \E q \in Procs : Step(q)

(* The kernel does not idle while a process of the session can go on,      *)
(* programs end, and nobody need type.                                     *)
Typing(q) == pc[q] = "read" /\ fd[q][0] = Tty

Spec ==
  /\ Init /\ [][Next]_vars
  /\ WF_vars(InitProc)
  /\ WF_vars(\E q \in Procs : Step(q) /\ ~ Typing(q))
=============================================================================

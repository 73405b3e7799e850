------------------------------ MODULE Syscalls ------------------------------
(***************************************************************************)
(* The system call layer of the Rust library (usrlib_rust/src/syscall.rs   *)
(* and utils/): what each wrapper leaves in the registers, how an answer   *)
(* is decoded, and the numbers both depend on; and the C stubs, which put  *)
(* the arguments of the prototypes in usrlib/header/syscall.h there.       *)
(*                                                                         *)
(* A pointer to bytes is modelled by the bytes, a pointer to memory the    *)
(* kernel fills by a name.                                                 *)
(***************************************************************************)
EXTENDS Integers, Sequences

CONSTANT WORD   \* values of a register (2^64)

ASSUME WordAssumption == WORD \in Nat /\ WORD > 4001

----------------------------------------------------------------------------
(* Numbers                                                                 *)

Number ==
  [write |-> 0, read |-> 1, open |-> 2, openat |-> 3, close |-> 4, dup |-> 5,
   fork |-> 6, exec |-> 7, exit |-> 8, mmap |-> 9, signal |-> 10,
   waitpid |-> 11, sigaction |-> 12, sigreturn |-> 13, getcwd |-> 14,
   chdir |-> 15, sbrk |-> 16, getdents |-> 17, pipe |-> 18, sysstat |-> 19,
   munmap |-> 20, mkdir |-> 21, ioctl |-> 22, delete |-> 23, seek |-> 24,
   time |-> 25]

(* ErrorNum: EPERM to ENOTRECOVERABLE with the gaps of Linux (NOERR is 0), *)
(* the kernel's own, and one for the end of the user's input.              *)
LinuxErrors == (0 .. 131) \ {41, 58}
ParchErrors == 1000 .. 1010
EEOF == 2000
ErrorNum == LinuxErrors \cup ParchErrors \cup {EEOF}

OpenMode == [READ |-> 1, WRITE |-> 2, CREATE |-> 4, EXEC |-> 8, SYS |-> 16, NO_FOLLOW |-> 32]

(* Permission::default(): OWNER_R, OWNER_W, GROUP_R, OTHER_R.              *)
DefaultPermission == 256 + 128 + 32 + 4

----------------------------------------------------------------------------
(* Answers                                                                 *)

Ok(v) == [is |-> "ok", value |-> v]
Err(n) == [is |-> "err", value |-> n]
Panicked == [is |-> "panic", value |-> 0]

(* do_syscall: a flag in a1 tells a result from a negated error number;    *)
(* try_from knows the numbers of the table, and its error is unwrapped.    *)
DoSyscall(a0, a1) ==
  IF a1 = 0 THEN Ok(a0)
  ELSE LET n == (WORD - a0) % WORD
       IN  IF n \in ErrorNum THEN Err(n) ELSE Panicked

(* An isize as a register holds it, and back.                              *)
Unsigned(i) == IF i < 0 THEN WORD + i ELSE i
Signed(u) == IF 2 * u >= WORD THEN u - WORD ELSE u

----------------------------------------------------------------------------
(* Requests                                                                *)

Call(name, args) == [nr |-> Number[name], regs |-> args]

(* A Rust string has no terminator: the wrappers copy it and add one.      *)
NUL == "NUL"
Terminated(bytes) == Append(bytes, NUL)

Write(fd, buf) == Call("write", <<fd, buf, Len(buf)>>)
Read(fd, buf, length) == Call("read", <<fd, buf, length>>)
Open(path, mode) == Call("open", <<Terminated(path), mode>>)
Openat(fd, path, mode) == Call("openat", <<fd, Terminated(path), Len(path), mode>>)
Close(fd) == Call("close", <<fd>>)
Dup(fd) == Call("dup", <<fd>>)
Fork == Call("fork", <<>>)

(* exec passes the arguments only; the kernel puts the path before them.   *)
Exec(path, argv) ==
  Call("exec", <<Terminated(path), [i \in DOMAIN argv |-> Terminated(argv[i])]>>)

Exit(status) == Call("exit", <<Unsigned(status)>>)
Mmap(target, length, prot, flag, fd, offset) ==
  Call("mmap", <<target, length, prot, flag, fd, offset>>)
Waitpid(pid, exit_code) == Call("waitpid", <<Unsigned(pid), exit_code>>)

(* Mutant: the arguments in the order of the name "signal number, pid".    *)
SignalSwapped(target_pid, signum) == Call("signal", <<signum, target_pid>>)
Signal(target_pid, signum) == Call("signal", <<target_pid, signum>>)

Sigaction(signum, handler) == Call("sigaction", <<signum, handler>>)
Getcwd(buf, length) == Call("getcwd", <<buf, length>>)
Chdir(path) == Call("chdir", <<Terminated(path), Len(path)>>)
Sbrk(increment) == Call("sbrk", <<Unsigned(increment)>>)
Getdents(fd, buf, length) == Call("getdents", <<fd, buf, length>>)
Ioctl(fd, op, param, psize, res, rsize) ==
  Call("ioctl", <<fd, op, param, psize, res, rsize>>)
Delete(path) == Call("delete", <<Terminated(path)>>)
Mkdir(path, perm) == Call("mkdir", <<Terminated(path), perm>>)
Seek(fd, offset) == Call("seek", <<fd, offset>>)

(* A stub sets a7 and leaves its arguments where the caller put them.      *)
CStub(name, args) == Call(name, args)

(* The kernel cannot tell the callers apart: it must find in each register *)
(* the C stub fills what the wrapper put there.                            *)
SameCall(rust, c) ==
  rust.nr = c.nr /\ \A i \in DOMAIN c.regs : rust.regs[i] = c.regs[i]
=============================================================================

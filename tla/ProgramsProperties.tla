------------------------- MODULE ProgramsProperties -------------------------
(* What a command does, says and reports, whatever the kernel refuses.     *)
EXTENDS Programs

PCs == {"launch", "launched", "nested", "_start", "main", "opened", "got", "made",
        "print", "written", "leaving", "loop", "zombie", "reported"}

(* What is printed: characters and words.                                  *)
Whys == {"arguments", "utf-8", "open", "read"}
Text == Byte \cup {"", REPLACED, WIDE, "EOF", "panicked", "why", "failed", "CRLF"} \cup Whys

(* Every variable has its type; the heap holds what cat keeps.             *)
TypeOK ==
  /\ cmd \in Commands /\ image \in {"shell", "cat", "mkdir"} /\ pc \in PCs
  /\ todo \in Seq(Seq(Text)) /\ out \in Seq(Seq(Text))
  /\ next \in {"success", "failure", "loop"}
  /\ trap.nr \in -1 .. 25
  /\ result \in [is : {"ok", "err", "panic"}, value : Nat]
  /\ argv \in Seq(Seq(Byte)) /\ res \in Seq(Byte) /\ buffer \in [1 .. CHUNK -> Byte]
  /\ pos \in Nat /\ grown \in Nat
  /\ cap \in 0 .. HEAP_SIZE /\ Len(res) <= cap
  /\ dirs \subseteq Seq(Byte)
  /\ panics \in 0 .. MaxPanics + 1
  /\ met \in [number : BOOLEAN, memory : BOOLEAN, writes : Nat]
  /\ code \in [is : {"none", "code"}, value : Int]
  /\ report \in [is : {"none", "code"}, value : Int]

(* A word as a C program sees it, too.                                     *)
UpToNul(w) == {n \in 0 .. Len(w) : \A i \in 1 .. n : w[i] # NUL}

(* exec, the kernel and _start hand each word of the command to main as    *)
(* the user typed it, or up to the NUL in it; nobody's main gets more than *)
(* there is room for.                                                      *)
ArgumentsArrive ==
  pc \in {"main", "opened", "got", "made"} =>
    /\ Len(argv) = Len(cmd.words) /\ Len(argv) <= ARGS
    /\ \A i \in 1 .. Len(argv) :
         /\ Len(argv[i]) \in UpToNul(cmd.words[i])
         /\ \A n \in UpToNul(cmd.words[i]) : n <= Len(argv[i])
         /\ \A j \in 1 .. Len(argv[i]) : argv[i][j] = cmd.words[i][j]

(* cat ends with 0 only when it has printed the file as it was before, no  *)
(* matter in what portions it was read and although stdout may be that     *)
(* very file; and with -1 only when it has said why.                       *)
CatShowsFile ==
  image = "cat" =>
    /\ code = Code(0) => out = <<Lossy(cmd.content), <<"EOF">> >>
    /\ code = Code(-1) =>
         Len(out) = 3 /\ out[1] = <<"failed">> /\ out[3] = <<"CRLF">>

(* mkdir's code is 0 if and only if the directory was made.  The kernel    *)
(* ends a program only after as many writes were refused as panics fit on  *)
(* the stack: one that is refused does not bring the handler down.         *)
CodeTellsOutcome ==
  report.is = "code" =>
    /\ image = "mkdir" =>
         /\ report = Code(0) <=> Len(cmd.words) = 2 /\ argv[2] \in dirs
         /\ report # Code(0) => dirs = {}
    /\ report = Code(Killed) => met.writes >= MaxPanics

(* The shell prompts again, unless the user has been given a second shell, *)
(* or cat loops in its handler; and that it does only when it was refused  *)
(* memory or a write, met a number it does not know, or got too many       *)
(* arguments.                                                              *)
Looping ==
  image = "cat" /\ (met.number \/ met.memory \/ met.writes > 0 \/ Len(cmd.words) > ARGS)
ComesBack == (pc = "launch") ~> (pc \in {"reported", "nested"} \/ Looping)

(* What each wrapper and its stub ask for, with the same arguments.  Only   *)
(* openat differs: the Rust wrapper puts the length of the path where the  *)
(* C prototype has the mode.                                               *)
CallsAgree(a, b, c, path) ==
  LET p == Terminated(path)
  IN  /\ SameCall(Write(a, path), CStub("write", <<a, path, Len(path)>>))
      /\ SameCall(Read(a, "buf", b), CStub("read", <<a, "buf", b>>))
      /\ SameCall(Open(path, a), CStub("open", <<p, a>>))
      /\ SameCall(Openat(a, path, b), CStub("openat", <<a, p, b>>)) <=> b = Len(path)
      /\ SameCall(Close(a), CStub("close", <<a>>))
      /\ SameCall(Dup(a), CStub("dup", <<a>>))
      /\ SameCall(Fork, CStub("fork", <<>>))
      /\ SameCall(Exec(path, <<path>>), CStub("exec", <<p, <<p>> >>))
      /\ SameCall(Exit(a), CStub("exit", <<a>>))
      /\ SameCall(Mmap(a, b, c, b, a, c), CStub("mmap", <<a, b, c, b, a, c>>))
      /\ SameCall(Waitpid(a - 1, "code"), CStub("waitpid", <<Unsigned(a - 1), "code">>))
      /\ SameCall(Signal(a, b), CStub("signal", <<a, b>>))
      /\ SameCall(Sigaction(a, "handler"), CStub("sigaction", <<a, "handler">>))
      /\ SameCall(Getcwd("buf", a), CStub("getcwd", <<"buf", a>>))
      /\ SameCall(Chdir(path), CStub("chdir", <<p>>))
      /\ SameCall(Sbrk(a - 1), CStub("sbrk", <<Unsigned(a - 1)>>))
      /\ SameCall(Getdents(a, "buf", b), CStub("getdents", <<a, "buf", b>>))
      /\ SameCall(Ioctl(a, b, "param", c, "res", b),
                  CStub("ioctl", <<a, b, "param", c, "res", b>>))
      /\ SameCall(Delete(path), CStub("delete", <<p>>))
      /\ SameCall(Mkdir(path, a), CStub("mkdir", <<p, a>>))
      /\ SameCall(Seek(a, b), CStub("seek", <<a, b>>))

(* A Rust program and a C program ask the kernel for the same thing in the *)
(* same registers.  No variable occurs in it: it is stated of the first    *)
(* state.                                                                  *)
LibrariesAgree ==
  pc = "launch" =>
    \A a, b, c \in 0 .. 2, path \in {<<>>, <<ASCII>>, <<ASCII, ASCII>>} :
      CallsAgree(a, b, c, path)
=============================================================================

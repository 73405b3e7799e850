--------------------------- MODULE ProgramsProofs ---------------------------
(***************************************************************************)
(* What a command gets, shows and reports, for every command, every size   *)
(* of buffer, heap and stack, and every set of refusals.                   *)
(*                                                                         *)
(* Flow says where the program is: which image runs, which call waits for  *)
(* its answer, what is still untouched, and what exec and _start have made *)
(* of the words.  It is inductive, and holds the type invariant and what   *)
(* main is told.  Over it, Reading and Printing show what cat does with a  *)
(* file, Making and Panics what an exit code means.                        *)
(***************************************************************************)
EXTENDS ProgramsProperties, SequenceTheorems, WellFoundedInduction, TLAPS

----------------------------------------------------------------------------
(* Strings: what strlen finds in a word that got its terminator.           *)

LEMMA FirstNul ==
  ASSUME NEW w \in Seq(Byte)
  PROVE  LET s == Terminated(w)
         IN  /\ StrLen(s) \in 0 .. Len(w)
             /\ s[StrLen(s) + 1] = NUL
             /\ \A i \in 1 .. StrLen(s) : s[i] # NUL
  <1> DEFINE s == Terminated(w)
             ends == {n \in Nat : n <= Len(w) /\ s[n + 1] = NUL}
  <1>1. Len(s) = Len(w) + 1 /\ s[Len(w) + 1] = NUL
    BY DEF Terminated, NUL
  <1>2. Len(w) \in ends
    BY <1>1
  <1>3. PICK n \in ends : \A m \in ends : ~ (<<m, n>> \in OpToRel(<, Nat))
    <2>1. ends \subseteq Nat /\ ends # {}
      BY <1>2
    <2> QED BY <2>1, WFMin, NatLessThanWellFounded, Zenon
  <1>4. \A m \in ends : ~ (m < n)
    BY <1>3 DEF OpToRel
  <1>5. \A i \in 1 .. n : s[i] # NUL
    <2> SUFFICES ASSUME NEW i \in 1 .. n, s[i] = NUL PROVE FALSE
      OBVIOUS
    <2>1. i - 1 \in Nat /\ i - 1 <= Len(w) /\ (i - 1) + 1 = i
      OBVIOUS
    <2>2. i - 1 \in ends
      BY <2>1
    <2>3. n \in Nat /\ i - 1 < n
      OBVIOUS
    <2> HIDE DEF ends
    <2> QED BY <2>2, <2>3, <1>4
  <1>6. n \in 0 .. Len(s) - 1 /\ s[n + 1] = NUL /\ \A i \in 1 .. n : s[i] # NUL
    BY <1>1, <1>5
  <1>7. /\ StrLen(s) \in 0 .. Len(s) - 1 /\ s[StrLen(s) + 1] = NUL
        /\ \A i \in 1 .. StrLen(s) : s[i] # NUL
    <2> HIDE DEF s
    <2> QED BY <1>6 DEF StrLen
  <1> QED BY <1>1, <1>7

LEMMA SliceOfWord ==
  ASSUME NEW w \in Seq(Byte)
  PROVE  LET v == Slice(Terminated(w))
         IN  /\ v \in Seq(Byte) /\ Len(v) <= Len(w)
             /\ \A i \in 1 .. Len(v) : v[i] = w[i] /\ v[i] # NUL
             /\ Len(v) < Len(w) => w[Len(v) + 1] = NUL
  <1> DEFINE s == Terminated(w)
             n == StrLen(s)
             v == Slice(s)
  <1>1. n \in 0 .. Len(w) /\ s[n + 1] = NUL /\ \A i \in 1 .. n : s[i] # NUL
    BY FirstNul
  <1>2. /\ s \in Seq(Byte) /\ Len(s) = Len(w) + 1
        /\ \A i \in 1 .. Len(w) : s[i] = w[i]
    BY DEF Terminated, Byte
  <1>3. v = SubSeq(s, 1, n)
    BY DEF Slice
  <1> HIDE DEF s, n, v
  <1>4. v \in Seq(Byte) /\ Len(v) = n /\ \A i \in 1 .. n : v[i] = s[i]
    BY <1>1, <1>2, <1>3
  <1>5. \A i \in 1 .. Len(v) : v[i] = w[i] /\ v[i] # NUL
    BY <1>1, <1>2, <1>4
  <1>6. Len(v) < Len(w) => w[Len(v) + 1] = NUL
    BY <1>1, <1>2, <1>4
  <1> QED BY <1>1, <1>4, <1>5, <1>6 DEF v, s

LEMMA SliceAgain ==
  ASSUME NEW v \in Seq(Byte), \A i \in 1 .. Len(v) : v[i] # NUL
  PROVE  Slice(Terminated(v)) = v
  <1> DEFINE u == Slice(Terminated(v))
  <1>1. /\ u \in Seq(Byte) /\ Len(u) <= Len(v)
        /\ \A i \in 1 .. Len(u) : u[i] = v[i]
        /\ Len(u) < Len(v) => v[Len(u) + 1] = NUL
    BY SliceOfWord
  <1> HIDE DEF u
  <1>2. Len(u) = Len(v)
    BY <1>1
  <1>3. u = v
    BY <1>1, <1>2, SeqEqual
  <1> QED BY <1>3 DEF u

----------------------------------------------------------------------------
(* The invariant                                                           *)

(* Before the first piece is printed.                                      *)
Early == {"launch", "launched", "nested", "_start", "main", "opened", "got", "made"}
Ended == {"zombie", "reported"}

Answered == trap = NoCall /\ result.is = "ok"

(* The program in memory is the one whose code runs.                       *)
Images ==
  /\ image \in {"shell", cmd.prog}
  /\ pc \in {"launch", "launched", "nested"} => image = "shell"
  /\ pc \in {"_start", "main", "opened", "got", "made"} => image = cmd.prog
  /\ pc \in {"opened", "got"} => image = "cat"
  /\ pc = "made" => image = "mkdir"

(* A call that waits for its answer is the one made at this place.         *)
Requests ==
  \/ trap = NoCall /\ pc # "leaving"
  \/ pc = "launched" /\ trap = Exec(cmd.words[1], Tail(cmd.words))
  \/ pc = "opened" /\ trap = Open(argv[2], OpenMode.READ)
  \/ pc = "got" /\ trap = Read(Opened, "buffer", CHUNK)
  \/ pc = "made" /\ trap = Mkdir(argv[2], DefaultPermission)
  \/ pc = "written" /\ trap = Write(STDOUT, Head(todo))
  \/ pc = "leaving" /\ trap \in {Exit(0), Exit(-1)}

(* What is not yet so, as long as the program is not past a place.         *)
Progress ==
  /\ pc \in Early => panics = 0 /\ out = <<>> /\ grown = 0
  /\ pc \in Early \ {"got"} => res = <<>> /\ pos = 0
  /\ pc = "opened" /\ Answered => result.value = Opened
  /\ pc = "got" /\ Answered => result.value <= CHUNK
  /\ pc = "made" => Len(argv) = 2
  /\ pc = "written" => todo # <<>>
  /\ pc \notin Ended => panics <= MaxPanics /\ code = NoCode /\ report = NoCode
  /\ report \in {NoCode, code}

(* What exec and _start make of the words, and which commands they let on. *)
Words ==
  /\ pc = "_start" =>
       argv = [i \in 1 .. Len(cmd.words) |-> Terminated(Slice(Terminated(cmd.words[i])))]
  /\ pc \in {"main", "opened", "got", "made"} =>
       /\ Len(cmd.words) <= ARGS
       /\ argv = [i \in 1 .. Len(cmd.words) |-> Slice(Terminated(cmd.words[i]))]

Flow == TypeOK /\ Images /\ Requests /\ Progress /\ Words

----------------------------------------------------------------------------
(* TypeOK                                                                  *)

LEMMA Calls ==
  /\ \A path, args : Exec(path, args).nr = 7 /\ Exec(path, args) # NoCall
  /\ \A path, mode : Open(path, mode).nr = 2 /\ Open(path, mode) # NoCall
  /\ \A fd, buf, n : Read(fd, buf, n).nr = 1 /\ Read(fd, buf, n) # NoCall
     /\ Read(fd, buf, n).regs[3] = n
  /\ \A fd, buf : Write(fd, buf).nr = 0 /\ Write(fd, buf) # NoCall
                  /\ Write(fd, buf).regs[2] = buf /\ Write(fd, buf).regs[3] = Len(buf)
  /\ \A path, perm : Mkdir(path, perm).nr = 21 /\ Mkdir(path, perm) # NoCall
                     /\ Mkdir(path, perm).regs[1] = Terminated(path)
  /\ \A n : Exit(n).nr = 8 /\ Exit(n) # NoCall /\ Exit(n).regs[1] = Unsigned(n)
  BY DEF Exec, Open, Read, Write, Mkdir, Exit, Call, Number, NoCall

(* The kernel is asked for nothing else than what a program asks for.      *)
LEMMA AskedFor ==
  ASSUME Requests
  PROVE  /\ Asked("exec") => pc = "launched" /\ trap = Exec(cmd.words[1], Tail(cmd.words))
         /\ Asked("open") => pc = "opened"
         /\ Asked("read") => pc = "got" /\ trap = Read(Opened, "buffer", CHUNK)
         /\ Asked("mkdir") => pc = "made" /\ trap = Mkdir(argv[2], DefaultPermission)
         /\ Asked("write") => pc = "written" /\ trap = Write(STDOUT, Head(todo))
         /\ Asked("exit") => pc = "leaving" /\ trap \in {Exit(0), Exit(-1)}
         /\ trap # NoCall /\ ~ Asked("exit") =>
              pc \in {"launched", "opened", "got", "made", "written"}
  BY Calls DEF Requests, Asked, Number, NoCall

LEMMA Answers ==
  /\ \A v \in Nat : DoSyscall(v, 0) = Ok(v)
     /\ Ok(v) \in [is : {"ok", "err", "panic"}, value : Nat]
                    /\ Ok(v).is = "ok" /\ Ok(v).value = v
  /\ \A a0 \in Refusals : /\ DoSyscall(a0, 1) \in [is : {"ok", "err", "panic"}, value : Nat]
                          /\ DoSyscall(a0, 1).is # "ok"
  <1>1. \A v \in Nat : DoSyscall(v, 0) = Ok(v)
        /\ Ok(v) \in [is : {"ok", "err", "panic"}, value : Nat]
                       /\ Ok(v).is = "ok" /\ Ok(v).value = v
    BY DEF DoSyscall, Ok
  <1>2. \A a0 \in Refusals : (WORD - a0) % WORD \in Nat
    BY WordAssumption, ProgramsAssumption
  <1>3. \A a0 \in Refusals : /\ DoSyscall(a0, 1) \in [is : {"ok", "err", "panic"}, value : Nat]
                             /\ DoSyscall(a0, 1).is # "ok"
    BY <1>2 DEF DoSyscall, Err, Panicked
  <1> QED BY <1>1, <1>3

LEMMA Signs == Signed(Unsigned(0)) = 0 /\ Signed(Unsigned(-1)) = -1
  BY WordAssumption DEF Signed, Unsigned

LEMMA CommandTypes ==
  ASSUME cmd \in Commands
  PROVE  /\ cmd.prog \in {"cat", "mkdir"} /\ cmd.self \in BOOLEAN
         /\ cmd.words \in Seq(Seq(Byte)) /\ cmd.words # <<>>
         /\ cmd.content \in Seq(Byte)
  BY ProgramsAssumption DEF Command

LEMMA GrownHolds ==
  ASSUME NEW needed \in Nat, cap \in Nat
  PROVE  Grown(needed) \in Nat /\ Grown(needed) >= needed /\ Grown(needed) >= 2 * cap
  <1> DEFINE S == {2 * cap, needed, MIN_CAP}
  <1>1. 2 * cap \in Nat /\ MIN_CAP \in Nat
    BY ProgramsAssumption
  <1>2. \E c \in S : c >= 2 * cap /\ c >= needed /\ c >= MIN_CAP
    BY <1>1
  <1>3. /\ Grown(needed) \in S /\ Grown(needed) >= 2 * cap
        /\ Grown(needed) >= needed /\ Grown(needed) >= MIN_CAP
    BY <1>2 DEF Grown
  <1> QED BY <1>1, <1>3

LEMMA LossyType ==
  ASSUME NEW s \in Seq(Byte)
  PROVE  Lossy(s) \in Seq(Text) /\ Len(Lossy(s)) = Len(s)
  <1>1. \A i \in 1 .. Len(s) : Lossy(s)[i] \in Text
    <2> SUFFICES ASSUME NEW i \in 1 .. Len(s) PROVE Lossy(s)[i] \in Text
      OBVIOUS
    <2>1. s[i] \in Byte
      OBVIOUS
    <2>2. CASE s[i] = LEAD
      BY <2>2 DEF Lossy, Text
    <2>3. CASE s[i] = CONT
      BY <2>3 DEF Lossy, Text, LEAD, CONT
    <2>4. CASE s[i] \notin {LEAD, CONT}
      BY <2>1, <2>4 DEF Lossy, Text
    <2> QED BY <2>2, <2>3, <2>4
  <1>2. Lossy(s) = [i \in 1 .. Len(s) |-> Lossy(s)[i]]
    BY DEF Lossy
  <1> QED BY <1>1, <1>2, IsASeq

LEMMA FlowInit == Init => Flow
  BY CommandTypes, ProgramsAssumption
  DEF Init, Flow, TypeOK, Images, Requests, Progress, Words, PCs, Early, Ended, Answered,
      NoCall, NoCode,
      Ok, Byte, Words

Messages == << <<"panicked">>, <<"why">> >>

LEMMA TextTypes ==
  /\ Messages \in Seq(Seq(Text))
  /\ \A why \in Whys : << <<"failed">>, <<why>>, <<"CRLF">> >> \in Seq(Seq(Text))
  /\ \A s \in Seq(Byte) : << Lossy(s), <<"EOF">> >> \in Seq(Seq(Text))
  <1>1. \A why \in Whys : << <<"failed">>, <<why>>, <<"CRLF">> >> \in Seq(Seq(Text))
    <2> SUFFICES ASSUME NEW why \in Whys
                 PROVE  << <<"failed">>, <<why>>, <<"CRLF">> >> \in Seq(Seq(Text))
      OBVIOUS
    <2>3. why \in Text /\ "failed" \in Text /\ "CRLF" \in Text
      BY DEF Text
    <2>1. <<"failed">> \in Seq(Text) /\ <<why>> \in Seq(Text) /\ <<"CRLF">> \in Seq(Text)
      BY <2>3
    <2>2. \A a, b, c \in Seq(Text) : <<a, b, c>> \in Seq(Seq(Text))
      OBVIOUS
    <2> QED BY <2>1, <2>2
  <1>2. \A s \in Seq(Byte) : << Lossy(s), <<"EOF">> >> \in Seq(Seq(Text))
    <2> SUFFICES ASSUME NEW s \in Seq(Byte) PROVE << Lossy(s), <<"EOF">> >> \in Seq(Seq(Text))
      OBVIOUS
    <2> DEFINE t == Lossy(s)
    <2>1. t \in Seq(Text)
      BY LossyType
    <2>2. <<"EOF">> \in Seq(Text)
      BY DEF Text
    <2> HIDE DEF t
    <2>3. << t, <<"EOF">> >> \in Seq(Seq(Text))
      BY <2>1, <2>2
    <2> QED BY <2>3 DEF t
  <1>3. Messages \in Seq(Seq(Text))
    BY DEF Messages, Text
  <1> QED BY <1>1, <1>2, <1>3

(* rust_main of cat returns one of its errors.                             *)
Fails ==
  /\ \E why \in Whys : todo' = << <<"failed">>, <<why>>, <<"CRLF">> >>
  /\ next' = "failure" /\ pc' = "print" /\ UNCHANGED <<trap, panics, code>>

(* A panic keeps the invariant wherever the program is.                    *)
LEMMA FlowPanic ==
  ASSUME Flow, trap = NoCall, pc \notin Ended, Panic,
         UNCHANGED <<cmd, image, kernel, result, report, argv, res, cap>>,
         met' \in [number : BOOLEAN, memory : BOOLEAN, writes : Nat]
  PROVE  Flow'
  <1>1. /\ panics \in Nat /\ panics <= MaxPanics /\ code = NoCode /\ report = NoCode
        /\ MaxPanics \in Nat
    BY ProgramsAssumption DEF Flow, Progress, TypeOK
  <1>0. panics' = panics + 1
    BY DEF Panic
  <1>2. panics' \in 0 .. MaxPanics + 1 /\ panics' = panics + 1
    BY <1>0, <1>1
  <1>3. CASE panics = MaxPanics
    <2>1. /\ pc' = "zombie" /\ code' = Code(Killed) /\ UNCHANGED <<todo, next, trap>>
      BY <1>3 DEF Panic
    <2>2. TypeOK'
      BY <1>2, <2>1, ProgramsAssumption DEF Flow, TypeOK, kernel, Code, PCs
    <2>3. Images' /\ Requests' /\ Progress' /\ Words'
      BY <1>1, <2>1 DEF Flow, Images, Requests, Progress, Words, Ended, Early, kernel
    <2> QED BY <2>2, <2>3 DEF Flow
  <1>4. CASE panics # MaxPanics
    <2>1. /\ todo' = Messages /\ next' \in {"loop", "failure"} /\ pc' = "print"
          /\ UNCHANGED <<trap, code>>
      BY <1>4 DEF Panic, Messages
    <2>2. TypeOK'
      BY <1>2, <2>1, TextTypes DEF Flow, TypeOK, kernel, PCs
    <2>3. Images' /\ Requests' /\ Progress' /\ Words'
      BY <1>1, <1>2, <1>4, <2>1 DEF Flow, Images, Requests, Progress, Words, Ended, Early,
         kernel
    <2> QED BY <2>2, <2>3 DEF Flow
  <1> QED BY <1>3, <1>4

(* So does starting to print, *)
LEMMA FlowSay ==
  ASSUME Flow, trap = NoCall, pc \notin Ended,
         todo' \in Seq(Seq(Text)), next' \in {"success", "failure"}, pc' = "print",
         UNCHANGED <<cmd, image, kernel, trap, result, report, argv, res, cap, panics, code>>,
         met' \in [number : BOOLEAN, memory : BOOLEAN, writes : Nat]
  PROVE  Flow'
  <1>1. TypeOK'
    BY DEF Flow, TypeOK, kernel, PCs
  <1>2. Images' /\ Requests' /\ Progress' /\ Words'
    BY DEF Flow, Images, Requests, Progress, Words, Ended, Early, kernel
  <1> QED BY <1>1, <1>2 DEF Flow

(* and a call of the kernel.                                               *)
Onward ==
  /\ pc \notin Ended /\ pc' \in PCs \ Ended
  /\ pc' \in Early => pc \in Early
  /\ pc' \in Early \ {"got"} => pc \in Early \ {"got"}
  /\ pc' = "written" => todo # <<>>
  /\ pc' = "made" => Len(argv) = 2

LEMMA FlowAsk ==
  ASSUME Flow, Onward, ~ Answered', trap'.nr \in -1 .. 25, Images', Requests', Words',
         UNCHANGED <<cmd, image, kernel, todo, next, panics, code, result, report,
                     argv, res, cap, met>>
  PROVE  Flow'
  <1>1. TypeOK'
    BY DEF Flow, TypeOK, kernel, Onward
  <1>2. Progress'
    BY DEF Flow, Progress, Onward, Ended, Early, kernel
  <1> QED BY <1>1, <1>2 DEF Flow

LEMMA FlowCatGot == Flow /\ CatGot => Flow'
  <1> SUFFICES ASSUME Flow, CatGot PROVE Flow'
    OBVIOUS
  <1>1. /\ At("got") /\ Own /\ UNCHANGED argv /\ trap = NoCall /\ pc \notin Ended
        /\ UNCHANGED <<cmd, image, kernel, result, report, argv>>
    BY DEF CatGot, At, Ended, Own
  <1>2. /\ res \in Seq(Byte) /\ cap \in 0 .. HEAP_SIZE /\ HEAP_SIZE \in Nat /\ Len(res) <= cap
        /\ met \in [number : BOOLEAN, memory : BOOLEAN, writes : Nat]
        /\ buffer \in [1 .. CHUNK -> Byte] /\ CHUNK \in Nat \ {0}
        /\ result \in [is : {"ok", "err", "panic"}, value : Nat]
    BY ProgramsAssumption DEF Flow, TypeOK
  <1>3. CASE result.is = "ok" /\ result.value = 0
    <2>1. Show
      BY <1>3 DEF CatGot
    <2> DEFINE pieces == << Lossy(res), <<"EOF">> >>
    <2>2. \/ /\ todo' = pieces /\ next' = "success" /\ pc' = "print"
             /\ UNCHANGED <<trap, panics, code, res, cap, met>>
          \/ Panic /\ met' = [met EXCEPT !.memory = TRUE] /\ UNCHANGED <<res, cap>>
      BY <2>1 DEF Show, Allocate, Say
    <2>3. pieces \in Seq(Seq(Text))
      BY <1>2, TextTypes
    <2> HIDE DEF pieces
    <2>4. met' \in [number : BOOLEAN, memory : BOOLEAN, writes : Nat]
      BY <1>2, <2>2
    <2> QED BY <1>1, <2>2, <2>3, <2>4, FlowSay, FlowPanic
  <1>4. CASE result.is = "ok" /\ result.value # 0
    <2> DEFINE n == result.value
               longer == res \o SubSeq(buffer, 1, n)
               room == Grown(Len(longer))
    <2>1. n \in 1 .. CHUNK
      BY <1>1, <1>2, <1>4 DEF Flow, Progress, Answered, At
    <2>2. longer \in Seq(Byte)
      BY <1>2, <2>1
    <2>3. Extend(n)
      BY <1>4 DEF CatGot
    <2>4. \/ res' = longer /\ AskFor(Read(Opened, "buffer", CHUNK), "got") /\ UNCHANGED met
             /\ \/ Len(longer) <= cap /\ UNCHANGED cap
                \/ cap + room <= HEAP_SIZE /\ cap' = room
          \/ Panic /\ met' = [met EXCEPT !.memory = TRUE] /\ UNCHANGED <<res, cap>>
      BY <2>3 DEF Extend, Allocate
    <2> HIDE DEF longer, n
    <2>5. room \in Nat /\ room >= Len(longer)
      <3>1. Len(longer) \in Nat /\ cap \in Nat
        BY <1>2, <2>2
      <3> QED BY <3>1, GrownHolds
    <2> HIDE DEF room
    <2>6. CASE Panic /\ met' = [met EXCEPT !.memory = TRUE] /\ UNCHANGED <<res, cap>>
      BY <1>1, <1>2, <2>6, FlowPanic
    <2>7. CASE /\ res' = longer /\ AskFor(Read(Opened, "buffer", CHUNK), "got")
               /\ UNCHANGED met
               /\ \/ Len(longer) <= cap /\ UNCHANGED cap
                  \/ cap + room <= HEAP_SIZE /\ cap' = room
      <3>1. cap' \in 0 .. HEAP_SIZE /\ Len(res') <= cap' /\ res' \in Seq(Byte)
        BY <1>2, <2>2, <2>5, <2>7
      <3>2. trap'.nr = 1 /\ pc' = "got" /\ trap' # NoCall
            /\ trap' = Read(Opened, "buffer", CHUNK)
        BY <2>7, Calls DEF AskFor
      <3>3. TypeOK'
        <4>1. 1 \in -1 .. 25 /\ "got" \in PCs
          BY DEF PCs
        <4>2. UNCHANGED <<cmd, image, todo, next, result, argv, buffer, pos, grown, dirs, out,
              panics, met, code, report>>
          BY <1>1, <2>7 DEF AskFor, kernel
        <4>3. trap'.nr \in -1 .. 25 /\ pc' \in PCs
          BY <3>2, <4>1
        <4> QED BY <3>1, <4>2, <4>3 DEF Flow, TypeOK
      <3>4. Images' /\ Requests' /\ Words'
        BY <1>1, <3>2 DEF Flow, Images, Requests, Words, At
      <3>5. Progress'
        BY <1>1, <2>7, <3>2 DEF Flow, Progress, Ended, Early, At, kernel, AskFor, Answered
      <3> QED BY <3>3, <3>4, <3>5 DEF Flow
    <2> QED BY <2>4, <2>6, <2>7
  <1>5. CASE result.is = "err"
    <2>1. Fails /\ UNCHANGED <<res, cap, met>>
      BY <1>5 DEF CatGot, Fail, Say, Fails, Whys
    <2> QED BY <1>1, <1>2, <2>1, TextTypes, FlowSay DEF Fails
  <1>6. CASE result.is = "panic"
    <2>1. Panic /\ UNCHANGED <<res, cap, met>>
      BY <1>6 DEF CatGot
    <2> QED BY <1>1, <1>2, <2>1, FlowPanic
  <1> QED BY <1>2, <1>3, <1>4, <1>5, <1>6

LEMMA FlowProgram == Flow /\ (Program \/ NestedEnds) => Flow'
  <1> SUFFICES ASSUME Flow, Program \/ NestedEnds PROVE Flow'
    OBVIOUS
  <1>1. met \in [number : BOOLEAN, memory : BOOLEAN, writes : Nat]
    BY DEF Flow, TypeOK
  <1>4. CASE Launch
    <2>1. /\ trap = NoCall /\ pc = "launch"
          /\ UNCHANGED <<cmd, image, kernel, result, report, argv, res, cap, met>>
          /\ AskFor(Exec(cmd.words[1], Tail(cmd.words)), "launched")
      BY <1>4 DEF Launch, At, Own
    <2>2. /\ pc' = "launched" /\ trap' = Exec(cmd.words[1], Tail(cmd.words)) /\ trap'.nr = 7
          /\ trap' # NoCall
          /\ UNCHANGED <<todo, next, panics, code>>
      BY <2>1, Calls DEF AskFor
    <2>3. Images' /\ Requests' /\ ~ Answered' /\ Words'
      BY <2>1, <2>2 DEF Flow, Images, Requests, Answered, Words, AskFor
    <2>8. Onward
      BY <2>1, <2>2, <2>3 DEF Onward, PCs, Ended, Early
    <2>9. trap'.nr \in -1 .. 25
      BY <2>1, <2>2, <2>3
    <2> QED BY <2>1, <2>2, <2>3, <2>8, <2>9, FlowAsk
  <1>5. CASE LaunchFails
    <2>1. trap = NoCall /\ pc = "launched"
          /\ UNCHANGED <<cmd, image, kernel, result, report, argv, res, cap, met>>
      BY <1>5 DEF LaunchFails, At, Own
    <2>2. CASE Goto("nested")
      <3>1. TypeOK'
        BY <2>1, <2>2 DEF Flow, TypeOK, kernel, Goto, PCs
      <3>2. Images' /\ Requests' /\ Progress' /\ Words'
        BY <2>1, <2>2 DEF Flow, Images, Requests, Progress, Words, kernel, Goto, Early, Ended
      <3> QED BY <3>1, <3>2 DEF Flow
    <2>3. CASE Panic
      BY <1>1, <2>1, <2>3, FlowPanic DEF Ended
    <2> QED BY <1>5, <2>2, <2>3 DEF LaunchFails
  <1>6. CASE NestedEnds
    <2>1. PICK s \in {0, -1} : trap = NoCall /\ pc = "nested" /\ AskFor(Exit(s), "leaving")
               /\ UNCHANGED <<cmd, image, kernel, result, report, argv, res, cap, met>>
      BY <1>6 DEF NestedEnds, At, Own
    <2>2. /\ pc' = "leaving" /\ trap' \in {Exit(0), Exit(-1)} /\ trap'.nr = 8 /\ trap' # NoCall
          /\ UNCHANGED <<todo, next, panics, code>>
      BY <2>1, Calls DEF AskFor
    <2>3. Images' /\ Requests' /\ ~ Answered' /\ Words'
      BY <2>1, <2>2 DEF Flow, Images, Requests, Answered, Words, AskFor
    <2>8. Onward
      BY <2>1, <2>2, <2>3 DEF Onward, PCs, Ended, Early
    <2>9. trap'.nr \in -1 .. 25
      BY <2>1, <2>2, <2>3
    <2> QED BY <2>1, <2>2, <2>3, <2>8, <2>9, FlowAsk
  <1>7. CASE Start
    <2>1. trap = NoCall /\ pc = "_start"
          /\ UNCHANGED <<cmd, image, kernel, result, report, res, cap, met>>
      BY <1>7 DEF Start, At, Own
    <2>2. CASE Panic /\ UNCHANGED argv
      BY <1>1, <2>1, <2>2, FlowPanic DEF Ended
    <2>3. CASE Goto("main") /\ argv' = [i \in DOMAIN argv |-> Slice(argv[i])]
      <3>1. Words' /\ argv' \in Seq(Seq(Byte))
        <4>1. /\ Len(argv) <= ARGS /\ pc' = "main"
              /\ argv =
                   [i \in 1 .. Len(cmd.words) |-> Terminated(Slice(Terminated(cmd.words[i])))]
          <5>1. pc' = "main"
            BY <2>3 DEF Goto
          <5>2. ~ (Len(argv) > ARGS)
            BY <1>7, <5>1 DEF Start, Panic
          <5>3. Len(argv) \in Nat /\ ARGS \in Nat
            BY ProgramsAssumption DEF Flow, TypeOK
          <5>4. argv =
                  [i \in 1 .. Len(cmd.words) |-> Terminated(Slice(Terminated(cmd.words[i])))]
            BY <2>1 DEF Flow, Words
          <5> QED BY <5>1, <5>2, <5>3, <5>4
        <4>2. cmd.words \in Seq(Seq(Byte))
          BY CommandTypes DEF Flow, TypeOK
        <4> DEFINE v(i) == Slice(Terminated(cmd.words[i]))
        <4>3. \A i \in 1 .. Len(cmd.words) :
                v(i) \in Seq(Byte) /\ Slice(Terminated(v(i))) = v(i)
          <5> SUFFICES ASSUME NEW i \in 1 .. Len(cmd.words)
                       PROVE  v(i) \in Seq(Byte) /\ Slice(Terminated(v(i))) = v(i)
            OBVIOUS
          <5>1. cmd.words[i] \in Seq(Byte)
            BY <4>2
          <5>2. v(i) \in Seq(Byte) /\ \A j \in 1 .. Len(v(i)) : v(i)[j] # NUL
            BY <5>1, SliceOfWord
          <5> QED BY <5>2, SliceAgain
        <4> DEFINE after == [i \in 1 .. Len(cmd.words) |-> v(i)]
        <4>4. Len(cmd.words) \in Nat /\ Len(argv) = Len(cmd.words)
              /\ DOMAIN argv = 1 .. Len(cmd.words)
          BY <4>1, <4>2
        <4>5. argv' = after
          BY <2>3, <4>1, <4>3, <4>4
        <4>6. after \in Seq(Seq(Byte))
          BY <4>3, <4>4
        <4>7. cmd' = cmd
          BY <2>1
        <4> QED BY <4>1, <4>4, <4>5, <4>6, <4>7 DEF Words
      <3>2. TypeOK'
        BY <2>1, <2>3, <3>1 DEF Flow, TypeOK, kernel, Goto, PCs
      <3>3. Images' /\ Requests' /\ Progress'
        BY <2>1, <2>3 DEF Flow, Images, Requests, Progress, kernel, Goto, Early, Ended
      <3> QED BY <3>1, <3>2, <3>3 DEF Flow
    <2> QED BY <1>7, <2>2, <2>3 DEF Start
  <1>8. CASE CatMain
    <2>1. trap = NoCall /\ pc = "main" /\ image = "cat"
          /\ UNCHANGED <<cmd, image, kernel, result, report, argv, res, cap, met>>
      BY <1>8 DEF CatMain, At, Own
    <2>2. CASE Fails
      BY <1>1, <2>1, <2>2, TextTypes, FlowSay DEF Fails, Ended
    <2>3. CASE AskFor(Open(argv[2], OpenMode.READ), "opened")
      <3>1. /\ pc' = "opened" /\ trap' = Open(argv[2], OpenMode.READ) /\ trap'.nr = 2
            /\ trap' # NoCall
          /\ UNCHANGED <<todo, next, panics, code>>
        BY <2>3, Calls DEF AskFor
      <3>2. Images' /\ Requests' /\ ~ Answered' /\ Words'
        BY <2>1, <3>1 DEF Flow, Images, Requests, Answered, Words, AskFor
      <3>8. Onward
        BY <2>1, <2>3, <3>1, <3>2 DEF Onward, PCs, Ended, Early
      <3>9. trap'.nr \in -1 .. 25
        BY <2>1, <2>3, <3>1, <3>2
      <3> QED BY <2>1, <2>3, <3>1, <3>2, <3>8, <3>9, FlowAsk
    <2> QED BY <1>8, <2>2, <2>3 DEF CatMain, Fail, Say, Fails, Whys
  <1>9. CASE CatOpened
    <2>1. trap = NoCall /\ pc = "opened"
          /\ UNCHANGED <<cmd, image, kernel, result, report, argv, res, cap, met>>
      BY <1>9 DEF CatOpened, At, Own
    <2>2. CASE Fails
      BY <1>1, <2>1, <2>2, TextTypes, FlowSay DEF Fails, Ended
    <2>3. CASE Panic
      BY <1>1, <2>1, <2>3, FlowPanic DEF Ended
    <2>4. CASE result.is = "ok" /\ AskFor(Read(result.value, "buffer", CHUNK), "got")
      <3>1. result.value = Opened
        BY <2>1, <2>4 DEF Flow, Progress, Answered
      <3>2. /\ pc' = "got" /\ trap' = Read(Opened, "buffer", CHUNK) /\ trap'.nr = 1
            /\ trap' # NoCall
          /\ UNCHANGED <<todo, next, panics, code>>
        BY <2>4, <3>1, Calls DEF AskFor
      <3>3. Images' /\ Requests' /\ ~ Answered' /\ Words'
        BY <2>1, <3>2 DEF Flow, Images, Requests, Answered, Words, AskFor
      <3>8. Onward
        BY <2>1, <2>4, <3>2, <3>3 DEF Onward, PCs, Ended, Early
      <3>9. trap'.nr \in -1 .. 25
        BY <2>1, <2>4, <3>2, <3>3
      <3> QED BY <2>1, <2>4, <3>2, <3>3, <3>8, <3>9, FlowAsk
    <2> QED BY <1>9, <2>2, <2>3, <2>4 DEF CatOpened, Fail, Say, Fails, Whys
  <1>10. CASE CatGot
    BY <1>10, FlowCatGot
  <1>11. CASE MkdirMain
    <2>1. trap = NoCall /\ pc = "main" /\ image = "mkdir"
          /\ UNCHANGED <<cmd, image, kernel, result, report, argv, res, cap, met>>
      BY <1>11 DEF MkdirMain, At, Own
    <2>2. CASE Panic
      BY <1>1, <2>1, <2>2, FlowPanic DEF Ended
    <2>3. CASE Len(argv) = 2 /\ AskFor(Mkdir(argv[2], DefaultPermission), "made")
      <3>1. /\ pc' = "made" /\ trap' = Mkdir(argv[2], DefaultPermission) /\ trap'.nr = 21
            /\ trap' # NoCall
          /\ UNCHANGED <<todo, next, panics, code>>
        BY <2>3, Calls DEF AskFor
      <3>2. Images' /\ Requests' /\ ~ Answered' /\ Words'
        BY <2>1, <3>1 DEF Flow, Images, Requests, Answered, Words, AskFor
      <3>8. Onward
        BY <2>1, <2>3, <3>1, <3>2 DEF Onward, PCs, Ended, Early
      <3>9. trap'.nr \in -1 .. 25
        BY <2>1, <2>3, <3>1, <3>2
      <3> QED BY <2>1, <2>3, <3>1, <3>2, <3>8, <3>9, FlowAsk
    <2> QED BY <1>11, <2>2, <2>3 DEF MkdirMain
  <1>12. CASE MkdirMade
    <2>1. trap = NoCall /\ pc = "made"
          /\ UNCHANGED <<cmd, image, kernel, result, report, argv, res, cap, met>>
      BY <1>12 DEF MkdirMade, At, Own
    <2>2. CASE Panic
      BY <1>1, <2>1, <2>2, FlowPanic DEF Ended
    <2>3. CASE AskFor(Exit(0), "leaving")
      <3>1. /\ pc' = "leaving" /\ trap' \in {Exit(0), Exit(-1)} /\ trap'.nr = 8
            /\ trap' # NoCall
          /\ UNCHANGED <<todo, next, panics, code>>
        BY <2>3, Calls DEF AskFor
      <3>2. Images' /\ Requests' /\ ~ Answered' /\ Words'
        BY <2>1, <3>1 DEF Flow, Images, Requests, Answered, Words, AskFor
      <3>8. Onward
        BY <2>1, <2>3, <3>1, <3>2 DEF Onward, PCs, Ended, Early
      <3>9. trap'.nr \in -1 .. 25
        BY <2>1, <2>3, <3>1, <3>2
      <3> QED BY <2>1, <2>3, <3>1, <3>2, <3>8, <3>9, FlowAsk
    <2> QED BY <1>12, <2>2, <2>3 DEF MkdirMade
  <1>13. CASE WritePiece
    <2>1. /\ trap = NoCall /\ pc = "print" /\ todo # <<>>
          /\ UNCHANGED <<cmd, image, kernel, result, report, argv, res, cap, met>>
          /\ AskFor(Write(STDOUT, Head(todo)), "written")
      BY <1>13 DEF WritePiece, At, Own
    <2>2. /\ pc' = "written" /\ trap' = Write(STDOUT, Head(todo)) /\ trap'.nr = 0
          /\ trap' # NoCall
          /\ UNCHANGED <<todo, next, panics, code>>
      BY <2>1, Calls DEF AskFor
    <2>3. Images' /\ Requests' /\ ~ Answered' /\ Words'
      BY <2>1, <2>2 DEF Flow, Images, Requests, Answered, Words, AskFor
    <2>8. Onward
      BY <2>1, <2>2, <2>3 DEF Onward, PCs, Ended, Early
    <2>9. trap'.nr \in -1 .. 25
      BY <2>1, <2>2, <2>3
    <2> QED BY <2>1, <2>2, <2>3, <2>8, <2>9, FlowAsk
  <1>14. CASE Written
    <2>1. trap = NoCall /\ pc = "written"
          /\ UNCHANGED <<cmd, image, kernel, result, report, argv, res, cap, met>>
      BY <1>14 DEF Written, At, Own
    <2>2. CASE Panic
      BY <1>1, <2>1, <2>2, FlowPanic DEF Ended
    <2>3. CASE todo' = Tail(todo) /\ pc' = "print" /\ UNCHANGED <<next, trap, panics, code>>
      <3>1. todo # <<>> /\ todo \in Seq(Seq(Text))
        BY <2>1 DEF Flow, Progress, TypeOK
      <3>2. todo' \in Seq(Seq(Text))
        BY <2>3, <3>1
      <3>3. TypeOK'
        BY <2>1, <2>3, <3>2 DEF Flow, TypeOK, kernel, PCs
      <3>4. Images' /\ Requests' /\ Progress' /\ Words'
        BY <2>1, <2>3 DEF Flow, Images, Requests, Progress, Words, kernel, Early, Ended
      <3> QED BY <3>3, <3>4 DEF Flow
    <2> QED BY <1>14, <2>2, <2>3 DEF Written
  <1>15. CASE Printed
    <2>1. trap = NoCall /\ pc = "print"
          /\ UNCHANGED <<cmd, image, kernel, result, report, argv, res, cap, met>>
      BY <1>15 DEF Printed, At, Own
    <2>2. CASE \E s \in {0, -1} : AskFor(Exit(s), "leaving")
      <3>1. PICK s \in {0, -1} : AskFor(Exit(s), "leaving")
        BY <2>2
      <3>2. /\ pc' = "leaving" /\ trap' \in {Exit(0), Exit(-1)} /\ trap'.nr = 8
            /\ trap' # NoCall
          /\ UNCHANGED <<todo, next, panics, code>>
        BY <3>1, Calls DEF AskFor
      <3>3. Images' /\ Requests' /\ ~ Answered' /\ Words'
        BY <2>1, <3>2 DEF Flow, Images, Requests, Answered, Words, AskFor
      <3>8. Onward
        BY <2>1, <3>1, <3>2, <3>3 DEF Onward, PCs, Ended, Early
      <3>9. trap'.nr \in -1 .. 25
        BY <2>1, <3>1, <3>2, <3>3
      <3> QED BY <2>1, <3>1, <3>2, <3>3, <3>8, <3>9, FlowAsk
    <2>3. CASE Goto("loop")
      <3>1. TypeOK'
        BY <2>1, <2>3 DEF Flow, TypeOK, kernel, Goto, PCs
      <3>2. Images' /\ Requests' /\ Progress' /\ Words'
        BY <2>1, <2>3 DEF Flow, Images, Requests, Progress, Words, kernel, Goto, Early, Ended
      <3> QED BY <3>1, <3>2 DEF Flow
    <2>4. next \in {"success", "failure", "loop"}
      BY DEF Flow, TypeOK
    <2> QED BY <1>15, <2>2, <2>3, <2>4 DEF Printed
  <1> QED BY <1>4, <1>5, <1>6, <1>7, <1>8, <1>9, <1>10, <1>11, <1>12, <1>13, <1>14, <1>15
      DEF Program

LEMMA FileIs ==
  ASSUME TypeOK
  PROVE  /\ File \in Seq(Byte) /\ Len(File) = Len(cmd.content) + grown
         /\ \A i \in 1 .. Len(cmd.content) : File[i] = cmd.content[i]
  <1>1. cmd.content \in Seq(Byte) /\ grown \in Nat
    BY CommandTypes DEF TypeOK
  <1> DEFINE more == [i \in 1 .. grown |-> ASCII]
  <1>2. more \in Seq(Byte) /\ Len(more) = grown
    <2>1. ASCII \in Byte
      BY DEF Byte
    <2>2. \A i \in 1 .. grown : ASCII \in Byte
      BY <2>1
    <2> QED BY <1>1, <2>2, IsASeq
  <1>3. File = cmd.content \o more
    BY DEF File
  <1> DEFINE content == cmd.content
  <1>4. content \in Seq(Byte) /\ File = content \o more
    BY <1>1, <1>3
  <1> HIDE DEF more, content
  <1>5. /\ content \o more \in Seq(Byte) /\ Len(content \o more) = Len(content) + grown
        /\ \A i \in 1 .. Len(content) : (content \o more)[i] = content[i]
    <2>1. /\ content \o more \in Seq(Byte) /\ Len(content \o more) = Len(content) + Len(more)
          /\ \A i \in 1 .. Len(content) + Len(more) :
               (content \o more)[i] =
                   IF i <= Len(content) THEN content[i] ELSE more[i - Len(content)]
      BY <1>2, <1>4, ConcatProperties
    <2>2. Len(content) \in Nat
      BY <1>4
    <2> QED BY <1>1, <1>2, <2>1, <2>2
  <1> QED BY <1>4, <1>5 DEF content

LEMMA FlowKernel == Flow /\ (Kernel \/ Report) => Flow'
  <1> SUFFICES ASSUME Flow, Kernel \/ Report PROVE Flow'
    OBVIOUS
  <1>1. TypeOK /\ Requests
    BY DEF Flow
  <1>2. NoCall.nr = -1 /\ -1 \in -1 .. 25
    BY DEF NoCall
  <1>3. CASE KernelRefuses
    <2>1. /\ trap # NoCall /\ ~ Asked("exit") /\ trap' = NoCall
          /\ UNCHANGED <<cmd, process, kernel, code, report>>
          /\ result' \in [is : {"ok", "err", "panic"}, value : Nat] /\ result'.is # "ok"
      BY <1>3, Answers DEF KernelRefuses
    <2>2. met' \in [number : BOOLEAN, memory : BOOLEAN, writes : Nat]
      <3>1. met \in [number : BOOLEAN, memory : BOOLEAN, writes : Nat]
        BY <1>1 DEF TypeOK
      <3>2. met' = [met EXCEPT !.number = @ \/ result'.is = "panic",
                               !.writes = IF Asked("write") THEN @ + 1 ELSE @]
        BY <1>3 DEF KernelRefuses
      <3> DEFINE number == met.number \/ result'.is = "panic"
                 writes == IF Asked("write") THEN met.writes + 1 ELSE met.writes
      <3>3. number \in BOOLEAN
        OBVIOUS
      <3>4. writes \in Nat
        BY <3>1
      <3>5. met' = [met EXCEPT !.number = number, !.writes = writes]
        BY <3>2
      <3> HIDE DEF number, writes
      <3> QED BY <3>1, <3>3, <3>4, <3>5
    <2>3. TypeOK'
      BY <1>1, <1>2, <2>1, <2>2 DEF TypeOK, process, kernel
    <2>4. pc \in {"launched", "opened", "got", "made", "written"}
      BY <1>1, <2>1, AskedFor
    <2>5. Images' /\ Requests' /\ Progress' /\ Words'
      BY <2>1, <2>4 DEF Flow, Images, Requests, Progress, Words, process, kernel, Early, Ended,
         Answered
    <2> QED BY <2>3, <2>5 DEF Flow
  <1>4. CASE KernelExec
    <2>1. /\ pc = "launched" /\ trap = Exec(cmd.words[1], Tail(cmd.words))
          /\ trap' = NoCall /\ result' = Ok(0) /\ pc' = "_start" /\ image' = cmd.prog
          /\ UNCHANGED <<cmd, kernel, todo, next, res, cap, panics, met, code, report>>
          /\ argv' = [i \in 1 .. Len(trap.regs[2]) + 1 |->
                       Terminated(Slice(IF i = 1 THEN trap.regs[1] ELSE trap.regs[2][i - 1]))]
      BY <1>1, <1>4, AskedFor, Answers DEF KernelExec, Answer
    <2>2. cmd.words \in Seq(Seq(Byte)) /\ cmd.words # <<>> /\ cmd.prog \in {"cat", "mkdir"}
      BY <1>1, CommandTypes DEF TypeOK
    <2> DEFINE words == cmd.words
               rest == [i \in DOMAIN Tail(words) |-> Terminated(Tail(words)[i])]
    <2>3. trap.regs[1] = Terminated(words[1]) /\ trap.regs[2] = rest
      BY <2>1 DEF Exec, Call
    <2>4. /\ Len(rest) = Len(words) - 1
          /\ \A i \in 2 .. Len(words) : rest[i - 1] = Terminated(words[i])
      <3> HIDE DEF words
      <3>1. words \in Seq(Seq(Byte)) /\ words # <<>>
        BY <2>2 DEF words
      <3>2. /\ Tail(words) \in Seq(Seq(Byte)) /\ Len(Tail(words)) = Len(words) - 1
            /\ \A i \in 1 .. Len(words) - 1 : Tail(words)[i] = words[i + 1]
        BY <3>1
      <3>3. DOMAIN Tail(words) = 1 .. Len(words) - 1 /\ Len(words) \in Nat /\ Len(words) >= 1
        BY <3>1, <3>2
      <3>4. rest = [i \in 1 .. Len(words) - 1 |-> Terminated(Tail(words)[i])]
        BY <3>3
      <3>5. Len(rest) = Len(words) - 1
        BY <3>3, <3>4
      <3>6. \A i \in 2 .. Len(words) : rest[i - 1] = Terminated(words[i])
        BY <3>2, <3>3, <3>4
      <3> QED BY <3>5, <3>6
    <2> DEFINE begun == [i \in 1 .. Len(words) |-> Terminated(Slice(Terminated(words[i])))]
    <2>5. argv' = begun
      <3>1. Len(words) \in Nat
        BY <2>2
      <3> HIDE DEF rest, words
      <3>2. \A i \in 1 .. Len(words) :
              (IF i = 1 THEN trap.regs[1] ELSE trap.regs[2][i - 1]) = Terminated(words[i])
        BY <2>3, <2>4, <3>1
      <3>3. Len(trap.regs[2]) + 1 = Len(words)
        BY <2>3, <2>4, <3>1
      <3> QED BY <2>1, <3>2, <3>3
    <2>6. begun \in Seq(Seq(Byte))
      <3>1. \A i \in 1 .. Len(words) : Terminated(Slice(Terminated(words[i]))) \in Seq(Byte)
        <4> SUFFICES ASSUME NEW i \in 1 .. Len(words)
                     PROVE  Terminated(Slice(Terminated(words[i]))) \in Seq(Byte)
          OBVIOUS
        <4>1. words[i] \in Seq(Byte)
          BY <2>2
        <4>2. Slice(Terminated(words[i])) \in Seq(Byte)
          BY <4>1, SliceOfWord
        <4> QED BY <4>2 DEF Terminated, Byte
      <3>2. Len(words) \in Nat
        BY <2>2
      <3> QED BY <3>1, <3>2, IsASeq
    <2>7. result' \in [is : {"ok", "err", "panic"}, value : Nat]
      BY <2>1, Answers
    <2>8. TypeOK'
      BY <1>1, <1>2, <2>1, <2>2, <2>5, <2>6, <2>7 DEF TypeOK, kernel, PCs
    <2>9. Images' /\ Requests' /\ Progress' /\ Words'
      BY <2>1, <2>2, <2>5 DEF Flow, Images, Requests, Progress, Words, kernel, Early, Ended,
         Answered
    <2> QED BY <2>8, <2>9 DEF Flow
  <1>5. CASE KernelOpen
    <2>1. /\ pc = "opened" /\ trap' = NoCall /\ result' = Ok(Opened) /\ pos' = 0
          /\ UNCHANGED <<cmd, process, grown, buffer, dirs, out, met, code, report>>
      BY <1>1, <1>5, AskedFor, Answers DEF KernelOpen, Answer, Opened
    <2>2. result' \in [is : {"ok", "err", "panic"}, value : Nat] /\ result'.value = Opened
      BY <2>1, Answers DEF Opened
    <2>3. TypeOK'
      BY <1>1, <1>2, <2>1, <2>2 DEF TypeOK, process
    <2>4. Images' /\ Requests' /\ Progress' /\ Words'
      BY <2>1, <2>2 DEF Flow, Images, Requests, Progress, Words, process, Early, Ended,
         Answered
    <2> QED BY <2>3, <2>4 DEF Flow
  <1>6. CASE KernelRead
    <2>1. /\ pc = "got" /\ trap.regs[3] = CHUNK /\ trap' = NoCall
          /\ UNCHANGED <<cmd, process, grown, dirs, out, met, code, report>>
      BY <1>1, <1>6, AskedFor, Calls DEF KernelRead, Answer
    <2>2. CHUNK \in Nat /\ pos \in Nat /\ grown \in Nat /\ File \in Seq(Byte)
      BY <1>1, ProgramsAssumption, FileIs DEF TypeOK
    <2>3. PICK n \in 0 .. CHUNK :
            /\ pos + n <= Len(File) /\ (n = 0 => pos = Len(File))
            /\ Answer(n) /\ pos' = pos + n
            /\ buffer' = [i \in 1 .. CHUNK |-> IF i <= n THEN File[pos + i] ELSE NUL]
      BY <1>6, <2>1 DEF KernelRead
    <2>4. n \in Nat
      BY <2>2
    <2>5. result' = Ok(n) /\ result' \in [is : {"ok", "err", "panic"}, value : Nat]
          /\ result'.value = n
      BY <2>3, <2>4, Answers DEF Answer
    <2>6. buffer' \in [1 .. CHUNK -> Byte] /\ pos' \in Nat
      BY <2>2, <2>3, <2>4 DEF Byte
    <2>7. TypeOK'
      BY <1>1, <1>2, <2>1, <2>5, <2>6 DEF TypeOK, process
    <2>8. Images' /\ Requests' /\ Progress' /\ Words'
      BY <2>1, <2>2, <2>3, <2>5 DEF Flow, Images, Requests, Progress, Words, process, Early,
         Ended, Answered
    <2> QED BY <2>7, <2>8 DEF Flow
  <1>7. CASE KernelWrite
    <2>1. /\ pc = "written" /\ trap.regs[2] = Head(todo) /\ trap.regs[3] = Len(Head(todo))
      BY <1>1, <1>7, AskedFor, Calls DEF KernelWrite
    <2>2. /\ trap' = NoCall /\ result' = DoSyscall(Len(Head(todo)), 0)
          /\ out' = Append(out, Head(todo))
          /\ grown' \in {grown + Len(Head(todo)), grown}
          /\ UNCHANGED <<cmd, process, pos, buffer, dirs, met, code, report>>
      BY <1>7, <2>1 DEF KernelWrite, Answer
    <2>3. /\ Head(todo) \in Seq(Text) /\ Len(Head(todo)) \in Nat
          /\ out \in Seq(Seq(Text)) /\ grown \in Nat
      BY <2>1 DEF Flow, TypeOK, Progress
    <2>4. out' \in Seq(Seq(Text)) /\ grown' \in Nat
      BY <2>2, <2>3
    <2>5. result' \in [is : {"ok", "err", "panic"}, value : Nat]
      BY <2>2, <2>3, Answers
    <2>6. TypeOK'
      BY <1>1, <1>2, <2>2, <2>4, <2>5 DEF TypeOK, process
    <2>7. Images' /\ Requests' /\ Progress' /\ Words'
      BY <2>1, <2>2 DEF Flow, Images, Requests, Progress, Words, process, Early, Ended,
         Answered
    <2> QED BY <2>6, <2>7 DEF Flow
  <1>8. CASE KernelMkdir
    <2>1. /\ pc = "made" /\ image = "mkdir" /\ trap.regs[1] = Terminated(argv[2])
          /\ trap' = NoCall /\ result' = Ok(0)
          /\ dirs' = dirs \cup {Slice(trap.regs[1])}
          /\ UNCHANGED <<cmd, process, pos, grown, buffer, out, met, code, report>>
      BY <1>1, <1>8, AskedFor, Calls, Answers DEF KernelMkdir, Answer, Flow, Images
    <2>2. argv[2] \in Seq(Byte)
      <3>1. argv \in Seq(Seq(Byte)) /\ Len(argv) = 2
        BY <2>1 DEF Flow, TypeOK, Progress
      <3>2. \A s \in Seq(Seq(Byte)) : Len(s) = 2 => s[2] \in Seq(Byte)
        OBVIOUS
      <3> QED BY <3>1, <3>2
    <2>3. Slice(trap.regs[1]) \in Seq(Byte)
      BY <2>1, <2>2, SliceOfWord
    <2>4. result' \in [is : {"ok", "err", "panic"}, value : Nat]
      BY <2>1, Answers
    <2>5. TypeOK'
      BY <1>1, <1>2, <2>1, <2>3, <2>4 DEF TypeOK, process
    <2>6. Images' /\ Requests' /\ Progress' /\ Words'
      BY <2>1 DEF Flow, Images, Requests, Progress, Words, process, Early, Ended, Answered
    <2> QED BY <2>5, <2>6 DEF Flow
  <1>9. CASE KernelExit
    <2>1. /\ pc = "leaving" /\ trap \in {Exit(0), Exit(-1)} /\ trap' = NoCall /\ pc' = "zombie"
          /\ code' = Code(Signed(trap.regs[1]))
          /\ UNCHANGED <<cmd, image, todo, next, argv, res, cap, panics, kernel, result, met,
             report>>
      BY <1>1, <1>9, AskedFor DEF KernelExit
    <2>2. code' \in {Code(0), Code(-1)}
      BY <2>1, Calls, Signs
    <2>3. code' \in [is : {"none", "code"}, value : Int]
      BY <2>2 DEF Code
    <2>4. TypeOK'
      BY <1>1, <1>2, <2>1, <2>3 DEF TypeOK, kernel, PCs
    <2>5. Images' /\ Requests' /\ Progress' /\ Words'
      BY <2>1 DEF Flow, Images, Requests, Progress, Words, kernel, Early, Ended, Answered
    <2> QED BY <2>4, <2>5 DEF Flow
  <1>10. CASE Report
    <2>1. TypeOK'
      BY <1>1, <1>10 DEF TypeOK, Report, kernel, PCs
    <2>2. Images' /\ Requests' /\ Progress' /\ Words'
      BY <1>10 DEF Flow, Report, Images, Requests, Progress, Words, kernel, Early, Ended,
         Answered
    <2> QED BY <2>1, <2>2 DEF Flow
  <1> QED BY <1>3, <1>4, <1>5, <1>6, <1>7, <1>8, <1>9, <1>10 DEF Kernel

(* Each step of a program and of the kernel finds what it relies on: the   *)
(* answer it takes belongs to the call it made.                            *)
THEOREM FlowHolds == Spec => []Flow
  <1>1. Flow /\ [Next]_vars => Flow'
    <2> SUFFICES ASSUME Flow, [Next]_vars PROVE Flow'
      OBVIOUS
    <2>1. CASE UNCHANGED vars
      <3>1. UNCHANGED <<cmd, image, pc, todo, next, argv, res, cap, panics, pos, grown, buffer,
            dirs,
                        out, trap, result, met, code, report>>
        BY <2>1 DEF vars, process, kernel
      <3>2. TypeOK'
        BY <3>1 DEF Flow, TypeOK
      <3>3. Images' /\ Requests' /\ Progress' /\ Words'
        BY <3>1 DEF Flow, Images, Requests, Progress, Words, Answered
      <3> QED BY <3>2, <3>3 DEF Flow
    <2>2. CASE Next
      BY <2>2, FlowProgram, FlowKernel DEF Next
    <2> QED BY <2>1, <2>2
  <1> QED BY FlowInit, <1>1, PTL DEF Spec

(* The variables of a command keep their types.                            *)
THEOREM TypeCorrect == Spec => []TypeOK
  <1>1. Flow => TypeOK
    BY DEF Flow
  <1> QED BY FlowHolds, <1>1, PTL

----------------------------------------------------------------------------
(* ArgumentsArrive                                                         *)

LEMMA WordsArrive == Flow => ArgumentsArrive
  <1> SUFFICES ASSUME Flow, pc \in {"main", "opened", "got", "made"}
               PROVE  /\ Len(argv) = Len(cmd.words) /\ Len(argv) <= ARGS
                      /\ \A i \in 1 .. Len(argv) :
                           /\ Len(argv[i]) \in UpToNul(cmd.words[i])
                           /\ \A n \in UpToNul(cmd.words[i]) : n <= Len(argv[i])
                           /\ \A j \in 1 .. Len(argv[i]) : argv[i][j] = cmd.words[i][j]
    BY DEF ArgumentsArrive
  <1> DEFINE words == cmd.words
  <1>1. words \in Seq(Seq(Byte)) /\ Len(words) \in Nat
    BY CommandTypes DEF Flow, TypeOK
  <1>2. Len(words) <= ARGS /\ argv = [i \in 1 .. Len(words) |-> Slice(Terminated(words[i]))]
    BY DEF Flow, Words
  <1>3. Len(argv) = Len(words)
    BY <1>1, <1>2
  <1>4. ASSUME NEW i \in 1 .. Len(argv)
        PROVE  /\ Len(argv[i]) \in UpToNul(words[i])
               /\ \A n \in UpToNul(words[i]) : n <= Len(argv[i])
               /\ \A j \in 1 .. Len(argv[i]) : argv[i][j] = words[i][j]
    <2> DEFINE w == words[i]
               v == Slice(Terminated(w))
    <2>1. w \in Seq(Byte) /\ argv[i] = v
      BY <1>1, <1>2, <1>3
    <2>2. /\ v \in Seq(Byte) /\ Len(v) <= Len(w)
          /\ \A j \in 1 .. Len(v) : v[j] = w[j] /\ v[j] # NUL
          /\ Len(v) < Len(w) => w[Len(v) + 1] = NUL
      BY <2>1, SliceOfWord
    <2> HIDE DEF v, w
    <2>3. Len(v) \in Nat /\ Len(w) \in Nat
      BY <2>1, <2>2
    <2>4. Len(v) \in UpToNul(w)
      BY <2>2, <2>3 DEF UpToNul
    <2>5. ASSUME NEW n \in UpToNul(w) PROVE n <= Len(v)
      <3>1. n \in 0 .. Len(w) /\ \A j \in 1 .. n : w[j] # NUL
        BY DEF UpToNul
      <3> QED BY <2>2, <2>3, <3>1
    <2> QED BY <2>1, <2>2, <2>4, <2>5 DEF w
  <1> QED BY <1>2, <1>3, <1>4

(* Whatever is typed, the program's main gets the words, or them up to the *)
(* NUL in them.                                                            *)
THEOREM WordsReachMain == Spec => []ArgumentsArrive
  BY FlowHolds, WordsArrive, PTL

----------------------------------------------------------------------------
(* CatShowsFile                                                            *)

(* The answer says how much of the file is in the buffer; what is before   *)
(* that is in the vector.                                                  *)
Fetched == IF Answered THEN result.value ELSE 0

Reading ==
  pc = "got" =>
    /\ pos = Len(res) + Fetched /\ pos <= Len(cmd.content)
    /\ \A i \in 1 .. Len(res) : res[i] = cmd.content[i]
    /\ \A i \in 1 .. Fetched : buffer[i] = cmd.content[Len(res) + i]
    /\ Answered /\ Fetched = 0 => Len(res) = Len(cmd.content)

Shown == << Lossy(cmd.content), <<"EOF">> >>
Complaints == {<< <<"failed">>, <<why>>, <<"CRLF">> >> : why \in Whys}

(* What reached stdout and what is left to print are a text.               *)
Left == IF pc = "written" /\ Answered THEN Tail(todo) ELSE todo
Completes(text) ==
  /\ Len(out) + Len(Left) = Len(text)
  /\ \A i \in 1 .. Len(out) : out[i] = text[i]
  /\ \A i \in 1 .. Len(Left) : Left[i] = text[Len(out) + i]

Printing ==
  image = "cat" =>
    /\ pc \in {"print", "written"} =>
         /\ next = "success" => Completes(Shown)
         /\ next = "failure" => \E t \in Complaints : Completes(t)
    /\ pc = "leaving" => \/ trap = Exit(0) /\ out = Shown
                         \/ trap = Exit(-1) /\ out \in Complaints
    /\ code = Code(0) => out = Shown
    /\ code = Code(-1) => out \in Complaints

LEMMA CodesDiffer ==
  /\ Code(Killed) # Code(0) /\ Code(Killed) # Code(-1) /\ Code(0) # Code(-1)
  /\ NoCode # Code(0) /\ NoCode # Code(-1) /\ NoCode # Code(Killed)
  BY ProgramsAssumption DEF Code, NoCode

LEMMA GrowsAlong ==
  ASSUME NEW r \in Seq(Byte), NEW p \in Seq(Byte), NEW c \in Seq(Byte),
         Len(r) + Len(p) <= Len(c), \A i \in 1 .. Len(r) : r[i] = c[i],
         \A i \in 1 .. Len(p) : p[i] = c[Len(r) + i]
  PROVE  /\ Len(r \o p) = Len(r) + Len(p)
         /\ \A i \in 1 .. Len(r \o p) : (r \o p)[i] = c[i]
  <1>1. /\ Len(r \o p) = Len(r) + Len(p)
        /\ \A i \in 1 .. Len(r) + Len(p) :
             (r \o p)[i] = IF i <= Len(r) THEN r[i] ELSE p[i - Len(r)]
    BY ConcatProperties
  <1>2. Len(r) \in Nat /\ Len(p) \in Nat
    OBVIOUS
  <1>3. ASSUME NEW i \in 1 .. Len(r) + Len(p) PROVE (r \o p)[i] = c[i]
    <2>1. CASE i <= Len(r)
      BY <1>1, <1>2, <2>1
    <2>2. CASE i > Len(r)
      <3>1. i - Len(r) \in 1 .. Len(p) /\ Len(r) + (i - Len(r)) = i
        BY <1>2, <2>2
      <3>2. p[i - Len(r)] = c[i]
        BY <3>1
      <3> QED BY <1>1, <1>2, <2>2, <3>2
    <2> QED BY <1>2, <2>1, <2>2
  <1> QED BY <1>1, <1>3

LEMMA ReadingExtended ==
  ASSUME Flow, Reading, At("got"), result.is = "ok", result.value # 0,
         res' = res \o SubSeq(buffer, 1, result.value),
         AskFor(Read(Opened, "buffer", CHUNK), "got"),
         UNCHANGED <<cmd, pos>>
  PROVE  Reading'
  <1> DEFINE n == result.value
             piece == SubSeq(buffer, 1, n)
             content == cmd.content
  <1>1. /\ n \in Nat /\ n <= CHUNK /\ Fetched = n /\ CHUNK \in Nat
        /\ res \in Seq(Byte) /\ buffer \in [1 .. CHUNK -> Byte] /\ content \in Seq(Byte)
    BY CommandTypes, ProgramsAssumption DEF Flow, TypeOK, Progress, Fetched, Answered, At
  <1>2. /\ pos = Len(res) + n /\ pos <= Len(content)
        /\ \A i \in 1 .. Len(res) : res[i] = content[i]
        /\ \A i \in 1 .. n : buffer[i] = content[Len(res) + i]
    BY <1>1 DEF Reading, At
  <1>3. piece \in Seq(Byte) /\ Len(piece) = n /\ \A i \in 1 .. n : piece[i] = buffer[i]
    BY <1>1
  <1>4. trap' # NoCall /\ pc' = "got" /\ ~ Answered'
    BY Calls DEF AskFor, Answered
  <1>5. Fetched' = 0
    BY <1>4 DEF Fetched
  <1>6. res' = res \o piece /\ pos' = pos /\ cmd' = cmd
    OBVIOUS
  <1> HIDE DEF n, piece, content
  <1>7. Len(res) + Len(piece) <= Len(content)
        /\ \A i \in 1 .. Len(piece) : piece[i] = content[Len(res) + i]
    BY <1>2, <1>3
  <1>8. /\ Len(res \o piece) = Len(res) + Len(piece)
        /\ \A i \in 1 .. Len(res \o piece) : (res \o piece)[i] = content[i]
    BY <1>1, <1>2, <1>3, <1>7, GrowsAlong
  <1>9. pos = Len(res \o piece)
    BY <1>2, <1>3, <1>8
  <1>10. cmd'.content = content
    BY <1>6 DEF content
  <1>11. Len(res \o piece) + 0 = Len(res \o piece) /\ \A i \in 1 .. 0 : FALSE
    BY <1>1, <1>3, <1>8
  <1> QED BY <1>2, <1>4, <1>5, <1>6, <1>8, <1>9, <1>10, <1>11 DEF Reading

LEMMA ReadingStep == Flow /\ Reading /\ Next => Reading'
  <1> SUFFICES ASSUME Flow, Reading, Next, pc' = "got" PROVE Reading'
    BY DEF Reading
  <1>1. Requests /\ TypeOK
    BY DEF Flow
  <1>2. CASE CatOpened
    <2>1. /\ pc = "opened" /\ UNCHANGED <<cmd, res, pos, result>>
          /\ AskFor(Read(result.value, "buffer", CHUNK), "got")
      BY <1>2 DEF CatOpened, Fail, Say, Panic, At, Own, kernel
    <2>2. res = <<>> /\ pos = 0 /\ cmd.content \in Seq(Byte)
      BY <1>1, <2>1, CommandTypes DEF Flow, Progress, Early, TypeOK
    <2>3. trap' # NoCall
      BY <2>1, Calls DEF AskFor
    <2>4. Fetched' = 0 /\ ~ Answered'
      BY <2>3 DEF Fetched, Answered
    <2> QED BY <2>1, <2>2, <2>4 DEF Reading
  <1>3. CASE CatGot
    <2>1. At("got") /\ result.is = "ok" /\ result.value # 0 /\ Extend(result.value)
          /\ UNCHANGED <<cmd, pos>>
      BY <1>3 DEF CatGot, Show, Allocate, Fail, Say, Panic, Own, kernel
    <2>2. /\ res' = res \o SubSeq(buffer, 1, result.value)
          /\ AskFor(Read(Opened, "buffer", CHUNK), "got")
      BY <2>1 DEF Extend, Allocate, Panic
    <2> QED BY <2>1, <2>2, ReadingExtended
  <1>4. CASE KernelRead
    <2>1. /\ pc = "got" /\ trap.regs[3] = CHUNK /\ trap' = NoCall /\ trap # NoCall
          /\ UNCHANGED <<cmd, res>> /\ CHUNK \in Nat
      BY <1>1, <1>4, AskedFor, Calls, ProgramsAssumption DEF KernelRead, Answer, process
    <2>2. PICK n \in 0 .. CHUNK :
            /\ pos + n <= Len(File) /\ (n = 0 => pos = Len(File))
            /\ Answer(n) /\ pos' = pos + n
            /\ buffer' = [i \in 1 .. CHUNK |-> IF i <= n THEN File[pos + i] ELSE NUL]
      BY <1>4, <2>1 DEF KernelRead
    <2>3. n \in Nat
      BY <2>1
    <2>4. result' = Ok(n) /\ result'.is = "ok" /\ result'.value = n
      BY <2>2, <2>3, Answers DEF Answer
    <2>5. Answered' /\ Fetched' = n /\ Fetched = 0
      BY <2>1, <2>4 DEF Answered, Fetched
    <2>6. grown = 0 /\ res \in Seq(Byte) /\ cmd.content \in Seq(Byte)
      BY <1>1, <2>1, CommandTypes DEF Flow, Progress, Early, TypeOK
    <2>7. /\ Len(File) = Len(cmd.content)
          /\ \A i \in 1 .. Len(cmd.content) : File[i] = cmd.content[i]
      BY <1>1, <2>6, FileIs
    <2>8. pos = Len(res) /\ \A i \in 1 .. Len(res) : res[i] = cmd.content[i]
      BY <2>1, <2>5, <2>6 DEF Reading
    <2>9. \A i \in 1 .. n : buffer'[i] = cmd.content[Len(res) + i]
      <3> SUFFICES ASSUME NEW i \in 1 .. n PROVE buffer'[i] = cmd.content[Len(res) + i]
        OBVIOUS
      <3>1. i \in 1 .. CHUNK /\ i <= n
        BY <2>1, <2>3
      <3>2. buffer'[i] = File[pos + i]
        BY <2>2, <3>1
      <3>3. Len(res) \in Nat /\ Len(cmd.content) \in Nat
        BY <2>6
      <3>4. pos + i \in 1 .. Len(cmd.content)
        BY <2>2, <2>3, <2>7, <2>8, <3>3
      <3> QED BY <2>7, <2>8, <3>2, <3>4
    <2> QED BY <2>1, <2>2, <2>3, <2>5, <2>6, <2>7, <2>8, <2>9 DEF Reading
  <1>5. CASE KernelRefuses
    <2>1. /\ trap # NoCall /\ result'.is # "ok" /\ UNCHANGED <<cmd, res, pos, pc>>
      BY <1>5, Answers DEF KernelRefuses, process, kernel
    <2>2. Fetched = 0 /\ Fetched' = 0 /\ ~ Answered'
      BY <2>1 DEF Fetched, Answered
    <2> QED BY <2>1, <2>2 DEF Reading
  <1>6. CASE Launch \/ LaunchFails \/ Start \/ CatMain \/ MkdirMain \/ MkdirMade \/ NestedEnds
    BY <1>6 DEF Launch, LaunchFails, Start, CatMain, MkdirMain, MkdirMade, NestedEnds, AskFor,
       Goto, Fail, Say, Panic
  <1>7. CASE WritePiece \/ Written \/ KernelExit \/ KernelExec \/ Report
    BY <1>7 DEF WritePiece, Written, KernelExit, KernelExec, Report, AskFor, Goto, Panic
  <1>9. CASE Printed
    BY <1>1, <1>9 DEF Printed, AskFor, Goto, TypeOK
  <1>8. CASE KernelOpen \/ KernelWrite \/ KernelMkdir
    BY <1>1, <1>8, AskedFor DEF KernelOpen, KernelWrite, KernelMkdir, process
  <1> QED BY <1>2, <1>3, <1>4, <1>5, <1>6, <1>7, <1>8, <1>9 DEF Next, Program, Kernel

(* A panic in cat leads to its endless loop, or to the end by the kernel.  *)
LEMMA PrintingPanic ==
  ASSUME Panic, image = "cat", image' = "cat", code = NoCode
  PROVE  Printing'
  <1>1. CASE panics = MaxPanics
    <2>1. pc' = "zombie" /\ code' = Code(Killed)
      BY <1>1 DEF Panic
    <2> QED BY <2>1, CodesDiffer DEF Printing
  <1>2. CASE panics # MaxPanics
    <2>1. next' = "loop" /\ pc' = "print" /\ code' = NoCode
      BY <1>2 DEF Panic
    <2> QED BY <2>1, CodesDiffer DEF Printing
  <1> QED BY <1>1, <1>2

(* Before anything is printed, and while nothing is, there is nothing to say. *)
LEMMA PrintingEarly == pc' \in Early /\ code' = NoCode => Printing'
  BY CodesDiffer DEF Printing, Early

LEMMA PrintingFails == Fails /\ out' = <<>> /\ code = NoCode => Printing'
  <1> SUFFICES ASSUME Fails, out' = <<>>, code = NoCode PROVE Printing'
    OBVIOUS
  <1>1. PICK why \in Whys : todo' = << <<"failed">>, <<why>>, <<"CRLF">> >>
    BY DEF Fails
  <1> DEFINE t == << <<"failed">>, <<why>>, <<"CRLF">> >>
  <1>2. t \in Complaints /\ t \in Seq(Seq(Text))
    BY TextTypes DEF Complaints
  <1>3. next' = "failure" /\ pc' = "print" /\ code' = NoCode /\ todo' = t
    BY <1>1 DEF Fails
  <1> HIDE DEF t
  <1>4. Left' = t
    BY <1>3 DEF Left
  <1>5. Len(<<>>) + Len(t) = Len(t) /\ \A i \in 1 .. Len(t) : t[i] = t[Len(<<>>) + i]
    BY <1>2
  <1>6. Completes(t)'
    BY <1>4, <1>5 DEF Completes
  <1> QED BY <1>2, <1>3, <1>6, CodesDiffer DEF Printing

(* The end of the file: the vector holds all of it.                        *)
LEMMA PrintingShow ==
  ASSUME Flow, Reading, At("got"), result.is = "ok", result.value = 0, out' = out, cmd' = cmd,
         todo' = << Lossy(res), <<"EOF">> >>, next' = "success", pc' = "print", code' = code
  PROVE  Printing'
  <1> DEFINE content == cmd.content
  <1>1. res \in Seq(Byte) /\ content \in Seq(Byte) /\ out = <<>> /\ code = NoCode
    BY CommandTypes DEF Flow, TypeOK, Progress, At, Early, Ended
  <1>2. Len(res) = Len(content) /\ \A i \in 1 .. Len(res) : res[i] = content[i]
    BY DEF Reading, At, Answered, Fetched
  <1> HIDE DEF content
  <1>3. res = content
    BY <1>1, <1>2, SeqEqual
  <1> DEFINE t == << Lossy(content), <<"EOF">> >>
  <1>4. t \in Seq(Seq(Text))
    BY <1>1, TextTypes
  <1>5. Left' = t
    BY <1>3 DEF Left
  <1>6. Shown' = t
    BY DEF Shown, content
  <1> HIDE DEF t
  <1>7. Len(<<>>) + Len(t) = Len(t) /\ \A i \in 1 .. Len(t) : t[i] = t[Len(<<>>) + i]
    BY <1>4
  <1>8. Completes(Shown)'
    BY <1>1, <1>5, <1>6, <1>7 DEF Completes
  <1> QED BY <1>1, <1>8, CodesDiffer DEF Printing

LEMMA HeadThenTail ==
  ASSUME NEW S, NEW o \in Seq(S), NEW l \in Seq(S), NEW t \in Seq(S),
         l # <<>>, Len(o) + Len(l) = Len(t),
         \A i \in 1 .. Len(o) : o[i] = t[i], \A i \in 1 .. Len(l) : l[i] = t[Len(o) + i]
  PROVE  LET a == Append(o, Head(l))
         IN  /\ Len(a) + Len(Tail(l)) = Len(t)
             /\ \A i \in 1 .. Len(a) : a[i] = t[i]
             /\ \A i \in 1 .. Len(Tail(l)) : Tail(l)[i] = t[Len(a) + i]
  <1> DEFINE a == Append(o, Head(l))
             r == Tail(l)
  <1>1. /\ Len(a) = Len(o) + 1 /\ Len(o) \in Nat /\ a[Len(o) + 1] = l[1]
        /\ \A i \in 1 .. Len(o) : a[i] = o[i]
    OBVIOUS
  <1>2. /\ Len(r) = Len(l) - 1 /\ Len(l) \in Nat /\ Len(l) >= 1
        /\ \A i \in 1 .. Len(r) : r[i] = l[i + 1]
    OBVIOUS
  <1> HIDE DEF a, r
  <1>3. Len(a) + Len(r) = Len(t)
    <2>1. Len(a) = Len(o) + 1 /\ Len(r) = Len(l) - 1 /\ Len(o) \in Nat /\ Len(l) \in Nat
      BY <1>1, <1>2
    <2>2. \A x, y \in Nat : (x + 1) + (y - 1) = x + y
      OBVIOUS
    <2>3. (Len(o) + 1) + (Len(l) - 1) = Len(o) + Len(l)
      BY <2>1, <2>2
    <2> QED BY <2>1, <2>3
  <1>4. ASSUME NEW i \in 1 .. Len(a) PROVE a[i] = t[i]
    <2>1. CASE i = Len(o) + 1
      <3>1. l[1] = t[Len(o) + 1]
        BY <1>2
      <3> QED BY <1>1, <2>1, <3>1
    <2>2. CASE i # Len(o) + 1
      BY <1>1, <2>2
    <2> QED BY <2>1, <2>2
  <1>5. ASSUME NEW i \in 1 .. Len(r) PROVE r[i] = t[Len(a) + i]
    <2>1. i + 1 \in 1 .. Len(l) /\ Len(o) + (i + 1) = Len(a) + i
      BY <1>1, <1>2
    <2>2. l[i + 1] = t[Len(o) + (i + 1)]
      BY <2>1
    <2> QED BY <1>2, <2>1, <2>2
  <1> QED BY <1>3, <1>4, <1>5 DEF a, r

LEMMA ShownType == TypeOK => Shown \in Seq(Seq(Text))
  BY CommandTypes, TextTypes DEF TypeOK, Shown

LEMMA ComplaintsType == Complaints \subseteq Seq(Seq(Text))
  BY TextTypes DEF Complaints

(* One piece moves from what is left to stdout.                            *)
LEMMA PrintingWrite ==
  ASSUME Flow, Printing, KernelWrite, image = "cat"
  PROVE  Printing'
  <1>1. pc = "written" /\ trap = Write(STDOUT, Head(todo)) /\ TypeOK
    BY AskedFor DEF KernelWrite, Flow
  <1>2. /\ trap # NoCall /\ trap' = NoCall /\ out' = Append(out, Head(todo)) /\ Answered'
        /\ UNCHANGED <<cmd, image, pc, todo, next, code>>
    <2>1. Len(Head(todo)) \in Nat
      BY <1>1 DEF Flow, TypeOK, Progress
    <2>2. trap # NoCall /\ trap.regs[2] = Head(todo) /\ trap.regs[3] = Len(Head(todo))
      BY <1>1, Calls
    <2> QED BY <2>1, <2>2, Answers DEF KernelWrite, Answer, Answered, process
  <1>3. Left = todo /\ Left' = Tail(todo)
    BY <1>1, <1>2 DEF Left, Answered
  <1>4. todo # <<>> /\ todo \in Seq(Seq(Text)) /\ out \in Seq(Seq(Text)) /\ code = NoCode
    BY <1>1 DEF Flow, Progress, TypeOK, Ended
  <1>5. ASSUME NEW t \in Seq(Seq(Text)), Completes(t) PROVE (Completes(t))'
    <2>1. /\ Len(out) + Len(todo) = Len(t)
          /\ \A i \in 1 .. Len(out) : out[i] = t[i]
          /\ \A i \in 1 .. Len(todo) : todo[i] = t[Len(out) + i]
      BY <1>3, <1>5 DEF Completes
    <2> DEFINE a == Append(out, Head(todo))
               r == Tail(todo)
    <2>2. /\ Len(a) + Len(r) = Len(t)
          /\ \A i \in 1 .. Len(a) : a[i] = t[i]
          /\ \A i \in 1 .. Len(r) : r[i] = t[Len(a) + i]
      BY <1>4, <2>1, HeadThenTail
    <2>3. out' = a /\ Left' = r
      BY <1>2, <1>3
    <2> HIDE DEF a, r
    <2>4. /\ Len(out') + Len(Left') = Len(t)
          /\ \A i \in 1 .. Len(out') : out'[i] = t[i]
          /\ \A i \in 1 .. Len(Left') : Left'[i] = t[Len(out') + i]
      BY <2>2, <2>3
    <2> QED BY <2>4 DEF Completes
  <1>6. Shown \in Seq(Seq(Text)) /\ Shown' = Shown
    BY <1>1, <1>2, ShownType DEF Shown
  <1>7. Printing' =
          /\ next = "success" => Completes(Shown)'
          /\ next = "failure" => \E t \in Complaints : Completes(t)'
    BY <1>1, <1>2, <1>4, CodesDiffer DEF Printing
  <1>8. next = "success" => Completes(Shown)'
    <2> SUFFICES ASSUME next = "success" PROVE Completes(Shown)'
      OBVIOUS
    <2>1. Completes(Shown)
      BY <1>1 DEF Printing
    <2>2. PICK t \in Seq(Seq(Text)) : t = Shown
      BY <1>6
    <2>3. Completes(t)
      BY <2>1, <2>2
    <2>4. Completes(t)' /\ t = Shown'
      BY <1>5, <1>6, <2>2, <2>3
    <2> QED BY <2>4 DEF Completes
  <1>9. next = "failure" => \E t \in Complaints : Completes(t)'
    BY <1>1, <1>5, ComplaintsType DEF Printing
  <1> QED BY <1>7, <1>8, <1>9

(* Nothing is left: what reached stdout is the text.                       *)
LEMMA PrintingDone ==
  ASSUME NEW t \in Seq(Seq(Text)), out \in Seq(Seq(Text)), Left = <<>>, Completes(t)
  PROVE  out = t
  <1>1. Len(out) = Len(t) /\ \A i \in 1 .. Len(out) : out[i] = t[i]
    BY DEF Completes
  <1> QED BY <1>1, SeqEqual

LEMMA PrintingPrinted ==
  ASSUME Flow, Printing, Printed, image = "cat"
  PROVE  Printing'
  <1>1. /\ pc = "print" /\ trap = NoCall /\ todo = <<>> /\ UNCHANGED <<cmd, image, out>>
        /\ next \in {"success", "failure", "loop"} /\ code = NoCode /\ out \in Seq(Seq(Text))
           /\ TypeOK
    BY DEF Printed, At, Own, kernel, Flow, TypeOK, Progress, Ended
  <1>2. Left = <<>> /\ Shown' = Shown
    BY <1>1 DEF Left, Shown
  <1>3. CASE next = "success"
    <2>1. pc' = "leaving" /\ trap' = Exit(0) /\ code' = code
      BY <1>1, <1>3 DEF Printed, AskFor
    <2>2. Completes(Shown) /\ Shown \in Seq(Seq(Text))
      BY <1>1, <1>3, ShownType DEF Printing
    <2>3. PICK t \in Seq(Seq(Text)) : t = Shown /\ Completes(t)
      BY <2>2
    <2>4. out' = Shown'
      BY <1>1, <1>2, <2>3, PrintingDone
    <2> QED BY <1>1, <2>1, <2>4, CodesDiffer DEF Printing
  <1>4. CASE next = "failure"
    <2>1. pc' = "leaving" /\ trap' = Exit(-1) /\ code' = code
      BY <1>1, <1>4 DEF Printed, AskFor
    <2>2. PICK t \in Complaints : Completes(t)
      BY <1>1, <1>4 DEF Printing
    <2>3. out' \in Complaints
      BY <1>1, <1>2, <2>2, ComplaintsType, PrintingDone
    <2> QED BY <1>1, <2>1, <2>3, CodesDiffer DEF Printing
  <1>5. CASE next = "loop"
    <2>1. pc' = "loop" /\ code' = code
      BY <1>1, <1>5 DEF Printed, Goto
    <2> QED BY <1>1, <2>1, CodesDiffer DEF Printing
  <1> QED BY <1>1, <1>3, <1>4, <1>5

(* Steps that leave what is printed, and what is left, as they are.        *)
LEMMA PrintingSame ==
  ASSUME Printing, pc \in {"print", "written"}, pc' \in {"print", "written"}, Left' = Left,
         code = NoCode,
         UNCHANGED <<cmd, image, next, out, code>>
  PROVE  Printing'
  <1>1. Shown' = Shown
    BY DEF Shown
  <1>2. \A t : Completes(t) => Completes(t)'
    BY DEF Completes
  <1>3. image = "cat" /\ next = "success" => Completes(Shown)'
    <2> SUFFICES ASSUME image = "cat", next = "success" PROVE Completes(Shown)'
      OBVIOUS
    <2>1. Completes(Shown)
      BY DEF Printing
    <2> QED BY <1>1, <2>1 DEF Completes
  <1>4. image = "cat" /\ next = "failure" => \E t \in Complaints : Completes(t)'
    BY <1>2 DEF Printing
  <1> QED BY <1>3, <1>4, CodesDiffer DEF Printing

LEMMA PrintingStep == Flow /\ Reading /\ Printing /\ Next => Printing'
  <1> SUFFICES ASSUME Flow, Reading, Printing, Next, image' = "cat" PROVE Printing'
    BY DEF Printing
  <1>1. Requests /\ TypeOK /\ Images /\ (pc \notin Ended => code = NoCode)
        /\ (pc \in Early => out = <<>>)
    BY DEF Flow, Progress
  <1>2. CASE Launch \/ LaunchFails \/ NestedEnds
    BY <1>1, <1>2 DEF Launch, LaunchFails, NestedEnds, At, Own, Images
  <1>3. CASE Start
    <2>1. /\ pc = "_start" /\ UNCHANGED <<cmd, image>>
          /\ Panic \/ (pc' = "main" /\ UNCHANGED code)
      BY <1>3 DEF Start, At, Own, Goto
    <2> QED BY <1>1, <2>1, PrintingPanic, PrintingEarly DEF Early, Ended
  <1>4. CASE CatMain
    <2>1. /\ pc = "main" /\ UNCHANGED <<cmd, image, out>>
          /\ Fails \/ (pc' = "opened" /\ UNCHANGED code)
      BY <1>4 DEF CatMain, At, Own, kernel, Fail, Say, Fails, Whys, AskFor
    <2> QED BY <1>1, <2>1, PrintingFails, PrintingEarly DEF Early, Ended
  <1>5. CASE CatOpened
    <2>1. /\ pc = "opened" /\ UNCHANGED <<cmd, image, out>>
          /\ Fails \/ Panic \/ (pc' = "got" /\ UNCHANGED code)
      BY <1>5 DEF CatOpened, At, Own, kernel, Fail, Say, Fails, Whys, AskFor
    <2> QED BY <1>1, <2>1, PrintingFails, PrintingPanic, PrintingEarly DEF Early, Ended
  <1>6. CASE CatGot
    <2>1. At("got") /\ pc = "got" /\ UNCHANGED <<cmd, image, out>>
      BY <1>6 DEF CatGot, At, Own, kernel
    <2>2. CASE result.is = "ok" /\ result.value = 0
      <3>1. Show
        BY <1>6, <2>2 DEF CatGot
      <3>2. \/ Panic
            \/ /\ todo' = << Lossy(res), <<"EOF">> >> /\ next' = "success" /\ pc' = "print"
               /\ UNCHANGED code
        BY <3>1 DEF Show, Allocate, Say
      <3> QED BY <1>1, <2>1, <2>2, <3>2, PrintingPanic, PrintingShow DEF Early, Ended
    <2>3. CASE result.is = "ok" /\ result.value # 0
      <3>1. Extend(result.value)
        BY <1>6, <2>3 DEF CatGot
      <3>2. Panic \/ (pc' = "got" /\ UNCHANGED code)
        BY <3>1 DEF Extend, Allocate, AskFor
      <3> QED BY <1>1, <2>1, <3>2, PrintingPanic, PrintingEarly DEF Early, Ended
    <2>4. CASE result.is # "ok"
      <3>1. Fails \/ Panic
        BY <1>6, <2>4 DEF CatGot, Fail, Say, Fails, Whys
      <3> QED BY <1>1, <2>1, <3>1, PrintingFails, PrintingPanic DEF Early, Ended
    <2> QED BY <2>2, <2>3, <2>4
  <1>7. CASE MkdirMain \/ MkdirMade
    BY <1>1, <1>7 DEF MkdirMain, MkdirMade, At, Own, Images
  <1>8. CASE WritePiece
    <2>1. /\ pc = "print" /\ pc' = "written" /\ UNCHANGED <<cmd, image, todo, next, out, code>>
          /\ trap' = Write(STDOUT, Head(todo))
      BY <1>8 DEF WritePiece, At, Own, kernel, AskFor
    <2>2. Left = todo /\ Left' = todo
      BY <2>1, Calls DEF Left, Answered
    <2> QED BY <1>1, <2>1, <2>2, PrintingSame DEF Ended
  <1>9. CASE Written
    <2>1. trap = NoCall /\ pc = "written" /\ UNCHANGED <<cmd, image, out>>
      BY <1>9 DEF Written, At, Own, kernel
    <2>2. CASE Panic
      BY <1>1, <2>1, <2>2, PrintingPanic DEF Ended
    <2>3. CASE result.is = "ok" /\ todo' = Tail(todo) /\ pc' = "print"
               /\ UNCHANGED <<next, code>>
      <3>1. Left = Tail(todo) /\ Left' = Tail(todo)
        BY <2>1, <2>3 DEF Left, Answered
      <3> QED BY <1>1, <2>1, <2>3, <3>1, PrintingSame DEF Ended
    <2> QED BY <1>9, <2>2, <2>3 DEF Written
  <1>10. CASE Printed
    <2>1. image = "cat"
      BY <1>10 DEF Printed, Own
    <2> QED BY <1>10, <2>1, PrintingPrinted
  <1>11. CASE KernelRefuses
    <2>1. /\ trap # NoCall /\ result'.is # "ok"
          /\ UNCHANGED <<cmd, image, pc, todo, next, out, code>>
          /\ pc \in {"launched", "opened", "got", "made", "written"}
      BY <1>1, <1>11, AskedFor, Answers DEF KernelRefuses, process, kernel
    <2>2. Left' = Left
      BY <2>1 DEF Left, Answered
    <2> QED BY <1>1, <2>1, <2>2, PrintingSame, PrintingEarly DEF Early, Ended
  <1>12. CASE KernelExec
    BY <1>1, <1>12, AskedFor, PrintingEarly DEF KernelExec, Early, Ended
  <1>13. CASE KernelOpen \/ KernelRead \/ KernelMkdir
    <2>1. pc \in {"opened", "got", "made"} /\ UNCHANGED <<pc, code>>
      BY <1>1, <1>13, AskedFor DEF KernelOpen, KernelRead, KernelMkdir, process
    <2> QED BY <1>1, <2>1, PrintingEarly DEF Early, Ended
  <1>14. CASE KernelWrite
    BY <1>14, PrintingWrite DEF KernelWrite, process
  <1>15. CASE KernelExit
    <2>1. /\ pc = "leaving" /\ trap \in {Exit(0), Exit(-1)} /\ pc' = "zombie"
          /\ code' = Code(Signed(trap.regs[1])) /\ UNCHANGED <<cmd, image, out>>
      BY <1>1, <1>15, AskedFor DEF KernelExit, kernel
    <2>2. Shown' = Shown
      BY <2>1 DEF Shown
    <2>3. \/ code' = Code(0) /\ out = Shown
          \/ code' = Code(-1) /\ out \in Complaints
      BY <2>1, Calls, Signs DEF Printing
    <2> QED BY <2>1, <2>2, <2>3, CodesDiffer DEF Printing
  <1>16. CASE Report
    <2>1. /\ pc = "zombie" /\ pc' = "reported" /\ UNCHANGED <<cmd, image, out, code>>
      BY <1>16 DEF Report, kernel
    <2>2. Shown' = Shown
      BY <2>1 DEF Shown
    <2> QED BY <2>1, <2>2 DEF Printing
  <1> QED BY <1>2, <1>3, <1>4, <1>5, <1>6, <1>7, <1>8, <1>9, <1>10, <1>11, <1>12, <1>13, <1>14,
      <1>15, <1>16
          DEF Next, Program, Kernel

LEMMA PrintingShows == Printing => CatShowsFile
  <1>1. \A t \in Complaints : Len(t) = 3 /\ t[1] = <<"failed">> /\ t[3] = <<"CRLF">>
    BY DEF Complaints
  <1> QED BY <1>1 DEF Printing, CatShowsFile, Shown

(* Whatever portions the kernel reads, and whether or not stdout is the    *)
(* file that is read, cat ends with 0 only when it has shown the file, and *)
(* with -1 only when it has said why.                                      *)
THEOREM FileIsShown == Spec => []CatShowsFile
  <1>1. Init => Reading /\ Printing
    BY CodesDiffer DEF Init, Reading, Printing
  <1>2. Flow /\ Reading /\ Printing /\ [Next]_vars => Reading' /\ Printing'
    <2> SUFFICES ASSUME Flow, Reading, Printing, [Next]_vars PROVE Reading' /\ Printing'
      OBVIOUS
    <2>1. CASE UNCHANGED vars
      <3>1. UNCHANGED <<cmd, image, pc, todo, next, argv, res, pos, buffer, out, trap, result,
            code>>
        BY <2>1 DEF vars, process, kernel
      <3>2. Reading'
        BY <3>1 DEF Reading, Fetched, Answered
      <3>3. Printing'
        BY <3>1 DEF Printing, Shown, Completes, Left, Answered
      <3> QED BY <3>2, <3>3
    <2>2. CASE Next
      BY <2>2, ReadingStep, PrintingStep
    <2> QED BY <2>1, <2>2
  <1> QED BY FlowHolds, <1>1, <1>2, PrintingShows, PTL DEF Spec

----------------------------------------------------------------------------
(* CodeTellsOutcome                                                        *)

(* A directory was made, and the program knows.                            *)
Made ==
  \/ pc = "made" /\ Answered
  \/ pc = "leaving" /\ trap = Exit(0)
  \/ code = Code(0)

Making ==
  /\ image = "shell" => dirs = {}
  /\ image = "mkdir" =>
       /\ pc \in {"print", "written"} => next = "failure"
       /\ Made => Len(cmd.words) = 2 /\ dirs = {argv[2]}
       /\ ~ Made => dirs = {}

(* Every panic but the first comes of a write that was refused.            *)
Panics ==
  /\ panics <= met.writes + 1
  /\ pc = "written" /\ trap = NoCall /\ result.is # "ok" => panics <= met.writes
  /\ code = Code(Killed) => met.writes >= MaxPanics

LEMMA ExitsDiffer == Exit(0) # Exit(-1)
  <1>1. Unsigned(0) # Unsigned(-1)
    BY WordAssumption DEF Unsigned
  <1> QED BY <1>1, Calls

LEMMA MakingPanic ==
  ASSUME Flow, Making, Panic, ~ Made, pc \notin Ended, UNCHANGED <<image, dirs>>
  PROVE  Making'
  <1>1. code = NoCode /\ pc' \in {"zombie", "print"} /\ code' \in {NoCode, Code(Killed)}
        /\ (pc' = "print" => next' = IF image = "cat" THEN "loop" ELSE "failure")
    BY DEF Flow, Progress, Panic
  <1>2. ~ Made'
    BY <1>1, CodesDiffer DEF Made
  <1> QED BY <1>1, <1>2 DEF Making

LEMMA MakingStep == Flow /\ Making /\ Next => Making'
  <1> SUFFICES ASSUME Flow, Making, Next PROVE Making'
    OBVIOUS
  <1>1. Requests /\ TypeOK /\ Images /\ (pc \notin Ended => code = NoCode)
    BY DEF Flow, Progress
  <1>3. CASE image' = "cat" /\ image = "cat"
    BY <1>3 DEF Making
  <1>4. CASE Launch \/ LaunchFails \/ NestedEnds
    <2>1. /\ pc \in {"launch", "launched", "nested"} /\ image = "shell"
          /\ UNCHANGED <<image, dirs>>
      BY <1>1, <1>4 DEF Launch, LaunchFails, NestedEnds, At, Own, kernel, Images
    <2> QED BY <2>1 DEF Making
  <1>5. CASE Start
    <2>1. trap = NoCall /\ pc = "_start" /\ UNCHANGED <<image, dirs, result>> /\ ~ Made
      BY <1>1, <1>5, CodesDiffer DEF Start, At, Own, kernel, Made, Ended
    <2>2. CASE Panic
      BY <1>1, <2>1, <2>2, MakingPanic DEF Ended
    <2>3. CASE pc' = "main" /\ code' = code
      <3>1. ~ Made'
        BY <1>1, <2>1, <2>3, CodesDiffer DEF Made, Ended
      <3> QED BY <2>1, <2>3, <3>1 DEF Making
    <2> QED BY <1>5, <2>2, <2>3 DEF Start, Goto
  <1>6. CASE CatMain \/ CatOpened \/ CatGot
    <2>1. image = "cat" /\ image' = "cat"
      BY <1>1, <1>6 DEF CatMain, CatOpened, CatGot, At, Own, Images
    <2> QED BY <1>3, <2>1
  <1>7. CASE MkdirMain
    <2>1. trap = NoCall /\ pc = "main" /\ UNCHANGED <<image, dirs, result>> /\ ~ Made
      BY <1>1, <1>7, CodesDiffer DEF MkdirMain, At, Own, kernel, Made, Ended
    <2>2. CASE Panic
      BY <1>1, <2>1, <2>2, MakingPanic DEF Ended
    <2>3. CASE AskFor(Mkdir(argv[2], DefaultPermission), "made")
      <3>1. pc' = "made" /\ trap' # NoCall /\ code' = code
        BY <2>3, Calls DEF AskFor
      <3>2. ~ Made'
        BY <1>1, <2>1, <3>1, CodesDiffer DEF Made, Ended, Answered
      <3> QED BY <2>1, <3>1, <3>2 DEF Making
    <2> QED BY <1>7, <2>2, <2>3 DEF MkdirMain
  <1>8. CASE MkdirMade
    <2>1. trap = NoCall /\ pc = "made" /\ UNCHANGED <<cmd, image, dirs, argv, result>>
          /\ image = "mkdir"
      BY <1>1, <1>8 DEF MkdirMade, At, Own, kernel, Images
    <2>2. CASE result.is # "ok"
      <3>1. Panic /\ ~ Made
        BY <1>1, <1>8, <2>1, <2>2, CodesDiffer DEF MkdirMade, Made, Answered, Ended
      <3> QED BY <1>1, <2>1, <3>1, MakingPanic DEF Ended
    <2>3. CASE result.is = "ok"
      <3>1. Made /\ pc' = "leaving" /\ trap' = Exit(0)
        BY <1>8, <2>1, <2>3 DEF MkdirMade, AskFor, Made, Answered
      <3>2. Made'
        BY <3>1 DEF Made
      <3> QED BY <2>1, <3>1, <3>2 DEF Making
    <2> QED BY <2>2, <2>3
  <1>9. CASE WritePiece
    <2>1. /\ pc = "print" /\ pc' = "written"
          /\ UNCHANGED <<cmd, image, dirs, argv, next, code>>
      BY <1>9 DEF WritePiece, At, Own, kernel, AskFor
    <2>2. ~ Made /\ ~ Made'
      BY <1>1, <2>1, CodesDiffer DEF Made, Ended
    <2> QED BY <2>1, <2>2 DEF Making
  <1>10. CASE Written
    <2>1. pc = "written" /\ UNCHANGED <<cmd, image, dirs, argv>> /\ ~ Made
      BY <1>1, <1>10, CodesDiffer DEF Written, At, Own, kernel, Made, Ended
    <2>2. CASE Panic
      BY <1>1, <2>1, <2>2, MakingPanic DEF Ended
    <2>3. CASE pc' = "print" /\ UNCHANGED <<next, code>>
      <3>1. ~ Made'
        BY <1>1, <2>1, <2>3, CodesDiffer DEF Made, Ended
      <3> QED BY <2>1, <2>3, <3>1 DEF Making
    <2> QED BY <1>10, <2>2, <2>3 DEF Written
  <1>11. CASE Printed /\ image = "mkdir"
    <2>1. /\ pc = "print" /\ next = "failure" /\ UNCHANGED <<cmd, image, dirs, argv>> /\ ~ Made
      BY <1>1, <1>11, CodesDiffer DEF Printed, At, Own, kernel, Made, Making, Ended
    <2>2. pc' = "leaving" /\ trap' = Exit(-1) /\ code' = code
      BY <1>11, <2>1 DEF Printed, AskFor
    <2>3. ~ Made'
      BY <1>1, <2>1, <2>2, ExitsDiffer, CodesDiffer DEF Made, Ended
    <2> QED BY <2>1, <2>2, <2>3 DEF Making
  <1>12. CASE Printed /\ image = "shell"
    BY <1>12 DEF Printed, Own, kernel, Making
  <1>13. CASE KernelRefuses
    <2>1. /\ trap # NoCall /\ result'.is # "ok"
          /\ UNCHANGED <<cmd, image, dirs, argv, pc, next, code>>
          /\ pc \in {"launched", "opened", "got", "made", "written"}
      BY <1>1, <1>13, AskedFor, Answers DEF KernelRefuses, process, kernel
    <2>2. ~ Made /\ ~ Made'
      BY <1>1, <2>1, CodesDiffer DEF Made, Answered, Ended
    <2> QED BY <2>1, <2>2 DEF Making
  <1>14. CASE KernelExec
    <2>1. /\ pc = "launched" /\ pc' = "_start" /\ UNCHANGED <<dirs, code>> /\ image = "shell"
      BY <1>1, <1>14, AskedFor DEF KernelExec, kernel, Images
    <2>2. ~ Made'
      BY <1>1, <2>1, CodesDiffer DEF Made, Ended
    <2> QED BY <2>1, <2>2 DEF Making
  <1>15. CASE KernelOpen \/ KernelRead \/ (KernelWrite /\ image = "cat")
    <2>1. image = "cat" /\ image' = "cat"
      BY <1>1, <1>15, AskedFor DEF KernelOpen, KernelRead, KernelWrite, process, Images
    <2> QED BY <1>3, <2>1
  <1>16. CASE KernelWrite /\ image # "cat"
    <2>1. pc = "written" /\ UNCHANGED <<cmd, image, dirs, argv, pc, next, code>>
      BY <1>1, <1>16, AskedFor DEF KernelWrite, process
    <2>2. ~ Made /\ ~ Made'
      BY <1>1, <2>1, CodesDiffer DEF Made, Ended
    <2> QED BY <2>1, <2>2 DEF Making
  <1>17. CASE KernelMkdir
    <2>1. /\ pc = "made" /\ image = "mkdir" /\ trap # NoCall
          /\ trap.regs[1] = Terminated(argv[2])
          /\ UNCHANGED <<cmd, image, argv, pc, next, code>>
      BY <1>1, <1>17, AskedFor, Calls DEF KernelMkdir, process, Images
    <2>2. dirs = {}
      BY <1>1, <2>1, CodesDiffer DEF Making, Made, Answered, Ended
    <2>3. /\ Len(argv) = 2 /\ cmd.words \in Seq(Seq(Byte))
          /\ argv = [i \in 1 .. Len(cmd.words) |-> Slice(Terminated(cmd.words[i]))]
      BY <1>1, <2>1, CommandTypes DEF Flow, Progress, Words, TypeOK
    <2>4. Len(cmd.words) = 2
      BY <2>3
    <2> DEFINE w == cmd.words[2]
    <2>5. w \in Seq(Byte) /\ argv[2] = Slice(Terminated(w))
      <3>1. \A s \in Seq(Seq(Byte)) : Len(s) = 2 => s[2] \in Seq(Byte)
        OBVIOUS
      <3> QED BY <2>3, <2>4, <3>1
    <2>6. Slice(trap.regs[1]) = argv[2]
      <3>1. argv[2] \in Seq(Byte) /\ \A i \in 1 .. Len(argv[2]) : argv[2][i] # NUL
        BY <2>5, SliceOfWord
      <3> QED BY <2>1, <3>1, SliceAgain
    <2>7. dirs' = {argv[2]}
      BY <1>17, <2>2, <2>6 DEF KernelMkdir
    <2>8. Made'
      BY <1>17, <2>1, Answers DEF KernelMkdir, Answer, Made, Answered
    <2> QED BY <2>1, <2>4, <2>7, <2>8 DEF Making
  <1>18. CASE KernelExit
    <2>1. /\ pc = "leaving" /\ trap \in {Exit(0), Exit(-1)} /\ pc' = "zombie"
          /\ code' = Code(Signed(trap.regs[1])) /\ UNCHANGED <<cmd, image, argv, dirs>>
      BY <1>1, <1>18, AskedFor DEF KernelExit, kernel
    <2>2. Made' <=> Made
      BY <1>1, <2>1, Calls, Signs, ExitsDiffer, CodesDiffer DEF Made, Ended
    <2> QED BY <2>1, <2>2 DEF Making
  <1>19. CASE Report
    <2>1. /\ pc = "zombie" /\ pc' = "reported" /\ UNCHANGED <<cmd, image, argv, dirs, code>>
      BY <1>19 DEF Report, kernel
    <2>2. Made' <=> Made
      BY <2>1 DEF Made
    <2> QED BY <2>1, <2>2 DEF Making
  <1>20. CASE Printed /\ image = "cat"
    BY <1>3, <1>20 DEF Printed, Own
  <1>21. image \in {"shell", "cat", "mkdir"}
    BY <1>1 DEF TypeOK
  <1> QED BY <1>4, <1>5, <1>6, <1>7, <1>8, <1>9, <1>10, <1>11, <1>12, <1>13, <1>14, <1>15,
      <1>16, <1>17,
             <1>18, <1>19, <1>20, <1>21 DEF Next, Program, Kernel

LEMMA PanicsPanic ==
  ASSUME Flow, Panics, Panic, pc \notin Ended, met'.writes = met.writes,
         pc \in Early \/ panics <= met.writes
  PROVE  Panics'
  <1>1. /\ panics \in Nat /\ met.writes \in Nat /\ code = NoCode /\ MaxPanics \in Nat \ {0}
        /\ panics <= met.writes
    BY ProgramsAssumption DEF Flow, TypeOK, Progress
  <1>2. panics' = panics + 1
    BY DEF Panic
  <1>3. CASE panics = MaxPanics
    <2>1. pc' = "zombie"
      BY <1>3 DEF Panic
    <2> QED BY <1>1, <1>2, <1>3, <2>1 DEF Panics
  <1>4. CASE panics # MaxPanics
    <2>1. pc' = "print" /\ code' = code
      BY <1>4 DEF Panic
    <2> QED BY <1>1, <1>2, <2>1, CodesDiffer DEF Panics
  <1> QED BY <1>3, <1>4

LEMMA PanicsStep == Flow /\ Panics /\ Next => Panics'
  <1> SUFFICES ASSUME Flow, Panics, Next PROVE Panics'
    OBVIOUS
  <1>1. Requests /\ TypeOK /\ (pc \notin Ended => code = NoCode) /\ panics \in Nat
        /\ met.writes \in Nat
    <2>1. Requests /\ TypeOK /\ (pc \notin Ended => code = NoCode)
      BY DEF Flow, Progress
    <2>2. panics \in 0 .. MaxPanics + 1
          /\ met \in [number : BOOLEAN, memory : BOOLEAN, writes : Nat]
      BY <2>1 DEF TypeOK
    <2> QED BY <2>1, <2>2
  <1>2. ASSUME pc' # "written", UNCHANGED <<panics, code>>,
               met'.writes = met.writes PROVE Panics'
    BY <1>2 DEF Panics
  <1>3. CASE Launch \/ LaunchFails \/ NestedEnds \/ Start \/ MkdirMain \/ MkdirMade
    <2>1. pc \in Early /\ met' = met /\ pc \notin Ended
      BY <1>3 DEF Launch, LaunchFails, NestedEnds, Start, MkdirMain, MkdirMade, At, Early,
         Ended
    <2>2. Panic \/ (pc' # "written" /\ UNCHANGED <<panics, code>>)
      BY <1>3 DEF Launch, LaunchFails, NestedEnds, Start, MkdirMain, MkdirMade, AskFor, Goto
    <2> QED BY <1>2, <2>1, <2>2, PanicsPanic
  <1>4. CASE CatMain \/ CatOpened
    <2>1. pc \in Early /\ met' = met /\ pc \notin Ended
      BY <1>4 DEF CatMain, CatOpened, At, Early, Ended
    <2>2. Panic \/ (pc' # "written" /\ UNCHANGED <<panics, code>>)
      BY <1>4 DEF CatMain, CatOpened, AskFor, Fail, Say
    <2> QED BY <1>2, <2>1, <2>2, PanicsPanic
  <1>5. CASE CatGot
    <2>1. pc \in Early /\ pc \notin Ended
      BY <1>5 DEF CatGot, At, Early, Ended
    <2>2. met \in [number : BOOLEAN, memory : BOOLEAN, writes : Nat]
      BY <1>1 DEF TypeOK
    <2>3. /\ Panic \/ (pc' # "written" /\ UNCHANGED <<panics, code>>)
          /\ met' = met \/ met' = [met EXCEPT !.memory = TRUE]
      BY <1>5 DEF CatGot, Extend, Show, Allocate, AskFor, Fail, Say
    <2>4. met'.writes = met.writes
      BY <2>2, <2>3
    <2> QED BY <1>2, <2>1, <2>3, <2>4, PanicsPanic
  <1>6. CASE WritePiece
    <2>1. UNCHANGED <<panics, code, met>> /\ trap' # NoCall
      BY <1>6, Calls DEF WritePiece, AskFor
    <2> QED BY <2>1 DEF Panics
  <1>7. CASE Written
    <2>1. pc = "written" /\ trap = NoCall /\ pc \notin Ended /\ met' = met
      BY <1>7 DEF Written, At, Ended
    <2>2. CASE result.is = "ok"
      <3>1. pc' = "print" /\ UNCHANGED <<panics, code>>
        BY <1>7, <2>2 DEF Written
      <3> QED BY <1>2, <2>1, <3>1
    <2>3. CASE result.is # "ok"
      <3>1. Panic /\ panics <= met.writes
        BY <1>7, <2>1, <2>3 DEF Written, Panics
      <3> QED BY <2>1, <3>1, PanicsPanic
    <2> QED BY <2>2, <2>3
  <1>8. CASE Printed
    <2>1. pc' # "written" /\ UNCHANGED <<panics, code, met>>
      <3>1. next \in {"success", "failure", "loop"}
        BY <1>1 DEF TypeOK
      <3> QED BY <1>8, <3>1 DEF Printed, AskFor, Goto
    <2> QED BY <1>2, <2>1
  <1>9. CASE KernelRefuses
    <2>1. trap # NoCall /\ UNCHANGED <<pc, panics, code>>
      BY <1>9 DEF KernelRefuses, process
    <2>2. met'.writes = IF Asked("write") THEN met.writes + 1 ELSE met.writes
      BY <1>1, <1>9 DEF KernelRefuses, TypeOK
    <2>3. pc = "written" => Asked("write")
      BY <1>1, <2>1, Calls DEF Requests, Asked, Number
    <2> QED BY <1>1, <2>1, <2>2, <2>3, ProgramsAssumption DEF Panics
  <1>10. CASE KernelExec \/ KernelOpen \/ KernelRead \/ KernelMkdir
    <2>1. pc' # "written" /\ UNCHANGED <<panics, code, met>>
      BY <1>1, <1>10, AskedFor DEF KernelExec, KernelOpen, KernelRead, KernelMkdir, process
    <2> QED BY <1>2, <2>1
  <1>11. CASE KernelWrite
    <2>1. UNCHANGED <<panics, code, met>> /\ trap # NoCall
      BY <1>1, <1>11, Calls, AskedFor DEF KernelWrite, process
    <2>2. result'.is = "ok"
      BY <1>11 DEF KernelWrite, Answer, DoSyscall, Ok
    <2> QED BY <2>1, <2>2 DEF Panics
  <1>12. CASE KernelExit
    <2>1. /\ pc' = "zombie" /\ UNCHANGED <<panics, met>> /\ trap \in {Exit(0), Exit(-1)}
          /\ code' = Code(Signed(trap.regs[1]))
      BY <1>1, <1>12, AskedFor DEF KernelExit
    <2>2. code' # Code(Killed)
      BY <2>1, Calls, Signs, CodesDiffer
    <2> QED BY <2>1, <2>2 DEF Panics
  <1>13. CASE Report
    BY <1>2, <1>13 DEF Report
  <1> QED BY <1>3, <1>4, <1>5, <1>6, <1>7, <1>8, <1>9, <1>10, <1>11, <1>12, <1>13 DEF Next,
      Program, Kernel

LEMMA CodeTells == Flow /\ Making /\ Panics => CodeTellsOutcome
  <1> SUFFICES ASSUME Flow, Making, Panics, report.is = "code" PROVE CodeTellsOutcome
    BY DEF CodeTellsOutcome
  <1>1. report = code /\ pc \in Ended
    BY DEF Flow, Progress, NoCode
  <1>2. Made <=> report = Code(0)
    BY <1>1 DEF Made, Ended
  <1> QED BY <1>1, <1>2 DEF CodeTellsOutcome, Making, Panics

(* mkdir reports 0 if and only if it made the directory, and only a write  *)
(* that is refused again and again makes a handler end by the kernel.      *)
THEOREM CodeIsTold == Spec => []CodeTellsOutcome
  <1>1. Init => Making /\ Panics
    BY CodesDiffer DEF Init, Making, Panics
  <1>2. Flow /\ Making /\ Panics /\ [Next]_vars => Making' /\ Panics'
    <2> SUFFICES ASSUME Flow, Making, Panics, [Next]_vars PROVE Making' /\ Panics'
      OBVIOUS
    <2>1. CASE UNCHANGED vars
      <3>1. UNCHANGED <<cmd, image, pc, next, argv, dirs, panics, met, trap, result, code>>
        BY <2>1 DEF vars, process, kernel
      <3>2. Making'
        BY <3>1 DEF Making, Made, Answered
      <3>3. Panics'
        BY <3>1 DEF Panics
      <3> QED BY <3>2, <3>3
    <2>2. CASE Next
      BY <2>2, MakingStep, PanicsStep
    <2> QED BY <2>1, <2>2
  <1> QED BY FlowHolds, <1>1, <1>2, CodeTells, PTL DEF Spec
=============================================================================

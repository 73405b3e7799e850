----------------------------- MODULE ShellProofs -----------------------------
(***************************************************************************)
(* One process at a time has the terminal, every process is waited for by  *)
(* the one that started it, and a program runs with the files its command  *)
(* names, for any number of processes, descriptors and lines.  The first   *)
(* two are not inductive alone: that init_proc forks once, before anybody  *)
(* else exists, and never takes a step of the shell, is part of the        *)
(* invariant.  The third needs them: a child's descriptors are compared    *)
(* with its parent's, which stay as they are because the parent waits.     *)
(***************************************************************************)
EXTENDS ShellProperties, NaturalsInduction, WellFoundedInduction, TLAPS

InitPCs == {"boot", "launch", "reap"}

(* init_proc never ends, and before its fork it is alone.                  *)
InitAlone ==
  /\ state[InitPid] = "run" /\ pc[InitPid] \in InitPCs
  /\ \A q \in Procs \ {InitPid} :
       /\ state[q] = "run" => pc[q] \notin InitPCs
       /\ pc[InitPid] # "reap" => state[q] = "free"

Session == TypeOK /\ InitAlone /\ OneForeground /\ EveryoneAwaited

----------------------------------------------------------------------------
(* TypeOK                                                                  *)

LEMMA TableTypes ==
  ASSUME NEW table \in [0 .. MaxFd -> File], NEW f \in File, NEW n
  PROVE  /\ Opened(table, f) \in [0 .. MaxFd -> File]
         /\ Without(table, n) \in [0 .. MaxFd -> File]
  BY ProcsAssumption DEF Opened, Without, Closed, File

LEMMA Files ==
  /\ Closed \in File /\ Tty \in File /\ Screen \in File
  /\ \A q \in Procs : [kind |-> "read", opener |-> q] \in File
                      /\ [kind |-> "write", opener |-> q] \in File
                      /\ [kind |-> "dev", opener |-> q] \in File
  BY ProcsAssumption DEF Closed, Tty, Screen, File

LEMMA NoLineTypes == NoLine \in Line
  BY DEF NoLine, Line, Word

LEMMA OpensTypes ==
  ASSUME TypeOK, NEW q \in Procs, NEW f, Opens(q, f)
  PROVE  left' \in [Procs -> Unread]
  BY DEF Opens, TypeOK, Unread

LEMMA TypeInit == Init => TypeOK
  BY ProcsAssumption, Files DEF Init, TypeOK, PCs, Line, Word, NoLine, Unread, Lines

LEMMA ExitTypes ==
  ASSUME TypeOK, NEW q \in Procs, Exit(q)
  PROVE  TypeOK'
  <1>1. state' \in [Procs -> {"free", "run", "zombie"}]
    BY DEF TypeOK, Exit
  <1>2. fd' \in [Procs -> [0 .. MaxFd -> File]]
    BY Files DEF TypeOK, Exit
  <1>4. NoLine \in Line /\ "leave" \in PCs
    BY DEF NoLine, Line, Word, PCs
  <1>3. parent' \in [Procs -> Procs \cup {Nobody}]
    BY ProcsAssumption DEF TypeOK, Exit
  <1>5. left' \in [Procs -> Unread]
    BY ProcsAssumption DEF TypeOK, Exit, Unread, Lines
  <1> QED BY <1>1, <1>2, <1>3, <1>4, <1>5 DEF TypeOK, Exit

LEMMA ForkTypes ==
  ASSUME TypeOK, NEW q \in Procs, NEW c \in Procs, NEW here \in PCs, NEW there \in PCs,
         ForkTo(q, c, here, there)
  PROVE  TypeOK'
  BY NoLineTypes DEF TypeOK, ForkTo

LEMMA ReapTypes ==
  ASSUME TypeOK, NEW q \in Procs, Reap(q)
  PROVE  /\ state' \in [Procs -> {"free", "run", "zombie"}]
         /\ parent' \in [Procs -> Procs \cup {Nobody}]
  BY DEF TypeOK, Reap

LEMMA ConsumeTypes ==
  ASSUME TypeOK, NEW q \in Procs, Readable(q), Consume(q)
  PROVE  left' \in [Procs -> Unread]
  <1>1. fd[q] \in [0 .. MaxFd -> File] /\ 0 \in 0 .. MaxFd
    BY ProcsAssumption DEF TypeOK
  <1>2. fd[q][0] \in File
    BY <1>1
  <1>3. fd[q][0].opener \in Procs
    BY <1>2 DEF File
  <1> DEFINE o == fd[q][0].opener
  <1>4. left[o] \in Unread /\ left[o] > 0
    BY <1>3 DEF TypeOK, Readable
  <1>5. left[o] - 1 \in Unread
    BY <1>4, ProcsAssumption DEF Unread, Lines
  <1> QED BY <1>3, <1>5 DEF TypeOK, Consume

LEMMA RedirectTypes ==
  ASSUME TypeOK, NEW q \in Procs, NEW n, NEW f \in File, NEW next \in PCs,
         Redirect(q, n, f, next)
  PROVE  TypeOK'
  <1> DEFINE table == Without(fd[q], n)
  <1>1. table \in [0 .. MaxFd -> File] /\ Opened(table, f) \in [0 .. MaxFd -> File]
    BY TableTypes DEF TypeOK
  <1>2. CASE Exit(q)
    BY <1>2, ExitTypes
  <1>3. CASE /\ fd' = [fd EXCEPT ![q] = Opened(table, f)]
             /\ Opens(q, f)
             /\ Goto(q, next)
             /\ UNCHANGED <<state, parent, child, line, power>>
    BY <1>1, <1>3, OpensTypes DEF TypeOK, Goto
  <1>4. CASE /\ fd' \in {fd, [fd EXCEPT ![q] = table]}
             /\ Goto(q, "failed")
             /\ UNCHANGED <<state, parent, child, line, left, power>>
    BY <1>1, <1>4 DEF TypeOK, Goto, PCs
  <1> QED BY <1>2, <1>3, <1>4 DEF Redirect

LEMMA TypeInitProc == TypeOK /\ InitProc => TypeOK'
  <1> SUFFICES ASSUME TypeOK, InitProc PROVE TypeOK'
    OBVIOUS
  <1>1. CASE Boot
    <2>1. \A in, out \in Nat :
            [n \in 0 .. MaxFd |-> IF n < in THEN Tty ELSE IF n < in + out THEN Screen ELSE Closed]
              \in [0 .. MaxFd -> File]
      BY Files
    <2>2. PICK table \in [0 .. MaxFd -> File] : fd' = [fd EXCEPT ![InitPid] = table]
      <3>1. PICK in \in 0 .. 1, out \in 0 .. 2 :
              fd' = [fd EXCEPT ![InitPid] =
                       [n \in 0 .. MaxFd |-> IF n < in THEN Tty
                                            ELSE IF n < in + out THEN Screen ELSE Closed]]
        BY <1>1 DEF Boot
      <3>2. in \in Nat /\ out \in Nat
        OBVIOUS
      <3> QED BY <2>1, <3>1, <3>2
    <2>3. fd' \in [Procs -> [0 .. MaxFd -> File]]
      BY <2>2 DEF TypeOK
    <2> QED BY <1>1, <2>3 DEF Boot, TypeOK, Goto, PCs
  <1>2. CASE InitFork
    <2>1. PICK c \in Procs : ForkTo(InitPid, c, "reap", "exec_shell")
      BY <1>2 DEF InitFork
    <2> QED BY <2>1, ForkTypes, ProcsAssumption DEF PCs
  <1>3. CASE InitForkFails
    BY <1>3 DEF InitForkFails, TypeOK, Goto, PCs
  <1>4. CASE InitReap
    <2>1. PICK c \in Procs : Reap(c)
      BY <1>4 DEF InitReap
    <2> QED BY <1>4, <2>1, ReapTypes DEF InitReap, TypeOK
  <1> QED BY <1>1, <1>2, <1>3, <1>4 DEF InitProc

LEMMA TypeStep ==
  ASSUME TypeOK, NEW q \in Procs, Step(q)
  PROVE  TypeOK'
  <1>1. CASE ExecShell(q)
    BY <1>1, ExitTypes DEF ExecShell, TypeOK, Goto, PCs
  <1>2. CASE Start(q)
    BY <1>2, ExitTypes DEF Start, TypeOK, Goto, PCs
  <1>3. CASE StartScript(q)
    <2> DEFINE f == [kind |-> "read", opener |-> q]
    <2>1. CASE Exit(q)
      BY <2>1, ExitTypes
    <2>2. CASE /\ fd' = [fd EXCEPT ![q] = Opened(Without(fd[q], 0), f)]
               /\ Opens(q, f)
               /\ Goto(q, "prompt")
               /\ line' = [line EXCEPT ![q] = NoLine]
               /\ UNCHANGED <<state, parent, child, power>>
      <3>1. Opened(Without(fd[q], 0), f) \in [0 .. MaxFd -> File]
        BY TableTypes, Files DEF TypeOK
      <3>2. left' \in [Procs -> Unread]
        BY <2>2, OpensTypes
      <3> HIDE DEF f
      <3> QED BY <2>2, <3>1, <3>2, NoLineTypes DEF TypeOK, Goto, PCs
    <2> QED BY <1>3, <2>1, <2>2 DEF StartScript
  <1>4. CASE PrintHeader(q)
    BY <1>4, ExitTypes DEF PrintHeader, TypeOK, Goto, PCs
  <1>5. CASE EndOfInput(q) \/ Leave(q) \/ PowerOffPanics(q) \/ ElfExits(q)
    BY <1>5, ExitTypes DEF EndOfInput, Leave, PowerOffPanics, ElfExits
  <1>6. ASSUME NEW l \in Line, GetLine(q, l) PROVE TypeOK'
    <2>1. left' \in [Procs -> Unread]
      BY <1>6, ConsumeTypes DEF GetLine
    <2>2. Serve(l.word) \subseteq PCs
      BY DEF Serve, PCs
    <2>3. PICK next \in PCs : Goto(q, next)
      BY <1>6, <2>2 DEF GetLine
    <2> QED BY <1>6, <2>1, <2>3 DEF GetLine, TypeOK, Goto
  <1>7. CASE PowerOff(q)
    <2>1. Opened(fd[q], [kind |-> "dev", opener |-> q]) \in [0 .. MaxFd -> File]
      BY TableTypes, Files DEF TypeOK
    <2> QED BY <1>7, <2>1 DEF PowerOff, TypeOK, Goto, PCs
  <1>8. CASE Fork(q)
    <2>1. PICK c \in Procs : ForkTo(q, c, "wait", "redirect_in")
      BY <1>8 DEF Fork
    <2> QED BY <2>1, ForkTypes DEF PCs
  <1>9. CASE ForkFails(q) \/ NoRedirect(q) \/ Exec(q)
    BY <1>9 DEF ForkFails, NoRedirect, Exec, TypeOK, Goto, PCs
  <1>10. CASE RedirectIn(q)
    BY <1>10, RedirectTypes, Files DEF RedirectIn, PCs
  <1>11. CASE RedirectOut(q)
    BY <1>11, RedirectTypes, Files DEF RedirectOut, PCs
  <1>12. CASE CommandFailed(q)
    BY <1>12, ExitTypes, NoLineTypes DEF CommandFailed, TypeOK, Goto, PCs
  <1>13. CASE Wait(q)
    <2>1. CASE IsChild(q, child[q])
      <3>1. Reap(child[q]) /\ child[q] \in Procs
        BY <1>13, <2>1 DEF Wait, IsChild
      <3> QED BY <1>13, <2>1, <3>1, ReapTypes DEF Wait, TypeOK, Goto, PCs
    <2>2. CASE ~ IsChild(q, child[q])
      BY <1>13, <2>2 DEF Wait, TypeOK, Goto, PCs
    <2> QED BY <2>1, <2>2
  <1>14. CASE ElfReads(q)
    BY <1>14, ConsumeTypes DEF ElfReads, TypeOK
  <1> QED BY <1>1, <1>2, <1>3, <1>4, <1>5, <1>6, <1>7, <1>8, <1>9, <1>10, <1>11,
            <1>12, <1>13, <1>14 DEF Step

(* The session's state keeps its type: no file is read beyond its end, and *)
(* no descriptor table grows.                                              *)
THEOREM TypeCorrect == Spec => []TypeOK
  <1>1. TypeOK /\ [Next]_vars => TypeOK'
    <2> SUFFICES ASSUME TypeOK, [Next]_vars PROVE TypeOK'
      OBVIOUS
    <2>1. CASE UNCHANGED vars
      BY <2>1 DEF vars, TypeOK
    <2>2. CASE Next
      BY <2>2, TypeInitProc, TypeStep DEF Next
    <2> QED BY <2>1, <2>2
  <1> QED BY <1>1, TypeInit, PTL DEF Spec

----------------------------------------------------------------------------
(* OneForeground and EveryoneAwaited: the steps by what they do to the     *)
(* processes.                                                              *)

ShellPCs == PCs \ (InitPCs \cup {"wait"})

LEMMA ForkPC == "fork" \in ShellPCs
  BY DEF ShellPCs, PCs, InitPCs

(* q goes on, without a change anybody else can see.                       *)
Moves(q) ==
  /\ state[q] = "run" /\ pc[q] \in ShellPCs
  /\ pc' = pc \/ \E l \in ShellPCs : pc' = [pc EXCEPT ![q] = l]
  /\ UNCHANGED <<state, parent, child>>

(* q ends.                                                                 *)
Ends(q) == state[q] = "run" /\ pc[q] \in ShellPCs /\ Exit(q)

(* q starts c and waits for it.                                            *)
Starts(q, c) == At(q, "fork") /\ ForkTo(q, c, "wait", "redirect_in")

LEMMA StepKinds ==
  ASSUME NEW q \in Procs, Step(q)
  PROVE  Moves(q) \/ Ends(q) \/ (\E c \in Procs : Starts(q, c)) \/ Wait(q)
  <1> USE DEF ShellPCs, PCs, InitPCs, At, Goto
  <1>1. CASE ExecShell(q) \/ Start(q) \/ StartScript(q) \/ PrintHeader(q) \/ CommandFailed(q)
    BY <1>1 DEF ExecShell, Start, StartScript, PrintHeader, CommandFailed, Moves, Ends
  <1>2. CASE ForkFails(q) \/ NoRedirect(q) \/ Exec(q) \/ PowerOff(q) \/ ElfReads(q)
    BY <1>2 DEF ForkFails, NoRedirect, Exec, PowerOff, ElfReads, Moves
  <1>3. CASE EndOfInput(q) \/ Leave(q) \/ PowerOffPanics(q) \/ ElfExits(q)
    BY <1>3 DEF EndOfInput, Leave, PowerOffPanics, ElfExits, Ends
  <1>4. ASSUME NEW l \in Line, GetLine(q, l) PROVE Moves(q)
    <2>1. Serve(l.word) \subseteq ShellPCs
      BY DEF Serve
    <2> QED BY <1>4, <2>1 DEF GetLine, Moves
  <1>5. CASE Fork(q)
    BY <1>5 DEF Fork, Starts, At
  <1>6. CASE RedirectIn(q)
    BY <1>6 DEF RedirectIn, Redirect, Moves, Ends
  <1>7. CASE RedirectOut(q)
    BY <1>7 DEF RedirectOut, Redirect, Moves, Ends
  <1> QED BY <1>1, <1>2, <1>3, <1>4, <1>5, <1>6, <1>7 DEF Step

(* A step of the shell is never init_proc's.                               *)
LEMMA NotInit ==
  ASSUME Session, NEW q \in Procs, pc[q] \in ShellPCs \cup {"wait"}
  PROVE  q # InitPid
  BY DEF Session, InitAlone, ShellPCs, InitPCs

LEMMA MovesKeep ==
  ASSUME Session, NEW q \in Procs, Moves(q)
  PROVE  InitAlone' /\ OneForeground' /\ EveryoneAwaited'
  <1>1. q # InitPid
    BY NotInit DEF Moves
  <1>2. \A r \in Procs : /\ r # q => pc'[r] = pc[r]
                         /\ pc'[q] \in ShellPCs
    BY DEF Moves, Session, TypeOK
  <1>3. \A r \in Procs : pc'[r] = "wait" <=> pc[r] = "wait"
    BY <1>2 DEF Moves, ShellPCs
  <1>4. InitAlone'
    BY <1>1, <1>2, ProcsAssumption DEF Moves, Session, InitAlone, ShellPCs, InitPCs
  <1>5. Foreground' = Foreground
    BY <1>3 DEF Foreground, Moves
  <1>6. OneForeground'
    BY <1>5 DEF Session, OneForeground
  <1>7. EveryoneAwaited'
    BY <1>3 DEF Session, EveryoneAwaited, Moves
  <1> QED BY <1>4, <1>6, <1>7

LEMMA EndsKeep ==
  ASSUME Session, NEW q \in Procs, Ends(q)
  PROVE  InitAlone' /\ OneForeground' /\ EveryoneAwaited'
  <1>1. q # InitPid /\ pc[q] # "wait"
    BY NotInit DEF Ends, ShellPCs
  <1>2. \A r \in Procs :
          /\ state'[r] = IF r = q THEN "zombie" ELSE state[r]
          /\ pc'[r] = IF r = q THEN "leave" ELSE pc[r]
          /\ r # q => child'[r] = child[r]
    BY DEF Ends, Exit, Session, TypeOK
  (* Nobody was waited for by q, so nobody changes parents.                *)
  <1>3. \A r \in Procs \ {InitPid} : state[r] # "free" => parent[r] # q
    BY <1>1 DEF Session, EveryoneAwaited
  <1>4. \A r \in Procs \ {InitPid} : state[r] # "free" => parent'[r] = parent[r]
    BY <1>3 DEF Ends, Exit
  <1>5. InitAlone'
    BY <1>1, <1>2, ProcsAssumption DEF Session, InitAlone, Ends
  <1>6. Foreground' = Foreground
    BY <1>1, <1>2 DEF Foreground, Ends
  <1>7. OneForeground'
    BY <1>6 DEF Session, OneForeground
  <1>8. EveryoneAwaited'
    <2>1. \A r \in Procs \ {InitPid} : state'[r] # "free" => state[r] # "free"
      BY <1>2 DEF Ends
    <2>2. \A r \in Procs \ {InitPid} : state'[r] # "free" =>
            /\ parent'[r] \in Procs /\ state'[parent'[r]] = "run"
            /\ parent'[r] # InitPid => pc'[parent'[r]] = "wait" /\ child'[parent'[r]] = r
      BY <1>2, <1>3, <1>4, <2>1 DEF Session, EveryoneAwaited
    <2>3. ASSUME NEW r \in Procs, state'[r] = "run", pc'[r] = "wait"
          PROVE  child'[r] \in Procs /\ state'[child'[r]] # "free" /\ parent'[child'[r]] = r
      <3>1. r # q /\ state[r] = "run" /\ pc[r] = "wait"
        BY <1>2, <2>3
      <3>2. child[r] \in Procs /\ state[child[r]] # "free" /\ parent[child[r]] = r
        BY <3>1 DEF Session, EveryoneAwaited
      <3>3. parent'[child[r]] = r
        BY <3>1, <3>2 DEF Ends, Exit
      <3>4. child'[r] = child[r]
        BY <1>2, <3>1
      <3>5. state'[child[r]] # "free"
        BY <1>2, <3>2
      <3> QED BY <3>2, <3>3, <3>4, <3>5
    <2> QED BY <2>2, <2>3 DEF EveryoneAwaited
  <1> QED BY <1>5, <1>7, <1>8

LEMMA StartsKeep ==
  ASSUME Session, NEW q \in Procs, NEW c \in Procs, Starts(q, c)
  PROVE  InitAlone' /\ OneForeground' /\ EveryoneAwaited'
  <1>1. q # InitPid /\ c # InitPid /\ c # q /\ pc[q] # "wait" /\ state[q] = "run"
    BY NotInit, ForkPC DEF Starts, At, ForkTo, Session, InitAlone
  <1>2. /\ state[c] = "free"
        /\ \A r \in Procs :
             /\ state'[r] = IF r = c THEN "run" ELSE state[r]
             /\ pc'[r] = IF r = c THEN "redirect_in" ELSE IF r = q THEN "wait" ELSE pc[r]
             /\ parent'[r] = IF r = c THEN q ELSE parent[r]
             /\ child'[r] = IF r = c THEN Nobody ELSE IF r = q THEN c ELSE child[r]
    BY <1>1 DEF Starts, At, ForkTo, Session, TypeOK
  <1>3. InitAlone'
    BY <1>1, <1>2, ProcsAssumption DEF Session, InitAlone, InitPCs
  <1>4. Foreground = {q}
    BY <1>1 DEF Session, OneForeground, Foreground
  <1>5. Foreground' = {c}
    BY <1>1, <1>2, <1>4 DEF Foreground
  <1>6. OneForeground'
    BY <1>5 DEF OneForeground
  <1>7. \A r \in Procs \ {InitPid} : r # c /\ state'[r] # "free" =>
          /\ parent'[r] \in Procs /\ state'[parent'[r]] = "run"
          /\ parent'[r] # InitPid => pc'[parent'[r]] = "wait" /\ child'[parent'[r]] = r
    BY <1>1, <1>2 DEF Session, EveryoneAwaited
  <1>8. \A r \in Procs : r # q /\ state'[r] = "run" /\ pc'[r] = "wait" =>
          child'[r] \in Procs /\ state'[child'[r]] # "free" /\ parent'[child'[r]] = r
    BY <1>1, <1>2 DEF Session, EveryoneAwaited
  <1>9. EveryoneAwaited'
    BY <1>1, <1>2, <1>7, <1>8 DEF EveryoneAwaited
  <1> QED BY <1>3, <1>6, <1>9

(* The waitpid of execute does not fail.                                   *)
LEMMA WaitsForChild ==
  ASSUME Session, NEW q \in Procs, Wait(q)
  PROVE  IsChild(q, child[q]) /\ state[child[q]] = "zombie"
  BY DEF Wait, At, IsChild, Session, EveryoneAwaited

LEMMA WaitKeeps ==
  ASSUME Session, NEW q \in Procs, Wait(q)
  PROVE  InitAlone' /\ OneForeground' /\ EveryoneAwaited'
  <1> DEFINE c == child[q]
  <1>1. /\ c \in Procs /\ state[c] = "zombie" /\ state[q] = "run" /\ pc[q] = "wait"
        /\ q # InitPid /\ c # InitPid /\ c # q /\ parent[c] = q /\ IsChild(q, c)
    BY NotInit, WaitsForChild DEF Wait, IsChild, At, Session, InitAlone
  <1>2. \A r \in Procs :
          /\ state'[r] = IF r = c THEN "free" ELSE state[r]
          /\ pc'[r] = IF r = q THEN "prompt" ELSE pc[r]
          /\ parent'[r] = IF r = c THEN Nobody ELSE parent[r]
          /\ child'[r] = IF r = q THEN Nobody ELSE child[r]
    BY <1>1 DEF Wait, Reap, Goto, Session, TypeOK
  <1>3. InitAlone'
    BY <1>1, <1>2, ProcsAssumption DEF Session, InitAlone, InitPCs
  <1>4. Foreground = {c}
    BY <1>1 DEF Session, OneForeground, Foreground
  <1>5. Foreground' = {q}
    BY <1>1, <1>2, <1>4 DEF Foreground
  <1>6. OneForeground'
    BY <1>5 DEF OneForeground
  <1>7. \A r \in Procs \ {InitPid} : state'[r] # "free" =>
          /\ parent'[r] \in Procs /\ state'[parent'[r]] = "run"
          /\ parent'[r] # InitPid => pc'[parent'[r]] = "wait" /\ child'[parent'[r]] = r
    BY <1>1, <1>2 DEF Session, EveryoneAwaited
  <1>8. \A r \in Procs : state'[r] = "run" /\ pc'[r] = "wait" =>
          child'[r] \in Procs /\ state'[child'[r]] # "free" /\ parent'[child'[r]] = r
    BY <1>1, <1>2 DEF Session, EveryoneAwaited
  <1>9. EveryoneAwaited'
    BY <1>7, <1>8 DEF EveryoneAwaited
  <1> QED BY <1>3, <1>6, <1>9

LEMMA InitProcKeeps ==
  ASSUME Session, InitProc
  PROVE  InitAlone' /\ OneForeground' /\ EveryoneAwaited'
  <1>1. CASE Boot \/ InitForkFails
    <2>1. /\ state' = state /\ parent' = parent /\ child' = child
          /\ \A r \in Procs : /\ r # InitPid => pc'[r] = pc[r]
                              /\ r # InitPid => state[r] = "free"
          /\ pc'[InitPid] \in {"launch", "reap"}
      BY <1>1, ProcsAssumption
         DEF Boot, InitForkFails, At, Goto, Session, TypeOK, InitAlone
    <2>2. InitAlone'
      BY <2>1, ProcsAssumption DEF Session, InitAlone, InitPCs
    <2>3. OneForeground' /\ EveryoneAwaited'
      BY <2>1, ProcsAssumption DEF OneForeground, Foreground, EveryoneAwaited
    <2> QED BY <2>2, <2>3
  <1>2. CASE InitFork
    <2>1. PICK c \in Procs : ForkTo(InitPid, c, "reap", "exec_shell")
      BY <1>2 DEF InitFork
    <2>2. /\ c # InitPid /\ state[InitPid] = "run"
          /\ \A r \in Procs \ {InitPid} : state[r] = "free"
      BY <1>2, <2>1 DEF InitFork, ForkTo, At, Session, InitAlone
    <2>3. \A r \in Procs :
            /\ state'[r] = IF r = c THEN "run" ELSE state[r]
            /\ pc'[r] = IF r = c THEN "exec_shell" ELSE IF r = InitPid THEN "reap" ELSE pc[r]
            /\ parent'[r] = IF r = c THEN InitPid ELSE parent[r]
      BY <2>1, <2>2, ProcsAssumption DEF ForkTo, Session, TypeOK
    <2>4. InitAlone'
      BY <2>2, <2>3, ProcsAssumption DEF InitAlone, InitPCs
    <2>5. OneForeground' /\ EveryoneAwaited'
      BY <2>2, <2>3, ProcsAssumption DEF OneForeground, Foreground, EveryoneAwaited
    <2> QED BY <2>4, <2>5
  <1>3. CASE InitReap
    <2>1. PICK c \in Procs : state[c] = "zombie" /\ parent[c] = InitPid /\ Reap(c)
      BY <1>3 DEF InitReap
    <2>2. /\ pc' = pc /\ child' = child /\ c # InitPid /\ pc[InitPid] # "wait"
          /\ \A r \in Procs : /\ state'[r] = IF r = c THEN "free" ELSE state[r]
                              /\ parent'[r] = IF r = c THEN Nobody ELSE parent[r]
      BY <1>3, <2>1, ProcsAssumption DEF InitReap, Reap, Session, TypeOK, InitAlone, InitPCs
    <2>3. InitAlone'
      BY <2>2, ProcsAssumption DEF Session, InitAlone
    <2>4. OneForeground'
      BY <2>2, ProcsAssumption DEF Session, OneForeground, Foreground
    <2>5. EveryoneAwaited'
      BY <2>1, <2>2, ProcsAssumption DEF Session, EveryoneAwaited
    <2> QED BY <2>3, <2>4, <2>5
  <1> QED BY <1>1, <1>2, <1>3 DEF InitProc

LEMMA SessionInit == Init => Session
  <1> SUFFICES ASSUME Init PROVE Session
    OBVIOUS
  <1>1. InitAlone
    BY ProcsAssumption DEF Init, InitAlone, InitPCs
  <1>2. OneForeground /\ EveryoneAwaited
    BY ProcsAssumption DEF Init, OneForeground, Foreground, EveryoneAwaited
  <1> QED BY <1>1, <1>2, TypeInit DEF Session

LEMMA SessionStep == Session /\ [Next]_vars => Session'
  <1> SUFFICES ASSUME Session, [Next]_vars PROVE Session'
    OBVIOUS
  <1>1. CASE UNCHANGED vars
    BY <1>1 DEF vars, Session, TypeOK, InitAlone, OneForeground, Foreground, EveryoneAwaited
  <1>2. CASE InitProc
    BY <1>2, TypeInitProc, InitProcKeeps DEF Session
  <1>3. ASSUME NEW q \in Procs, Step(q) PROVE Session'
    <2>1. TypeOK'
      BY <1>3, TypeStep DEF Session
    <2>2. InitAlone' /\ OneForeground' /\ EveryoneAwaited'
      BY <1>3, StepKinds, MovesKeep, EndsKeep, StartsKeep, WaitKeeps
    <2> QED BY <2>1, <2>2 DEF Session
  <1> QED BY <1>1, <1>2, <1>3 DEF Next

LEMMA SessionHolds == Spec => []Session
  BY SessionInit, SessionStep, PTL DEF Spec

(* However launches fail and however many shells that leaves, one process  *)
(* at a time has the terminal (execute, main.rs 213-249).                  *)
THEOREM OneHasTerminal == Spec => []OneForeground
  <1>1. Session => OneForeground
    BY DEF Session
  <1> QED BY <1>1, SessionHolds, PTL

(* Every process is waited for by the one that forked it, and no shell     *)
(* waits in vain (waitpid in execute, main.rs 243).                        *)
THEOREM NobodyWaitsInVain == Spec => []EveryoneAwaited
  <1>1. Session => EveryoneAwaited
    BY DEF Session
  <1> QED BY <1>1, SessionHolds, PTL

----------------------------------------------------------------------------
(* RedirectsRight and StdioIsFile.  What a program finds in descriptors 0  *)
(* and 1 is decided in the four steps from the fork to the exec, and what  *)
(* a shell finds there by every failure between them, so the invariant     *)
(* says at each pc how far the redirections have come.                     *)

(* A redirection that failed leaves a shell without stdout, and init_proc  *)
(* may start one without it, which prints before anything else; poweroff   *)
(* opens its device while both numbers are in use.                         *)
NoStdout == {"failed", "launch", "reap", "exec_shell", "start"}

StdioOf(q) ==
  /\ fd[q][0].kind \in {"tty", "screen", "read", "closed"}
  /\ fd[q][1].kind \in {"screen", "write", "closed"}
  /\ pc[q] \notin NoStdout => fd[q][1].kind # "closed"
  /\ pc[q] = "poweroff" => fd[q][0].kind # "closed"

Inherited(q, n) == fd[q][n] = fd[parent[q]][n]

InRight(q) ==
  fd[q][0] = IF line[q].in THEN [kind |-> "read", opener |-> q] ELSE fd[parent[q]][0]

OutRight(q) ==
  fd[q][1] = IF line[q].out THEN [kind |-> "write", opener |-> q] ELSE fd[parent[q]][1]

ChildPCs == {"redirect_in", "redirect_out", "exec", "elf"}

RedirectedSoFar(q) ==
  /\ pc[q] \in ChildPCs => parent[q] \in Procs \ {InitPid, q}
  /\ pc[q] = "redirect_in" => Inherited(q, 0) /\ Inherited(q, 1)
  /\ pc[q] = "redirect_out" => InRight(q) /\ Inherited(q, 1)
  /\ pc[q] \in {"exec", "elf"} => InRight(q) /\ OutRight(q)

Descriptors ==
  \A q \in Procs : state[q] = "run" /\ pc[q] # "boot" => StdioOf(q) /\ RedirectedSoFar(q)

(* open takes a closed descriptor, and every one below it is in use.       *)
LEMMA LowestIsFree ==
  ASSUME NEW table \in [0 .. MaxFd -> File], HasFree(table)
  PROVE  /\ Lowest(table) \in 0 .. MaxFd
         /\ table[Lowest(table)].kind = "closed"
         /\ \A i \in 0 .. Lowest(table) - 1 : table[i].kind # "closed"
  <1> DEFINE closed == {n \in Nat : n <= MaxFd /\ table[n].kind = "closed"}
  <1>1. closed \subseteq Nat /\ closed # {}
    BY ProcsAssumption DEF HasFree
  <1>2. PICK n \in closed : \A m \in closed : ~ (<<m, n>> \in OpToRel(<, Nat))
    BY <1>1, WFMin, NatLessThanWellFounded, Zenon
  <1>3. \A m \in closed : ~ (m < n)
    BY <1>2 DEF OpToRel
  <1>4. /\ n \in 0 .. MaxFd /\ table[n].kind = "closed"
        /\ \A i \in 0 .. n - 1 : table[i].kind # "closed"
    BY <1>3, ProcsAssumption
  <1> HIDE DEF closed
  <1> QED BY <1>4 DEF Lowest

LEMMA OpenedAbove ==
  ASSUME NEW table \in [0 .. MaxFd -> File], HasFree(table), NEW f \in File,
         table[0].kind # "closed", table[1].kind # "closed"
  PROVE  Opened(table, f)[0] = table[0] /\ Opened(table, f)[1] = table[1]
  <1>1. Lowest(table) \in 0 .. MaxFd /\ table[Lowest(table)].kind = "closed"
    BY LowestIsFree
  <1>2. Lowest(table) # 0 /\ Lowest(table) # 1
    BY <1>1
  <1> QED BY <1>2, ProcsAssumption DEF Opened

LEMMA ClosedAt ==
  ASSUME NEW table \in [0 .. MaxFd -> File], NEW n \in 0 .. MaxFd
  PROVE  /\ Without(table, n) \in [0 .. MaxFd -> File]
         /\ Without(table, n)[n].kind = "closed"
         /\ \A m \in 0 .. MaxFd : m # n => Without(table, n)[m] = table[m]
  <1>1. Without(table, n) \in [0 .. MaxFd -> File]
    BY TableTypes, Files
  <1>2. Without(table, n)[n] = Closed
    BY DEF Without
  <1>3. \A m \in 0 .. MaxFd : m # n => Without(table, n)[m] = table[m]
    BY DEF Without
  <1> QED BY <1>1, <1>2, <1>3 DEF Closed

(* A close of n and the open that follows it and gets n.                   *)
LEMMA Reopened ==
  ASSUME NEW table \in [0 .. MaxFd -> File], NEW n \in 0 .. MaxFd, NEW f \in File,
         Lowest(Without(table, n)) = n
  PROVE  /\ Opened(Without(table, n), f)[n] = f
         /\ \A m \in 0 .. MaxFd : m # n => Opened(Without(table, n), f)[m] = table[m]
  <1> DEFINE t == Without(table, n)
  <1>1. t \in [0 .. MaxFd -> File] /\ \A m \in 0 .. MaxFd : m # n => t[m] = table[m]
    BY ClosedAt
  <1>2. Opened(t, f) = [t EXCEPT ![n] = f]
    BY DEF Opened
  <1> HIDE DEF t
  <1>3. Opened(t, f)[n] = f /\ \A m \in 0 .. MaxFd : m # n => Opened(t, f)[m] = table[m]
    BY <1>1, <1>2
  <1> QED BY <1>3 DEF t

(* A step touches the descriptors and the line of no process but its own   *)
(* and the one it starts.                                                  *)
LEMMA TablesFrame ==
  ASSUME TypeOK, NEW q \in Procs, Step(q), NEW r \in Procs \ {q}, state[r] # "free"
  PROVE  fd'[r] = fd[r] /\ line'[r] = line[r]
  <1> USE DEF TypeOK
  <1>0. Exit(q) => fd'[r] = fd[r] /\ line'[r] = line[r]
    BY DEF Exit
  <1>1. CASE ExecShell(q) \/ Start(q) \/ PrintHeader(q) \/ CommandFailed(q)
    BY <1>0, <1>1 DEF ExecShell, Start, PrintHeader, CommandFailed
  <1>2. CASE ForkFails(q) \/ NoRedirect(q) \/ Exec(q) \/ Wait(q) \/ ElfReads(q)
    BY <1>2 DEF ForkFails, NoRedirect, Exec, Wait, ElfReads
  <1>3. CASE EndOfInput(q) \/ Leave(q) \/ PowerOffPanics(q) \/ ElfExits(q)
    BY <1>0, <1>3 DEF EndOfInput, Leave, PowerOffPanics, ElfExits
  <1>4. CASE StartScript(q)
    BY <1>0, <1>4 DEF StartScript
  <1>5. CASE \E l \in Line : GetLine(q, l)
    BY <1>5 DEF GetLine
  <1>6. CASE PowerOff(q)
    BY <1>6 DEF PowerOff
  <1>7. CASE Fork(q)
    BY <1>7 DEF Fork, ForkTo
  <1>8. CASE RedirectIn(q) \/ RedirectOut(q)
    BY <1>0, <1>8 DEF RedirectIn, RedirectOut, Redirect
  <1> QED BY <1>1, <1>2, <1>3, <1>4, <1>5, <1>6, <1>7, <1>8 DEF Step

(* Nobody's step changes where a running process stands; init_proc is      *)
(* waited for by nobody.                                                   *)
LEMMA OthersStand ==
  ASSUME Session, NEW q \in Procs, Step(q), NEW r \in Procs \ {q}, state[r] = "run"
  PROVE  /\ state'[r] = "run" /\ pc'[r] = pc[r]
         /\ r # InitPid => parent'[r] = parent[r] /\ parent[r] # q
  <1>1. q # InitPid
    BY StepKinds, NotInit, ForkPC DEF Moves, Ends, Starts, Wait, At
  <1>2. CASE Moves(q)
    <2>1. pc[q] # "wait"
      BY <1>2 DEF Moves, ShellPCs
    <2> QED BY <1>1, <1>2, <2>1 DEF Moves, Session, TypeOK, EveryoneAwaited
  <1>3. CASE Ends(q)
    <2>1. pc[q] # "wait"
      BY <1>3 DEF Ends, ShellPCs
    <2> QED BY <1>1, <1>3, <2>1 DEF Ends, Exit, Session, TypeOK, EveryoneAwaited
  <1>4. ASSUME NEW c \in Procs, Starts(q, c)
        PROVE  /\ state'[r] = "run" /\ pc'[r] = pc[r]
               /\ r # InitPid => parent'[r] = parent[r] /\ parent[r] # q
    <2>1. pc[q] # "wait" /\ r # c
      BY <1>4 DEF Starts, At, ForkTo, ShellPCs
    <2> QED BY <1>1, <1>4, <2>1 DEF Starts, At, ForkTo, Session, TypeOK, EveryoneAwaited
  <1>5. CASE Wait(q)
    <2>1. r # child[q] /\ IsChild(q, child[q])
      BY <1>5, WaitsForChild
    <2>2. state'[r] = "run" /\ pc'[r] = pc[r] /\ parent'[r] = parent[r]
      BY <1>5, <2>1 DEF Wait, Reap, Goto, Session, TypeOK
    <2>3. r # InitPid => parent[r] # q
      BY <1>1, <2>1 DEF Session, EveryoneAwaited
    <2> QED BY <2>2, <2>3
  <1> QED BY <1>2, <1>3, <1>4, <1>5, StepKinds

(* So what another process has redirected, relative to its parent, stays.  *)
LEMMA OthersDescriptors ==
  ASSUME Session, Descriptors, NEW q \in Procs, Step(q),
         NEW r \in Procs \ {q}, state[r] = "run", pc[r] # "boot"
  PROVE  StdioOf(r)' /\ RedirectedSoFar(r)'
  <1>1. /\ StdioOf(r) /\ RedirectedSoFar(r)
        /\ pc'[r] = pc[r] /\ fd'[r] = fd[r] /\ line'[r] = line[r]
    BY TablesFrame, OthersStand DEF Descriptors, Session
  <1>2. StdioOf(r)'
    BY <1>1 DEF StdioOf
  <1> USE DEF ChildPCs
  <1>3. CASE pc[r] \notin ChildPCs
    BY <1>1, <1>2, <1>3 DEF RedirectedSoFar
  <1>4. CASE pc[r] \in ChildPCs
    <2>1. r # InitPid
      BY <1>4 DEF Session, InitAlone, InitPCs, ChildPCs
    <2>2. parent'[r] = parent[r] /\ parent[r] # q /\ parent[r] \in Procs /\ state[parent[r]] = "run"
      BY <2>1, OthersStand DEF Session, EveryoneAwaited
    <2>3. fd'[parent[r]] = fd[parent[r]]
      BY <2>2, TablesFrame DEF Session
    <2> QED BY <1>1, <1>2, <2>2, <2>3 DEF RedirectedSoFar, Inherited, InRight, OutRight
  <1> QED BY <1>2, <1>3, <1>4
(* What a process does to its own descriptors.                             *)
LEMMA OwnDescriptors ==
  ASSUME Session, Descriptors, NEW q \in Procs, Step(q), state'[q] = "run"
  PROVE  StdioOf(q)' /\ RedirectedSoFar(q)'
  <1>1. /\ state[q] = "run" /\ pc[q] \in ShellPCs \cup {"wait"} /\ q # InitPid
        /\ pc[q] # "boot"
    <2>1. state[q] = "run" /\ pc[q] \in ShellPCs \cup {"wait"}
      BY StepKinds, ForkPC DEF Moves, Ends, Starts, Wait, At
    <2> QED BY <2>1, NotInit DEF Session, ShellPCs, InitPCs
  <1>2. StdioOf(q) /\ RedirectedSoFar(q)
    BY <1>1 DEF Descriptors
  <1>3. /\ fd[q] \in [0 .. MaxFd -> File] /\ 0 \in 0 .. MaxFd /\ 1 \in 0 .. MaxFd
        /\ [kind |-> "read", opener |-> q] \in File
        /\ [kind |-> "write", opener |-> q] \in File
        /\ [kind |-> "dev", opener |-> q] \in File
    BY ProcsAssumption, Files DEF Session, TypeOK
  <1>4. ~ Exit(q)
    BY DEF Exit, Session, TypeOK
  <1> USE DEF At, Goto
  (* Steps that leave the descriptors alone and do not enter the child's   *)
  (* part of execute.                                                      *)
  <1>5. CASE ExecShell(q) \/ Start(q) \/ PrintHeader(q) \/ CommandFailed(q) \/ ForkFails(q)
             \/ Wait(q)
    <2>1. fd'[q] = fd[q] /\ pc'[q] \in {"start", "prompt", "read", "failed"}
      BY <1>4, <1>5 DEF ExecShell, Start, PrintHeader, CommandFailed, ForkFails, Wait, Session, TypeOK
    <2>2. pc'[q] \in {"prompt", "read"} => CanPrint(q) \/ pc[q] = "wait"
      BY <1>4, <1>5 DEF ExecShell, Start, PrintHeader, CommandFailed, ForkFails, Wait, Session, TypeOK
    <2> QED BY <1>2, <2>1, <2>2 DEF StdioOf, RedirectedSoFar, ChildPCs, CanPrint, NoStdout
  <1>6. CASE EndOfInput(q) \/ Leave(q) \/ PowerOffPanics(q) \/ ElfExits(q)
    BY <1>4, <1>6 DEF EndOfInput, Leave, PowerOffPanics, ElfExits, Session, TypeOK
  <1>7. ASSUME NEW l \in Line, GetLine(q, l) PROVE StdioOf(q)' /\ RedirectedSoFar(q)'
    <2>1. PICK next \in Serve(l.word) : Goto(q, next)
      BY <1>7 DEF GetLine, Session, TypeOK
    <2>2. next \in {"prompt", "failed", "leave", "poweroff", "fork"}
      BY DEF Serve
    <2>3. /\ fd'[q] = fd[q] /\ pc'[q] = next /\ pc[q] = "read"
          /\ fd[q][0].kind \in {"tty", "read"}
      BY <1>7, <2>1 DEF GetLine, Readable, Session, TypeOK
    <2> QED BY <1>2, <2>2, <2>3 DEF StdioOf, RedirectedSoFar, ChildPCs, NoStdout
  <1>8. CASE PowerOff(q)
    <2>1. /\ HasFree(fd[q]) /\ pc[q] = "poweroff" /\ pc'[q] \in {"poweroff", "failed"}
          /\ fd'[q] = Opened(fd[q], [kind |-> "dev", opener |-> q])
      BY <1>8 DEF PowerOff, Session, TypeOK
    <2>2. fd[q][0].kind # "closed" /\ fd[q][1].kind # "closed"
      BY <1>2, <2>1 DEF StdioOf, NoStdout
    <2>3. fd'[q][0] = fd[q][0] /\ fd'[q][1] = fd[q][1]
      BY <1>3, <2>1, <2>2, OpenedAbove
    <2> QED BY <1>2, <2>1, <2>3 DEF StdioOf, RedirectedSoFar, ChildPCs, NoStdout
  <1>9. CASE StartScript(q)
    <2>1. /\ CanPrint(q) /\ Lowest(Without(fd[q], 0)) = 0 /\ pc[q] = "start" /\ pc'[q] = "prompt"
          /\ fd'[q] = Opened(Without(fd[q], 0), [kind |-> "read", opener |-> q])
      BY <1>4, <1>9 DEF StartScript, Session, TypeOK
    <2>2. fd'[q][0].kind = "read" /\ fd'[q][1] = fd[q][1]
      BY <1>3, <2>1, Reopened
    <2> QED BY <1>2, <2>1, <2>2 DEF StdioOf, RedirectedSoFar, ChildPCs, CanPrint, NoStdout
  <1>10. CASE Fork(q)
    <2>1. pc[q] = "fork" /\ pc'[q] = "wait" /\ fd'[q] = fd[q]
      BY <1>1, <1>10 DEF Fork, ForkTo, Session, TypeOK
    <2> QED BY <1>2, <2>1 DEF StdioOf, RedirectedSoFar, ChildPCs, NoStdout
  <1> DEFINE p == parent[q]
  (* The parent is another process, whose descriptors stay as they are.    *)
  <1>11. CASE RedirectIn(q) \/ RedirectOut(q) \/ NoRedirect(q) \/ Exec(q) \/ ElfReads(q)
    <2>1. pc[q] \in ChildPCs
      BY <1>11 DEF RedirectIn, RedirectOut, NoRedirect, Exec, ElfReads, ChildPCs
    <2>2. p \in Procs \ {InitPid, q} /\ state[p] # "free"
      BY <1>1, <1>2, <2>1 DEF RedirectedSoFar, EveryoneAwaited, Session
    <2>3. fd'[p] = fd[p]
      BY <2>2, TablesFrame DEF Session
    <2>4. p = parent'[q] /\ line'[q] = line[q]
      BY <1>4, <1>11 DEF RedirectIn, RedirectOut, Redirect, NoRedirect, Exec, ElfReads, Session, TypeOK
    <2> HIDE DEF p
    <2>5. CASE RedirectIn(q)
      <3>1. CASE /\ Lowest(Without(fd[q], 0)) = 0 /\ pc[q] = "redirect_in" /\ line[q].in
                 /\ pc'[q] = "redirect_out"
                 /\ fd'[q] = Opened(Without(fd[q], 0), [kind |-> "read", opener |-> q])
        <4>1. fd'[q][0] = [kind |-> "read", opener |-> q] /\ fd'[q][1] = fd[q][1]
          BY <1>3, <3>1, Reopened
        <4> QED BY <1>2, <2>2, <2>3, <2>4, <3>1, <4>1
                DEF StdioOf, NoStdout, RedirectedSoFar, ChildPCs, Inherited, InRight, p
      <3>2. CASE pc'[q] = "failed" /\ fd'[q] \in {fd[q], Without(fd[q], 0)}
        <4>1. fd'[q][0] = fd[q][0] \/ fd'[q][0].kind = "closed"
          BY <1>3, <3>2, ClosedAt
        <4>2. fd'[q][1] = fd[q][1]
          BY <1>3, <3>2, ClosedAt
        <4> QED BY <1>2, <3>2, <4>1, <4>2 DEF StdioOf, RedirectedSoFar, ChildPCs, NoStdout
      <3> QED BY <1>4, <2>5, <3>1, <3>2 DEF RedirectIn, Redirect, Session, TypeOK
    <2>6. CASE RedirectOut(q)
      <3>1. CASE /\ Lowest(Without(fd[q], 1)) = 1 /\ pc[q] = "redirect_out" /\ line[q].out
                 /\ pc'[q] = "exec"
                 /\ fd'[q] = Opened(Without(fd[q], 1), [kind |-> "write", opener |-> q])
        <4>1. fd'[q][1] = [kind |-> "write", opener |-> q] /\ fd'[q][0] = fd[q][0]
          BY <1>3, <3>1, Reopened
        <4> QED BY <1>2, <2>2, <2>3, <2>4, <3>1, <4>1
                DEF StdioOf, NoStdout, RedirectedSoFar, ChildPCs, InRight, OutRight, p
      <3>2. CASE pc'[q] = "failed" /\ fd'[q] \in {fd[q], Without(fd[q], 1)}
        <4>1. fd'[q][1] = fd[q][1] \/ fd'[q][1].kind = "closed"
          BY <1>3, <3>2, ClosedAt
        <4>2. fd'[q][0] = fd[q][0]
          BY <1>3, <3>2, ClosedAt
        <4> QED BY <1>2, <3>2, <4>1, <4>2 DEF StdioOf, RedirectedSoFar, ChildPCs, NoStdout
      <3> QED BY <1>4, <2>6, <3>1, <3>2 DEF RedirectOut, Redirect, Session, TypeOK
    <2>7. CASE NoRedirect(q)
      <3>1. /\ fd'[q] = fd[q]
            /\ \/ pc[q] = "redirect_in" /\ pc'[q] = "redirect_out" /\ ~ line[q].in
               \/ pc[q] = "redirect_out" /\ pc'[q] = "exec" /\ ~ line[q].out
        BY <2>7 DEF NoRedirect, Session, TypeOK
      <3> QED BY <1>2, <2>2, <2>3, <2>4, <3>1
              DEF StdioOf, NoStdout, RedirectedSoFar, ChildPCs, Inherited, InRight, OutRight, p
    <2>8. CASE Exec(q) \/ ElfReads(q)
      <3>1. /\ fd'[q] = fd[q] /\ pc[q] \in {"exec", "elf"}
            /\ pc'[q] \in {"elf", "start", "failed"}
        BY <2>8 DEF Exec, ElfReads, Session, TypeOK
      <3> QED BY <1>2, <2>2, <2>3, <2>4, <3>1
              DEF StdioOf, NoStdout, RedirectedSoFar, ChildPCs, InRight, OutRight, p
    <2> QED BY <1>11, <2>5, <2>6, <2>7, <2>8
  <1> QED BY <1>5, <1>6, <1>7, <1>8, <1>9, <1>10, <1>11 DEF Step

(* A child starts with the descriptors of a shell that is not failing.     *)
LEMMA ChildDescriptors ==
  ASSUME Session, Descriptors, NEW q \in Procs, NEW c \in Procs,
         At(q, "fork"), ForkTo(q, c, "wait", "redirect_in")
  PROVE  StdioOf(c)' /\ RedirectedSoFar(c)'
  <1>1. c # q /\ q # InitPid /\ StdioOf(q)
    BY DEF Session, InitAlone, InitPCs, ForkTo, At, Descriptors
  <1>2. /\ fd'[c] = fd[q] /\ fd'[q] = fd[q] /\ parent'[c] = q /\ pc'[c] = "redirect_in"
    BY <1>1 DEF ForkTo, Session, TypeOK
  <1> QED BY <1>1, <1>2 DEF StdioOf, NoStdout, RedirectedSoFar, ChildPCs, Inherited, At

LEMMA DescriptorsStep ==
  ASSUME Session, Descriptors, NEW q \in Procs, Step(q)
  PROVE  Descriptors'
  <1> SUFFICES ASSUME NEW r \in Procs, state'[r] = "run", pc'[r] # "boot"
               PROVE  StdioOf(r)' /\ RedirectedSoFar(r)'
    BY DEF Descriptors
  <1>1. CASE r = q
    BY <1>1, OwnDescriptors
  <1>2. CASE r # q /\ state[r] = "run"
    <2>1. pc[r] # "boot"
      BY <1>2, OthersStand
    <2> QED BY <1>2, <2>1, OthersDescriptors
  <1>3. CASE r # q /\ state[r] # "run"
    <2>1. PICK c \in Procs : Starts(q, c)
      BY <1>3, StepKinds DEF Moves, Ends, Exit, Wait, Reap, Session, TypeOK
    <2>2. c = r
      BY <1>3, <2>1 DEF Starts, At, ForkTo, Session, TypeOK
    <2> QED BY <2>1, <2>2, ChildDescriptors DEF Starts
  <1> QED BY <1>1, <1>2, <1>3

LEMMA DescriptorsInitProc ==
  ASSUME Session, Descriptors, InitProc
  PROVE  Descriptors'
  <1> SUFFICES ASSUME NEW r \in Procs, state'[r] = "run", pc'[r] # "boot"
               PROVE  StdioOf(r)' /\ RedirectedSoFar(r)'
    BY DEF Descriptors
  <1> USE DEF At, Goto
  <1>1. CASE Boot \/ InitForkFails
    <2>1. r = InitPid
      BY <1>1 DEF Boot, InitForkFails, Session, InitAlone
    <2>2. pc'[InitPid] \in {"launch", "reap"}
      BY <1>1, ProcsAssumption DEF Boot, InitForkFails, Session, TypeOK
    <2>3. StdioOf(InitPid)'
      <3>1. CASE Boot
        <4>1. PICK in \in 0 .. 1, out \in 0 .. 2 :
                fd'[InitPid] = [n \in 0 .. MaxFd |-> IF n < in THEN Tty
                                  ELSE IF n < in + out THEN Screen ELSE Closed]
          BY <3>1, ProcsAssumption DEF Boot, Session, TypeOK
        <4>2. fd'[InitPid][0] \in {Tty, Screen, Closed} /\ fd'[InitPid][1] \in {Screen, Closed}
          BY <4>1, ProcsAssumption
        <4> QED BY <2>2, <4>2 DEF StdioOf, NoStdout, Tty, Screen, Closed
      <3>2. CASE InitForkFails
        <4>1. fd'[InitPid] = fd[InitPid] /\ StdioOf(InitPid) /\ pc[InitPid] = "launch"
          BY <3>2, ProcsAssumption DEF InitForkFails, Descriptors
        <4> QED BY <2>2, <4>1 DEF StdioOf, NoStdout
      <3> QED BY <1>1, <3>1, <3>2
    <2> QED BY <2>1, <2>2, <2>3 DEF RedirectedSoFar, ChildPCs
  <1>2. CASE InitFork
    <2>1. PICK c \in Procs : ForkTo(InitPid, c, "reap", "exec_shell")
      BY <1>2 DEF InitFork
    <2>2. c # InitPid /\ StdioOf(InitPid) /\ pc[InitPid] = "launch" /\ r \in {c, InitPid}
      BY <1>2, <2>1, ProcsAssumption
         DEF InitFork, ForkTo, Descriptors, Session, InitAlone, TypeOK
    <2>3. fd'[r] = fd[InitPid] /\ pc'[r] \in {"reap", "exec_shell"}
      BY <2>1, <2>2, ProcsAssumption DEF ForkTo, Session, TypeOK
    <2> QED BY <2>2, <2>3 DEF StdioOf, RedirectedSoFar, ChildPCs, NoStdout
  <1>3. CASE InitReap
    <2>1. PICK c \in Procs : state[c] = "zombie" /\ Reap(c)
      BY <1>3 DEF InitReap
    <2>2. /\ UNCHANGED <<pc, fd, line>> /\ c # r /\ state[r] = "run" /\ parent'[r] = parent[r]
      BY <1>3, <2>1 DEF InitReap, Reap, Session, TypeOK
    <2>3. StdioOf(r) /\ RedirectedSoFar(r)
      BY <2>2 DEF Descriptors
    <2> QED BY <2>2, <2>3 DEF StdioOf, RedirectedSoFar, Inherited, InRight, OutRight
  <1> QED BY <1>1, <1>2, <1>3 DEF InitProc

LEMMA DescriptorsHold == Spec => [](Session /\ Descriptors)
  <1>1. Init => Descriptors
    BY DEF Init, Descriptors
  <1>2. Session /\ Descriptors /\ [Next]_vars => Descriptors'
    <2> SUFFICES ASSUME Session, Descriptors, [Next]_vars PROVE Descriptors'
      OBVIOUS
    <2>1. CASE UNCHANGED vars
      BY <2>1 DEF vars, Descriptors, StdioOf, RedirectedSoFar, Inherited, InRight, OutRight
    <2>2. CASE Next
      BY <2>2, DescriptorsInitProc, DescriptorsStep DEF Next
    <2> QED BY <2>1, <2>2
  <1> QED BY <1>1, <1>2, SessionInit, SessionStep, PTL DEF Spec

(* A program runs with the files its command names in descriptors 0 and 1, *)
(* and with what its shell has there when the command names none, whatever *)
(* failed before (the close and open of execute, main.rs 218-237).         *)
THEOREM RedirectionsAsNamed == Spec => []RedirectsRight
  <1>1. Session /\ Descriptors => RedirectsRight
    BY DEF Descriptors, RedirectedSoFar, InRight, OutRight, RedirectsRight
  <1> QED BY <1>1, DescriptorsHold, PTL

(* No device ends up as the stdin or stdout of a shell that goes on, and a *)
(* shell that prompts can print (print_header, serve_shutdown, execute).   *)
THEOREM StdioStaysFile == Spec => []StdioIsFile
  <1>1. Session /\ Descriptors => StdioIsFile
    BY DEF Descriptors, StdioOf, NoStdout, StdioIsFile
  <1> QED BY <1>1, DescriptorsHold, PTL
=============================================================================

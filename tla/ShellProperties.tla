--------------------------- MODULE ShellProperties ---------------------------
(* What a user of the session relies on.                                    *)
EXTENDS Shell

(* Every variable of the session keeps its type.                           *)
TypeOK ==
  /\ state \in [Procs -> {"free", "run", "zombie"}]
  /\ pc \in [Procs -> PCs]
  /\ parent \in [Procs -> Procs \cup {Nobody}]
  /\ child \in [Procs -> Procs \cup {Nobody}]
  /\ line \in [Procs -> Line]
  /\ fd \in [Procs -> [0 .. MaxFd -> File]]
  /\ left \in [Procs -> Unread]
  /\ power \in BOOLEAN

(* Processes that are not waiting for another one to end, and those whose  *)
(* end has not been noticed.                                               *)
Foreground ==
  {q \in Procs \ {InitPid} : state[q] = "zombie" \/ (state[q] = "run" /\ pc[q] # "wait")}

(* execute's parent waits before it prompts again: however launches fail,  *)
(* and however many shells a failed launch leaves, one process at a time   *)
(* has the terminal.                                                       *)
OneForeground == \A p, q \in Foreground : p = q

(* waitpid in execute waits for the process it forked, which is there: no  *)
(* shell ends before its child, and none waits for nobody or for a number  *)
(* that has been given to somebody else's child.                           *)
EveryoneAwaited ==
  /\ \A q \in Procs \ {InitPid} :
       state[q] # "free" =>
         /\ parent[q] \in Procs /\ state[parent[q]] = "run"
         /\ parent[q] # InitPid => pc[parent[q]] = "wait" /\ child[parent[q]] = q
  /\ \A q \in Procs :
       state[q] = "run" /\ pc[q] = "wait" =>
         child[q] \in Procs /\ state[child[q]] # "free" /\ parent[child[q]] = q

(* The close and open of execute (lines 218-237): a program reads and      *)
(* writes the files its command names, and shares the shell's otherwise,   *)
(* whatever failed before in this shell or in those that started it.       *)
RedirectsRight ==
  \A q \in Procs :
    state[q] = "run" /\ pc[q] = "elf" =>
      /\ fd[q][0] = IF line[q].in THEN [kind |-> "read", opener |-> q] ELSE fd[parent[q]][0]
      /\ fd[q][1] = IF line[q].out THEN [kind |-> "write", opener |-> q] ELSE fd[parent[q]][1]

(* print_header, serve_shutdown and the redirections all take the lowest   *)
(* free descriptor, and a failed redirection leaves 0 or 1 free: no device *)
(* ends up as the stdin or the stdout of a shell that goes on, and a shell *)
(* that prompts can print.                                                 *)
StdioIsFile ==
  \A q \in Procs :
    state[q] = "run" /\ pc[q] \in {"prompt", "read"} =>
      /\ fd[q][0].kind \in {"tty", "screen", "read", "closed"}
      /\ fd[q][1].kind \in {"screen", "write"}

(* A shell that reads a file, because it runs a script or because a launch *)
(* failed under one, comes to its end, unless the machine is turned off.   *)
FilesRunOut ==
  \A q \in Procs :
    (state[q] = "run" /\ pc[q] = "read" /\ fd[q][0].kind # "tty")
      ~> (state[q] # "run" \/ ~ power)
=============================================================================

\* init, a shell, a script or a nested shell under it, a program.
SPECIFICATION Spec
CONSTANTS
  Procs = {p1, p2, p3, p4}
  InitPid = p1
  Nobody = nobody
  MaxFd = 3
  MaxLines = 2
  MaxTyped = 2
INVARIANTS TypeOK OneForeground EveryoneAwaited RedirectsRight StdioIsFile
PROPERTIES FilesRunOut
CHECK_DEADLOCK FALSE

------------------------------ MODULE MCShell ------------------------------
(* The session on a few processes: init, and as many as are nested.         *)
EXTENDS ShellProperties
=============================================================================

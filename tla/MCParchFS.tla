------------------------------ MODULE MCParchFS ------------------------------
(* ParchFS on small images: the geometry of the image and the host trees    *)
(* come from the cfg; names and file sizes stand for those of the host.     *)
EXTENDS ParchFSProperties
=============================================================================

---------------------------- MODULE MCINodeTable ----------------------------
(* What holds of the inode bitmap before and after the inode list overruns. *)
EXTENDS INodeTable, FiniteSets

Overrun == \E n \in handed : IsOverlay(n)

(* Until the list overruns, the marked numbers are those handed out and    *)
(* BAD_INODE, the directories make_fs is inside of are marked directories, *)
(* and no assert or panic of make_dir, make_file or get_inode fires.       *)
SoundBeforeOverrun ==
  ~ Overrun =>
    /\ inode_bitmap = handed \cup {BAD_INODE}
    /\ \A i \in 1 .. Len(path) :
         path[i] \in inode_bitmap /\ f_type[path[i]] = "DIR"
    /\ status \in {"run", "dumped", "inode bitmap full"}

(* A full bitmap is reported only when every inode is in use, and only if  *)
(* the bitmap is as long as the list.  With a longer one it never is: a    *)
(* node that lies over its own bit makes get_inode fail first.             *)
FullReported ==
  status = "inode bitmap full" =>
    inode_bits = INODE_COUNT /\ handed = INodeBit \ {BAD_INODE}

(* get_inode asserts that the inode it is asked for is marked; make_fs     *)
(* asks for nodes it got from alloc_inode only.                            *)
INodeMarked == status # "assertion failed"
=============================================================================

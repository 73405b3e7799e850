------------------------------- MODULE FsTree -------------------------------
(***************************************************************************)
(* What the image builder promises to whoever reads the image: a tree that *)
(* grows one host entry at a time, below directories already in it, and in *)
(* which nothing once copied is ever changed, moved or lost.               *)
(***************************************************************************)
EXTENDS Integers

CONSTANTS Names, Nodes, Root

VARIABLES
  tree,      \* the entries a reader finds, "." and ".." left out
  finished   \* the builder has ended, with an image or without

Entry == [dir : Nodes, name : Names, inode : Nodes,
          f_type : {"DIR", "REGULAR"}, size : Nat]

IsDirectory(d) == d = Root \/ \E e \in tree : e.inode = d /\ e.f_type = "DIR"

Init == tree = {} /\ finished = FALSE

Copy(new) ==
  /\ ~ finished
  /\ IsDirectory(new.dir)
  /\ new.inode # Root
  /\ \A e \in tree : e.inode # new.inode
  /\ \A e \in tree : ~ (e.dir = new.dir /\ e.name = new.name)
  /\ tree' = tree \cup {new}
  /\ UNCHANGED finished

Finish == ~ finished /\ finished' = TRUE /\ UNCHANGED tree

(* The entry copied is the one by which the tree grows, which spares TLC   *)
(* the enumeration of Entry.                                               *)
Next == (\E new \in tree' \ tree : new \in Entry /\ Copy(new)) \/ Finish

Spec == Init /\ [][Next]_<<tree, finished>>
=============================================================================

----------------------------- MODULE INodeTable -----------------------------
(***************************************************************************)
(* parchfs/parchfs.cpp past the end of the inode list.  The inode bitmap   *)
(* has more bits (inode_bits) than the list has nodes (INODE_COUNT), and   *)
(* in memory it follows the list: node INODE_COUNT + i, which get_inode    *)
(* hands out as soon as bit INODE_COUNT + i is set, lies over the bits     *)
(* i * NODE_BITS .. (i + 1) * NODE_BITS - 1 of the bitmap itself.          *)
(*                                                                         *)
(* Blocks are left to ParchFS.tla; here a step is one whole make_dir or    *)
(* make_file, and what is followed is the bitmap.                          *)
(***************************************************************************)
EXTENDS Integers, Sequences

CONSTANTS
  INODE_COUNT,  \* nodes of INodeList (8192)
  BitmapSizes,  \* numbers of bits the bitmap is modelled with
  NODE_BITS,    \* bits of one INode (2048)
  PermBits,     \* those that permission 0755 sets (0, 2, 3, 5, 6, 7, 8)
  DirBit,       \* the bit set by f_type = DIR (20)
  FileBit,      \* the bit set by f_type = REGULAR (18)
  OtherBits     \* bits of the fields that follow: any of them may be set

ASSUME SizesAssumption ==
  /\ INODE_COUNT \in Nat /\ 1 < INODE_COUNT /\ NODE_BITS \in Nat \ {0}
  /\ \A n \in BitmapSizes : n \in Nat /\ INODE_COUNT <= n /\ n % NODE_BITS = 0
ASSUME FieldsAssumption ==
  /\ PermBits \cup OtherBits \cup {DirBit, FileBit} \subseteq 0 .. NODE_BITS - 1
  /\ DirBit # FileBit /\ {DirBit, FileBit} \cap (PermBits \cup OtherBits) = {}
(* A bitmap longer than the list reaches past the node that lies over its  *)
(* own bit (8196 of 32768; see SelfOverlaid in INodeTableProofs).          *)
ASSUME RoomAssumption ==
  \A n \in BitmapSizes :
    n = INODE_COUNT \/ INODE_COUNT + INODE_COUNT \div (NODE_BITS - 1) < n

BAD_INODE == 0
ROOT_INODE == 1
INodeNo == 0 .. INODE_COUNT - 1

VARIABLES
  inode_bits,    \* bits of INodeBitmap (32768), chosen in the initial state
  inode_bitmap,  \* bits that are set
  f_type,        \* of the nodes of the list
  handed,        \* every inode number alloc_inode has returned
  path,          \* directories make_fs is inside of, the innermost last
  status

vars == <<inode_bits, inode_bitmap, f_type, handed, path, status>>

INodeBit == 0 .. inode_bits - 1

Parent == path[Len(path)]
OverlayBit(n, i) == (n - INODE_COUNT) * NODE_BITS + i
Overlay(n) == {OverlayBit(n, i) : i \in 0 .. NODE_BITS - 1}
IsOverlay(n) == n >= INODE_COUNT

(* Mutant: no memset of the node.                                          *)
AfterAllocSpared(n) == inode_bitmap \cup {n}

(* The bitmap after alloc_inode returned n: set(n), then the memset of the *)
(* node, which may lie over the bitmap.                                    *)
AfterAlloc(n) ==
  IF IsOverlay(n) THEN (inode_bitmap \cup {n}) \ Overlay(n)
  ELSE inode_bitmap \cup {n}

(* The bitmap after the fields of node n were written.                     *)
AfterFields(n, typeBit, others) ==
  IF IsOverlay(n)
  THEN AfterAlloc(n)
         \cup {OverlayBit(n, i) : i \in PermBits \cup {typeBit} \cup others}
  ELSE AfterAlloc(n)

FirstAvailable(n) == n \in INodeBit \ inode_bitmap
                     /\ \A m \in INodeBit \ inode_bitmap : n <= m

(* add_dentry asks the parent for its type.  Set bits have gone through    *)
(* the fields of a parent that lies over the bitmap: it may read anything. *)
ParentIsDir == IF IsOverlay(Parent) THEN BOOLEAN ELSE {f_type'[Parent] = "DIR"}

Stop(how) == status' = how /\ UNCHANGED path
Enter(n) == path' = Append(path, n) /\ UNCHANGED status

(* Mutant: the type of the new node is not written.                        *)
AllocINodeUntyped(n, type, typeBit) ==
  /\ FirstAvailable(n)
  /\ handed' = handed \cup {n}
  /\ UNCHANGED f_type
  /\ \E others \in IF IsOverlay(n) THEN SUBSET OtherBits ELSE {{}} :
       inode_bitmap' = AfterFields(n, typeBit, others)

(* alloc_inode, get_inode of what it returned, and the fields.             *)
AllocINode(n, type, typeBit) ==
  /\ FirstAvailable(n)
  /\ handed' = handed \cup {n}
  /\ f_type' = IF IsOverlay(n) THEN f_type ELSE [f_type EXCEPT ![n] = type]
  /\ \E others \in IF IsOverlay(n) THEN SUBSET OtherBits ELSE {{}} :
       inode_bitmap' = AfterFields(n, typeBit, others)

(* get_inode of the parent, and add_dentry to it.                          *)
AddToParent(proceed) ==
  IF Parent \notin inode_bitmap' THEN Stop("assertion failed")
  ELSE \E dir \in ParentIsDir : IF dir THEN proceed ELSE Stop("non-dir inode")

(* A directory that comes out as the root inode gets no parent entry.      *)
MakeDir ==
  /\ status = "run"
  /\ \E n \in INodeBit :
       /\ AllocINode(n, "DIR", DirBit)
       /\ IF n \notin AfterAlloc(n) THEN Stop("assertion failed")
          ELSE IF n = ROOT_INODE
          THEN IF Parent = ROOT_INODE THEN Enter(n) ELSE Stop("root parent")
          ELSE AddToParent(Enter(n))

MakeFile ==
  /\ status = "run" /\ Parent \in inode_bitmap
  /\ \E n \in INodeBit :
       /\ AllocINode(n, "REGULAR", FileBit)
       /\ IF n \notin AfterAlloc(n) THEN Stop("assertion failed")
          ELSE AddToParent(UNCHANGED <<path, status>>)

(* make_file tests the parent's bit before it allocates.                   *)
NoParent ==
  /\ status = "run" /\ Parent \notin inode_bitmap
  /\ Stop("assertion failed")
  /\ UNCHANGED <<inode_bitmap, f_type, handed>>

BitmapFull ==
  /\ status = "run" /\ INodeBit \subseteq inode_bitmap
  /\ Stop("inode bitmap full")
  /\ UNCHANGED <<inode_bitmap, f_type, handed>>

LeaveDir ==
  /\ status = "run"
  /\ path' = SubSeq(path, 1, Len(path) - 1)
  /\ status' = IF Len(path) = 1 THEN "dumped" ELSE "run"
  /\ UNCHANGED <<inode_bitmap, f_type, handed>>

Init ==
  /\ inode_bits \in BitmapSizes
  /\ inode_bitmap = {BAD_INODE, ROOT_INODE}
  /\ f_type = [n \in INodeNo |-> IF n = ROOT_INODE THEN "DIR" ELSE "NONE"]
  /\ handed = {ROOT_INODE}
  /\ path = <<ROOT_INODE>>
  /\ status = "run"

Step == MakeDir \/ MakeFile \/ NoParent \/ BitmapFull \/ LeaveDir
Next == Step /\ UNCHANGED inode_bits

Spec == Init /\ [][Next]_vars
=============================================================================

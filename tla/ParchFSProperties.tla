------------------------- MODULE ParchFSProperties -------------------------
(***************************************************************************)
(* What must hold of the image while parchfs builds it and once it is      *)
(* dumped.                                                                 *)
(***************************************************************************)
EXTENDS ParchFS

(* Every variable of the builder keeps its type: pointers name blocks of   *)
(* the image, entries name nodes of the inode list.                        *)
TypeOK ==
  /\ fs_block_bitmap \in SUBSET BlockNo
  /\ mm_block_bitmap \in SUBSET BlockNo
  /\ inode_bitmap \in SUBSET INodeBit
  /\ superblock \in [free_inode : Int, free_block : Int]
  /\ inode \in [INodeNo -> INode]
  /\ blk_no \in [INodeNo -> [PtrIdx -> BlockNo]]
  /\ table \in [BlockNo -> [TableIdx -> BlockNo]]
  /\ dentry \in [BlockNo -> [0 .. BLK_SIZE - 1 -> DEntry]]
  /\ content \in [BlockNo -> INodeNo \X Nat]
  /\ todo \in Seq(Call)
  /\ stage \in Stages
  /\ stack \in Seq(Frame)
  /\ status \in {"run"} \cup Ends

(* A block is reached by one pointer only, whether the pointer is held by  *)
(* an inode or by a block of pointers: no two files, and no file and a     *)
(* pointer block, ever share a block that alloc_blk handed out.            *)
BlocksOwnedOnce ==
  /\ \A n, m \in INodeNo, k, l \in PtrIdx :
       blk_no[n][k] # BAD_BLOCK /\ blk_no[n][k] = blk_no[m][l]
         => n = m /\ k = l
  /\ \A b, c \in BlockNo, i, j \in TableIdx :
       table[b][i] # BAD_BLOCK /\ table[b][i] = table[c][j] => b = c /\ i = j
  /\ \A n \in INodeNo, k \in PtrIdx, b \in BlockNo, j \in TableIdx :
       blk_no[n][k] # BAD_BLOCK => blk_no[n][k] # table[b][j]

Allocated(b) ==
  b \in fs_block_bitmap /\ b \in mm_block_bitmap /\ b \notin Reserved

(* Every pointer set in the image names a block marked in both bitmaps and *)
(* outside the kernel's and the reserved blocks, as the asserts of get_blk *)
(* take for granted.                                                       *)
PointersAllocated ==
  /\ \A n \in INodeNo, k \in PtrIdx :
       blk_no[n][k] # BAD_BLOCK => Allocated(blk_no[n][k])
  /\ \A b \in BlockNo, j \in TableIdx :
       table[b][j] # BAD_BLOCK => Allocated(table[b][j])

(* A block marked used is the kernel's, reserved, or reached by a pointer: *)
(* alloc_blk never takes a block that get_blkno then forgets.              *)
NoBlockLeaked ==
  \A b \in fs_block_bitmap \ (Reserved \cup {BAD_BLOCK}) :
    \/ \E n \in INodeNo, k \in PtrIdx : blk_no[n][k] = b
    \/ \E c \in BlockNo, j \in TableIdx : table[c][j] = b

(* The superblock's counters and the bitmaps move together: free_block is  *)
(* always two more than the clear bits (the blocks of e_kernel and before  *)
(* s_reserve are marked but were counted), free_inode one more than the    *)
(* clear bits of the list (BAD_INODE is marked but was counted).           *)
FreeCounters ==
  /\ superblock.free_block = Cardinality(BlockNo \ fs_block_bitmap) + 2
  /\ superblock.free_inode = Cardinality(INodeNo \ inode_bitmap) + 1

Usable(b) == b # BAD_BLOCK /\ Allocated(b)

(* The panics and asserts on the builder's own bookkeeping never fire: bad *)
(* blk no, Bad Block, off <= f_size, get_dentry / add_dentry called for a  *)
(* non-dir inode, the bits tested by get_blk and get_inode, the parent of  *)
(* make_file being an allocated directory.                                 *)
AssertionsHold ==
  /\ status = "run" /\ todo # << >> =>
       /\ Ino \in inode_bitmap
       /\ Cur.op = "add_dentry" => inode[Ino].f_type = "DIR"
       /\ stage # "idle" => Off <= inode[Ino].f_size
  /\ Running("ready") =>
       /\ Usable(GetBlkno(Ino, Off))
       /\ Usable(GetBlkno(Ino, Cur.pos))
  /\ Between => Top.dir \in inode_bitmap /\ inode[Top.dir].f_type = "DIR"

(* The double-indirect scan, whose loop has no bound on i, always finds a  *)
(* table with room before it walks off the end of its pointer block.       *)
ScanStaysInTable ==
  Running("indirect2") /\ blk_no[Ino][INDIRECT2] # BAD_BLOCK
    => \E i \in TableIdx : ScanAt(i)

Entries(n) == {DEntryAt(n, p) : p \in 0 .. inode[n].f_size - 1}
Directories == {n \in INodeNo \cap inode_bitmap : inode[n].f_type = "DIR"}

(* Between two host entries every directory is "." and ".." followed by    *)
(* its children without a hole, and every inode but the root is named by   *)
(* exactly one entry, of its own type, in the directory its ".." names.    *)
TreeShape ==
  todo = << >> =>
    /\ \A d \in Directories :
         /\ DEntryAt(d, 0) = DirEntry(d, ".")
         /\ DEntryAt(d, 1).name = ".."
         /\ \A p \in 2 .. inode[d].f_size - 1 : DEntryAt(d, p).name \in Names
    /\ \A n \in inode_bitmap \ {BAD_INODE, ROOT_INODE} :
         \E d \in Directories, p \in 2 .. INODE_COUNT :
           /\ p < inode[d].f_size /\ d < n
           /\ DEntryAt(d, p).inode = n
           /\ DEntryAt(d, p).f_type = inode[n].f_type
           /\ inode[n].f_type = "DIR" => DEntryAt(n, 1) = DirEntry(d, "..")
           /\ \A c \in Directories : \A q \in 2 .. inode[c].f_size - 1 :
                DEntryAt(c, q).inode = n => c = d /\ q = p

(* Data blocks reached from inode n, counted pointer by pointer.           *)
DirectBlocks(n) ==
  Cardinality({k \in 0 .. DIRECT_BLK_COUNT - 1 : blk_no[n][k] # BAD_BLOCK})
TableBlocks(t) == Cardinality({j \in TableIdx : table[t][j] # BAD_BLOCK})
DoubleBlocks(t) ==
  Cardinality({e \in TableIdx \X TableIdx :
                 table[t][e[1]] # BAD_BLOCK
                 /\ table[table[t][e[1]]][e[2]] # BAD_BLOCK})
DataBlocks(n) ==
  DirectBlocks(n) + TableBlocks(blk_no[n][INDIRECT])
    + DoubleBlocks(blk_no[n][INDIRECT2])

(* Chunks of a file that live behind the double-indirect pointer.          *)
DoubleChunks(size) ==
  LET over == size - BLK_SIZE * (DIRECT_BLK_COUNT + BLKNO_PER_BLK)
  IN  IF over <= 0 THEN 0 ELSE (over + BLK_SIZE - 1) \div BLK_SIZE
IsDouble(size) == size >= BLK_SIZE * (DIRECT_BLK_COUNT + BLKNO_PER_BLK)

(* A copied file holds one block for every block its size touches, the     *)
(* block of its end offset included, and nothing more until it reaches the *)
(* double-indirect blocks: there the expansion takes one block too many,   *)
(* and every chunk copied takes another one.  The size is the one copied.  *)
Footprint ==
  /\ Running("idle") /\ Cur.op = "copy" /\ Cur.len = 0 => Off = inode[Ino].f_size
  /\ todo = << >> =>
    \A n \in inode_bitmap :
      inode[n].f_type = "REGULAR" =>
        LET size == inode[n].f_size
        IN  DataBlocks(n) = (size \div BLK_SIZE) + 1
              + (IF IsDouble(size) THEN 1 + DoubleChunks(size) ELSE 0)

(* The builder ends, with an image or with an error, whatever host tree it *)
(* is given: the scan without a bound and the recursion both stop.         *)
Terminates == <>(status # "run")

----------------------------------------------------------------------------
(* The image as a reader sees it: every entry found by walking the blocks  *)
(* of the directories, a file with the size up to which its blocks hold    *)
(* what was copied.  The inode under construction is not yet visible.      *)

Unfinished(n) == todo # << >> /\ \A m \in inode_bitmap : m <= n

SizeRead(n) ==
  IF \A off \in 0 .. inode[n].f_size - 1 :
       content[GetBlkno(n, off)] = <<n, off \div BLK_SIZE>>
  THEN inode[n].f_size ELSE -1

EntrySeen(d, e) ==
  [dir |-> d, name |-> e.name, inode |-> e.inode, f_type |-> e.f_type,
   size |-> IF e.f_type = "REGULAR" THEN SizeRead(e.inode) ELSE 0]

TreeSeen ==
  UNION {{EntrySeen(d, e) : e \in {f \in Entries(d) :
                                     f.name \in Names /\ ~ Unfinished(f.inode)}}
           : d \in {c \in Directories : ~ Unfinished(c)}}

Tree == INSTANCE FsTree WITH
  Names <- Names, Nodes <- INodeNo, Root <- ROOT_INODE,
  tree <- TreeSeen, finished <- status # "run"

(* The image read through its own pointers is the host tree, copied entry  *)
(* by entry: no later allocation, entry or write of make_fs disturbs what  *)
(* an earlier one put there.                                               *)
CopiesHostTree == Tree!Spec
=============================================================================

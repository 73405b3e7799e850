------------------------------ MODULE ParchFS ------------------------------
(***************************************************************************)
(* The image builder parchfs/parchfs.cpp: block and inode allocation, the  *)
(* direct / indirect / double-indirect block map of an inode, directory    *)
(* entries, and make_fs, which copies a host directory tree into the image.*)
(*                                                                         *)
(* The builder is one sequential program.  A step of the model is one host *)
(* entry met by make_fs (MakeDir, MakeFile, LeaveDir), one iteration of a  *)
(* loop, or one block taken by get_blkno(off, create = true), whose loops  *)
(* are the only places where blocks are allocated.                         *)
(*                                                                         *)
(* Offsets and sizes are counted in units of sizeof(DEntry).               *)
(***************************************************************************)
EXTENDS Integers, Sequences, FiniteSets

CONSTANTS
  BLK_SIZE,          \* units per block (DENTRY_PER_BLK: 32)
  DIRECT_BLK_COUNT,  \* direct pointers of an inode (16)
  BLKNO_PER_BLK,     \* pointers held by one block (1024)
  BLK_COUNT,         \* blocks of the image, bits of a BlockBitmap (2^19)
  E_KERNEL,          \* block of e_kernel: the kernel has blocks 0..E_KERNEL
  S_RESERVE,         \* block of s_reserve
  INODE_COUNT,       \* nodes of the INodeList (8192)
  INODE_BITS,        \* bits of the INodeBitmap (32768)
  Names,             \* names a host directory may contain
  LongNames,         \* those longer than DENTRY_NAME_LEN
  FileSizes          \* sizes a host file may have

ASSUME GeometryAssumption ==
  /\ BLK_SIZE \in Nat \ {0} /\ DIRECT_BLK_COUNT \in Nat \ {0}
  /\ BLKNO_PER_BLK \in Nat \ {0} /\ BLK_COUNT \in Nat
  /\ BLK_COUNT <= BLKNO_PER_BLK * BLKNO_PER_BLK
ASSUME LayoutAssumption ==
  /\ E_KERNEL \in Nat /\ S_RESERVE \in Nat
  /\ E_KERNEL + 1 < S_RESERVE /\ S_RESERVE <= BLK_COUNT
ASSUME INodeAssumption ==
  /\ INODE_COUNT \in Nat /\ INODE_BITS \in Nat
  /\ 1 < INODE_COUNT /\ INODE_COUNT <= INODE_BITS
ASSUME HostAssumption ==
  /\ LongNames \subseteq Names /\ FileSizes \subseteq Nat
  /\ {".", "..", ""} \cap Names = {}

BAD_INODE == 0
BAD_BLOCK == 0
ROOT_INODE == 1
BlockNo == 0 .. BLK_COUNT - 1
INodeNo == 0 .. INODE_COUNT - 1
INodeBit == 0 .. INODE_BITS - 1
INDIRECT == DIRECT_BLK_COUNT        \* index of indirect_blk in an inode
INDIRECT2 == DIRECT_BLK_COUNT + 1   \* index of indirect_blk2
PtrIdx == 0 .. INDIRECT2
TableIdx == 0 .. BLKNO_PER_BLK - 1
FType == {"NONE", "DIR", "REGULAR"}

INode == [f_type : FType, f_size : Nat, hard_link_count : Nat]
DEntry == [inode : INodeNo, f_type : FType, name : Names \cup {".", "..", ""}]
(* What memset(.., 0, ..) leaves behind, in each view of the memory.       *)
ZeroINode == [f_type |-> "NONE", f_size |-> 0, hard_link_count |-> 0]
ZeroPtrs == [k \in PtrIdx |-> BAD_BLOCK]
ZeroTable == [j \in TableIdx |-> BAD_BLOCK]
ZeroDEntry == [inode |-> BAD_INODE, f_type |-> "NONE", name |-> ""]
ZeroDEntries == [p \in 0 .. BLK_SIZE - 1 |-> ZeroDEntry]
ZeroData == <<BAD_INODE, 0>>

VARIABLES
  fs_block_bitmap,   \* blocks whose bit is set
  mm_block_bitmap,
  inode_bitmap,      \* inode numbers whose bit is set
  superblock,        \* the two free counters
  inode,             \* INodeList, without the block pointers
  blk_no,            \* direct_blk_no, indirect_blk, indirect_blk2 of each inode
  table,             \* each block, read as an array of BlockNo
  dentry,            \* each block, read as an array of DEntry
  content,           \* each block, read as file data: <<inode, chunk>> copied
  todo,              \* calls still to be made by the running make_dir/make_file
  stage,             \* where the running get_blkno(off, true) is
  stack,             \* the recursion of make_fs and its directory iterators
  status             \* "run", or how the program ended

alloc_vars == <<fs_block_bitmap, mm_block_bitmap, superblock, blk_no, table,
                dentry, content>>
vars == <<alloc_vars, inode_bitmap, inode, todo, stage, stack, status>>

(* A pending call: add_dentry probing position pos, the expansion at the   *)
(* head of INode::write, or its copy loop with len units left from pos.    *)
Call == [op : {"add_dentry", "expand", "copy"}, ino : INodeNo, pos : Nat,
         len : Nat, entry : DEntry]
AddDentryCall(n, d) ==
  [op |-> "add_dentry", ino |-> n, pos |-> 0, len |-> 0, entry |-> d]
ExpandCall(n, size) ==
  [op |-> "expand", ino |-> n, pos |-> size, len |-> 0, entry |-> ZeroDEntry]
CopyCall(n, size) ==
  [op |-> "copy", ino |-> n, pos |-> 0, len |-> size, entry |-> ZeroDEntry]

Frame == [dir : INodeNo, rest : SUBSET Names]
Ends == {"dumped", "block bitmap full", "name too long", "inode list overrun"}
Stages == {"idle", "direct", "indirect", "indirect2", "ready"}

----------------------------------------------------------------------------
(* The read side of get_blkno: create = false.                             *)

MinOf(a, b) == IF a < b THEN a ELSE b

GetBlkno(n, off) ==
  LET k == off \div BLK_SIZE
      p == k - DIRECT_BLK_COUNT - BLKNO_PER_BLK
  IN  IF k < DIRECT_BLK_COUNT THEN blk_no[n][k]
      ELSE IF p < 0 THEN table[blk_no[n][INDIRECT]][k - DIRECT_BLK_COUNT]
      ELSE table[table[blk_no[n][INDIRECT2]][p \div BLKNO_PER_BLK]]
                                            [p % BLKNO_PER_BLK]

DEntryAt(n, pos) == dentry[GetBlkno(n, pos)][pos % BLK_SIZE]

(* The call in progress, the inode and the offset its get_blkno is for.    *)
Cur == Head(todo)
Ino == Cur.ino
Off == IF Cur.op = "add_dentry" THEN Cur.pos + 1 ELSE Cur.pos
Off1 == Off - BLK_SIZE * DIRECT_BLK_COUNT
Off2 == Off1 - BLK_SIZE * BLKNO_PER_BLK
Running(s) == status = "run" /\ todo # << >> /\ stage = s

----------------------------------------------------------------------------
(* Allocation.                                                             *)

FirstAvailable(x, S) == x \in S /\ \A y \in S : x <= y

Halt(how) ==
  /\ status' = how
  /\ UNCHANGED <<alloc_vars, inode_bitmap, inode, todo, stage, stack>>

(* Mutants of alloc_blk: one bitmap or the other is not updated.           *)
AllocBlkUnmarked(b) ==
  /\ FirstAvailable(b, BlockNo \ fs_block_bitmap)
  /\ fs_block_bitmap' = fs_block_bitmap
  /\ mm_block_bitmap' = mm_block_bitmap \cup {b}
  /\ superblock' = [superblock EXCEPT !.free_block = @ - 1]
  /\ dentry' = [dentry EXCEPT ![b] = ZeroDEntries]
  /\ content' = [content EXCEPT ![b] = ZeroData]

AllocBlkFsOnly(b) ==
  /\ FirstAvailable(b, BlockNo \ fs_block_bitmap)
  /\ fs_block_bitmap' = fs_block_bitmap \cup {b}
  /\ mm_block_bitmap' = mm_block_bitmap
  /\ superblock' = [superblock EXCEPT !.free_block = @ - 1]
  /\ dentry' = [dentry EXCEPT ![b] = ZeroDEntries]
  /\ content' = [content EXCEPT ![b] = ZeroData]

AllocBlk(b) ==
  /\ FirstAvailable(b, BlockNo \ fs_block_bitmap)
  /\ fs_block_bitmap' = fs_block_bitmap \cup {b}
  /\ mm_block_bitmap' = mm_block_bitmap \cup {b}
  /\ superblock' = [superblock EXCEPT !.free_block = @ - 1]
  /\ dentry' = [dentry EXCEPT ![b] = ZeroDEntries]
  /\ content' = [content EXCEPT ![b] = ZeroData]

BitmapFull == BlockNo \subseteq fs_block_bitmap /\ Halt("block bitmap full")

(* A BAD_BLOCK pointer of an inode, or of a block of pointers, is set to a *)
(* new block; get_blkno then goes on at stage next.                        *)
FillINode(n, k) ==
  \/ BitmapFull
  \/ \E b \in BlockNo :
       /\ AllocBlk(b)
       /\ blk_no' = [blk_no EXCEPT ![n][k] = b]
       /\ table' = [table EXCEPT ![b] = ZeroTable]
       /\ UNCHANGED <<inode_bitmap, inode, todo, stage, stack, status>>

FillTable(t, j, next) ==
  \/ BitmapFull
  \/ \E b \in BlockNo :
       /\ AllocBlk(b)
       /\ table' = [table EXCEPT ![b] = ZeroTable, ![t][j] = b]
       /\ stage' = next
       /\ UNCHANGED <<blk_no, inode_bitmap, inode, todo, stack, status>>

(* Position i is the first BAD_BLOCK of the array ptrs.                    *)
FirstBad(ptrs, i) ==
  ptrs[i] = BAD_BLOCK /\ \A l \in 0 .. i - 1 : ptrs[l] # BAD_BLOCK

(* Mutant: get_blkno no longer grows f_size.                               *)
CallGetBlknoNoGrow ==
  /\ Running("idle")
  /\ ~ (Cur.op = "copy" /\ Cur.len = 0)
  /\ IF Cur.op = "expand" /\ Off < inode[Ino].f_size
     THEN todo' = Tail(todo) /\ UNCHANGED stage
     ELSE stage' = "direct" /\ UNCHANGED todo
  /\ UNCHANGED <<alloc_vars, inode_bitmap, inode, stack, status>>

(* The call on top makes its next get_blkno(Off, true), which first grows  *)
(* f_size.  INode::write makes the expanding call only past the end.       *)
CallGetBlkno ==
  /\ Running("idle")
  /\ ~ (Cur.op = "copy" /\ Cur.len = 0)
  /\ IF Cur.op = "expand" /\ Off < inode[Ino].f_size
     THEN todo' = Tail(todo) /\ UNCHANGED <<inode, stage>>
     ELSE /\ inode' = [inode EXCEPT ![Ino].f_size = IF @ < Off THEN Off ELSE @]
          /\ stage' = "direct"
          /\ UNCHANGED todo
  /\ UNCHANGED <<alloc_vars, inode_bitmap, stack, status>>

Proceed(next) ==
  /\ stage' = next
  /\ UNCHANGED <<alloc_vars, inode_bitmap, inode, todo, stack, status>>

AllocDirect ==
  /\ Running("direct")
  /\ \E k \in 0 .. DIRECT_BLK_COUNT - 1 :
       /\ k * BLK_SIZE <= Off
       /\ FirstBad(blk_no[Ino], k)
       /\ FillINode(Ino, k)

DirectDone ==
  /\ Running("direct")
  /\ \A k \in 0 .. DIRECT_BLK_COUNT - 1 :
       k * BLK_SIZE <= Off => blk_no[Ino][k] # BAD_BLOCK
  /\ Proceed(IF Off1 < 0 THEN "ready" ELSE "indirect")

(* Mutant: the pointer to the indirect block is overwritten.               *)
AllocIndirectAgain == Running("indirect") /\ FillINode(Ino, INDIRECT)

AllocIndirect ==
  /\ Running("indirect")
  /\ blk_no[Ino][INDIRECT] = BAD_BLOCK
  /\ FillINode(Ino, INDIRECT)

AllocIndirectEntry ==
  /\ Running("indirect")
  /\ LET t == blk_no[Ino][INDIRECT]
     IN  /\ t # BAD_BLOCK
         /\ \E j \in TableIdx :
              /\ j * BLK_SIZE <= Off1
              /\ FirstBad(table[t], j)
              /\ FillTable(t, j, "indirect")

IndirectDone ==
  /\ Running("indirect")
  /\ LET t == blk_no[Ino][INDIRECT]
     IN  /\ t # BAD_BLOCK
         /\ \A j \in TableIdx : j * BLK_SIZE <= Off1 => table[t][j] # BAD_BLOCK
  /\ Proceed(IF Off2 < 0 THEN "ready" ELSE "indirect2")

(* The double-indirect scan restarts at i = 0 on every call and ends only  *)
(* at an entry it allocates itself, the first one that lies beyond Off2.   *)
AllocIndirect2 ==
  /\ Running("indirect2")
  /\ blk_no[Ino][INDIRECT2] = BAD_BLOCK
  /\ FillINode(Ino, INDIRECT2)

(* Mutant: the scan passes a table as soon as it exists.                   *)
FullTableEarly(t) == t # BAD_BLOCK

FullTable(t) == t # BAD_BLOCK /\ \A j \in TableIdx : table[t][j] # BAD_BLOCK

ScanAt(i) ==
  LET blks == table[blk_no[Ino][INDIRECT2]]
  IN  ~ FullTable(blks[i]) /\ \A l \in 0 .. i - 1 : FullTable(blks[l])

AllocTable ==
  /\ Running("indirect2")
  /\ LET t == blk_no[Ino][INDIRECT2]
     IN  /\ t # BAD_BLOCK
         /\ \E i \in TableIdx :
              /\ ScanAt(i)
              /\ table[t][i] = BAD_BLOCK
              /\ FillTable(t, i, "indirect2")

(* Mutant: >= for >.                                                       *)
ScanStopSoon(i, j) == i * BLKNO_PER_BLK * BLK_SIZE + j * BLK_SIZE >= Off2

ScanStop(i, j) == i * BLKNO_PER_BLK * BLK_SIZE + j * BLK_SIZE > Off2

AllocTableEntry ==
  /\ Running("indirect2")
  /\ LET t == blk_no[Ino][INDIRECT2]
     IN  /\ t # BAD_BLOCK
         /\ \E i, j \in TableIdx :
              /\ ScanAt(i)
              /\ table[t][i] # BAD_BLOCK
              /\ FirstBad(table[table[t][i]], j)
              /\ FillTable(table[t][i], j,
                           IF ScanStop(i, j) THEN "ready" ELSE "indirect2")

----------------------------------------------------------------------------
(* What the caller of get_blkno does with the block.                       *)

Return(next) ==
  /\ todo' = next
  /\ stage' = "idle"
  /\ UNCHANGED <<fs_block_bitmap, mm_block_bitmap, superblock, blk_no, table,
                 inode_bitmap, inode, stack, status>>

(* Mutant: the loop of add_dentry forgets i++.                             *)
NextDentryStuck ==
  /\ Running("ready") /\ Cur.op = "add_dentry"
  /\ DEntryAt(Ino, Cur.pos).inode # BAD_INODE
  /\ Return(todo)
  /\ UNCHANGED <<dentry, content>>

(* add_dentry: the position is taken, the loop tries the next one.         *)
NextDentry ==
  /\ Running("ready") /\ Cur.op = "add_dentry"
  /\ DEntryAt(Ino, Cur.pos).inode # BAD_INODE
  /\ Return(IF Cur.pos + 1 <= inode[Ino].f_size
            THEN [todo EXCEPT ![1].pos = @ + 1] ELSE Tail(todo))
  /\ UNCHANGED <<dentry, content>>

(* Mutant: an entry is stored without looking whether the place is free.   *)
StoreDentryBlindly ==
  /\ Running("ready") /\ Cur.op = "add_dentry"
  /\ dentry' = [dentry EXCEPT
                 ![GetBlkno(Ino, Cur.pos)][Cur.pos % BLK_SIZE] = Cur.entry]
  /\ Return(Tail(todo))
  /\ UNCHANGED content

StoreDentry ==
  /\ Running("ready") /\ Cur.op = "add_dentry"
  /\ DEntryAt(Ino, Cur.pos).inode = BAD_INODE
  /\ dentry' = [dentry EXCEPT
                 ![GetBlkno(Ino, Cur.pos)][Cur.pos % BLK_SIZE] = Cur.entry]
  /\ Return(Tail(todo))
  /\ UNCHANGED content

Expanded ==
  /\ Running("ready") /\ Cur.op = "expand"
  /\ Return(Tail(todo))
  /\ UNCHANGED <<dentry, content>>

(* Mutant: the copy length is not capped by what is left.                  *)
CopyLenUncapped == BLK_SIZE - (Cur.pos % BLK_SIZE)

CopyLen == MinOf(Cur.len, BLK_SIZE - (Cur.pos % BLK_SIZE))

CopyChunk ==
  /\ Running("ready") /\ Cur.op = "copy"
  /\ content' = [content EXCEPT
                  ![GetBlkno(Ino, Cur.pos)] = <<Ino, Cur.pos \div BLK_SIZE>>]
  /\ Return([todo EXCEPT ![1].pos = @ + CopyLen, ![1].len = @ - CopyLen])
  /\ UNCHANGED dentry

(* Mutant: the copy stops before its last, partial block.                  *)
CopyDoneEarly ==
  /\ Running("idle") /\ Cur.op = "copy" /\ Cur.len < BLK_SIZE
  /\ Return(Tail(todo))
  /\ UNCHANGED <<dentry, content>>

CopyDone ==
  /\ Running("idle") /\ Cur.op = "copy" /\ Cur.len = 0
  /\ Return(Tail(todo))
  /\ UNCHANGED <<dentry, content>>

----------------------------------------------------------------------------
(* make_fs: the entries of the directory on top of the recursion.          *)

Between == status = "run" /\ todo = << >> /\ stack # << >>
Top == stack[Len(stack)]
Taken(name) == [stack EXCEPT ![Len(stack)].rest = @ \ {name}]

(* Mutant: alloc_inode does not count.                                     *)
AllocINodeUncounted(n, node) ==
  /\ FirstAvailable(n, INodeBit \ inode_bitmap)
  /\ inode_bitmap' = inode_bitmap \cup {n}
  /\ inode' = [inode EXCEPT ![n] = node]
  /\ blk_no' = [blk_no EXCEPT ![n] = ZeroPtrs]
  /\ UNCHANGED <<fs_block_bitmap, mm_block_bitmap, superblock, table, dentry, content>>

AllocINode(n, node) ==
  /\ FirstAvailable(n, INodeBit \ inode_bitmap)
  /\ inode_bitmap' = inode_bitmap \cup {n}
  /\ superblock' = [superblock EXCEPT !.free_inode = @ - 1]
  /\ inode' = [inode EXCEPT ![n] = node]
  /\ blk_no' = [blk_no EXCEPT ![n] = ZeroPtrs]
  /\ UNCHANGED <<fs_block_bitmap, mm_block_bitmap, table, dentry, content>>

NewDir == [f_type |-> "DIR", f_size |-> 2, hard_link_count |-> 3]
NewFile == [f_type |-> "REGULAR", f_size |-> 0, hard_link_count |-> 1]
DirEntry(n, name) == [inode |-> n, f_type |-> "DIR", name |-> name]
FileEntry(n, name) == [inode |-> n, f_type |-> "REGULAR", name |-> name]
(* Mutant: ".." names the directory itself.                                *)
DotCallsSelf(n, parent) == <<AddDentryCall(n, DirEntry(n, ".")),
                             AddDentryCall(n, DirEntry(n, ".."))>>

DotCalls(n, parent) == <<AddDentryCall(n, DirEntry(n, ".")),
                         AddDentryCall(n, DirEntry(parent, ".."))>>

MakeDir(name) ==
  /\ Between /\ name \in Top.rest \ LongNames
  /\ \E n \in INodeNo :
       /\ AllocINode(n, NewDir)
       /\ todo' = Append(DotCalls(n, Top.dir),
                         AddDentryCall(Top.dir, DirEntry(n, name)))
       /\ stack' = Append(Taken(name), [dir |-> n, rest |-> Names])
  /\ UNCHANGED <<stage, status>>

MakeFile(name, size) ==
  /\ Between /\ name \in Top.rest \ LongNames
  /\ \E n \in INodeNo :
       /\ AllocINode(n, NewFile)
       /\ todo' = <<AddDentryCall(Top.dir, FileEntry(n, name)),
                    ExpandCall(n, size), CopyCall(n, size)>>
  /\ stack' = Taken(name)
  /\ UNCHANGED <<stage, status>>

(* alloc_inode takes bit INODE_COUNT or a later one: its node lies outside *)
(* the inode list.  INodeTable.tla follows what happens then.              *)
INodeOverrun ==
  /\ Between /\ Top.rest \ LongNames # {}
  /\ INodeNo \subseteq inode_bitmap
  /\ Halt("inode list overrun")

NameTooLong ==
  /\ Between /\ Top.rest \cap LongNames # {}
  /\ Halt("name too long")

LeaveDir ==
  /\ Between
  /\ stack' = SubSeq(stack, 1, Len(stack) - 1)
  /\ status' = IF Len(stack) = 1 THEN "dumped" ELSE "run"
  /\ UNCHANGED <<alloc_vars, inode_bitmap, inode, todo, stage>>

----------------------------------------------------------------------------
(* The constructor: bitmaps, counters, the kernel's and the reserved       *)
(* blocks, then make_dir for the root directory.                           *)

Reserved == (0 .. E_KERNEL) \cup (S_RESERVE - 1 .. BLK_COUNT - 1)

(* SuperBlock::init, for the length between the kernel and the reserve.    *)
NewSuperBlock ==
  [free_inode |-> INODE_COUNT, free_block |-> S_RESERVE - E_KERNEL]

Init ==
  /\ fs_block_bitmap = {BAD_BLOCK} \cup Reserved
  /\ mm_block_bitmap = {BAD_BLOCK} \cup Reserved
  /\ inode_bitmap = {BAD_INODE, ROOT_INODE}
  /\ superblock = [NewSuperBlock EXCEPT !.free_inode = @ - 1]
  /\ inode = [n \in INodeNo |-> IF n = ROOT_INODE THEN NewDir ELSE ZeroINode]
  /\ blk_no = [n \in INodeNo |-> ZeroPtrs]
  /\ table = [b \in BlockNo |-> ZeroTable]
  /\ dentry = [b \in BlockNo |-> ZeroDEntries]
  /\ content = [b \in BlockNo |-> ZeroData]
  /\ todo = DotCalls(ROOT_INODE, ROOT_INODE)
  /\ stage = "idle"
  /\ stack = <<[dir |-> ROOT_INODE, rest |-> Names]>>
  /\ status = "run"

GetBlknoStep ==
  \/ CallGetBlkno
  \/ AllocDirect \/ DirectDone
  \/ AllocIndirect \/ AllocIndirectEntry \/ IndirectDone
  \/ AllocIndirect2 \/ AllocTable \/ AllocTableEntry

CallerStep == NextDentry \/ StoreDentry \/ Expanded \/ CopyChunk \/ CopyDone

HostStep ==
  \/ \E name \in Names : MakeDir(name)
  \/ \E name \in Names, size \in FileSizes : MakeFile(name, size)
  \/ INodeOverrun \/ NameTooLong \/ LeaveDir

Next == GetBlknoStep \/ CallerStep \/ HostStep

(* The builder is a sequential program: while it can take a step it does.  *)
Spec == Init /\ [][Next]_vars /\ WF_vars(Next)
=============================================================================

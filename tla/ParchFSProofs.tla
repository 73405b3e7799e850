--------------------------- MODULE ParchFSProofs ---------------------------
(***************************************************************************)
(* Theorems about the image builder, for every geometry and host tree.     *)
(***************************************************************************)
EXTENDS ParchFSProperties, SequenceTheorems, FiniteSetTheorems, WellFoundedInduction,
        TLAPS

(* Division and remainder, as the block offsets use them.                  *)
LEMMA DivMod ==
  ASSUME NEW d \in Nat \ {0}, NEW n \in Nat
  PROVE  n \div d \in Nat /\ n % d \in 0 .. d - 1
BY SMT

(* BAD_BLOCK and the reserved numbers belong to their types.               *)
LEMMA Sorts ==
  /\ BLK_COUNT \in Nat \ {0} /\ BLK_SIZE \in Nat \ {0}
  /\ DIRECT_BLK_COUNT \in Nat \ {0} /\ BLKNO_PER_BLK \in Nat \ {0}
  /\ BAD_BLOCK \in BlockNo /\ BAD_INODE \in INodeNo /\ ROOT_INODE \in INodeNo
  /\ INodeNo \subseteq INodeBit /\ Reserved \subseteq BlockNo
  /\ INDIRECT \in PtrIdx /\ INDIRECT2 \in PtrIdx
  /\ 0 .. DIRECT_BLK_COUNT - 1 \subseteq PtrIdx
BY GeometryAssumption, LayoutAssumption, INodeAssumption
   DEF BAD_BLOCK, BlockNo, BAD_INODE, ROOT_INODE, INodeNo, INodeBit, Reserved,
       PtrIdx, INDIRECT, INDIRECT2

LEMMA Zeros ==
  /\ ZeroPtrs \in [PtrIdx -> BlockNo] /\ ZeroTable \in [TableIdx -> BlockNo]
  /\ ZeroDEntry \in DEntry /\ ZeroDEntries \in [0 .. BLK_SIZE - 1 -> DEntry]
  /\ ZeroData \in INodeNo \X Nat /\ ZeroINode \in INode
  /\ NewDir \in INode /\ NewFile \in INode
BY Sorts DEF ZeroPtrs, ZeroTable, ZeroDEntry, ZeroDEntries, ZeroData, ZeroINode,
             NewDir, NewFile, INode, DEntry, FType

(* The calls make_dir and make_file put on their list are calls.           *)
LEMMA CallTypes ==
  ASSUME NEW n \in INodeNo, NEW m \in INodeNo
  PROVE  /\ \A name \in Names \cup {".", ".."} :
              /\ AddDentryCall(n, DirEntry(m, name)) \in Call
              /\ AddDentryCall(n, FileEntry(m, name)) \in Call
         /\ \A size \in Nat : ExpandCall(n, size) \in Call /\ CopyCall(n, size) \in Call
         /\ DotCalls(n, m) \in Seq(Call)
<1>1. \A x \in INodeNo, name \in Names \cup {".", ".."} :
        DirEntry(x, name) \in DEntry /\ FileEntry(x, name) \in DEntry
  BY DEF DirEntry, FileEntry, DEntry, FType
<1>2. \A e \in DEntry : AddDentryCall(n, e) \in Call
  BY DEF AddDentryCall, Call
<1>3. \A size \in Nat : ExpandCall(n, size) \in Call /\ CopyCall(n, size) \in Call
  BY Zeros DEF ExpandCall, CopyCall, Call
<1>4. DotCalls(n, m) \in Seq(Call)
  BY <1>1, <1>2 DEF DotCalls
<1> QED  BY <1>1, <1>2, <1>3, <1>4

LEMMA CurType ==
  ASSUME TypeOK, todo # << >>
  PROVE  Cur \in Call /\ Ino \in INodeNo /\ Off \in Nat /\ Tail(todo) \in Seq(Call)
<1>1. Cur \in Call /\ Tail(todo) \in Seq(Call)
  BY HeadTailProperties DEF TypeOK, Cur
<1> QED  BY <1>1 DEF Call, Ino, Off

----------------------------------------------------------------------------
(* Type correctness.                                                       *)

LEMMA InitType == ASSUME Init PROVE TypeOK
<1>1. DotCalls(ROOT_INODE, ROOT_INODE) \in Seq(Call)
  BY Sorts, CallTypes
<1>2. stack \in Seq(Frame)
  <2>1. [dir |-> ROOT_INODE, rest |-> Names] \in Frame
    BY Sorts DEF Frame
  <2> QED  BY <2>1 DEF Init
<1>3. superblock \in [free_inode : Int, free_block : Int]
  BY LayoutAssumption, INodeAssumption DEF Init, NewSuperBlock
<1>4. {BAD_INODE, ROOT_INODE} \subseteq INodeBit
  BY Sorts
<1> QED
  BY <1>1, <1>2, <1>3, <1>4, Sorts, Zeros DEF Init, TypeOK, Stages

(* What every allocation of a block does to the types.                     *)
LEMMA AllocBlkType ==
  ASSUME TypeOK, NEW b \in BlockNo, AllocBlk(b)
  PROVE  /\ fs_block_bitmap' \in SUBSET BlockNo
         /\ mm_block_bitmap' \in SUBSET BlockNo
         /\ superblock' \in [free_inode : Int, free_block : Int]
         /\ dentry' \in [BlockNo -> [0 .. BLK_SIZE - 1 -> DEntry]]
         /\ content' \in [BlockNo -> INodeNo \X Nat]
<1>1. superblock' \in [free_inode : Int, free_block : Int]
  <2>1. superblock \in [free_inode : Int, free_block : Int]
    BY DEF TypeOK
  <2>2. superblock' = [superblock EXCEPT !.free_block = @ - 1]
    BY DEF AllocBlk
  <2> QED  BY <2>1, <2>2
<1>2. dentry' \in [BlockNo -> [0 .. BLK_SIZE - 1 -> DEntry]]
  BY Zeros DEF TypeOK, AllocBlk
<1>3. content' \in [BlockNo -> INodeNo \X Nat]
  BY Zeros DEF TypeOK, AllocBlk
<1> QED  BY <1>1, <1>2, <1>3 DEF TypeOK, AllocBlk

LEMMA HaltType ==
  ASSUME TypeOK, NEW how \in Ends, Halt(how)
  PROVE  TypeOK'
BY DEF TypeOK, Halt, alloc_vars

LEMMA BitmapFullType == ASSUME TypeOK, BitmapFull PROVE TypeOK'
BY HaltType DEF BitmapFull, Ends

LEMMA FillINodeType ==
  ASSUME TypeOK, NEW n \in INodeNo, NEW k \in PtrIdx, FillINode(n, k)
  PROVE  TypeOK'
<1>1. CASE BitmapFull
  BY <1>1, BitmapFullType
<1>2. CASE ~ BitmapFull
  <2>1. PICK b \in BlockNo :
          /\ AllocBlk(b)
          /\ blk_no' = [blk_no EXCEPT ![n][k] = b]
          /\ table' = [table EXCEPT ![b] = ZeroTable]
          /\ UNCHANGED <<inode_bitmap, inode, todo, stage, stack, status>>
    BY <1>2 DEF FillINode
  <2> QED  BY <2>1, AllocBlkType, Zeros DEF TypeOK
<1> QED  BY <1>1, <1>2

LEMMA FillTableType ==
  ASSUME TypeOK, NEW t \in BlockNo, NEW j \in TableIdx, NEW next \in Stages,
         FillTable(t, j, next)
  PROVE  TypeOK'
<1>1. CASE BitmapFull
  BY <1>1, BitmapFullType
<1>2. CASE ~ BitmapFull
  <2>1. PICK b \in BlockNo :
          /\ AllocBlk(b)
          /\ table' = [table EXCEPT ![b] = ZeroTable, ![t][j] = b]
          /\ stage' = next
          /\ UNCHANGED <<blk_no, inode_bitmap, inode, todo, stack, status>>
    BY <1>2 DEF FillTable
  <2>2. table' \in [BlockNo -> [TableIdx -> BlockNo]]
    BY <2>1, Zeros DEF TypeOK
  <2> QED  BY <2>1, <2>2, AllocBlkType DEF TypeOK
<1> QED  BY <1>1, <1>2

LEMMA ReturnType ==
  ASSUME TypeOK, NEW next \in Seq(Call), Return(next),
         dentry' \in [BlockNo -> [0 .. BLK_SIZE - 1 -> DEntry]],
         content' \in [BlockNo -> INodeNo \X Nat]
  PROVE  TypeOK'
BY DEF Return, TypeOK, Stages

(* The first call of the list is replaced by a call.                       *)
LEMMA FirstCallType ==
  ASSUME TypeOK, todo # << >>, NEW c \in Call
  PROVE  [todo EXCEPT ![1] = c] \in Seq(Call)
<1>1. 1 \in 1 .. Len(todo)
  BY DEF TypeOK
<1> QED  BY <1>1, ExceptSeq DEF TypeOK

LEMMA CallUpdate ==
  ASSUME NEW c \in Call, NEW pos \in Nat, NEW len \in Nat
  PROVE  /\ [c EXCEPT !.pos = pos] \in Call
         /\ [[c EXCEPT !.pos = pos] EXCEPT !.len = len] \in Call
         /\ [c EXCEPT !.pos = pos].len = c.len
BY DEF Call

LEMMA CallFields ==
  ASSUME NEW c \in Call
  PROVE  c.ino \in INodeNo /\ c.pos \in Nat /\ c.len \in Nat /\ c.entry \in DEntry
BY DEF Call

LEMMA CopyLenType ==
  ASSUME Cur \in Call PROVE CopyLen \in 0 .. Cur.len
<1>1. Cur.pos % BLK_SIZE \in 0 .. BLK_SIZE - 1
  BY DivMod, Sorts DEF Call
<1>2. Cur.len \in Nat
  BY DEF Call
<1> QED  BY <1>1, <1>2, Sorts DEF CopyLen, MinOf

LEMMA CallGetBlknoType == ASSUME TypeOK, CallGetBlkno PROVE TypeOK'
<1>1. Cur \in Call /\ Ino \in INodeNo /\ Off \in Nat /\ Tail(todo) \in Seq(Call)
  BY CurType DEF CallGetBlkno, Running
<1>2. inode' \in [INodeNo -> INode]
  <2>1. inode \in [INodeNo -> INode] /\ inode[Ino] \in INode
    BY <1>1 DEF TypeOK
  <2>2. [inode[Ino] EXCEPT !.f_size = IF @ < Off THEN Off ELSE @] \in INode
    BY <1>1, <2>1 DEF INode
  <2> QED  BY <2>1, <2>2 DEF CallGetBlkno
<1>3. todo' \in Seq(Call) /\ stage' \in Stages
  BY <1>1 DEF CallGetBlkno, TypeOK, Stages
<1> QED  BY <1>2, <1>3 DEF CallGetBlkno, TypeOK, alloc_vars

LEMMA ProceedType ==
  ASSUME TypeOK, NEW next \in Stages, Proceed(next) PROVE TypeOK'
BY DEF Proceed, TypeOK, alloc_vars

LEMMA GetBlknoStepType == ASSUME TypeOK, GetBlknoStep PROVE TypeOK'
<1> DEFINE t1 == blk_no[Ino][INDIRECT]
           t2 == blk_no[Ino][INDIRECT2]
<1>1. CASE CallGetBlkno
  BY <1>1, CallGetBlknoType
<1>2. ASSUME todo # << >>
      PROVE  /\ Ino \in INodeNo /\ t1 \in BlockNo /\ t2 \in BlockNo
             /\ \A i \in TableIdx : table[t2][i] \in BlockNo
  <2>1. Ino \in INodeNo
    BY <1>2, CurType
  <2>2. t1 \in BlockNo /\ t2 \in BlockNo
    BY <2>1, Sorts DEF TypeOK
  <2> QED  BY <2>1, <2>2 DEF TypeOK
<1>3. CASE AllocDirect
  <2>1. PICK k \in 0 .. DIRECT_BLK_COUNT - 1 : FillINode(Ino, k)
    BY <1>3 DEF AllocDirect
  <2> QED  BY <2>1, <1>2, <1>3, FillINodeType, Sorts DEF AllocDirect, Running
<1>4. CASE DirectDone
  BY <1>4, ProceedType DEF DirectDone, Stages
<1>5. CASE AllocIndirect
  BY <1>2, <1>5, FillINodeType, Sorts DEF AllocIndirect, Running
<1>6. CASE AllocIndirectEntry
  <2>1. PICK j \in TableIdx : FillTable(t1, j, "indirect")
    BY <1>6 DEF AllocIndirectEntry
  <2> QED  BY <2>1, <1>2, <1>6, FillTableType DEF AllocIndirectEntry, Running, Stages
<1>7. CASE IndirectDone
  BY <1>7, ProceedType DEF IndirectDone, Stages
<1>8. CASE AllocIndirect2
  BY <1>2, <1>8, FillINodeType, Sorts DEF AllocIndirect2, Running
<1>9. CASE AllocTable
  <2>1. PICK i \in TableIdx : FillTable(t2, i, "indirect2")
    BY <1>9 DEF AllocTable
  <2> QED  BY <2>1, <1>2, <1>9, FillTableType DEF AllocTable, Running, Stages
<1>10. CASE AllocTableEntry
  <2>1. PICK i \in TableIdx, j \in TableIdx, next \in {"ready", "indirect2"} :
          FillTable(table[t2][i], j, next)
    BY <1>10 DEF AllocTableEntry
  <2> QED  BY <2>1, <1>2, <1>10, FillTableType DEF AllocTableEntry, Running, Stages
<1> QED
  BY <1>1, <1>3, <1>4, <1>5, <1>6, <1>7, <1>8, <1>9, <1>10 DEF GetBlknoStep

LEMMA CallerStepType == ASSUME TypeOK, CallerStep PROVE TypeOK'
<1>1. todo # << >>
  BY DEF CallerStep, NextDentry, StoreDentry, Expanded, CopyChunk, CopyDone, Running
<1>2. Cur \in Call /\ Ino \in INodeNo /\ Tail(todo) \in Seq(Call) /\ todo[1] = Cur
  BY <1>1, CurType DEF Cur, TypeOK
<1>3. /\ dentry \in [BlockNo -> [0 .. BLK_SIZE - 1 -> DEntry]]
      /\ content \in [BlockNo -> INodeNo \X Nat]
  BY DEF TypeOK
<1>4. CASE NextDentry
  <2>1. [Cur EXCEPT !.pos = @ + 1] \in Call
    <3>1. Cur.pos + 1 \in Nat /\ Cur.len \in Nat
      BY <1>2, CallFields
    <3> QED  BY <1>2, <3>1, CallUpdate
  <2>2. [todo EXCEPT ![1].pos = @ + 1] \in Seq(Call)
    BY <1>1, <1>2, <2>1, FirstCallType
  <2> QED  BY <1>2, <1>3, <1>4, <2>2, ReturnType DEF NextDentry
<1>5. CASE StoreDentry
  <2>1. Cur.entry \in DEntry
    BY <1>2 DEF Call
  <2>2. dentry' \in [BlockNo -> [0 .. BLK_SIZE - 1 -> DEntry]]
    BY <1>3, <1>5, <2>1 DEF StoreDentry
  <2> QED  BY <1>2, <1>3, <1>5, <2>2, ReturnType DEF StoreDentry
<1>6. CASE Expanded \/ CopyDone
  BY <1>2, <1>3, <1>6, ReturnType DEF Expanded, CopyDone
<1>7. CASE CopyChunk
  <2>1. CopyLen \in 0 .. Cur.len
    BY <1>2, CopyLenType
  <2>2. [[Cur EXCEPT !.pos = @ + CopyLen] EXCEPT !.len = @ - CopyLen] \in Call
    <3>1. Cur.pos + CopyLen \in Nat /\ Cur.len - CopyLen \in Nat
      BY <1>2, <2>1, CallFields
    <3> DEFINE moved == [Cur EXCEPT !.pos = @ + CopyLen]
    <3>2. moved.len = Cur.len
      BY <1>2, <3>1, CallUpdate
    <3>3. [moved EXCEPT !.len = Cur.len - CopyLen] \in Call
      BY <1>2, <3>1, CallUpdate
    <3> QED  BY <3>2, <3>3
  <2>3. [todo EXCEPT ![1].pos = @ + CopyLen, ![1].len = @ - CopyLen]
          = [todo EXCEPT ![1] = [[Cur EXCEPT !.pos = @ + CopyLen] EXCEPT !.len = @ - CopyLen]]
    BY <1>1, <1>2 DEF TypeOK
  <2>4. [todo EXCEPT ![1].pos = @ + CopyLen, ![1].len = @ - CopyLen] \in Seq(Call)
    BY <1>1, <2>2, <2>3, FirstCallType
  <2>5. Cur.pos \div BLK_SIZE \in Nat
    BY <1>2, DivMod, Sorts DEF Call
  <2>6. content' \in [BlockNo -> INodeNo \X Nat]
    BY <1>2, <1>3, <1>7, <2>5 DEF CopyChunk
  <2> QED  BY <1>2, <1>3, <1>7, <2>4, <2>6, ReturnType DEF CopyChunk
<1> QED
  BY <1>4, <1>5, <1>6, <1>7 DEF CallerStep

LEMMA AllocINodeType ==
  ASSUME TypeOK, NEW n \in INodeNo, NEW node \in INode, AllocINode(n, node)
  PROVE  /\ inode_bitmap' \in SUBSET INodeBit
         /\ superblock' \in [free_inode : Int, free_block : Int]
         /\ inode' \in [INodeNo -> INode]
         /\ blk_no' \in [INodeNo -> [PtrIdx -> BlockNo]]
<1>1. superblock' \in [free_inode : Int, free_block : Int]
  <2>1. superblock \in [free_inode : Int, free_block : Int]
    BY DEF TypeOK
  <2>2. superblock' = [superblock EXCEPT !.free_inode = @ - 1]
    BY DEF AllocINode
  <2> QED  BY <2>1, <2>2
<1>2. inode' \in [INodeNo -> INode]
  BY DEF AllocINode, TypeOK
<1>3. blk_no' \in [INodeNo -> [PtrIdx -> BlockNo]]
  BY Zeros DEF AllocINode, TypeOK
<1>4. inode_bitmap' \in SUBSET INodeBit
  BY Sorts DEF AllocINode, TypeOK
<1> QED  BY <1>1, <1>2, <1>3, <1>4

(* The recursion of make_fs: the innermost directory, and the stack after  *)
(* one of its entries was taken.                                           *)
LEMMA StackType ==
  ASSUME TypeOK, stack # << >>, NEW name \in Names
  PROVE  Top \in Frame /\ Taken(name) \in Seq(Frame)
<1>1. Len(stack) \in 1 .. Len(stack) /\ stack \in Seq(Frame)
  BY EmptySeq DEF TypeOK
<1>2. Top \in Frame
  BY <1>1, ElementOfSeq DEF Top
<1>3. [Top EXCEPT !.rest = @ \ {name}] \in Frame
  BY <1>2 DEF Frame
<1>4. Taken(name) = [stack EXCEPT ![Len(stack)] = [Top EXCEPT !.rest = @ \ {name}]]
  BY DEF Taken, Top
<1> QED  BY <1>1, <1>2, <1>3, <1>4, ExceptSeq

LEMMA MakeDirType ==
  ASSUME TypeOK, NEW name \in Names, MakeDir(name) PROVE TypeOK'
<1>1. PICK n \in INodeNo :
        /\ AllocINode(n, NewDir)
        /\ todo' = Append(DotCalls(n, Top.dir),
                          AddDentryCall(Top.dir, DirEntry(n, name)))
        /\ stack' = Append(Taken(name), [dir |-> n, rest |-> Names])
  BY DEF MakeDir
<1>2. Top \in Frame /\ Taken(name) \in Seq(Frame)
  BY StackType DEF MakeDir, Between
<1>3. Top.dir \in INodeNo
  BY <1>2 DEF Frame
<1>4. todo' \in Seq(Call)
  BY <1>1, <1>3, CallTypes, AppendProperties
<1>5. stack' \in Seq(Frame)
  <2>1. [dir |-> n, rest |-> Names] \in Frame
    BY DEF Frame
  <2> QED  BY <1>1, <1>2, <2>1, AppendProperties
<1>6. UNCHANGED <<fs_block_bitmap, mm_block_bitmap, table, dentry, content, stage, status>>
  BY <1>1 DEF MakeDir, AllocINode
<1> QED  BY <1>1, <1>4, <1>5, <1>6, AllocINodeType, Zeros DEF TypeOK

LEMMA MakeFileType ==
  ASSUME TypeOK, NEW name \in Names, NEW size \in FileSizes, MakeFile(name, size)
  PROVE  TypeOK'
<1>1. PICK n \in INodeNo :
        /\ AllocINode(n, NewFile)
        /\ todo' = <<AddDentryCall(Top.dir, FileEntry(n, name)),
                     ExpandCall(n, size), CopyCall(n, size)>>
  BY DEF MakeFile
<1>2. Top \in Frame /\ Taken(name) \in Seq(Frame)
  BY StackType DEF MakeFile, Between
<1>3. Top.dir \in INodeNo
  BY <1>2 DEF Frame
<1>4. todo' \in Seq(Call)
  <2>1. size \in Nat
    BY HostAssumption
  <2>2. /\ AddDentryCall(Top.dir, FileEntry(n, name)) \in Call
        /\ ExpandCall(n, size) \in Call /\ CopyCall(n, size) \in Call
    BY <1>3, <2>1, CallTypes
  <2> QED  BY <1>1, <2>2
<1>5. stack' \in Seq(Frame)
  BY <1>2 DEF MakeFile
<1>6. UNCHANGED <<fs_block_bitmap, mm_block_bitmap, table, dentry, content, stage, status>>
  BY <1>1 DEF MakeFile, AllocINode
<1> QED  BY <1>1, <1>4, <1>5, <1>6, AllocINodeType, Zeros DEF TypeOK

LEMMA LeaveDirType == ASSUME TypeOK, LeaveDir PROVE TypeOK'
<1>1. stack' \in Seq(Frame)
  <2>1. stack \in Seq(Frame) /\ Len(stack) \in Nat
    BY DEF TypeOK
  <2>2. \A i \in 1 .. Len(stack) - 1 : stack[i] \in Frame
    BY <2>1, ElementOfSeq
  <2> QED  BY <2>1, <2>2, SubSeqProperties DEF LeaveDir
<1> QED  BY <1>1 DEF LeaveDir, TypeOK, alloc_vars, Ends

LEMMA StepType == ASSUME TypeOK, [Next]_vars PROVE TypeOK'
<1>1. CASE GetBlknoStep
  BY <1>1, GetBlknoStepType
<1>2. CASE CallerStep
  BY <1>2, CallerStepType
<1>3. CASE \E name \in Names : MakeDir(name)
  BY <1>3, MakeDirType
<1>4. CASE \E name \in Names, size \in FileSizes : MakeFile(name, size)
  BY <1>4, MakeFileType
<1>5. CASE INodeOverrun \/ NameTooLong
  BY <1>5, HaltType DEF INodeOverrun, NameTooLong, Ends
<1>6. CASE LeaveDir
  BY <1>6, LeaveDirType
<1>7. CASE UNCHANGED vars
  BY <1>7 DEF TypeOK, vars, alloc_vars
<1> QED
  BY <1>1, <1>2, <1>3, <1>4, <1>5, <1>6, <1>7 DEF Next, HostStep

(* Every variable of the builder keeps its type, for every geometry of the *)
(* image and every host tree.                                              *)
THEOREM TypeCorrect == Spec => []TypeOK
<1>1. Init => TypeOK
  BY InitType
<1>2. TypeOK /\ [Next]_vars => TypeOK'
  BY StepType
<1> QED  BY <1>1, <1>2, PTL DEF Spec

----------------------------------------------------------------------------
(* The superblock's counters.                                              *)

LEMMA InitCounters == ASSUME Init PROVE FreeCounters
<1>1. BlockNo \ fs_block_bitmap = E_KERNEL + 1 .. S_RESERVE - 2
  BY GeometryAssumption, LayoutAssumption DEF Init, BlockNo, Reserved, BAD_BLOCK
<1>2. Cardinality(E_KERNEL + 1 .. S_RESERVE - 2) = S_RESERVE - E_KERNEL - 2
  BY LayoutAssumption, FS_Interval
<1>3. INodeNo \ inode_bitmap = 2 .. INODE_COUNT - 1
  BY INodeAssumption DEF Init, INodeNo, BAD_INODE, ROOT_INODE
<1>4. Cardinality(2 .. INODE_COUNT - 1) = INODE_COUNT - 2
  BY INodeAssumption, FS_Interval
<1>5. superblock.free_block = S_RESERVE - E_KERNEL /\ superblock.free_inode = INODE_COUNT - 1
  BY DEF Init, NewSuperBlock
<1>6. superblock.free_block = Cardinality(BlockNo \ fs_block_bitmap) + 2
  <2>1. S_RESERVE - E_KERNEL = (S_RESERVE - E_KERNEL - 2) + 2
    BY LayoutAssumption
  <2> QED  BY <1>1, <1>2, <1>5, <2>1
<1>7. superblock.free_inode = Cardinality(INodeNo \ inode_bitmap) + 1
  <2>1. INODE_COUNT - 1 = (INODE_COUNT - 2) + 1
    BY INodeAssumption
  <2> QED  BY <1>3, <1>4, <1>5, <2>1
<1> QED  BY <1>6, <1>7 DEF FreeCounters

LEMMA SameCounters ==
  ASSUME FreeCounters, UNCHANGED <<superblock, fs_block_bitmap, inode_bitmap>>
  PROVE  FreeCounters'
BY DEF FreeCounters

LEMMA AllocBlkCounters ==
  ASSUME TypeOK, FreeCounters, NEW b \in BlockNo, AllocBlk(b), UNCHANGED inode_bitmap
  PROVE  FreeCounters'
<1> DEFINE clear == BlockNo \ fs_block_bitmap
<1>1. b \in clear /\ BlockNo \ fs_block_bitmap' = clear \ {b}
  BY DEF AllocBlk, FirstAvailable
<1>2. IsFiniteSet(clear) /\ Cardinality(clear) \in Nat
  <2>1. IsFiniteSet(BlockNo)
    BY Sorts, FS_Interval DEF BlockNo
  <2> QED  BY <2>1, FS_Subset, FS_CardinalityType
<1>3. Cardinality(BlockNo \ fs_block_bitmap') = Cardinality(clear) - 1
  BY <1>1, <1>2, FS_RemoveElement
<1>4. /\ superblock'.free_block = superblock.free_block - 1
      /\ superblock'.free_inode = superblock.free_inode
  <2>1. superblock \in [free_inode : Int, free_block : Int]
    BY DEF TypeOK
  <2>2. superblock' = [superblock EXCEPT !.free_block = superblock.free_block - 1]
    BY DEF AllocBlk
  <2> QED  BY <2>1, <2>2
<1> QED  BY <1>2, <1>3, <1>4 DEF FreeCounters

LEMMA AllocINodeCounters ==
  ASSUME TypeOK, FreeCounters, NEW n \in INodeNo, NEW node, AllocINode(n, node)
  PROVE  FreeCounters'
<1> DEFINE clear == INodeNo \ inode_bitmap
<1>1. n \in clear /\ INodeNo \ inode_bitmap' = clear \ {n}
  BY DEF AllocINode, FirstAvailable
<1>2. IsFiniteSet(clear) /\ Cardinality(clear) \in Nat
  <2>1. IsFiniteSet(INodeNo)
    BY INodeAssumption, FS_Interval DEF INodeNo
  <2> QED  BY <2>1, FS_Subset, FS_CardinalityType
<1>3. Cardinality(INodeNo \ inode_bitmap') = Cardinality(clear) - 1
  BY <1>1, <1>2, FS_RemoveElement
<1>4. /\ superblock'.free_inode = superblock.free_inode - 1
      /\ superblock'.free_block = superblock.free_block
  <2>1. superblock \in [free_inode : Int, free_block : Int]
    BY DEF TypeOK
  <2>2. superblock' = [superblock EXCEPT !.free_inode = superblock.free_inode - 1]
    BY DEF AllocINode
  <2> QED  BY <2>1, <2>2
<1>5. UNCHANGED fs_block_bitmap
  BY DEF AllocINode
<1> QED  BY <1>2, <1>3, <1>4, <1>5 DEF FreeCounters

LEMMA GetBlknoStepCounters ==
  ASSUME TypeOK, FreeCounters, GetBlknoStep PROVE FreeCounters'
<1>1. ASSUME NEW n, NEW k, FillINode(n, k) PROVE FreeCounters'
  BY <1>1, AllocBlkCounters, SameCounters DEF FillINode, BitmapFull, Halt, alloc_vars
<1>2. ASSUME NEW t, NEW j, NEW next, FillTable(t, j, next) PROVE FreeCounters'
  BY <1>2, AllocBlkCounters, SameCounters DEF FillTable, BitmapFull, Halt, alloc_vars
<1>3. CASE CallGetBlkno \/ DirectDone \/ IndirectDone
  BY <1>3, SameCounters DEF CallGetBlkno, DirectDone, IndirectDone, Proceed, alloc_vars
<1>4. CASE AllocDirect \/ AllocIndirect \/ AllocIndirect2
  BY <1>1, <1>4 DEF AllocDirect, AllocIndirect, AllocIndirect2
<1>5. CASE AllocIndirectEntry \/ AllocTable \/ AllocTableEntry
  BY <1>2, <1>5 DEF AllocIndirectEntry, AllocTable, AllocTableEntry
<1> QED  BY <1>3, <1>4, <1>5 DEF GetBlknoStep

LEMMA StepCounters ==
  ASSUME TypeOK, FreeCounters, [Next]_vars PROVE FreeCounters'
<1>1. CASE GetBlknoStep
  BY <1>1, GetBlknoStepCounters
<1>2. CASE CallerStep
  BY <1>2, SameCounters
     DEF CallerStep, NextDentry, StoreDentry, Expanded, CopyChunk, CopyDone, Return
<1>3. CASE \E name \in Names : MakeDir(name)
  BY <1>3, AllocINodeCounters DEF MakeDir
<1>4. CASE \E name \in Names, size \in FileSizes : MakeFile(name, size)
  BY <1>4, AllocINodeCounters DEF MakeFile
<1>5. CASE INodeOverrun \/ NameTooLong \/ LeaveDir \/ UNCHANGED vars
  BY <1>5, SameCounters DEF INodeOverrun, NameTooLong, LeaveDir, Halt, vars, alloc_vars
<1> QED
  BY <1>1, <1>2, <1>3, <1>4, <1>5 DEF Next, HostStep

(* The superblock's counters and the bitmaps never drift apart, on images  *)
(* of any size.                                                            *)
THEOREM CountersHold == Spec => []FreeCounters
<1>1. Init => TypeOK /\ FreeCounters
  BY InitType, InitCounters
<1>2. TypeOK /\ FreeCounters /\ [Next]_vars => (TypeOK /\ FreeCounters)'
  BY StepType, StepCounters
<1> QED  BY <1>1, <1>2, PTL DEF Spec

----------------------------------------------------------------------------
(* Who owns which block: the inductive invariant behind BlocksOwnedOnce,   *)
(* PointersAllocated and NoBlockLeaked, and the proof that the builder     *)
(* keeps it.                                                               *)

(* The bitmaps agree, and mark BAD_BLOCK and what is reserved.             *)
BitmapsAgree ==
  /\ mm_block_bitmap = fs_block_bitmap
  /\ {BAD_BLOCK} \cup Reserved \subseteq fs_block_bitmap

(* A block not yet handed out holds no pointer, nor does a free inode: what *)
(* alloc_blk and alloc_inode overwrite with zeroes was zero already.       *)
FreshIsZero ==
  /\ \A b \in BlockNo \ fs_block_bitmap, j \in TableIdx : table[b][j] = BAD_BLOCK
  /\ \A n \in INodeNo \ inode_bitmap, k \in PtrIdx : blk_no[n][k] = BAD_BLOCK

(* make_fs works on allocated inodes only.                                 *)
INodesInUse ==
  /\ \A i \in 1 .. Len(todo) : todo[i].ino \in inode_bitmap
  /\ \A i \in 1 .. Len(stack) : stack[i].dir \in inode_bitmap

Ownership ==
  /\ TypeOK /\ BitmapsAgree /\ FreshIsZero /\ INodesInUse
  /\ BlocksOwnedOnce /\ PointersAllocated /\ NoBlockLeaked

----------------------------------------------------------------------------

LEMMA InitOwnership == ASSUME Init PROVE Ownership
<1>1. TypeOK
  BY InitType
<1>2. BitmapsAgree
  BY DEF Init, BitmapsAgree
<1>3. /\ \A n \in INodeNo, k \in PtrIdx : blk_no[n][k] = BAD_BLOCK
      /\ \A b \in BlockNo, j \in TableIdx : table[b][j] = BAD_BLOCK
  BY DEF Init, ZeroPtrs, ZeroTable
<1>4. FreshIsZero /\ BlocksOwnedOnce /\ PointersAllocated
  BY <1>3 DEF FreshIsZero, BlocksOwnedOnce, PointersAllocated
<1>5. NoBlockLeaked
  BY DEF Init, NoBlockLeaked
<1>6. INodesInUse
  <2>1. todo = DotCalls(ROOT_INODE, ROOT_INODE) /\ Len(todo) = 2
    BY DEF Init, DotCalls
  <2>2. todo[1].ino = ROOT_INODE /\ todo[2].ino = ROOT_INODE
    BY <2>1 DEF DotCalls, AddDentryCall
  <2>3. \A i \in 1 .. Len(todo) : todo[i].ino \in inode_bitmap
    BY <2>1, <2>2 DEF Init
  <2>4. Len(stack) = 1 /\ stack[1].dir = ROOT_INODE
    BY DEF Init
  <2> QED  BY <2>3, <2>4 DEF INodesInUse, Init
<1> QED  BY <1>1, <1>2, <1>4, <1>5, <1>6 DEF Ownership

(* The block alloc_blk finds is nobody's, and becomes marked.              *)
LEMMA FreshBlock ==
  ASSUME Ownership, NEW b \in BlockNo, AllocBlk(b)
  PROVE  /\ b \notin fs_block_bitmap /\ b # BAD_BLOCK /\ b \notin Reserved
         /\ fs_block_bitmap' = fs_block_bitmap \cup {b}
         /\ mm_block_bitmap' = mm_block_bitmap \cup {b}
         /\ \A n \in INodeNo, k \in PtrIdx : blk_no[n][k] # b
         /\ \A c \in BlockNo, j \in TableIdx : table[c][j] # b
         /\ \A j \in TableIdx : table[b][j] = BAD_BLOCK
<1>1. /\ b \notin fs_block_bitmap
      /\ fs_block_bitmap' = fs_block_bitmap \cup {b}
      /\ mm_block_bitmap' = mm_block_bitmap \cup {b}
  BY DEF AllocBlk, FirstAvailable
<1>2. b # BAD_BLOCK /\ b \notin Reserved
  BY <1>1 DEF Ownership, BitmapsAgree
<1>3. /\ \A n \in INodeNo, k \in PtrIdx : blk_no[n][k] # b
      /\ \A c \in BlockNo, j \in TableIdx : table[c][j] # b
  BY <1>1, <1>2 DEF Ownership, PointersAllocated, Allocated
<1>4. \A j \in TableIdx : table[b][j] = BAD_BLOCK
  BY <1>1 DEF Ownership, FreshIsZero
<1> QED  BY <1>1, <1>2, <1>3, <1>4

(* A step that touches neither a bitmap nor a pointer.                     *)
LEMMA NoPointerStep ==
  ASSUME Ownership, TypeOK', INodesInUse',
         UNCHANGED <<fs_block_bitmap, mm_block_bitmap, inode_bitmap, blk_no, table>>
  PROVE  Ownership'
BY DEF Ownership, BitmapsAgree, FreshIsZero, BlocksOwnedOnce, PointersAllocated,
       Allocated, NoBlockLeaked

LEMMA HaltOwnership ==
  ASSUME Ownership, NEW how \in Ends, Halt(how) PROVE Ownership'
<1>1. TypeOK'
  BY HaltType DEF Ownership
<1>2. INodesInUse'
  BY DEF Ownership, INodesInUse, Halt
<1> QED  BY <1>1, <1>2, NoPointerStep DEF Halt, alloc_vars

(* A pointer of an inode that was BAD_BLOCK now names a fresh block.       *)
LEMMA FillINodeOwnership ==
  ASSUME Ownership, NEW n \in INodeNo, n \in inode_bitmap, NEW k \in PtrIdx,
         blk_no[n][k] = BAD_BLOCK, FillINode(n, k)
  PROVE  Ownership'
<1>1. CASE BitmapFull
  BY <1>1, HaltOwnership DEF BitmapFull, Ends
<1>2. CASE ~ BitmapFull
  <2>1. PICK b \in BlockNo :
          /\ AllocBlk(b)
          /\ blk_no' = [blk_no EXCEPT ![n][k] = b]
          /\ table' = [table EXCEPT ![b] = ZeroTable]
          /\ UNCHANGED <<inode_bitmap, inode, todo, stage, stack, status>>
    BY <1>2 DEF FillINode
  <2>2. /\ b \notin fs_block_bitmap /\ b # BAD_BLOCK /\ b \notin Reserved
        /\ fs_block_bitmap' = fs_block_bitmap \cup {b}
        /\ mm_block_bitmap' = mm_block_bitmap \cup {b}
        /\ \A m \in INodeNo, l \in PtrIdx : blk_no[m][l] # b
        /\ \A c \in BlockNo, j \in TableIdx : table[c][j] # b
        /\ \A j \in TableIdx : table[b][j] = BAD_BLOCK
    BY <2>1, FreshBlock
  <2>3. \A c \in BlockNo, j \in TableIdx : table'[c][j] = table[c][j]
    BY <2>1, <2>2 DEF ZeroTable, Ownership, TypeOK
  <2>4. \A m \in INodeNo, l \in PtrIdx :
          blk_no'[m][l] = IF m = n /\ l = k THEN b ELSE blk_no[m][l]
    BY <2>1 DEF Ownership, TypeOK
  <2>5. TypeOK'
    BY FillINodeType DEF Ownership
  <2>6. BitmapsAgree'
    BY <2>2 DEF Ownership, BitmapsAgree, Reserved
  <2>7. FreshIsZero'
    BY <2>1, <2>2, <2>3, <2>4 DEF Ownership, FreshIsZero
  <2>8. INodesInUse'
    BY <2>1 DEF Ownership, INodesInUse
  <2>9. BlocksOwnedOnce'
    BY <2>2, <2>3, <2>4 DEF Ownership, BlocksOwnedOnce
  <2>10. PointersAllocated'
    BY <2>2, <2>3, <2>4 DEF Ownership, PointersAllocated, Allocated, Reserved
  <2>11. NoBlockLeaked'
    BY <2>2, <2>3, <2>4 DEF Ownership, NoBlockLeaked, Reserved
  <2> QED  BY <2>5, <2>6, <2>7, <2>8, <2>9, <2>10, <2>11 DEF Ownership
<1> QED  BY <1>1, <1>2

(* The same for a pointer held by an allocated block of pointers.          *)
LEMMA FillTableOwnership ==
  ASSUME Ownership, NEW t \in BlockNo, t \in fs_block_bitmap, NEW j \in TableIdx,
         NEW next \in Stages, table[t][j] = BAD_BLOCK, FillTable(t, j, next)
  PROVE  Ownership'
<1>1. CASE BitmapFull
  BY <1>1, HaltOwnership DEF BitmapFull, Ends
<1>2. CASE ~ BitmapFull
  <2>1. PICK b \in BlockNo :
          /\ AllocBlk(b)
          /\ table' = [table EXCEPT ![b] = ZeroTable, ![t][j] = b]
          /\ stage' = next
          /\ UNCHANGED <<blk_no, inode_bitmap, inode, todo, stack, status>>
    BY <1>2 DEF FillTable
  <2>2. /\ b \notin fs_block_bitmap /\ b # BAD_BLOCK /\ b \notin Reserved
        /\ fs_block_bitmap' = fs_block_bitmap \cup {b}
        /\ mm_block_bitmap' = mm_block_bitmap \cup {b}
        /\ \A m \in INodeNo, l \in PtrIdx : blk_no[m][l] # b
        /\ \A c \in BlockNo, i \in TableIdx : table[c][i] # b
        /\ \A i \in TableIdx : table[b][i] = BAD_BLOCK
    BY <2>1, FreshBlock
  <2>3. t # b /\ blk_no' = blk_no /\ inode_bitmap' = inode_bitmap
    BY <2>1, <2>2
  <2>4. \A c \in BlockNo, i \in TableIdx :
          table'[c][i] = IF c = t /\ i = j THEN b ELSE table[c][i]
    BY <2>1, <2>2, <2>3 DEF ZeroTable, Ownership, TypeOK
  <2>5. TypeOK'
    BY FillTableType DEF Ownership
  <2>6. BitmapsAgree'
    BY <2>2 DEF Ownership, BitmapsAgree, Reserved
  <2>7. FreshIsZero'
    BY <2>2, <2>3, <2>4 DEF Ownership, FreshIsZero
  <2>8. INodesInUse'
    BY <2>1 DEF Ownership, INodesInUse
  <2>9. BlocksOwnedOnce'
    BY <2>2, <2>3, <2>4 DEF Ownership, BlocksOwnedOnce
  <2>10. PointersAllocated'
    BY <2>2, <2>3, <2>4 DEF Ownership, PointersAllocated, Allocated, Reserved
  <2>11. NoBlockLeaked'
    BY <2>2, <2>3, <2>4 DEF Ownership, NoBlockLeaked, Reserved
  <2> QED  BY <2>5, <2>6, <2>7, <2>8, <2>9, <2>10, <2>11 DEF Ownership
<1> QED  BY <1>1, <1>2

----------------------------------------------------------------------------

LEMMA GetBlknoStepOwnership == ASSUME Ownership, GetBlknoStep PROVE Ownership'
<1> DEFINE t1 == blk_no[Ino][INDIRECT]
           t2 == blk_no[Ino][INDIRECT2]
<1>1. TypeOK' /\ TypeOK
  BY GetBlknoStepType DEF Ownership
<1>2. todo # << >>
  BY DEF GetBlknoStep, CallGetBlkno, AllocDirect, DirectDone, AllocIndirect,
         AllocIndirectEntry, IndirectDone, AllocIndirect2, AllocTable,
         AllocTableEntry, Running
<1>3. Ino \in INodeNo /\ Ino \in inode_bitmap
  <2>1. Ino \in INodeNo
    BY <1>1, <1>2, CurType
  <2>2. 1 \in 1 .. Len(todo) /\ Cur = todo[1]
    BY <1>1, <1>2 DEF TypeOK, Cur
  <2>3. Ino \in inode_bitmap
    BY <2>2 DEF Ownership, INodesInUse, Ino
  <2> QED  BY <2>1, <2>3
<1>4. /\ t1 \in BlockNo /\ (t1 # BAD_BLOCK => t1 \in fs_block_bitmap)
      /\ t2 \in BlockNo /\ (t2 # BAD_BLOCK => t2 \in fs_block_bitmap)
  <2>1. t1 \in BlockNo /\ t2 \in BlockNo
    BY <1>1, <1>3, Sorts DEF TypeOK
  <2> QED  BY <2>1, <1>3, Sorts DEF Ownership, PointersAllocated, Allocated
<1>5. CASE CallGetBlkno
  <2>1. INodesInUse'
    <3>1. todo' = Tail(todo) \/ todo' = todo
      BY <1>5 DEF CallGetBlkno
    <3>2. \A i \in 1 .. Len(Tail(todo)) : Tail(todo)[i] = todo[i + 1] /\ i + 1 \in 1 .. Len(todo)
      BY <1>1, <1>2, HeadTailProperties, LenProperties DEF TypeOK
    <3> QED  BY <1>5, <3>1, <3>2 DEF CallGetBlkno, Ownership, INodesInUse
  <2> QED  BY <1>1, <1>5, <2>1, NoPointerStep DEF CallGetBlkno, alloc_vars
<1>6. CASE DirectDone \/ IndirectDone
  <2>1. INodesInUse'
    BY <1>6 DEF DirectDone, IndirectDone, Proceed, Ownership, INodesInUse
  <2> QED  BY <1>1, <1>6, <2>1, NoPointerStep
            DEF DirectDone, IndirectDone, Proceed, alloc_vars
<1>7. CASE AllocDirect
  <2>1. PICK k \in 0 .. DIRECT_BLK_COUNT - 1 :
          blk_no[Ino][k] = BAD_BLOCK /\ FillINode(Ino, k)
    BY <1>7 DEF AllocDirect, FirstBad
  <2> QED  BY <2>1, <1>3, Sorts, FillINodeOwnership
<1>8. CASE AllocIndirect
  BY <1>3, <1>8, Sorts, FillINodeOwnership DEF AllocIndirect
<1>9. CASE AllocIndirect2
  BY <1>3, <1>9, Sorts, FillINodeOwnership DEF AllocIndirect2
<1>10. CASE AllocIndirectEntry
  <2>1. PICK j \in TableIdx :
          t1 # BAD_BLOCK /\ table[t1][j] = BAD_BLOCK /\ FillTable(t1, j, "indirect")
    BY <1>10 DEF AllocIndirectEntry, FirstBad
  <2> QED  BY <2>1, <1>4, FillTableOwnership DEF Stages
<1>11. CASE AllocTable
  <2>1. PICK i \in TableIdx :
          t2 # BAD_BLOCK /\ table[t2][i] = BAD_BLOCK /\ FillTable(t2, i, "indirect2")
    BY <1>11 DEF AllocTable
  <2> QED  BY <2>1, <1>4, FillTableOwnership DEF Stages
<1>12. CASE AllocTableEntry
  <2>1. PICK i \in TableIdx, j \in TableIdx, next \in {"ready", "indirect2"} :
          /\ table[t2][i] # BAD_BLOCK
          /\ table[table[t2][i]][j] = BAD_BLOCK
          /\ FillTable(table[t2][i], j, next)
    BY <1>12 DEF AllocTableEntry, FirstBad
  <2>2. table[t2][i] \in BlockNo /\ table[t2][i] \in fs_block_bitmap
    <3>1. table[t2][i] \in BlockNo
      BY <1>1, <1>4 DEF TypeOK
    <3> QED  BY <2>1, <1>4, <3>1 DEF Ownership, PointersAllocated, Allocated
  <2> QED  BY <2>1, <2>2, FillTableOwnership DEF Stages
<1> QED
  BY <1>5, <1>6, <1>7, <1>8, <1>9, <1>10, <1>11, <1>12 DEF GetBlknoStep

(* A step of a call's caller is through with the call, or moves it on.     *)
LEMMA FirstCallLeft ==
  ASSUME TypeOK, CallerStep
  PROVE  \/ todo' = Tail(todo)
         \/ \E c : /\ todo' = [todo EXCEPT ![1] = c]
                  /\ c.ino = Cur.ino /\ c.op = Cur.op /\ c.entry = Cur.entry
<1>1. todo # << >>
  BY DEF CallerStep, NextDentry, StoreDentry, Expanded, CopyChunk, CopyDone, Running
<1>2. \/ todo' = Tail(todo)
      \/ todo' = [todo EXCEPT ![1].pos = @ + 1]
      \/ todo' = [todo EXCEPT ![1].pos = @ + CopyLen, ![1].len = @ - CopyLen]
  BY DEF CallerStep, NextDentry, StoreDentry, Expanded, CopyChunk, CopyDone, Return
<1>3. Cur \in Call /\ todo[1] = Cur
  BY <1>1, CurType DEF Cur, TypeOK
<1>4. CASE todo' = [todo EXCEPT ![1].pos = @ + 1]
  <2> DEFINE c == [Cur EXCEPT !.pos = @ + 1]
  <2>1. todo' = [todo EXCEPT ![1] = c]
    BY <1>3, <1>4
  <2>2. c.ino = Cur.ino /\ c.op = Cur.op /\ c.entry = Cur.entry
    BY <1>3 DEF Call
  <2> QED  BY <2>1, <2>2
<1>5. CASE todo' = [todo EXCEPT ![1].pos = @ + CopyLen, ![1].len = @ - CopyLen]
  <2> DEFINE c == [[Cur EXCEPT !.pos = @ + CopyLen] EXCEPT !.len = @ - CopyLen]
  <2>1. todo' = [todo EXCEPT ![1] = c]
    BY <1>1, <1>3, <1>5 DEF TypeOK
  <2>2. c.ino = Cur.ino /\ c.op = Cur.op /\ c.entry = Cur.entry
    BY <1>3 DEF Call
  <2> QED  BY <2>1, <2>2
<1> QED  BY <1>2, <1>4, <1>5

LEMMA CallsLeft ==
  ASSUME TypeOK, CallerStep
  PROVE  \A i \in 1 .. Len(todo') : \E l \in 1 .. Len(todo) :
           /\ todo'[i].ino = todo[l].ino /\ todo'[i].op = todo[l].op
           /\ todo'[i].entry = todo[l].entry
<1>1. todo # << >>
  BY DEF CallerStep, NextDentry, StoreDentry, Expanded, CopyChunk, CopyDone, Running
<1>2. CASE todo' = Tail(todo)
  <2>1. \A i \in 1 .. Len(Tail(todo)) : Tail(todo)[i] = todo[i + 1] /\ i + 1 \in 1 .. Len(todo)
    BY <1>1, HeadTailProperties, LenProperties DEF TypeOK
  <2> QED  BY <1>2, <2>1
<1>3. CASE todo' # Tail(todo)
  <2>1. PICK c : /\ todo' = [todo EXCEPT ![1] = c]
                 /\ c.ino = Cur.ino /\ c.op = Cur.op /\ c.entry = Cur.entry
    BY <1>3, FirstCallLeft
  <2>2. Len(todo') = Len(todo) /\ Cur = todo[1]
    BY <1>1, <2>1 DEF TypeOK, Cur
  <2> QED  BY <1>1, <2>1, <2>2 DEF TypeOK
<1> QED  BY <1>2, <1>3

LEMMA CallerStepOwnership == ASSUME Ownership, CallerStep PROVE Ownership'
<1>1. TypeOK' /\ TypeOK
  BY CallerStepType DEF Ownership
<1>2. todo # << >>
  BY DEF CallerStep, NextDentry, StoreDentry, Expanded, CopyChunk, CopyDone, Running
<1>3. UNCHANGED <<fs_block_bitmap, mm_block_bitmap, inode_bitmap, blk_no, table, stack>>
  BY DEF CallerStep, NextDentry, StoreDentry, Expanded, CopyChunk, CopyDone, Return
<1>4. \A i \in 1 .. Len(todo') : \E l \in 1 .. Len(todo) : todo'[i].ino = todo[l].ino
  BY <1>1, CallsLeft
<1>5. INodesInUse'
  BY <1>3, <1>4 DEF Ownership, INodesInUse
<1> QED  BY <1>1, <1>3, <1>5, NoPointerStep

(* alloc_inode: the new node held no pointer, so zeroing it loses none.    *)
LEMMA AllocINodeOwnership ==
  ASSUME Ownership, TypeOK', INodesInUse', NEW n \in INodeNo, NEW node \in INode,
         AllocINode(n, node)
  PROVE  Ownership'
<1>1. n \notin inode_bitmap /\ inode_bitmap' = inode_bitmap \cup {n}
  BY DEF AllocINode, FirstAvailable
<1>2. UNCHANGED <<fs_block_bitmap, mm_block_bitmap, table>>
  BY DEF AllocINode
<1>3. \A m \in INodeNo, k \in PtrIdx : blk_no'[m][k] = blk_no[m][k]
  <2>1. \A k \in PtrIdx : blk_no[n][k] = BAD_BLOCK
    BY <1>1 DEF Ownership, FreshIsZero
  <2>2. blk_no' = [blk_no EXCEPT ![n] = ZeroPtrs]
    BY DEF AllocINode
  <2> QED  BY <2>1, <2>2 DEF ZeroPtrs, Ownership, TypeOK
<1>4. BitmapsAgree'
  BY <1>2 DEF Ownership, BitmapsAgree
<1>5. FreshIsZero'
  BY <1>1, <1>2, <1>3 DEF Ownership, FreshIsZero
<1>6. BlocksOwnedOnce'
  BY <1>2, <1>3 DEF Ownership, BlocksOwnedOnce
<1>7. PointersAllocated'
  BY <1>2, <1>3 DEF Ownership, PointersAllocated, Allocated
<1>8. NoBlockLeaked'
  BY <1>2, <1>3 DEF Ownership, NoBlockLeaked
<1> QED  BY <1>4, <1>5, <1>6, <1>7, <1>8 DEF Ownership

(* The directories make_fs is inside of stay the same when an entry of the *)
(* innermost one is taken.                                                 *)
LEMMA TakenDirs ==
  ASSUME Ownership, Between, NEW name \in Names
  PROVE  /\ Top.dir \in inode_bitmap /\ Top.dir \in INodeNo
         /\ Taken(name) \in Seq(Frame)
         /\ \A i \in 1 .. Len(Taken(name)) : Taken(name)[i].dir \in inode_bitmap
<1>1. stack # << >> /\ stack \in Seq(Frame) /\ Len(stack) \in 1 .. Len(stack)
  BY EmptySeq DEF Between, Ownership, TypeOK
<1>2. Top \in Frame /\ Taken(name) \in Seq(Frame)
  BY <1>1, StackType DEF Ownership
<1>3. Top.dir \in inode_bitmap /\ Top.dir \in INodeNo
  BY <1>1, <1>2 DEF Ownership, INodesInUse, Top, Frame
<1> DEFINE top == [Top EXCEPT !.rest = @ \ {name}]
<1>4. Taken(name) = [stack EXCEPT ![Len(stack)] = top]
  BY DEF Taken, Top
<1>5. top \in Frame /\ top.dir = Top.dir
  BY <1>2 DEF Frame
<1>6. /\ Len(Taken(name)) = Len(stack)
      /\ \A i \in 1 .. Len(stack) :
           Taken(name)[i] = IF i = Len(stack) THEN top ELSE stack[i]
  BY <1>1, <1>4, <1>5, ExceptSeq
<1> HIDE DEF top
<1> QED  BY <1>2, <1>3, <1>5, <1>6 DEF Ownership, INodesInUse

LEMMA MakeDirOwnership ==
  ASSUME Ownership, NEW name \in Names, MakeDir(name) PROVE Ownership'
<1>1. PICK n \in INodeNo :
        /\ AllocINode(n, NewDir)
        /\ todo' = Append(DotCalls(n, Top.dir),
                          AddDentryCall(Top.dir, DirEntry(n, name)))
        /\ stack' = Append(Taken(name), [dir |-> n, rest |-> Names])
  BY DEF MakeDir
<1>2. /\ Top.dir \in inode_bitmap /\ Top.dir \in INodeNo
      /\ Taken(name) \in Seq(Frame)
      /\ \A i \in 1 .. Len(Taken(name)) : Taken(name)[i].dir \in inode_bitmap
  BY TakenDirs DEF MakeDir
<1>3. inode_bitmap' = inode_bitmap \cup {n}
  BY <1>1 DEF AllocINode
<1>4. \A i \in 1 .. Len(todo') : todo'[i].ino \in inode_bitmap'
  <2> DEFINE dots == DotCalls(n, Top.dir)
             last == AddDentryCall(Top.dir, DirEntry(n, name))
  <2>1. /\ Len(dots) = 2 /\ dots[1].ino = n /\ dots[2].ino = n
        /\ last.ino = Top.dir
    BY DEF DotCalls, AddDentryCall
  <2>2. dots \in Seq(Call) /\ last \in Call
    BY <1>2, CallTypes
  <2>3. /\ Len(todo') = 3 /\ todo'[1] = dots[1] /\ todo'[2] = dots[2]
        /\ todo'[3] = last
    BY <1>1, <2>1, <2>2, AppendProperties
  <2> HIDE DEF dots, last
  <2> QED  BY <1>2, <1>3, <2>1, <2>3
<1>5. \A i \in 1 .. Len(stack') : stack'[i].dir \in inode_bitmap'
  <2> DEFINE top == [dir |-> n, rest |-> Names]
  <2>1. top \in Frame /\ top.dir = n
    BY DEF Frame
  <2>2. /\ Len(stack') = Len(Taken(name)) + 1
        /\ \A i \in 1 .. Len(Taken(name)) : stack'[i] = Taken(name)[i]
        /\ stack'[Len(Taken(name)) + 1] = top
        /\ Len(Taken(name)) \in Nat
    BY <1>1, <1>2, <2>1, AppendProperties, LenProperties
  <2> HIDE DEF top
  <2> QED  BY <1>2, <1>3, <2>1, <2>2
<1>6. TypeOK'
  BY MakeDirType DEF Ownership
<1> QED  BY <1>1, <1>4, <1>5, <1>6, AllocINodeOwnership, Zeros DEF INodesInUse

LEMMA MakeFileOwnership ==
  ASSUME Ownership, NEW name \in Names, NEW size \in FileSizes, MakeFile(name, size)
  PROVE  Ownership'
<1>1. PICK n \in INodeNo :
        /\ AllocINode(n, NewFile)
        /\ todo' = <<AddDentryCall(Top.dir, FileEntry(n, name)),
                     ExpandCall(n, size), CopyCall(n, size)>>
  BY DEF MakeFile
<1>2. /\ Top.dir \in inode_bitmap
      /\ \A i \in 1 .. Len(Taken(name)) : Taken(name)[i].dir \in inode_bitmap
  BY TakenDirs DEF MakeFile
<1>3. inode_bitmap' = inode_bitmap \cup {n} /\ stack' = Taken(name)
  BY <1>1 DEF AllocINode, MakeFile
<1>4. \A i \in 1 .. Len(todo') : todo'[i].ino \in inode_bitmap'
  BY <1>1, <1>2, <1>3 DEF AddDentryCall, ExpandCall, CopyCall
<1>5. TypeOK'
  BY MakeFileType DEF Ownership
<1> QED
  BY <1>1, <1>2, <1>3, <1>4, <1>5, AllocINodeOwnership, Zeros DEF INodesInUse

LEMMA LeaveDirOwnership == ASSUME Ownership, LeaveDir PROVE Ownership'
<1>1. TypeOK' /\ TypeOK
  BY LeaveDirType DEF Ownership
<1>2. /\ UNCHANGED <<fs_block_bitmap, mm_block_bitmap, inode_bitmap, blk_no, table, todo>>
      /\ stack' = SubSeq(stack, 1, Len(stack) - 1)
  BY DEF LeaveDir, alloc_vars
<1>3. \A i \in 1 .. Len(stack') : stack'[i] = stack[i] /\ i \in 1 .. Len(stack)
  BY <1>1, <1>2 DEF TypeOK
<1>4. INodesInUse'
  BY <1>2, <1>3 DEF Ownership, INodesInUse
<1> QED  BY <1>1, <1>2, <1>4, NoPointerStep

LEMMA StepOwnership == ASSUME Ownership, [Next]_vars PROVE Ownership'
<1>1. CASE GetBlknoStep
  BY <1>1, GetBlknoStepOwnership
<1>2. CASE CallerStep
  BY <1>2, CallerStepOwnership
<1>3. CASE \E name \in Names : MakeDir(name)
  BY <1>3, MakeDirOwnership
<1>4. CASE \E name \in Names, size \in FileSizes : MakeFile(name, size)
  BY <1>4, MakeFileOwnership
<1>5. CASE INodeOverrun \/ NameTooLong
  BY <1>5, HaltOwnership DEF INodeOverrun, NameTooLong, Ends
<1>6. CASE LeaveDir
  BY <1>6, LeaveDirOwnership
<1>7. CASE UNCHANGED vars
  <2>1. TypeOK' /\ INodesInUse'
    BY <1>7, StepType DEF Ownership, INodesInUse, vars, alloc_vars
  <2> QED  BY <1>7, <2>1, NoPointerStep DEF vars, alloc_vars
<1> QED
  BY <1>1, <1>2, <1>3, <1>4, <1>5, <1>6, <1>7 DEF Next, HostStep

(* The inductive invariant holds throughout.                               *)
THEOREM OwnershipHolds == Spec => []Ownership
<1>1. Init => Ownership
  BY InitOwnership
<1>2. Ownership /\ [Next]_vars => Ownership'
  BY StepOwnership
<1> QED  BY <1>1, <1>2, PTL DEF Spec

(* No block is ever reached by two pointers: no two files, and no file and *)
(* a block of pointers, share what alloc_blk handed out.                   *)
THEOREM NoSharedBlock == Spec => []BlocksOwnedOnce
<1>1. Ownership => BlocksOwnedOnce
  BY DEF Ownership
<1> QED  BY <1>1, OwnershipHolds, PTL

(* Every pointer names a block that both bitmaps mark and that is neither  *)
(* the kernel's nor reserved: the asserts of get_blk hold.                 *)
THEOREM NoDanglingPointer == Spec => []PointersAllocated
<1>1. Ownership => PointersAllocated
  BY DEF Ownership
<1> QED  BY <1>1, OwnershipHolds, PTL

(* Every marked block is the kernel's, reserved, or reached by a pointer.  *)
THEOREM NoLeak == Spec => []NoBlockLeaked
<1>1. Ownership => NoBlockLeaked
  BY DEF Ownership
<1> QED  BY <1>1, OwnershipHolds, PTL

----------------------------------------------------------------------------
(***************************************************************************)
(* What get_blkno(off, true) leaves behind: every block up to the one of   *)
(* off is there when it returns, the double-indirect scan finds room in    *)
(* time, and the asserts and panics on the way never fire.                 *)
(***************************************************************************)

(* Arithmetic of block numbers.                                            *)

LEMMA TimesMono ==
  ASSUME NEW x \in Int, NEW y \in Int, NEW d \in Nat, x <= y
  PROVE  x * d <= y * d
BY SMT

LEMMA Euclid ==
  ASSUME NEW a \in Nat, NEW d \in Nat \ {0}
  PROVE  /\ a \div d \in Nat /\ a % d \in 0 .. d - 1
         /\ a = (a \div d) * d + (a % d)
<1>1. d \in Int /\ d > 0 /\ a \in Int
  OBVIOUS
<1>2. a % d = a - d * (a \div d)
  BY <1>1, SMT
<1>3. a \div d \in Nat /\ a % d \in 0 .. d - 1
  BY DivMod
<1> QED  BY <1>2, <1>3

LEMMA DivLeq ==
  ASSUME NEW k \in Int, NEW a \in Nat, NEW d \in Nat \ {0}
  PROVE  k * d <= a <=> k <= a \div d
<1> DEFINE q == a \div d
<1>1. q \in Nat /\ d * q <= a /\ a < d * q + d
  OBVIOUS
<1> HIDE DEF q
<1>2. k <= q => k * d <= q * d
  BY <1>1, TimesMono
<1>3. k >= q + 1 => (q + 1) * d <= k * d
  BY <1>1, TimesMono
<1>4. (q + 1) * d = q * d + d
  BY <1>1
<1> QED  BY <1>1, <1>2, <1>3, <1>4 DEF q

(* Row i, column j of a table of rows of d places, read row by row.        *)
LEMMA RowByRow ==
  ASSUME NEW d \in Nat \ {0}, NEW i \in Nat, NEW k \in Nat,
         NEW j \in 0 .. d - 1, NEW l \in 0 .. d - 1, i * d + j <= k * d + l
  PROVE  i < k \/ (i = k /\ j <= l)
<1>1. CASE i > k
  <2>1. (k + 1) * d <= i * d
    BY <1>1, TimesMono
  <2>2. (k + 1) * d = k * d + d
    OBVIOUS
  <2>3. k * d \in Nat /\ i * d \in Nat
    OBVIOUS
  <2> QED  BY <2>1, <2>2, <2>3
<1>2. CASE i = k
  <2>1. k * d \in Nat
    OBVIOUS
  <2>2. \A s \in Nat : s + j <= s + l => j <= l
    OBVIOUS
  <2> QED  BY <1>2, <2>1, <2>2
<1>3. CASE i < k
  BY <1>3
<1> QED  BY <1>1, <1>2, <1>3

LEMMA LeastOf ==
  ASSUME NEW S, S \subseteq Nat, S # {}
  PROVE  \E n \in S : \A m \in S : n <= m
<1>1. PICK n \in S : \A m \in S : ~ (<<m, n>> \in OpToRel(<, Nat))
  BY WFMin, NatLessThanWellFounded, Zenon
<1>2. \A m \in S : ~ (m < n)
  BY <1>1 DEF OpToRel
<1> QED  BY <1>2

----------------------------------------------------------------------------
(* The double-indirect scan: as many full tables as there are table        *)
(* indices would hold more blocks than the image has.                      *)

(* A block, by its place behind the double-indirect pointer blks.          *)
Nth(blks, x) == table[blks[x \div BLKNO_PER_BLK]][x % BLKNO_PER_BLK]

LEMMA SomeTableHasRoom ==
  ASSUME Ownership, NEW t \in BlockNo, t # BAD_BLOCK
  PROVE  \E i \in TableIdx : ~ FullTable(table[t][i])
<1> SUFFICES ASSUME \A i \in TableIdx : FullTable(table[t][i]) PROVE FALSE
  OBVIOUS
<1> DEFINE B == BLKNO_PER_BLK
           places == 0 .. B * B - 1
           f == [x \in places |-> Nth(table[t], x)]
<1>1. B \in Nat \ {0} /\ BLK_COUNT \in Nat \ {0} /\ BLK_COUNT <= B * B /\ B * B \in Nat
  BY Sorts, GeometryAssumption
<1>2. \A x \in places : x \div B \in TableIdx /\ x % B \in TableIdx
  <2> SUFFICES ASSUME NEW x \in places PROVE x \div B \in TableIdx /\ x % B \in TableIdx
    OBVIOUS
  <2>1. /\ x \in Nat /\ x \div B \in Nat /\ x % B \in 0 .. B - 1
        /\ x = (x \div B) * B + (x % B)
    <3>1. x \in Nat
      BY <1>1
    <3> QED  BY <1>1, <3>1, Euclid
  <2>2. x \div B < B
    <3>1. ~ (B <= x \div B)
      <4>1. ~ (B * B <= x)
        BY <1>1
      <4> QED  BY <1>1, <2>1, <4>1, DivLeq
    <3> QED  BY <1>1, <2>1, <3>1
  <2> HIDE DEF places
  <2>3. x \div B \in TableIdx
    BY <1>1, <2>1, <2>2 DEF TableIdx
  <2> QED  BY <2>1, <2>3 DEF TableIdx
<1>3. \A x \in places : f[x] \in 1 .. BLK_COUNT - 1
  <2> SUFFICES ASSUME NEW x \in places PROVE Nth(table[t], x) \in 1 .. BLK_COUNT - 1
    OBVIOUS
  <2>1. x \div B \in TableIdx /\ x % B \in TableIdx
    BY <1>2
  <2>2. table[t][x \div B] \in BlockNo
    BY <2>1 DEF Ownership, TypeOK
  <2>3. Nth(table[t], x) \in BlockNo /\ Nth(table[t], x) # BAD_BLOCK
    BY <2>1, <2>2 DEF Ownership, TypeOK, FullTable, Nth
  <2> QED  BY <2>3 DEF BlockNo, BAD_BLOCK
<1>4. \A x, y \in places : f[x] = f[y] => x = y
  <2> SUFFICES ASSUME NEW x \in places, NEW y \in places,
                      Nth(table[t], x) = Nth(table[t], y)
               PROVE  x = y
    OBVIOUS
  <2> DEFINE i == x \div B
             k == y \div B
  <2>1. i \in TableIdx /\ x % B \in TableIdx /\ k \in TableIdx /\ y % B \in TableIdx
    BY <1>2
  <2>2. table[t][i] \in BlockNo /\ table[t][k] \in BlockNo
    BY <2>1 DEF Ownership, TypeOK
  <2>3. table[table[t][i]][x % B] # BAD_BLOCK /\ table[t][i] # BAD_BLOCK
    BY <2>1 DEF FullTable
  <2>4. table[t][i] = table[t][k] /\ x % B = y % B
    <3>1. table[table[t][i]][x % B] = table[table[t][k]][y % B]
      BY DEF Nth
    <3> HIDE DEF i, k, B
    <3> QED  BY <2>1, <2>2, <2>3, <3>1 DEF Ownership, BlocksOwnedOnce
  <2>5. i = k
    <3> HIDE DEF i, k
    <3> QED  BY <2>1, <2>3, <2>4 DEF Ownership, BlocksOwnedOnce
  <2>6. x = i * B + (x % B) /\ y = k * B + (y % B)
    <3>1. x \in Nat /\ y \in Nat
      BY <1>1
    <3> QED  BY <1>1, <3>1, Euclid
  <2> QED  BY <2>4, <2>5, <2>6
<1>5. Cardinality(places) = B * B /\ IsFiniteSet(places)
  BY <1>1, FS_Interval
<1>6. Cardinality(1 .. BLK_COUNT - 1) = BLK_COUNT - 1 /\ IsFiniteSet(1 .. BLK_COUNT - 1)
  BY <1>1, FS_Interval
<1>7. f \in [places -> 1 .. BLK_COUNT - 1]
  BY <1>3
<1> HIDE DEF f, places
<1>8. \E x, y \in places : x # y /\ f[x] = f[y]
  BY <1>1, <1>5, <1>6, <1>7, FS_PigeonHole
<1> QED  BY <1>4, <1>8

LEMMA ScanEnds == ASSUME Ownership PROVE ScanStaysInTable
<1> SUFFICES ASSUME Running("indirect2"), blk_no[Ino][INDIRECT2] # BAD_BLOCK
             PROVE  \E i \in TableIdx : ScanAt(i)
  BY DEF ScanStaysInTable
<1> DEFINE t == blk_no[Ino][INDIRECT2]
           room == {i \in TableIdx : ~ FullTable(table[t][i])}
<1>1. t \in BlockNo
  <2>1. Ino \in INodeNo
    BY CurType DEF Running, Ownership
  <2> QED  BY <2>1, Sorts DEF Ownership, TypeOK
<1>2. room # {}
  <2> HIDE DEF t
  <2> QED  BY <1>1, SomeTableHasRoom DEF t
<1>3. room \subseteq Nat
  BY Sorts DEF TableIdx
<1> HIDE DEF room
<1>4. PICK i \in room : \A l \in room : i <= l
  BY <1>2, <1>3, LeastOf
<1>5. i \in TableIdx /\ ~ FullTable(table[t][i])
  BY <1>4 DEF room
<1>6. \A l \in 0 .. i - 1 : FullTable(table[t][l])
  <2> SUFFICES ASSUME NEW l \in 0 .. i - 1 PROVE FullTable(table[t][l])
    OBVIOUS
  <2>1. l \in TableIdx /\ ~ (i <= l)
    BY <1>5, Sorts DEF TableIdx
  <2> QED  BY <1>4, <2>1 DEF room
<1> QED  BY <1>5, <1>6 DEF ScanAt

(* The scan of the double-indirect blocks, a loop without a bound, always  *)
(* meets a table with room: the image is too small for a full row of full  *)
(* tables.                                                                 *)
THEOREM ScanNeverOverruns == Spec => []ScanStaysInTable
<1>1. Ownership => ScanStaysInTable
  BY ScanEnds
<1> QED  BY <1>1, OwnershipHolds, PTL

----------------------------------------------------------------------------
(* The blocks of an inode, by number.                                      *)

BlockAt(n, k) ==
  LET p == k - DIRECT_BLK_COUNT - BLKNO_PER_BLK
  IN  IF k < DIRECT_BLK_COUNT THEN blk_no[n][k]
      ELSE IF p < 0 THEN table[blk_no[n][INDIRECT]][k - DIRECT_BLK_COUNT]
      ELSE table[table[blk_no[n][INDIRECT2]][p \div BLKNO_PER_BLK]]
                                            [p % BLKNO_PER_BLK]

(* Every direct, indirect, double-indirect pointer up to block k is set.   *)
DirectTo(n, k) ==
  \A l \in 0 .. DIRECT_BLK_COUNT - 1 : l <= k => blk_no[n][l] # BAD_BLOCK
IndirectTo(n, k) ==
  \A j \in TableIdx :
    DIRECT_BLK_COUNT + j <= k => table[blk_no[n][INDIRECT]][j] # BAD_BLOCK
DoubleTo(n, k) ==
  \A i, j \in TableIdx :
    DIRECT_BLK_COUNT + BLKNO_PER_BLK + (i * BLKNO_PER_BLK + j) <= k
      => table[table[blk_no[n][INDIRECT2]][i]][j] # BAD_BLOCK
MaxBlocks == DIRECT_BLK_COUNT + BLKNO_PER_BLK + BLKNO_PER_BLK * BLKNO_PER_BLK
HasBlocks(n, k) ==
  DirectTo(n, k) /\ IndirectTo(n, k) /\ DoubleTo(n, k) /\ k < MaxBlocks

(* The comparisons of get_blkno, in blocks.                                *)
LEMMA InBlocks ==
  ASSUME NEW off \in Nat
  PROVE  LET K == off \div BLK_SIZE
             D == DIRECT_BLK_COUNT
             B == BLKNO_PER_BLK
             off1 == off - BLK_SIZE * D
             off2 == off1 - BLK_SIZE * B
         IN  /\ K \in Nat
             /\ \A k \in Nat : k * BLK_SIZE <= off <=> k <= K
             /\ \A j \in Nat : j * BLK_SIZE <= off1 <=> D + j <= K
             /\ off1 < 0 <=> K < D
             /\ off2 < 0 <=> K < D + B
             /\ \A i, j \in Nat :
                  i * B * BLK_SIZE + j * BLK_SIZE > off2 <=> K < D + B + (i * B + j)
<1> DEFINE S == BLK_SIZE
           D == DIRECT_BLK_COUNT
           B == BLKNO_PER_BLK
           K == off \div S
<1>1. S \in Nat \ {0} /\ D \in Nat \ {0} /\ B \in Nat \ {0}
  BY Sorts
<1>2. K \in Nat
  BY <1>1, DivMod
<1>3. \A k \in Nat : k * S <= off <=> k <= K
  BY <1>1, DivLeq
<1> HIDE DEF S, D, B, K
<1>4. \A j \in Nat : j * S <= off - S * D <=> D + j <= K
  <2> SUFFICES ASSUME NEW j \in Nat PROVE j * S <= off - S * D <=> D + j <= K
    OBVIOUS
  <2>1. (D + j) * S = S * D + j * S /\ D + j \in Nat
    BY <1>1
  <2> QED  BY <1>1, <1>3, <2>1
<1>5. off - S * D < 0 <=> K < D
  <2>1. 0 * S = 0 /\ D + 0 = D
    BY <1>1
  <2> QED  BY <1>1, <1>2, <1>4, <2>1
<1>6. off - S * D - S * B < 0 <=> K < D + B
  <2>1. B * S = S * B
    BY <1>1
  <2> QED  BY <1>1, <1>2, <1>4, <2>1
<1>7. \A i, j \in Nat :
        i * B * S + j * S > off - S * D - S * B <=> K < D + B + (i * B + j)
  <2> SUFFICES ASSUME NEW i \in Nat, NEW j \in Nat
               PROVE  i * B * S + j * S > off - S * D - S * B
                        <=> K < D + B + (i * B + j)
    OBVIOUS
  <2> DEFINE p == i * B + j
  <2>1. p \in Nat /\ i * B \in Nat
    BY <1>1
  <2>2. (B + p) * S = S * B + p * S
    <3> HIDE DEF p
    <3> QED  BY <1>1, <2>1
  <2>3. p * S = i * B * S + j * S
    BY <1>1, <2>1
  <2>4. (B + p) * S <= off - S * D <=> D + (B + p) <= K
    <3> HIDE DEF p
    <3> QED  BY <1>1, <1>4, <2>1
  <2> HIDE DEF p
  <2>5. p * S \in Nat /\ S * D \in Nat /\ S * B \in Nat
    BY <1>1, <2>1
  <2>6. p * S > off - S * D - S * B <=> K < D + B + p
    BY <1>1, <1>2, <2>1, <2>2, <2>4, <2>5
  <2> QED  BY <2>3, <2>6 DEF p
<1> QED  BY <1>2, <1>3, <1>4, <1>5, <1>6, <1>7 DEF S, D, B, K

(* Behind a block number of the double-indirect range are its two indices. *)
LEMMA TwoIndices ==
  ASSUME NEW k \in Nat, k < MaxBlocks, k >= DIRECT_BLK_COUNT + BLKNO_PER_BLK
  PROVE  LET p == k - DIRECT_BLK_COUNT - BLKNO_PER_BLK
         IN  /\ p \div BLKNO_PER_BLK \in TableIdx /\ p % BLKNO_PER_BLK \in TableIdx
             /\ p \in Nat
             /\ p = (p \div BLKNO_PER_BLK) * BLKNO_PER_BLK + (p % BLKNO_PER_BLK)
<1> DEFINE B == BLKNO_PER_BLK
           p == k - DIRECT_BLK_COUNT - B
<1>1. B \in Nat \ {0} /\ DIRECT_BLK_COUNT \in Nat /\ B * B \in Nat
  BY Sorts
<1>2. p \in Nat /\ ~ (B * B <= p)
  BY <1>1 DEF MaxBlocks
<1> HIDE DEF p
<1>3. /\ p \div B \in Nat /\ p % B \in 0 .. B - 1
      /\ p = (p \div B) * B + (p % B)
  BY <1>1, <1>2, Euclid
<1>4. ~ (B <= p \div B)
  BY <1>1, <1>2, DivLeq
<1>5. p \div B \in 0 .. B - 1
  BY <1>1, <1>3, <1>4
<1> QED  BY <1>2, <1>3, <1>5 DEF TableIdx, p

LEMMA BlockThere ==
  ASSUME Ownership, NEW n \in INodeNo, NEW k \in Nat, HasBlocks(n, k),
         NEW l \in 0 .. k
  PROVE  BlockAt(n, l) \in BlockNo /\ Usable(BlockAt(n, l))
<1> DEFINE D == DIRECT_BLK_COUNT
           B == BLKNO_PER_BLK
           p == l - D - B
<1>1. D \in Nat \ {0} /\ B \in Nat \ {0} /\ l \in Nat
  BY Sorts
<1>2. blk_no[n] \in [PtrIdx -> BlockNo] /\ table \in [BlockNo -> [TableIdx -> BlockNo]]
  BY DEF Ownership, TypeOK
<1>3. \A t \in BlockNo, j \in TableIdx :
        table[t][j] # BAD_BLOCK => table[t][j] \in BlockNo /\ Usable(table[t][j])
  BY <1>2 DEF Ownership, PointersAllocated, Usable
<1>4. CASE l < D
  <2>1. BlockAt(n, l) = blk_no[n][l] /\ l \in PtrIdx
    BY <1>1, <1>4, Sorts DEF BlockAt
  <2>2. blk_no[n][l] # BAD_BLOCK
    BY <1>1, <1>4 DEF HasBlocks, DirectTo
  <2> QED  BY <1>2, <2>1, <2>2 DEF Ownership, PointersAllocated, Usable
<1>5. CASE D <= l /\ l < D + B
  <2>1. BlockAt(n, l) = table[blk_no[n][INDIRECT]][l - D] /\ l - D \in TableIdx
    BY <1>1, <1>5 DEF BlockAt, TableIdx
  <2>2. table[blk_no[n][INDIRECT]][l - D] # BAD_BLOCK
    <3>1. D + (l - D) <= k
      BY <1>1
    <3> QED  BY <2>1, <3>1 DEF HasBlocks, IndirectTo
  <2>3. blk_no[n][INDIRECT] \in BlockNo
    BY <1>2, Sorts
  <2> QED  BY <1>3, <2>1, <2>2, <2>3
<1>6. CASE D + B <= l
  <2> DEFINE i == p \div B
             j == p % B
  <2>1. l < MaxBlocks
    <3>1. k < MaxBlocks /\ MaxBlocks \in Nat
      BY <1>1 DEF HasBlocks, MaxBlocks
    <3> QED  BY <1>1, <3>1
  <2>2. i \in TableIdx /\ j \in TableIdx /\ p \in Nat /\ p = i * B + j
    BY <1>1, <1>6, <2>1, TwoIndices
  <2>3. BlockAt(n, l) = table[table[blk_no[n][INDIRECT2]][i]][j]
    BY <1>1, <1>6 DEF BlockAt
  <2>4. D + B + (i * B + j) <= k
    <3>1. D + B + p <= k
      BY <1>1
    <3> HIDE DEF p, i, j
    <3> QED  BY <2>2, <3>1
  <2> HIDE DEF i, j, p
  <2>5. table[table[blk_no[n][INDIRECT2]][i]][j] # BAD_BLOCK
    BY <2>2, <2>4 DEF HasBlocks, DoubleTo
  <2>6. table[blk_no[n][INDIRECT2]][i] \in BlockNo
    BY <1>2, <2>2, Sorts
  <2> QED  BY <1>3, <2>2, <2>3, <2>5, <2>6
<1> QED  BY <1>1, <1>4, <1>5, <1>6

----------------------------------------------------------------------------
(* The invariant: where get_blkno has come to.                             *)

(* No block of pointers has the number BAD_BLOCK.                          *)
NullTable == \A j \in TableIdx : table[BAD_BLOCK][j] = BAD_BLOCK

(* Entries are added to directories only, and make_fs is in directories.   *)
DirsAreDirs ==
  /\ \A i \in 1 .. Len(todo) :
       todo[i].op = "add_dentry" => inode[todo[i].ino].f_type = "DIR"
  /\ \A i \in 1 .. Len(stack) : inode[stack[i].dir].f_type = "DIR"

(* The number of the block that get_blkno(Off, true) is to make.           *)
Target == Off \div BLK_SIZE

(* Each loop of get_blkno starts when the one before it is through.        *)
Walk ==
  stage # "idle" =>
    /\ todo # << >> /\ Off <= inode[Ino].f_size
    /\ stage # "direct" => DirectTo(Ino, Target)
    /\ stage = "indirect" => DIRECT_BLK_COUNT <= Target
    /\ stage = "indirect2" =>
         DIRECT_BLK_COUNT + BLKNO_PER_BLK <= Target /\ IndirectTo(Ino, Target)
    /\ stage = "ready" => HasBlocks(Ino, Target)

BlockWalk == Ownership /\ NullTable /\ DirsAreDirs /\ Walk

----------------------------------------------------------------------------
(* A step that takes a block: one pointer, BAD_BLOCK before, names it.     *)

NewBlock(b) ==
  /\ b \in BlockNo \ fs_block_bitmap /\ b # BAD_BLOCK
  /\ fs_block_bitmap' = fs_block_bitmap \cup {b}
  /\ dentry' = [dentry EXCEPT ![b] = ZeroDEntries]
  /\ content' = [content EXCEPT ![b] = ZeroData]
  /\ UNCHANGED <<inode_bitmap, inode, todo, stack, status>>

INodePointer(n, k, b) ==
  /\ NewBlock(b)
  /\ \A m \in INodeNo, l \in PtrIdx :
       blk_no'[m][l] = IF m = n /\ l = k THEN b ELSE blk_no[m][l]
  /\ \A c \in BlockNo, j \in TableIdx : table'[c][j] = table[c][j]

TablePointer(t, j, b) ==
  /\ NewBlock(b) /\ t # b
  /\ blk_no' = blk_no
  /\ \A c \in BlockNo, i \in TableIdx :
       table'[c][i] = IF c = t /\ i = j THEN b ELSE table[c][i]

LEMMA FilledINode ==
  ASSUME Ownership, NEW n \in INodeNo, NEW k \in PtrIdx, FillINode(n, k)
  PROVE  \/ BitmapFull
         \/ stage' = stage /\ \E b \in BlockNo : INodePointer(n, k, b)
<1> SUFFICES ASSUME ~ BitmapFull
             PROVE  stage' = stage /\ \E b \in BlockNo : INodePointer(n, k, b)
  OBVIOUS
<1>1. PICK b \in BlockNo :
        /\ AllocBlk(b)
        /\ blk_no' = [blk_no EXCEPT ![n][k] = b]
        /\ table' = [table EXCEPT ![b] = ZeroTable]
        /\ UNCHANGED <<inode_bitmap, inode, todo, stage, stack, status>>
  BY DEF FillINode
<1>2. b \notin fs_block_bitmap /\ b # BAD_BLOCK /\ \A j \in TableIdx : table[b][j] = BAD_BLOCK
  BY <1>1, FreshBlock
<1>3. NewBlock(b)
  BY <1>1, <1>2 DEF NewBlock, AllocBlk
<1>4. \A c \in BlockNo, j \in TableIdx : table'[c][j] = table[c][j]
  BY <1>1, <1>2 DEF ZeroTable, Ownership, TypeOK
<1>5. \A m \in INodeNo, l \in PtrIdx :
        blk_no'[m][l] = IF m = n /\ l = k THEN b ELSE blk_no[m][l]
  BY <1>1 DEF Ownership, TypeOK
<1> QED  BY <1>1, <1>3, <1>4, <1>5 DEF INodePointer

LEMMA FilledTable ==
  ASSUME Ownership, NEW t \in BlockNo, t \in fs_block_bitmap, NEW j \in TableIdx,
         NEW next, FillTable(t, j, next)
  PROVE  \/ BitmapFull
         \/ stage' = next /\ \E b \in BlockNo : TablePointer(t, j, b)
<1> SUFFICES ASSUME ~ BitmapFull
             PROVE  stage' = next /\ \E b \in BlockNo : TablePointer(t, j, b)
  OBVIOUS
<1>1. PICK b \in BlockNo :
        /\ AllocBlk(b)
        /\ table' = [table EXCEPT ![b] = ZeroTable, ![t][j] = b]
        /\ stage' = next
        /\ UNCHANGED <<blk_no, inode_bitmap, inode, todo, stack, status>>
  BY DEF FillTable
<1>2. b \notin fs_block_bitmap /\ b # BAD_BLOCK /\ \A i \in TableIdx : table[b][i] = BAD_BLOCK
  BY <1>1, FreshBlock
<1>3. NewBlock(b) /\ t # b
  BY <1>1, <1>2 DEF NewBlock, AllocBlk
<1>4. \A c \in BlockNo, i \in TableIdx :
        table'[c][i] = IF c = t /\ i = j THEN b ELSE table[c][i]
  BY <1>1, <1>2, <1>3 DEF ZeroTable, Ownership, TypeOK
<1> QED  BY <1>1, <1>3, <1>4 DEF TablePointer

(* Pointers once set stay.                                                 *)
Grows ==
  /\ \A n \in INodeNo, k \in PtrIdx : blk_no[n][k] # BAD_BLOCK => blk_no'[n][k] = blk_no[n][k]
  /\ \A t \in BlockNo, j \in TableIdx : table[t][j] # BAD_BLOCK => table'[t][j] = table[t][j]

LEMMA SameTarget ==
  ASSUME UNCHANGED todo
  PROVE  UNCHANGED <<Cur, Ino, Off, Target>>
BY DEF Cur, Ino, Off, Target

LEMMA FilledStays ==
  ASSUME Ownership, NullTable, Grows, UNCHANGED todo, Ino \in INodeNo
  PROVE  /\ DirectTo(Ino, Target) => DirectTo(Ino, Target)'
         /\ IndirectTo(Ino, Target) => IndirectTo(Ino, Target)'
<1>1. UNCHANGED <<Ino, Target>>
  BY SameTarget
<1>2. \A k \in 0 .. DIRECT_BLK_COUNT - 1 : k \in PtrIdx
  BY Sorts
<1>3. DirectTo(Ino, Target) => DirectTo(Ino, Target)'
  BY <1>1, <1>2 DEF DirectTo, Grows
<1>4. ASSUME NEW j \in TableIdx, table[blk_no[Ino][INDIRECT]][j] # BAD_BLOCK
      PROVE  table'[blk_no'[Ino'][INDIRECT]][j] # BAD_BLOCK
  <2>1. blk_no[Ino][INDIRECT] # BAD_BLOCK
    BY <1>4 DEF NullTable
  <2>2. blk_no[Ino][INDIRECT] \in BlockNo
    BY Sorts DEF Ownership, TypeOK
  <2> QED  BY <1>1, <1>4, <2>1, <2>2, Sorts DEF Grows
<1>5. IndirectTo(Ino, Target) => IndirectTo(Ino, Target)'
  BY <1>1, <1>4 DEF IndirectTo
<1> QED  BY <1>3, <1>5

----------------------------------------------------------------------------
(* The steps of get_blkno.                                                 *)

(* The inode and the pointer blocks get_blkno works on are in the image.   *)
LEMMA WalkTypes ==
  ASSUME Ownership, todo # << >>
  PROVE  /\ Ino \in INodeNo /\ Ino \in inode_bitmap /\ Off \in Nat /\ Target \in Nat
         /\ blk_no[Ino][INDIRECT] \in BlockNo /\ blk_no[Ino][INDIRECT2] \in BlockNo
         /\ \A k \in PtrIdx : blk_no[Ino][k] # BAD_BLOCK => blk_no[Ino][k] \in fs_block_bitmap
<1>1. TypeOK
  BY DEF Ownership
<1>2. Ino \in INodeNo /\ Off \in Nat
  BY <1>1, CurType
<1>3. Target \in Nat
  BY <1>2, DivMod, Sorts DEF Target
<1>4. Ino \in inode_bitmap
  <2>1. 1 \in 1 .. Len(todo) /\ Cur = todo[1]
    BY <1>1 DEF TypeOK, Cur
  <2> QED  BY <2>1 DEF Ownership, INodesInUse, Ino
<1>5. blk_no[Ino][INDIRECT] \in BlockNo /\ blk_no[Ino][INDIRECT2] \in BlockNo
  BY <1>1, <1>2, Sorts DEF TypeOK
<1>6. \A k \in PtrIdx : blk_no[Ino][k] # BAD_BLOCK => blk_no[Ino][k] \in fs_block_bitmap
  BY <1>2 DEF Ownership, PointersAllocated, Allocated
<1> QED  BY <1>2, <1>3, <1>4, <1>5, <1>6

LEMMA SameDirs ==
  ASSUME DirsAreDirs, UNCHANGED <<inode, todo, stack>>
  PROVE  DirsAreDirs'
BY DEF DirsAreDirs

LEMMA HaltWalk ==
  ASSUME BlockWalk, NEW how \in Ends, Halt(how) PROVE BlockWalk'
<1>1. Ownership'
  BY HaltOwnership DEF BlockWalk
<1>2. UNCHANGED <<Ino, Off, Target>>
  BY SameTarget DEF Halt
<1>3. NullTable' /\ DirsAreDirs'
  BY SameDirs DEF BlockWalk, NullTable, Halt, alloc_vars
<1>4. Walk'
  BY <1>2 DEF BlockWalk, Walk, DirectTo, IndirectTo, DoubleTo, HasBlocks, Halt, alloc_vars
<1> QED  BY <1>1, <1>3, <1>4 DEF BlockWalk

(* A pointer of the inode, set in the course of a loop that goes on.       *)
LEMMA INodePointerWalk ==
  ASSUME BlockWalk, Ownership', NEW n \in INodeNo, NEW k \in PtrIdx, NEW b \in BlockNo,
         blk_no[n][k] = BAD_BLOCK, INodePointer(n, k, b),
         todo # << >>, stage' = stage, stage # "ready"
  PROVE  BlockWalk'
<1>1. Grows
  BY DEF Grows, INodePointer
<1>2. NullTable' /\ DirsAreDirs'
  BY SameDirs, Sorts DEF BlockWalk, NullTable, INodePointer, NewBlock
<1>3. UNCHANGED <<todo, inode, Ino, Off, Target>>
  BY SameTarget DEF INodePointer, NewBlock
<1>4. /\ DirectTo(Ino, Target) => DirectTo(Ino, Target)'
      /\ IndirectTo(Ino, Target) => IndirectTo(Ino, Target)'
  BY <1>1, <1>3, FilledStays, WalkTypes DEF BlockWalk
<1>5. Walk'
  BY <1>3, <1>4 DEF BlockWalk, Walk
<1> QED  BY <1>2, <1>5 DEF BlockWalk

LEMMA TablePointerWalk ==
  ASSUME BlockWalk, Ownership', NEW t \in BlockNo, NEW j \in TableIdx, NEW b \in BlockNo,
         table[t][j] = BAD_BLOCK, TablePointer(t, j, b), t # BAD_BLOCK,
         todo # << >>, stage' = stage, stage # "ready"
  PROVE  BlockWalk'
<1>1. Grows
  BY DEF Grows, TablePointer
<1>2. NullTable' /\ DirsAreDirs'
  BY SameDirs, Sorts DEF BlockWalk, NullTable, TablePointer, NewBlock
<1>3. UNCHANGED <<todo, inode, Ino, Off, Target>>
  BY SameTarget DEF TablePointer, NewBlock
<1>4. /\ DirectTo(Ino, Target) => DirectTo(Ino, Target)'
      /\ IndirectTo(Ino, Target) => IndirectTo(Ino, Target)'
  BY <1>1, <1>3, FilledStays, WalkTypes DEF BlockWalk
<1>5. Walk'
  BY <1>3, <1>4 DEF BlockWalk, Walk
<1> QED  BY <1>2, <1>5 DEF BlockWalk

LEMMA INodesKnown ==
  ASSUME TypeOK
  PROVE  /\ \A i \in 1 .. Len(todo) : todo[i] \in Call /\ todo[i].ino \in INodeNo
         /\ \A i \in 1 .. Len(stack) : stack[i] \in Frame /\ stack[i].dir \in INodeNo
<1>1. todo \in Seq(Call) /\ stack \in Seq(Frame)
  BY DEF TypeOK
<1>2. \A i \in 1 .. Len(todo) : todo[i] \in Call
  BY <1>1, ElementOfSeq
<1>3. \A i \in 1 .. Len(stack) : stack[i] \in Frame
  BY <1>1, ElementOfSeq
<1>4. \A c \in Call : c.ino \in INodeNo
  BY DEF Call
<1>5. \A c \in Frame : c.dir \in INodeNo
  BY DEF Frame
<1> QED  BY <1>2, <1>3, <1>4, <1>5

LEMMA CallGetBlknoWalk == ASSUME BlockWalk, CallGetBlkno PROVE BlockWalk'
<1>1. TypeOK /\ Ownership /\ todo # << >> /\ stage = "idle"
  BY DEF BlockWalk, Ownership, CallGetBlkno, Running
<1>2. Ownership'
  BY <1>1, GetBlknoStepOwnership DEF GetBlknoStep
<1>3. Ino \in INodeNo /\ Off \in Nat
  BY <1>1, WalkTypes
<1>4. inode \in [INodeNo -> INode] /\ inode[Ino].f_size \in Nat
  BY <1>1, <1>3 DEF TypeOK, INode
<1>5. NullTable'
  BY DEF BlockWalk, NullTable, CallGetBlkno, alloc_vars
<1>6. \A n \in INodeNo : inode'[n].f_type = inode[n].f_type
  BY <1>3, <1>4 DEF CallGetBlkno, INode
<1>7. CASE Cur.op = "expand" /\ Off < inode[Ino].f_size
  <2>1. todo' = Tail(todo) /\ stage' = "idle" /\ UNCHANGED <<inode, stack>>
    BY <1>1, <1>7 DEF CallGetBlkno
  <2>2. \A i \in 1 .. Len(Tail(todo)) : Tail(todo)[i] = todo[i + 1] /\ i + 1 \in 1 .. Len(todo)
    BY <1>1, HeadTailProperties, LenProperties DEF TypeOK
  <2>3. DirsAreDirs'
    BY <2>1, <2>2 DEF BlockWalk, DirsAreDirs
  <2>4. Walk'
    BY <2>1 DEF Walk
  <2> QED  BY <1>2, <1>5, <2>3, <2>4 DEF BlockWalk
<1>8. CASE ~ (Cur.op = "expand" /\ Off < inode[Ino].f_size)
  <2>1. /\ inode' = [inode EXCEPT ![Ino].f_size = IF @ < Off THEN Off ELSE @]
        /\ stage' = "direct" /\ UNCHANGED <<todo, stack>>
    BY <1>1, <1>8 DEF CallGetBlkno
  <2>2. UNCHANGED <<Ino, Off>>
    BY <2>1, SameTarget
  <2>3. Off <= inode'[Ino].f_size
    BY <1>3, <1>4, <2>1 DEF INode
  <2>4. DirsAreDirs'
    BY <1>1, <1>6, <2>1, INodesKnown DEF BlockWalk, DirsAreDirs
  <2>5. Walk'
    BY <1>1, <2>1, <2>2, <2>3 DEF Walk
  <2> QED  BY <1>2, <1>5, <2>4, <2>5 DEF BlockWalk
<1> QED  BY <1>7, <1>8

(* A loop of get_blkno is through, and nothing is written.                 *)
LEMMA ProceedWalk ==
  ASSUME BlockWalk, todo # << >>, stage # "idle", NEW next \in Stages \ {"idle"},
         Proceed(next), Ownership', DirectTo(Ino, Target),
         next = "indirect" => DIRECT_BLK_COUNT <= Target,
         next = "indirect2" =>
           DIRECT_BLK_COUNT + BLKNO_PER_BLK <= Target /\ IndirectTo(Ino, Target),
         next = "ready" => HasBlocks(Ino, Target)
  PROVE  BlockWalk'
<1>1. stage' = next /\ UNCHANGED <<blk_no, table, inode, todo, stack>>
  BY DEF Proceed, alloc_vars
<1>2. UNCHANGED <<Ino, Off, Target>>
  BY <1>1, SameTarget
<1>3. NullTable' /\ DirsAreDirs'
  BY <1>1, SameDirs DEF BlockWalk, NullTable
<1>4. /\ DirectTo(Ino, Target)'
      /\ IndirectTo(Ino, Target) => IndirectTo(Ino, Target)'
      /\ HasBlocks(Ino, Target) => HasBlocks(Ino, Target)'
  BY <1>1, <1>2 DEF DirectTo, IndirectTo, DoubleTo, HasBlocks
<1>5. Walk'
  BY <1>1, <1>2, <1>4 DEF BlockWalk, Walk
<1> QED  BY <1>3, <1>5 DEF BlockWalk

LEMMA DirectDoneWalk == ASSUME BlockWalk, DirectDone PROVE BlockWalk'
<1> DEFINE D == DIRECT_BLK_COUNT
           B == BLKNO_PER_BLK
<1>1. Ownership /\ todo # << >> /\ stage = "direct"
  BY DEF BlockWalk, DirectDone, Running
<1>2. Ownership'
  BY <1>1, GetBlknoStepOwnership DEF GetBlknoStep
<1>3. Off \in Nat /\ Target \in Nat
  BY <1>1, WalkTypes
<1>4. D \in Nat \ {0} /\ B \in Nat \ {0} /\ B * B \in Nat
  BY Sorts
<1>5. Off1 < 0 <=> Target < D
  BY <1>3, InBlocks DEF Off1, Target
<1>6. DirectTo(Ino, Target)
  <2>1. \A k \in Nat : k * BLK_SIZE <= Off <=> k <= Target
    BY <1>3, InBlocks DEF Target
  <2> QED  BY <2>1 DEF DirectTo, DirectDone
<1>7. Target < D => HasBlocks(Ino, Target)
  <2> SUFFICES ASSUME Target < D PROVE HasBlocks(Ino, Target)
    OBVIOUS
  <2>1. \A i, j \in TableIdx : i * B + j \in Nat
    BY <1>4 DEF TableIdx
  <2>2. IndirectTo(Ino, Target) /\ DoubleTo(Ino, Target)
    BY <1>3, <1>4, <2>1 DEF IndirectTo, DoubleTo, TableIdx
  <2>3. Target < MaxBlocks
    BY <1>3, <1>4 DEF MaxBlocks
  <2> QED  BY <1>6, <2>2, <2>3 DEF HasBlocks
<1>8. CASE Off1 < 0
  <2>1. Proceed("ready")
    BY <1>8 DEF DirectDone
  <2> QED  BY <1>1, <1>2, <1>5, <1>6, <1>7, <1>8, <2>1, ProceedWalk DEF Stages
<1>9. CASE ~ (Off1 < 0)
  <2>1. Proceed("indirect")
    BY <1>9 DEF DirectDone
  <2>2. D <= Target
    BY <1>3, <1>4, <1>5, <1>9
  <2> QED  BY <1>1, <1>2, <1>6, <2>1, <2>2, ProceedWalk DEF Stages
<1> QED  BY <1>8, <1>9

LEMMA IndirectDoneWalk == ASSUME BlockWalk, IndirectDone PROVE BlockWalk'
<1> DEFINE D == DIRECT_BLK_COUNT
           B == BLKNO_PER_BLK
<1>1. Ownership /\ todo # << >> /\ stage = "indirect" /\ DirectTo(Ino, Target)
  BY DEF BlockWalk, Walk, IndirectDone, Running
<1>2. Ownership'
  BY <1>1, GetBlknoStepOwnership DEF GetBlknoStep
<1>3. Off \in Nat /\ Target \in Nat
  BY <1>1, WalkTypes
<1>4. D \in Nat \ {0} /\ B \in Nat \ {0} /\ B * B \in Nat
  BY Sorts
<1>5. Off2 < 0 <=> Target < D + B
  BY <1>3, InBlocks DEF Off1, Off2, Target
<1>6. IndirectTo(Ino, Target)
  <2>1. \A j \in Nat : j * BLK_SIZE <= Off1 <=> D + j <= Target
    BY <1>3, InBlocks DEF Off1, Target
  <2> QED  BY <2>1 DEF IndirectTo, IndirectDone, TableIdx
<1>7. Target < D + B => HasBlocks(Ino, Target)
  <2> SUFFICES ASSUME Target < D + B PROVE HasBlocks(Ino, Target)
    OBVIOUS
  <2>1. \A i, j \in TableIdx : i * B + j \in Nat
    BY <1>4 DEF TableIdx
  <2>2. DoubleTo(Ino, Target)
    BY <1>3, <1>4, <2>1 DEF DoubleTo
  <2>3. Target < MaxBlocks
    BY <1>3, <1>4 DEF MaxBlocks
  <2> QED  BY <1>1, <1>6, <2>2, <2>3 DEF HasBlocks
<1>8. CASE Off2 < 0
  <2>1. Proceed("ready")
    BY <1>8 DEF IndirectDone
  <2> QED  BY <1>1, <1>2, <1>5, <1>7, <1>8, <2>1, ProceedWalk DEF Stages
<1>9. CASE ~ (Off2 < 0)
  <2>1. Proceed("indirect2")
    BY <1>9 DEF IndirectDone
  <2>2. D + B <= Target
    BY <1>3, <1>4, <1>5, <1>9
  <2> QED  BY <1>1, <1>2, <1>6, <2>1, <2>2, ProceedWalk DEF Stages
<1> QED  BY <1>8, <1>9

(* The table entry at which the double-indirect scan ends lies beyond the  *)
(* block wanted, and every entry before it is set.                         *)
LEMMA AllocTableEntryWalk == ASSUME BlockWalk, AllocTableEntry PROVE BlockWalk'
<1> DEFINE D == DIRECT_BLK_COUNT
           B == BLKNO_PER_BLK
           t == blk_no[Ino][INDIRECT2]
<1>1. /\ Ownership /\ TypeOK /\ todo # << >> /\ stage = "indirect2"
      /\ DirectTo(Ino, Target) /\ IndirectTo(Ino, Target)
  BY DEF BlockWalk, Ownership, Walk, AllocTableEntry, Running
<1>2. Ownership'
  BY <1>1, GetBlknoStepOwnership DEF GetBlknoStep
<1>3. /\ Ino \in INodeNo /\ Off \in Nat /\ Target \in Nat /\ t \in BlockNo
      /\ t # BAD_BLOCK
  BY <1>1, WalkTypes DEF AllocTableEntry
<1>4. D \in Nat \ {0} /\ B \in Nat \ {0} /\ B * B \in Nat
  BY Sorts
<1>5. PICK i \in TableIdx, j \in TableIdx :
        /\ ScanAt(i) /\ table[t][i] # BAD_BLOCK
        /\ FirstBad(table[table[t][i]], j)
        /\ FillTable(table[t][i], j, IF ScanStop(i, j) THEN "ready" ELSE "indirect2")
  BY DEF AllocTableEntry
<1> DEFINE u == table[t][i]
           next == IF ScanStop(i, j) THEN "ready" ELSE "indirect2"
<1> HIDE DEF t
<1>6. u \in BlockNo /\ u \in fs_block_bitmap /\ u # BAD_BLOCK /\ table[u][j] = BAD_BLOCK
  <2>1. u \in BlockNo
    BY <1>1, <1>3 DEF TypeOK
  <2> QED  BY <1>1, <1>3, <1>5, <2>1 DEF Ownership, PointersAllocated, Allocated, FirstBad
<1>7. CASE BitmapFull
  BY <1>7, HaltWalk DEF BitmapFull, Ends
<1>8. CASE ~ BitmapFull
  <2>1. FillTable(u, j, next)
    BY <1>5
  <2> HIDE DEF u, next
  <2>2. PICK b \in BlockNo : TablePointer(u, j, b)
    BY <1>1, <1>6, <1>8, <2>1, FilledTable
  <2>3. stage' = next
    BY <1>1, <1>6, <1>8, <2>1, FilledTable
  <2>4. CASE ~ ScanStop(i, j)
    <3>1. stage' = stage
      BY <1>1, <2>3, <2>4 DEF next
    <3> QED  BY <1>1, <1>2, <1>6, <2>2, <3>1, TablePointerWalk
  <2>5. CASE ScanStop(i, j)
    <3>1. Grows
      BY <1>6, <2>2 DEF Grows, TablePointer
    <3>2. NullTable' /\ DirsAreDirs'
      BY <1>6, <2>2, SameDirs, Sorts DEF BlockWalk, NullTable, TablePointer, NewBlock
    <3>3. UNCHANGED <<todo, inode, blk_no, Ino, Off, Target>>
      BY <2>2, SameTarget DEF TablePointer, NewBlock
    <3>4. DirectTo(Ino, Target)' /\ IndirectTo(Ino, Target)'
      BY <1>1, <1>3, <3>1, <3>3, FilledStays DEF BlockWalk
    <3>5. Target < D + B + (i * B + j)
      <4>1. i \in Nat /\ j \in Nat
        BY DEF TableIdx
      <4> QED  BY <1>3, <2>5, <4>1, InBlocks DEF ScanStop, Off1, Off2, Target
    <3>6. Target < MaxBlocks
      <4>1. i \in 0 .. B - 1 /\ j \in 0 .. B - 1
        BY DEF TableIdx
      <4>2. i * B <= (B - 1) * B
        BY <1>4, <4>1, TimesMono
      <4>3. (B - 1) * B = B * B - B
        BY <1>4
      <4>4. i * B \in Nat
        BY <1>4, <4>1
      <4>5. i * B + j < B * B
        BY <1>4, <4>1, <4>2, <4>3, <4>4
      <4> HIDE DEF D, B
      <4> QED  BY <1>3, <1>4, <3>5, <4>1, <4>4, <4>5 DEF MaxBlocks, D, B
    <3>7. ASSUME NEW k \in TableIdx, NEW l \in TableIdx, D + B + (k * B + l) <= Target
          PROVE  table'[table'[t][k]][l] # BAD_BLOCK
      <4>1. /\ i \in Nat /\ j \in 0 .. B - 1 /\ k \in Nat /\ l \in 0 .. B - 1
            /\ k * B \in Nat /\ i * B \in Nat
        BY <1>4 DEF TableIdx
      <4>2. k * B + l <= i * B + j /\ k * B + l # i * B + j
        BY <1>3, <1>4, <3>5, <3>7, <4>1
      <4>3. k < i \/ (k = i /\ l <= j)
        BY <1>4, <4>1, <4>2, RowByRow
      <4>4. k < i \/ (k = i /\ l < j)
        BY <4>1, <4>2, <4>3
      <4>5. table[t][k] # BAD_BLOCK /\ table[table[t][k]][l] # BAD_BLOCK
        <5>1. CASE k < i
          <6>1. k \in 0 .. i - 1
            BY <4>1, <5>1
          <6>2. FullTable(table[t][k])
            BY <1>5, <6>1 DEF ScanAt, t
          <6> QED  BY <6>2 DEF FullTable
        <5>2. CASE k = i /\ l < j
          <6>1. l \in 0 .. j - 1
            BY <4>1, <5>2
          <6> QED  BY <1>5, <5>2, <6>1 DEF FirstBad
        <5> QED  BY <4>4, <5>1, <5>2
      <4>6. table[t][k] \in BlockNo
        BY <1>1, <1>3 DEF TypeOK
      <4> QED  BY <1>3, <3>1, <4>5, <4>6 DEF Grows
    <3>8. DoubleTo(Ino, Target)'
      BY <3>3, <3>7 DEF DoubleTo, t
    <3>9. HasBlocks(Ino, Target)'
      BY <3>3, <3>4, <3>6, <3>8 DEF HasBlocks, MaxBlocks
    <3>10. Walk'
      BY <1>1, <2>3, <2>5, <3>3, <3>4, <3>9 DEF BlockWalk, Walk, next
    <3> QED  BY <1>2, <3>2, <3>10 DEF BlockWalk
  <2> QED  BY <2>4, <2>5
<1> QED  BY <1>7, <1>8

LEMMA GetBlknoStepWalk == ASSUME BlockWalk, GetBlknoStep PROVE BlockWalk'
<1> DEFINE t1 == blk_no[Ino][INDIRECT]
           t2 == blk_no[Ino][INDIRECT2]
<1>1. Ownership /\ Ownership' /\ todo # << >>
  <2>1. todo # << >>
    BY DEF GetBlknoStep, CallGetBlkno, AllocDirect, DirectDone, AllocIndirect,
           AllocIndirectEntry, IndirectDone, AllocIndirect2, AllocTable,
           AllocTableEntry, Running
  <2> QED  BY <2>1, GetBlknoStepOwnership DEF BlockWalk
<1>2. /\ Ino \in INodeNo /\ t1 \in BlockNo /\ t2 \in BlockNo
      /\ t1 # BAD_BLOCK => t1 \in fs_block_bitmap
      /\ t2 # BAD_BLOCK => t2 \in fs_block_bitmap
  BY <1>1, WalkTypes, Sorts
<1>3. ASSUME NEW k \in PtrIdx, FillINode(Ino, k), blk_no[Ino][k] = BAD_BLOCK, stage # "ready"
      PROVE  BlockWalk'
  <2>1. CASE BitmapFull
    BY <2>1, HaltWalk DEF BitmapFull, Ends
  <2>2. CASE ~ BitmapFull
    <3>1. stage' = stage
      BY <1>1, <1>2, <1>3, <2>2, FilledINode
    <3>2. PICK b \in BlockNo : INodePointer(Ino, k, b)
      BY <1>1, <1>2, <1>3, <2>2, FilledINode
    <3> QED  BY <1>1, <1>2, <1>3, <3>1, <3>2, INodePointerWalk
  <2> QED  BY <2>1, <2>2
<1>4. ASSUME NEW t \in BlockNo, t # BAD_BLOCK, t \in fs_block_bitmap, NEW j \in TableIdx,
             table[t][j] = BAD_BLOCK, FillTable(t, j, stage), stage # "ready"
      PROVE  BlockWalk'
  <2>1. CASE BitmapFull
    BY <2>1, HaltWalk DEF BitmapFull, Ends
  <2>2. CASE ~ BitmapFull
    <3>1. stage' = stage
      BY <1>1, <1>4, <2>2, FilledTable
    <3>2. PICK b \in BlockNo : TablePointer(t, j, b)
      BY <1>1, <1>4, <2>2, FilledTable
    <3> QED  BY <1>1, <1>4, <3>1, <3>2, TablePointerWalk
  <2> QED  BY <2>1, <2>2
<1>5. CASE AllocDirect
  <2>1. stage = "direct"
    BY <1>5 DEF AllocDirect, Running
  <2>2. PICK k \in 0 .. DIRECT_BLK_COUNT - 1 :
          FirstBad(blk_no[Ino], k) /\ FillINode(Ino, k)
    BY <1>5 DEF AllocDirect
  <2>3. k \in PtrIdx
    BY Sorts
  <2> QED  BY <1>3, <2>1, <2>2, <2>3 DEF FirstBad
<1>6. CASE AllocIndirect
  BY <1>3, <1>6, Sorts DEF AllocIndirect, Running
<1>7. CASE AllocIndirect2
  BY <1>3, <1>7, Sorts DEF AllocIndirect2, Running
<1>8. CASE AllocIndirectEntry
  <2>1. stage = "indirect" /\ t1 # BAD_BLOCK
    BY <1>8 DEF AllocIndirectEntry, Running
  <2>2. PICK j \in TableIdx : FirstBad(table[t1], j) /\ FillTable(t1, j, "indirect")
    BY <1>8 DEF AllocIndirectEntry
  <2> HIDE DEF t1
  <2> QED  BY <1>2, <1>4, <2>1, <2>2 DEF FirstBad
<1>9. CASE AllocTable
  <2>1. stage = "indirect2" /\ t2 # BAD_BLOCK
    BY <1>9 DEF AllocTable, Running
  <2>2. PICK i \in TableIdx : table[t2][i] = BAD_BLOCK /\ FillTable(t2, i, "indirect2")
    BY <1>9 DEF AllocTable
  <2> HIDE DEF t2
  <2> QED  BY <1>2, <1>4, <2>1, <2>2
<1> QED
  BY <1>5, <1>6, <1>7, <1>8, <1>9, CallGetBlknoWalk, DirectDoneWalk,
     IndirectDoneWalk, AllocTableEntryWalk DEF GetBlknoStep

----------------------------------------------------------------------------
(* The steps of its callers, and those of make_fs.                         *)

LEMMA CallerStepWalk == ASSUME BlockWalk, CallerStep PROVE BlockWalk'
<1>1. TypeOK /\ TypeOK' /\ Ownership'
  BY CallerStepOwnership DEF BlockWalk, Ownership
<1>2. UNCHANGED <<table, inode, stack>> /\ stage' = "idle"
  BY DEF CallerStep, NextDentry, StoreDentry, Expanded, CopyChunk, CopyDone, Return
<1>3. DirsAreDirs'
  <2>1. \A i \in 1 .. Len(todo') : \E l \in 1 .. Len(todo) :
          todo'[i].ino = todo[l].ino /\ todo'[i].op = todo[l].op
    BY <1>1, CallsLeft
  <2> QED  BY <1>2, <2>1 DEF BlockWalk, DirsAreDirs
<1>4. NullTable' /\ Walk'
  BY <1>2 DEF BlockWalk, NullTable, Walk
<1> QED  BY <1>1, <1>3, <1>4 DEF BlockWalk

(* Of the inodes make_fs works with, alloc_inode changes none.             *)
LEMMA AllocINodeKeeps ==
  ASSUME Ownership, NEW n \in INodeNo, NEW node, AllocINode(n, node)
  PROVE  /\ n \notin inode_bitmap /\ inode'[n] = node
         /\ \A m \in INodeNo \cap inode_bitmap : inode'[m] = inode[m]
         /\ UNCHANGED table
BY DEF Ownership, TypeOK, AllocINode, FirstAvailable

(* The directories make_fs is in, one entry later.                         *)
LEMMA TakenKeepsDirs ==
  ASSUME TypeOK, Between, NEW name \in Names
  PROVE  /\ Len(Taken(name)) = Len(stack)
         /\ \A i \in 1 .. Len(stack) :
              /\ Taken(name)[i].dir = stack[i].dir
              /\ Taken(name)[i].rest =
                   IF i = Len(stack) THEN stack[i].rest \ {name} ELSE stack[i].rest
         /\ Top.dir = stack[Len(stack)].dir /\ Len(stack) \in 1 .. Len(stack)
<1>1. stack # << >> /\ stack \in Seq(Frame) /\ Len(stack) \in 1 .. Len(stack)
  BY EmptySeq DEF Between, TypeOK
<1>2. Top \in Frame
  BY <1>1, StackType
<1> DEFINE top == [Top EXCEPT !.rest = @ \ {name}]
<1>3. Taken(name) = [stack EXCEPT ![Len(stack)] = top]
  BY DEF Taken, Top
<1>4. top \in Frame /\ top.dir = Top.dir /\ top.rest = Top.rest \ {name}
  BY <1>2 DEF Frame
<1>5. /\ Len(Taken(name)) = Len(stack)
      /\ \A i \in 1 .. Len(stack) :
           Taken(name)[i] = IF i = Len(stack) THEN top ELSE stack[i]
  BY <1>1, <1>3, <1>4, ExceptSeq
<1> HIDE DEF top
<1> QED  BY <1>1, <1>4, <1>5 DEF Top

LEMMA MakeDirWalk ==
  ASSUME BlockWalk, NEW name \in Names, MakeDir(name) PROVE BlockWalk'
<1>1. TypeOK /\ Ownership /\ Ownership' /\ Between
  BY MakeDirOwnership DEF BlockWalk, Ownership, MakeDir
<1>2. PICK n \in INodeNo :
        /\ AllocINode(n, NewDir)
        /\ todo' = Append(DotCalls(n, Top.dir),
                          AddDentryCall(Top.dir, DirEntry(n, name)))
        /\ stack' = Append(Taken(name), [dir |-> n, rest |-> Names])
  BY DEF MakeDir
<1>3. /\ inode'[n] = NewDir /\ UNCHANGED table
      /\ \A m \in INodeNo \cap inode_bitmap : inode'[m] = inode[m]
  BY <1>1, <1>2, AllocINodeKeeps
<1>4. /\ Len(Taken(name)) = Len(stack)
      /\ \A i \in 1 .. Len(stack) : Taken(name)[i].dir = stack[i].dir
      /\ Top.dir = stack[Len(stack)].dir /\ Len(stack) \in 1 .. Len(stack)
  BY <1>1, TakenKeepsDirs
<1>5. \A i \in 1 .. Len(stack) : inode'[stack[i].dir].f_type = "DIR"
  BY <1>1, <1>3, INodesKnown DEF BlockWalk, DirsAreDirs, Ownership, INodesInUse
<1>6. Top.dir \in INodeNo /\ Taken(name) \in Seq(Frame)
  BY <1>1, TakenDirs
<1>7. \A i \in 1 .. Len(todo') : inode'[todo'[i].ino].f_type = "DIR"
  <2> DEFINE dots == DotCalls(n, Top.dir)
             last == AddDentryCall(Top.dir, DirEntry(n, name))
  <2>1. Len(dots) = 2 /\ dots[1].ino = n /\ dots[2].ino = n /\ last.ino = Top.dir
    BY DEF DotCalls, AddDentryCall
  <2>2. dots \in Seq(Call) /\ last \in Call
    BY <1>6, CallTypes
  <2>3. /\ Len(todo') = 3 /\ todo'[1] = dots[1] /\ todo'[2] = dots[2] /\ todo'[3] = last
    BY <1>2, <2>1, <2>2, AppendProperties
  <2>4. inode'[n].f_type = "DIR"
    BY <1>3 DEF NewDir
  <2> HIDE DEF dots, last
  <2> QED  BY <1>4, <1>5, <2>1, <2>3, <2>4
<1>8. \A i \in 1 .. Len(stack') : inode'[stack'[i].dir].f_type = "DIR"
  <2> DEFINE top == [dir |-> n, rest |-> Names]
  <2>1. top \in Frame /\ inode'[top.dir].f_type = "DIR"
    BY <1>3 DEF Frame, NewDir
  <2>2. /\ Len(stack') = Len(stack) + 1 /\ stack'[Len(stack) + 1] = top
        /\ \A i \in 1 .. Len(stack) : stack'[i] = Taken(name)[i]
    BY <1>2, <1>4, <1>6, <2>1, AppendProperties
  <2> HIDE DEF top
  <2> QED  BY <1>4, <1>5, <2>1, <2>2
<1>9. stage' = stage /\ stage = "idle"
  BY DEF BlockWalk, Walk, MakeDir, Between
<1>10. NullTable' /\ DirsAreDirs' /\ Walk'
  BY <1>3, <1>7, <1>8, <1>9 DEF BlockWalk, NullTable, DirsAreDirs, Walk
<1> QED  BY <1>1, <1>10 DEF BlockWalk

LEMMA MakeFileWalk ==
  ASSUME BlockWalk, NEW name \in Names, NEW size \in FileSizes, MakeFile(name, size)
  PROVE  BlockWalk'
<1>1. TypeOK /\ Ownership /\ Ownership' /\ Between
  BY MakeFileOwnership DEF BlockWalk, Ownership, MakeFile
<1>2. PICK n \in INodeNo :
        /\ AllocINode(n, NewFile)
        /\ todo' = <<AddDentryCall(Top.dir, FileEntry(n, name)),
                     ExpandCall(n, size), CopyCall(n, size)>>
  BY DEF MakeFile
<1>3. UNCHANGED table /\ \A m \in INodeNo \cap inode_bitmap : inode'[m] = inode[m]
  BY <1>1, <1>2, AllocINodeKeeps
<1>4. /\ Len(Taken(name)) = Len(stack)
      /\ \A i \in 1 .. Len(stack) : Taken(name)[i].dir = stack[i].dir
      /\ Top.dir = stack[Len(stack)].dir /\ Len(stack) \in 1 .. Len(stack)
  BY <1>1, TakenKeepsDirs
<1>5. \A i \in 1 .. Len(stack) : inode'[stack[i].dir].f_type = "DIR"
  BY <1>1, <1>3, INodesKnown DEF BlockWalk, DirsAreDirs, Ownership, INodesInUse
<1>6. \A i \in 1 .. Len(todo') :
        todo'[i].op = "add_dentry" => inode'[todo'[i].ino].f_type = "DIR"
  BY <1>2, <1>4, <1>5 DEF AddDentryCall, ExpandCall, CopyCall
<1>7. \A i \in 1 .. Len(stack') : inode'[stack'[i].dir].f_type = "DIR"
  BY <1>4, <1>5 DEF MakeFile
<1>8. stage' = stage /\ stage = "idle"
  BY DEF BlockWalk, Walk, MakeFile, Between
<1>9. NullTable' /\ DirsAreDirs' /\ Walk'
  BY <1>3, <1>6, <1>7, <1>8 DEF BlockWalk, NullTable, DirsAreDirs, Walk
<1> QED  BY <1>1, <1>9 DEF BlockWalk

LEMMA LeaveDirWalk == ASSUME BlockWalk, LeaveDir PROVE BlockWalk'
<1>1. TypeOK /\ Ownership'
  BY LeaveDirOwnership DEF BlockWalk, Ownership
<1>2. /\ UNCHANGED <<table, inode, todo, stage>> /\ todo = << >>
      /\ stack' = SubSeq(stack, 1, Len(stack) - 1)
  BY DEF LeaveDir, Between, alloc_vars
<1>3. \A i \in 1 .. Len(stack') : stack'[i] = stack[i] /\ i \in 1 .. Len(stack)
  BY <1>1, <1>2 DEF TypeOK
<1>4. NullTable' /\ DirsAreDirs' /\ Walk'
  BY <1>2, <1>3 DEF BlockWalk, NullTable, DirsAreDirs, Walk
<1> QED  BY <1>1, <1>4 DEF BlockWalk

LEMMA StepWalk == ASSUME BlockWalk, [Next]_vars PROVE BlockWalk'
<1>1. CASE GetBlknoStep
  BY <1>1, GetBlknoStepWalk
<1>2. CASE CallerStep
  BY <1>2, CallerStepWalk
<1>3. CASE \E name \in Names : MakeDir(name)
  BY <1>3, MakeDirWalk
<1>4. CASE \E name \in Names, size \in FileSizes : MakeFile(name, size)
  BY <1>4, MakeFileWalk
<1>5. CASE INodeOverrun \/ NameTooLong
  BY <1>5, HaltWalk DEF INodeOverrun, NameTooLong, Ends
<1>6. CASE LeaveDir
  BY <1>6, LeaveDirWalk
<1>7. CASE UNCHANGED vars
  <2>1. Ownership'
    BY <1>7, StepOwnership DEF BlockWalk
  <2>2. UNCHANGED <<Ino, Off, Target>> /\ NullTable' /\ DirsAreDirs'
    BY <1>7, SameTarget, SameDirs DEF BlockWalk, NullTable, vars, alloc_vars
  <2>3. Walk'
    BY <1>7, <2>2 DEF BlockWalk, Walk, DirectTo, IndirectTo, DoubleTo, HasBlocks, vars, alloc_vars
  <2> QED  BY <2>1, <2>2, <2>3 DEF BlockWalk
<1> QED
  BY <1>1, <1>2, <1>3, <1>4, <1>5, <1>6, <1>7 DEF Next, HostStep

LEMMA InitWalk == ASSUME Init PROVE BlockWalk
<1>1. Ownership
  BY InitOwnership
<1>2. NullTable /\ Walk
  BY Sorts DEF Init, NullTable, ZeroTable, Walk
<1>3. todo = DotCalls(ROOT_INODE, ROOT_INODE) /\ Len(todo) = 2
  BY DEF Init, DotCalls
<1>4. todo[1].ino = ROOT_INODE /\ todo[2].ino = ROOT_INODE
  BY <1>3 DEF DotCalls, AddDentryCall
<1>5. inode[ROOT_INODE].f_type = "DIR"
  BY Sorts DEF Init, NewDir
<1>6. Len(stack) = 1 /\ stack[1].dir = ROOT_INODE
  BY DEF Init
<1>7. DirsAreDirs
  BY <1>3, <1>4, <1>5, <1>6 DEF DirsAreDirs
<1> QED  BY <1>1, <1>2, <1>7 DEF BlockWalk

----------------------------------------------------------------------------
(* Whatever get_blkno has come to, the blocks of the loops before are      *)
(* there: the invariant holds throughout.                                  *)
THEOREM BlockWalkHolds == Spec => []BlockWalk
<1>1. Init => BlockWalk
  BY InitWalk
<1>2. BlockWalk /\ [Next]_vars => BlockWalk'
  BY StepWalk
<1> QED  BY <1>1, <1>2, PTL DEF Spec

LEMMA PosInBlocks ==
  ASSUME BlockWalk, Running("ready")
  PROVE  /\ Ino \in INodeNo /\ Off \in Nat /\ Cur.pos \in Nat /\ Cur.entry \in DEntry
         /\ Target \in Nat /\ HasBlocks(Ino, Target) /\ Cur.pos \div BLK_SIZE \in 0 .. Target
<1>1. Ownership /\ TypeOK /\ todo # << >> /\ HasBlocks(Ino, Target)
  BY DEF BlockWalk, Ownership, Walk, Running
<1>2. Ino \in INodeNo /\ Off \in Nat /\ Target \in Nat
  BY <1>1, WalkTypes
<1>3. /\ Cur.pos \in Nat /\ (Off = Cur.pos \/ Off = Cur.pos + 1)
      /\ Cur.entry \in DEntry
  BY <1>1, CurType, CallFields DEF Off
<1> DEFINE p == Cur.pos \div BLK_SIZE
<1>4. p \in Nat /\ p * BLK_SIZE <= Cur.pos
  BY <1>3, Sorts, DivMod, DivLeq
<1>5. p * BLK_SIZE \in Nat
  BY <1>4, Sorts
<1> HIDE DEF p
<1>6. p * BLK_SIZE <= Off
  BY <1>3, <1>4, <1>5
<1>7. p <= Target
  BY <1>2, <1>4, <1>6, Sorts, DivLeq DEF Target
<1> QED  BY <1>1, <1>2, <1>3, <1>4, <1>7 DEF p

LEMMA AtReady ==
  ASSUME BlockWalk, Running("ready")
  PROVE  Usable(GetBlkno(Ino, Off)) /\ Usable(GetBlkno(Ino, Cur.pos))
<1>1. /\ GetBlkno(Ino, Off) = BlockAt(Ino, Target)
      /\ GetBlkno(Ino, Cur.pos) = BlockAt(Ino, Cur.pos \div BLK_SIZE)
  BY DEF GetBlkno, BlockAt, Target
<1>2. Target \in Nat /\ Target \in 0 .. Target
  BY PosInBlocks
<1> QED  BY <1>1, <1>2, PosInBlocks, BlockThere DEF BlockWalk

(* The panics and asserts of the builder never fire: add_dentry works on   *)
(* allocated directories, offsets lie within the file, and the block of an *)
(* offset is there, and allocated, when get_blkno(off, true) returns.      *)
THEOREM AssertsNeverFire == Spec => []AssertionsHold
<1>1. BlockWalk => AssertionsHold
  <2> SUFFICES ASSUME BlockWalk PROVE AssertionsHold
    OBVIOUS
  <2>1. TypeOK /\ Ownership
    BY DEF BlockWalk, Ownership
  <2>2. ASSUME todo # << >>
        PROVE  /\ Ino \in inode_bitmap
               /\ Cur.op = "add_dentry" => inode[Ino].f_type = "DIR"
               /\ stage # "idle" => Off <= inode[Ino].f_size
    <3>1. 1 \in 1 .. Len(todo) /\ Cur = todo[1]
      BY <2>1, <2>2 DEF TypeOK, Cur
    <3> QED  BY <2>1, <2>2, <3>1, WalkTypes DEF BlockWalk, DirsAreDirs, Walk, Ino
  <2>3. ASSUME Between PROVE Top.dir \in inode_bitmap /\ inode[Top.dir].f_type = "DIR"
    <3>1. Len(stack) \in 1 .. Len(stack)
      BY <2>1, <2>3, EmptySeq DEF TypeOK, Between
    <3> QED  BY <2>1, <3>1 DEF BlockWalk, DirsAreDirs, Ownership, INodesInUse, Top
  <2> QED  BY <2>2, <2>3, AtReady DEF AssertionsHold
<1> QED  BY <1>1, BlockWalkHolds, PTL
=============================================================================

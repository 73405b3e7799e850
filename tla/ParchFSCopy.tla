---------------------------- MODULE ParchFSCopy ----------------------------
(***************************************************************************)
(* The builder implements FsTree: read through its own pointers, the image *)
(* is the host tree, which grows by one finished entry at a time.  To the  *)
(* shape of the directories this adds what is in the files, and which      *)
(* names are still to come.  Last comes the number of blocks of a file.    *)
(***************************************************************************)
EXTENDS ParchFSTree

----------------------------------------------------------------------------
(* Files by chunk, as directories are read by position.                    *)

HasBlock(n, k) == k < MaxBlocks /\ BlockAt(n, k) # BAD_BLOCK
Chunk(n, k) == IF HasBlock(n, k) THEN content[BlockAt(n, k)] ELSE ZeroData
Copied(n, off) == Chunk(n, off \div BLK_SIZE) = <<n, off \div BLK_SIZE>>
CopiedTo(n, size) == \A off \in Nat : off < size => Copied(n, off)

(* The file being made: not begun, grown to its size, or copied so far.    *)
Growing(n) ==
  \/ /\ Cur.op = "add_dentry" /\ inode[n].f_size = 0
     /\ \E size \in Nat : Tail(todo) = <<ExpandCall(n, size), CopyCall(n, size)>>
  \/ /\ Cur.op = "expand" /\ Tail(todo) = <<CopyCall(n, Cur.pos)>>
     /\ inode[n].f_size = IF stage = "idle" THEN 0 ELSE Cur.pos
  \/ /\ Cur.op = "copy" /\ Tail(todo) = << >>
     /\ Cur.pos + Cur.len = inode[n].f_size /\ CopiedTo(n, Cur.pos)

Files ==
  \A n \in INodeNo \cap inode_bitmap :
    inode[n].f_type = "REGULAR" =>
      IF Unfinished(n) THEN Growing(n) ELSE CopiedTo(n, inode[n].f_size)

----------------------------------------------------------------------------
(* Names: each once in a directory, those to come not among them.          *)

NoName(d, name) == \A p \in Nat : Entry(d, p) => Read(d, p).name # name

NamesDiffer ==
  \A d \in Directories, p, q \in Nat :
    Entry(d, p) /\ Entry(d, q) /\ Read(d, p).name = Read(d, q).name => p = q

(* make_fs is in a directory once, and a name it has not met yet, or that  *)
(* is on its way into the directory, is not there: not twice, so.          *)
InOnce ==
  \A i, j \in 1 .. Len(stack) : stack[i].dir = stack[j].dir => i = j
Coming(d, name) ==
  \E i \in 1 .. Len(stack) : stack[i].dir = d /\ name \in stack[i].rest
OnItsWay(d, name) ==
  \E i \in 1 .. Len(todo) : todo[i].ino = d /\ todo[i].entry.name = name
MetOnce ==
  \A d \in INodeNo, name \in Names :
    /\ Coming(d, name) \/ OnItsWay(d, name) => NoName(d, name)
    /\ ~ (Coming(d, name) /\ OnItsWay(d, name))

(* A free place has no name, and block 0, where BAD_BLOCK leads, is free.  *)
FreeNameless ==
  /\ \A b \in BlockNo, r \in 0 .. BLK_SIZE - 1 :
       dentry[b][r].inode = BAD_INODE => dentry[b][r].name \notin Names
  /\ \A r \in 0 .. BLK_SIZE - 1 : dentry[BAD_BLOCK][r].inode = BAD_INODE

HostNames == NamesDiffer /\ InOnce /\ MetOnce /\ FreeNameless
Image == Shape /\ Files /\ HostNames /\ ROOT_INODE \in Directories

----------------------------------------------------------------------------
(* What a step does to the files.                                          *)

SameChunks == \A n \in INodeNo, k \in Nat : Chunk(n, k)' = Chunk(n, k)

LEMMA ChunkCases ==
  ASSUME NEW n, NEW k
  PROVE  /\ HasBlock(n, k)' <=> k < MaxBlocks /\ BlockAt(n, k)' # BAD_BLOCK
         /\ Chunk(n, k)' = IF HasBlock(n, k)' THEN content'[BlockAt(n, k)'] ELSE ZeroData
<1>1. HasBlock(n, k)' <=> k < MaxBlocks /\ BlockAt(n, k)' # BAD_BLOCK
  BY DEF HasBlock, MaxBlocks, BAD_BLOCK
<1>2. Chunk(n, k)' = IF HasBlock(n, k)' THEN content'[BlockAt(n, k)'] ELSE ZeroData
  BY DEF Chunk, ZeroData, BAD_INODE
<1> QED  BY <1>1, <1>2

LEMMA UntouchedChunks ==
  ASSUME UNCHANGED <<blk_no, table, content>> PROVE SameChunks
BY DEF SameChunks, Chunk, HasBlock, BlockAt, MaxBlocks, ZeroData, BAD_BLOCK, BAD_INODE

LEMMA OnePointerChunks ==
  ASSUME Ownership, NullTable, NEW b \in BlockNo, OnePointer(b) PROVE SameChunks
<1> SUFFICES ASSUME NEW n \in INodeNo, NEW k \in Nat PROVE Chunk(n, k)' = Chunk(n, k)
  BY DEF SameChunks
<1>1. /\ b \notin fs_block_bitmap /\ content' = [content EXCEPT ![b] = ZeroData]
      /\ b # BAD_BLOCK
  BY DEF OnePointer, INodePointer, TablePointer, NewBlock
<1>2. content \in [BlockNo -> INodeNo \X Nat]
  BY DEF Ownership, TypeOK
<1>3. content'[b] = ZeroData
  BY <1>1, <1>2
<1>4. CASE ~ (k < MaxBlocks)
  BY <1>4, ChunkCases DEF Chunk, HasBlock
<1>5. CASE k < MaxBlocks /\ BlockAt(n, k)' = BlockAt(n, k)
  <2>1. BlockAt(n, k) # BAD_BLOCK => BlockAt(n, k) \in BlockNo /\ BlockAt(n, k) # b
    BY <1>1, <1>5, BlockAtType
  <2>2. BlockAt(n, k) # BAD_BLOCK => content'[BlockAt(n, k)] = content[BlockAt(n, k)]
    BY <1>1, <1>2, <2>1
  <2> QED  BY <1>5, <2>2, ChunkCases DEF Chunk, HasBlock
<1>6. CASE k < MaxBlocks /\ BlockAt(n, k) = BAD_BLOCK /\ BlockAt(n, k)' = b
  BY <1>1, <1>3, <1>6, ChunkCases DEF Chunk, HasBlock
<1> QED  BY <1>4, <1>5, <1>6, BlockAtStep

LEMMA NewINodeChunks ==
  ASSUME Ownership, NEW n \in INodeNo, NEW node, AllocINode(n, node) PROVE SameChunks
<1>1. blk_no' = blk_no
  BY AllocINodePointers
<1> QED  BY <1>1, UntouchedChunks DEF AllocINode

(* Every loop leaves entries and files as they were.                       *)
LEMMA LoopsKeepChunks ==
  ASSUME BlockWalk, GetBlknoStep, ~ CallGetBlkno PROVE SameChunks
<1>1. Ownership /\ NullTable
  BY DEF BlockWalk
<1> QED  BY <1>1, LoopsPoint, UntouchedChunks, OnePointerChunks

(* INode::write fills one chunk of one file.                               *)
LEMMA ChunkWritten ==
  ASSUME BlockWalk, CopyChunk, NEW at, at = Cur.pos \div BLK_SIZE
  PROVE  \A n \in INodeNo, k \in Nat :
           Chunk(n, k)' = IF n = Ino /\ k = at THEN <<Ino, at>> ELSE Chunk(n, k)
<1> DEFINE c == BlockAt(Ino, at)
<1>1. Ownership /\ NullTable /\ Running("ready")
  BY DEF BlockWalk, CopyChunk
<1>2. Ino \in INodeNo /\ Cur.pos \in Nat
  BY <1>1, PosInBlocks
<1>3. at \in Nat
  BY <1>2, ReadCases
<1>4. Has(Ino, Cur.pos) /\ GetBlkno(Ino, Cur.pos) = c
  BY <1>1, ReadyRead
<1>5. at < MaxBlocks /\ c # BAD_BLOCK
  BY <1>4 DEF Has
<1>6. c \in BlockNo /\ content \in [BlockNo -> INodeNo \X Nat]
  BY <1>1, <1>2, <1>3, <1>5, BlockAtType DEF Ownership, TypeOK
<1>7. content' = [content EXCEPT ![c] = <<Ino, at>>] /\ UNCHANGED <<blk_no, table>>
  BY <1>4 DEF CopyChunk, Return
<1> SUFFICES ASSUME NEW n \in INodeNo, NEW k \in Nat
             PROVE  Chunk(n, k)' = IF n = Ino /\ k = at THEN <<Ino, at>> ELSE Chunk(n, k)
  OBVIOUS
<1>8. BlockAt(n, k)' = BlockAt(n, k)
  BY <1>7 DEF BlockAt
<1> HIDE DEF c
<1>9. CASE n = Ino /\ k = at
  <2>1. BlockAt(n, k) = c
    BY <1>9 DEF c
  <2> QED  BY <1>5, <1>6, <1>7, <1>8, <1>9, <2>1, ChunkCases
<1>10. CASE ~ (n = Ino /\ k = at)
  <2>1. CASE ~ HasBlock(n, k)
    BY <1>8, <1>10, <2>1, ChunkCases DEF HasBlock, Chunk
  <2>2. CASE HasBlock(n, k)
    <3>1. k < MaxBlocks /\ BlockAt(n, k) # BAD_BLOCK /\ BlockAt(n, k) \in BlockNo
      BY <1>1, <2>2, BlockAtType DEF HasBlock
    <3>2. BlockAt(n, k) # c
      BY <1>1, <1>2, <1>3, <1>5, <1>10, <3>1, BlockAtOnce DEF c
    <3>3. content'[BlockAt(n, k)] = content[BlockAt(n, k)]
      BY <1>6, <1>7, <3>1, <3>2
    <3> QED  BY <1>8, <1>10, <3>1, <3>3, ChunkCases DEF HasBlock, Chunk
  <2> QED  BY <2>1, <2>2
<1> QED  BY <1>9, <1>10

----------------------------------------------------------------------------
(* What is in the files.                                                   *)

LEMMA UnfinishedIs ==
  ASSUME NEW k, Last(k), NEW n \in inode_bitmap
  PROVE  Unfinished(n) <=> todo # << >> /\ n = k
BY DEF Unfinished, Last, INodeNo

LEMMA UnfinishedNext ==
  ASSUME NEW k, Last(k)', NEW n \in inode_bitmap'
  PROVE  Unfinished(n)' <=> todo' # << >> /\ n = k
BY DEF Unfinished, Last, INodeNo

LEMMA ChunkNo == ASSUME NEW off \in Nat PROVE off \div BLK_SIZE \in Nat
BY DivMod, Sorts

LEMMA CopiedStays ==
  ASSUME NEW n, NEW size, CopiedTo(n, size), \A k \in Nat : Chunk(n, k)' = Chunk(n, k)
  PROVE  \A s : s = size => CopiedTo(n, s)'
BY ChunkNo DEF CopiedTo, Copied

(* All files but the last one stay as they are.                            *)
LEMMA FilesStep ==
  ASSUME Files, NEW k \in INodeNo, Last(k), todo # << >>, UNCHANGED inode_bitmap,
         \A n \in INodeNo : inode'[n].f_type = inode[n].f_type,
         \A n \in INodeNo :
           n # k /\ inode[n].f_type = "REGULAR" => inode'[n].f_size = inode[n].f_size,
         \A n \in INodeNo, c \in Nat : n # k => Chunk(n, c)' = Chunk(n, c),
         inode[k].f_type = "REGULAR" /\ Growing(k) =>
           IF todo' # << >> THEN Growing(k)' ELSE CopiedTo(k, inode[k].f_size)'
  PROVE  Files'
<1>1. Last(k)'
  BY DEF Last, INodeNo, ROOT_INODE
<1> SUFFICES ASSUME NEW n \in INodeNo \cap inode_bitmap, inode[n].f_type = "REGULAR"
             PROVE  IF Unfinished(n)' THEN Growing(n)' ELSE CopiedTo(n, inode[n].f_size)'
  BY DEF Files, INodeNo
<1>2. /\ Unfinished(n) <=> n = k
      /\ Unfinished(n)' <=> todo' # << >> /\ n = k
  BY <1>1, UnfinishedIs, UnfinishedNext
<1>3. CASE n = k
  <2>1. Growing(k)
    BY <1>2, <1>3 DEF Files
  <2> QED  BY <1>2, <1>3, <2>1
<1>4. CASE n # k
  <2>1. CopiedTo(n, inode[n].f_size)
    BY <1>2, <1>4 DEF Files
  <2>2. inode'[n].f_size = inode[n].f_size /\ \A c \in Nat : Chunk(n, c)' = Chunk(n, c)
    BY <1>4
  <2>3. CopiedTo(n, inode[n].f_size)'
    BY <2>1, <2>2, CopiedStays
  <2> QED  BY <1>2, <1>4, <2>3
<1> QED  BY <1>3, <1>4

LEMMA GrowingKept ==
  ASSUME NEW k \in INodeNo, Growing(k), SameChunks, inode'[k].f_size = inode[k].f_size,
         todo' # << >>, Tail(todo') = Tail(todo), Cur'.op = Cur.op, Cur'.pos = Cur.pos,
         Cur'.len = Cur.len, Cur.op = "expand" => (stage' = "idle" <=> stage = "idle")
  PROVE  Growing(k)'
<1>1. CASE Cur.op = "add_dentry"
  BY <1>1 DEF Growing, ExpandCall, CopyCall, ZeroDEntry, BAD_INODE
<1>2. CASE Cur.op = "expand"
  BY <1>2 DEF Growing, CopyCall, ZeroDEntry, BAD_INODE
<1>3. CASE Cur.op = "copy"
  <2>1. CopiedTo(k, Cur.pos) /\ Cur.pos + Cur.len = inode[k].f_size /\ Tail(todo) = << >>
    BY <1>3 DEF Growing
  <2>2. CopiedTo(k, Cur.pos)'
    BY <2>1, CopiedStays DEF SameChunks
  <2> QED  BY <1>3, <2>1, <2>2 DEF Growing
<1> QED  BY <1>1, <1>2, <1>3 DEF Growing

LEMMA LoopsKeepFiles ==
  ASSUME BlockWalk, DirTree, Files, GetBlknoStep, ~ CallGetBlkno PROVE Files'
<1>1. /\ UNCHANGED <<inode, inode_bitmap, todo, stack>>
      /\ todo # << >> /\ stage # "idle" /\ stage' # "idle"
  BY LoopsPoint
<1>2. SameChunks
  BY LoopsKeepChunks
<1>3. PICK k \in INodeNo : Last(k)
  BY DEF DirTree, Making
<1>4. Cur' = Cur
  BY <1>1 DEF Cur
<1>5. Growing(k) => Growing(k)'
  BY <1>1, <1>2, <1>4, GrowingKept
<1> QED  BY <1>1, <1>2, <1>3, <1>5, FilesStep DEF SameChunks

(* While a file is being written, the calls are about it.                  *)
LEMMA WritingLast ==
  ASSUME BlockWalk, DirTree, Files, todo # << >>, ~ Adding, NEW k \in INodeNo, Last(k)
  PROVE  Ino = k /\ inode[k].f_type = "REGULAR" /\ Growing(k)
<1>1. PICK n \in INodeNo : Last(n) /\ AllNamed(n) /\ Ino = n
  BY NotAdding
<1>2. n = k
  BY <1>1 DEF Last, INodeNo
<1>3. inode[k].f_type = "REGULAR" /\ k \in inode_bitmap
  BY <1>1, <1>2, LastUsed DEF AllNamed
<1>4. Growing(k)
  BY <1>3, UnfinishedIs DEF Files
<1> QED  BY <1>1, <1>2, <1>3, <1>4

(* INode::write finds its file empty, and its expanding call is made.      *)
LEMMA AlwaysGrows ==
  ASSUME BlockWalk, DirTree, Files, CallGetBlkno
  PROVE  ~ (Cur.op = "expand" /\ Off < inode[Ino].f_size) /\ UNCHANGED todo
<1> SUFFICES ASSUME Cur.op = "expand", Off < inode[Ino].f_size PROVE FALSE
  BY DEF CallGetBlkno
<1>1. TypeOK /\ todo # << >> /\ stage = "idle" /\ ~ Adding
  BY DEF BlockWalk, Ownership, CallGetBlkno, Running, Adding
<1>2. PICK k \in INodeNo : Last(k)
  BY DEF DirTree, Making
<1>3. Ino = k /\ Growing(k)
  BY <1>1, <1>2, WritingLast
<1>4. inode[k].f_size = 0
  BY <1>1, <1>3 DEF Growing
<1>5. Off \in Nat
  BY <1>1, CurType
<1> QED  BY <1>3, <1>4, <1>5

LEMMA CallGetBlknoFiles ==
  ASSUME BlockWalk, DirTree, Files, CallGetBlkno PROVE Files'
<1>1. /\ TypeOK /\ Ownership /\ todo # << >> /\ stage = "idle"
      /\ UNCHANGED <<blk_no, table, content, inode_bitmap>>
  BY DEF BlockWalk, Ownership, CallGetBlkno, Running, alloc_vars
<1>2. PICK k \in INodeNo : Last(k)
  BY DEF DirTree, Making
<1>3. /\ Ino \in INodeNo /\ Off \in Nat /\ inode \in [INodeNo -> INode]
      /\ inode[Ino].f_size \in Nat /\ Cur.pos \in Nat /\ Cur.len \in Nat
  BY <1>1, WalkTypes, CurType, CallFields DEF TypeOK, INode
<1>4. SameChunks
  BY <1>1, UntouchedChunks
<1>5. ~ (Cur.op = "expand" /\ Off < inode[Ino].f_size)
  BY AlwaysGrows
<1>6. /\ inode' = [inode EXCEPT ![Ino].f_size = IF @ < Off THEN Off ELSE @]
      /\ stage' = "direct" /\ UNCHANGED todo
  BY <1>1, <1>5 DEF CallGetBlkno
<1>7. /\ \A n \in INodeNo : inode'[n].f_type = inode[n].f_type
      /\ \A n \in INodeNo : n # Ino => inode'[n] = inode[n]
      /\ inode'[Ino].f_size = IF inode[Ino].f_size < Off THEN Off ELSE inode[Ino].f_size
  BY <1>3, <1>6 DEF INode
<1>8. Cur' = Cur
  BY <1>6 DEF Cur
<1>9. CASE Adding
  <2>1. inode[Ino].f_type = "DIR" /\ Cur.op = "add_dentry"
    BY <1>9, AddingDir DEF Directories, Adding
  <2>2. \A n \in INodeNo : inode[n].f_type = "REGULAR" => inode'[n].f_size = inode[n].f_size
    BY <1>7, <2>1
  <2>3. inode[k].f_type = "REGULAR" /\ Growing(k) => Growing(k)'
    BY <1>1, <1>4, <1>6, <1>8, <2>1, <2>2, GrowingKept
  <2> QED  BY <1>1, <1>2, <1>4, <1>6, <1>7, <2>2, <2>3, FilesStep DEF SameChunks
<1>10. CASE ~ Adding
  <2>1. Ino = k /\ Growing(k) /\ Off = Cur.pos
    BY <1>1, <1>2, <1>10, WritingLast DEF Adding, Off
  <2>2. Growing(k)'
    <3>1. CASE Cur.op = "expand"
      <4>1. Tail(todo) = <<CopyCall(k, Cur.pos)>> /\ inode[k].f_size = 0
        BY <1>1, <2>1, <3>1 DEF Growing
      <4>2. inode'[k].f_size = Cur.pos
        BY <1>3, <1>7, <2>1, <4>1
      <4>3. Tail(todo') = <<CopyCall(k, Cur'.pos)>> /\ Cur'.op = "expand"
        BY <1>6, <1>8, <3>1, <4>1
      <4>4. CopyCall(k, Cur.pos)' = CopyCall(k, Cur'.pos)
        BY DEF CopyCall, ZeroDEntry, BAD_INODE
      <4> QED  BY <1>6, <1>8, <4>2, <4>3, <4>4 DEF Growing
    <3>2. CASE Cur.op = "copy"
      <4>1. Cur.pos + Cur.len = inode[k].f_size
        BY <2>1, <3>2 DEF Growing
      <4>2. inode'[k].f_size = inode[k].f_size
        BY <1>3, <1>7, <2>1, <4>1
      <4> QED  BY <1>1, <1>4, <1>6, <1>8, <2>1, <3>2, <4>2, GrowingKept
    <3> QED  BY <1>1, <1>10, <2>1, <3>1, <3>2 DEF Growing, Adding
  <2> QED  BY <1>1, <1>2, <1>4, <1>6, <1>7, <2>1, <2>2, FilesStep DEF SameChunks
<1> QED  BY <1>9, <1>10

LEMMA HeadMoved ==
  ASSUME TypeOK, todo # << >>, NEW c, todo' = [todo EXCEPT ![1] = c]
  PROVE  todo' # << >> /\ Cur' = c /\ Tail(todo') = Tail(todo)
BY FirstReplaced DEF TypeOK, Cur

LEMMA NextDentryFiles ==
  ASSUME BlockWalk, DirTree, Files, NextDentry PROVE Files'
<1>1. /\ TypeOK /\ todo # << >> /\ Cur.op = "add_dentry"
      /\ UNCHANGED <<blk_no, table, content, inode_bitmap, inode>>
  BY DEF BlockWalk, Ownership, NextDentry, Running, Return
<1>2. SameChunks
  BY <1>1, UntouchedChunks
<1>3. PICK k \in INodeNo : Last(k)
  BY DEF DirTree, Making
<1>4. todo' = [todo EXCEPT ![1].pos = @ + 1]
  BY ProbesOn DEF NextDentry, Return
<1>5. Cur \in Call /\ Cur = todo[1] /\ Cur.pos \in Nat
  BY <1>1, CurType, CallFields DEF Cur, TypeOK
<1> DEFINE call == [Cur EXCEPT !.pos = @ + 1]
<1>6. todo' = [todo EXCEPT ![1] = call] /\ call.op = Cur.op
  BY <1>4, <1>5 DEF Call
<1> HIDE DEF call
<1>7. todo' # << >> /\ Cur' = call /\ Tail(todo') = Tail(todo)
  BY <1>1, <1>6, HeadMoved
<1>8. Growing(k) => Growing(k)'
  BY <1>1, <1>6, <1>7 DEF Growing, ExpandCall, CopyCall, ZeroDEntry, BAD_INODE
<1> QED  BY <1>1, <1>2, <1>3, <1>7, <1>8, FilesStep DEF SameChunks

LEMMA StoreDentryFiles ==
  ASSUME BlockWalk, DirTree, Files, StoreDentry PROVE Files'
<1>1. /\ todo # << >> /\ Cur.op = "add_dentry" /\ todo' = Tail(todo) /\ stage' = "idle"
      /\ UNCHANGED <<blk_no, table, content, inode_bitmap, inode>>
  BY DEF StoreDentry, Running, Return
<1>2. SameChunks
  BY <1>1, UntouchedChunks
<1>3. PICK k \in INodeNo : Last(k)
  BY DEF DirTree, Making
<1>4. ASSUME Growing(k) PROVE todo' # << >> /\ Growing(k)'
  <2>1. PICK size \in Nat : todo' = <<ExpandCall(k, size), CopyCall(k, size)>>
    BY <1>1, <1>4 DEF Growing
  <2>2. inode[k].f_size = 0
    BY <1>1, <1>4 DEF Growing
  <2>3. /\ todo' # << >> /\ Cur' = ExpandCall(k, size)
        /\ Tail(todo') = <<CopyCall(k, size)>>
    BY <2>1, CallLists DEF Cur
  <2>4. Cur'.op = "expand" /\ Cur'.pos = size
    BY <2>3 DEF ExpandCall
  <2>5. CopyCall(k, Cur.pos)' = CopyCall(k, size)
    BY <2>4 DEF CopyCall, ZeroDEntry, BAD_INODE
  <2> QED  BY <1>1, <2>2, <2>3, <2>4, <2>5 DEF Growing
<1> QED  BY <1>1, <1>2, <1>3, <1>4, FilesStep DEF SameChunks

LEMMA ExpandedFiles ==
  ASSUME BlockWalk, DirTree, Files, Expanded PROVE Files'
<1>1. /\ todo # << >> /\ Cur.op = "expand" /\ ~ Adding /\ todo' = Tail(todo)
      /\ stage = "ready" /\ UNCHANGED <<blk_no, table, content, inode_bitmap, inode>>
  BY DEF Expanded, Running, Return, Adding
<1>2. SameChunks
  BY <1>1, UntouchedChunks
<1>3. PICK k \in INodeNo : Last(k)
  BY DEF DirTree, Making
<1>4. PICK size : size = Cur.pos
  OBVIOUS
<1>5. size \in Nat /\ todo' = <<CopyCall(k, size)>> /\ inode[k].f_size = size
  <2>1. TypeOK
    BY DEF BlockWalk, Ownership
  <2> QED  BY <1>1, <1>3, <1>4, <2>1, WritingLast, CurType, CallFields DEF Growing
<1>6. todo' # << >> /\ Cur' = CopyCall(k, size) /\ Tail(todo') = << >>
  BY <1>5, CallLists DEF Cur
<1>7. Cur'.op = "copy" /\ Cur'.pos = 0 /\ Cur'.len = size
  BY <1>6 DEF CopyCall
<1>8. CopiedTo(k, Cur.pos)'
  BY <1>7 DEF CopiedTo
<1>9. Growing(k)'
  BY <1>1, <1>5, <1>6, <1>7, <1>8 DEF Growing
<1> QED  BY <1>1, <1>2, <1>3, <1>6, <1>9, FilesStep DEF SameChunks

(* The chunks up to the next block boundary, or to the end of the file.    *)
LEMMA SameBlock ==
  ASSUME NEW pos \in Nat, NEW off \in Nat, pos <= off,
         off < pos + (BLK_SIZE - (pos % BLK_SIZE))
  PROVE  off \div BLK_SIZE = pos \div BLK_SIZE
<1> DEFINE k == pos \div BLK_SIZE
           l == off \div BLK_SIZE
<1>1. BLK_SIZE \in Nat \ {0}
  BY Sorts
<1>2. /\ k \in Nat /\ pos = k * BLK_SIZE + (pos % BLK_SIZE) /\ pos % BLK_SIZE \in Nat
      /\ l \in Nat /\ off = l * BLK_SIZE + (off % BLK_SIZE)
      /\ off % BLK_SIZE \in 0 .. BLK_SIZE - 1
  BY <1>1, Euclid
<1>3. k <= l
  <2>1. k * BLK_SIZE <= off
    <3> HIDE DEF k, l
    <3>1. k * BLK_SIZE \in Nat
      BY <1>1, <1>2
    <3> QED  BY <1>2, <3>1
  <2> QED  BY <1>1, <1>2, <2>1, DivLeq
<1>4. ~ (k + 1 <= l)
  <2> SUFFICES ASSUME k + 1 <= l PROVE FALSE
    OBVIOUS
  <2>1. (k + 1) * BLK_SIZE <= off
    BY <1>1, <1>2, DivLeq
  <2> HIDE DEF k, l
  <2>2. (k + 1) * BLK_SIZE = k * BLK_SIZE + BLK_SIZE /\ k * BLK_SIZE \in Nat
    BY <1>1, <1>2
  <2> QED  BY <1>1, <1>2, <2>1, <2>2
<1> HIDE DEF k, l
<1>5. k = l
  BY <1>2, <1>3, <1>4
<1> QED  BY <1>5 DEF k, l

LEMMA CopyChunkFiles ==
  ASSUME BlockWalk, DirTree, Files, CopyChunk PROVE Files'
<1>1. /\ TypeOK /\ todo # << >> /\ Cur.op = "copy" /\ ~ Adding
      /\ UNCHANGED <<inode_bitmap, inode>>
      /\ todo' = [todo EXCEPT ![1].pos = @ + CopyLen, ![1].len = @ - CopyLen]
  BY DEF BlockWalk, Ownership, CopyChunk, Running, Return, Adding
<1>2. PICK k \in INodeNo : Last(k)
  BY DEF DirTree, Making
<1>3. Ino = k /\ Growing(k)
  BY <1>1, <1>2, WritingLast
<1>4. /\ Cur \in Call /\ Cur = todo[1] /\ Cur.pos \in Nat /\ Cur.len \in Nat
      /\ CopyLen \in Nat
  BY <1>1, CurType, CallFields, CopyLenType DEF Cur, TypeOK
<1>5. /\ Tail(todo) = << >> /\ Cur.pos + Cur.len = inode[k].f_size
      /\ CopiedTo(k, Cur.pos)
  BY <1>1, <1>3 DEF Growing
<1> DEFINE call == [[Cur EXCEPT !.pos = @ + CopyLen] EXCEPT !.len = @ - CopyLen]
<1>6. todo' = [todo EXCEPT ![1] = call]
  BY <1>1, <1>4 DEF TypeOK
<1>7. call.op = "copy" /\ call.pos = Cur.pos + CopyLen /\ call.len = Cur.len - CopyLen
  BY <1>1, <1>4 DEF Call
<1> HIDE DEF call
<1>8. todo' # << >> /\ Cur' = call /\ Tail(todo') = << >>
  BY <1>1, <1>5, <1>6, HeadMoved
<1>9. Cur'.pos + Cur'.len = inode[k].f_size
  BY <1>4, <1>5, <1>7, <1>8
<1>10. PICK at : at = Cur.pos \div BLK_SIZE
  OBVIOUS
<1>11. \A n \in INodeNo, c \in Nat :
         Chunk(n, c)' = IF n = k /\ c = at THEN <<k, at>> ELSE Chunk(n, c)
  BY <1>3, <1>10, ChunkWritten
<1>12. CopiedTo(k, Cur.pos)'
  <2> SUFFICES ASSUME NEW off \in Nat, off < Cur.pos + CopyLen
               PROVE  Chunk(k, off \div BLK_SIZE)' = <<k, off \div BLK_SIZE>>
    BY <1>7, <1>8 DEF CopiedTo, Copied
  <2>1. off \div BLK_SIZE \in Nat
    BY ChunkNo
  <2>2. CASE off < Cur.pos
    BY <1>5, <1>11, <2>1, <2>2 DEF CopiedTo, Copied
  <2>3. CASE ~ (off < Cur.pos)
    <3>1. CopyLen <= BLK_SIZE - (Cur.pos % BLK_SIZE)
      <4>1. BLK_SIZE \in Nat /\ Cur.pos % BLK_SIZE \in Int
        BY <1>4, Sorts
      <4> QED  BY <1>4, <4>1 DEF CopyLen, MinOf
    <3>2. off < Cur.pos + (BLK_SIZE - (Cur.pos % BLK_SIZE))
      <4>1. BLK_SIZE \in Nat /\ Cur.pos % BLK_SIZE \in Int
        BY <1>4, Sorts
      <4> QED  BY <1>4, <3>1, <4>1
    <3>3. off \div BLK_SIZE = at
      BY <1>4, <1>10, <2>3, <3>2, SameBlock
    <3> QED  BY <1>11, <2>1, <3>3
  <2> QED  BY <2>2, <2>3
<1>13. Growing(k)'
  BY <1>1, <1>7, <1>8, <1>9, <1>12 DEF Growing
<1> QED  BY <1>1, <1>2, <1>8, <1>11, <1>13, FilesStep

LEMMA CopyDoneFiles ==
  ASSUME BlockWalk, DirTree, Files, CopyDone PROVE Files'
<1>1. /\ TypeOK /\ todo # << >> /\ Cur.op = "copy" /\ ~ Adding /\ Cur.len = 0
      /\ todo' = Tail(todo)
      /\ UNCHANGED <<blk_no, table, content, inode_bitmap, inode>>
  BY DEF BlockWalk, Ownership, CopyDone, Running, Return, Adding
<1>2. SameChunks
  BY <1>1, UntouchedChunks
<1>3. PICK k \in INodeNo : Last(k)
  BY DEF DirTree, Making
<1>4. Growing(k) /\ Cur.pos \in Nat
  BY <1>1, <1>3, WritingLast, CurType, CallFields
<1>5. todo' = << >> /\ Cur.pos = inode[k].f_size /\ CopiedTo(k, Cur.pos)
  BY <1>1, <1>4 DEF Growing
<1>6. CopiedTo(k, inode[k].f_size)'
  BY <1>1, <1>2, <1>5, CopiedStays DEF SameChunks
<1> QED  BY <1>1, <1>2, <1>3, <1>5, <1>6, FilesStep DEF SameChunks

(* make_dir and make_file begin with an inode that holds nothing yet.      *)
LEMMA HostFiles ==
  ASSUME BlockWalk, DirTree, Files, todo = << >>, NEW n \in INodeNo, NEW node,
         AllocINode(n, node),
         \/ node.f_type = "DIR"
         \/ /\ node.f_size = 0 /\ todo' # << >> /\ Cur'.op = "add_dentry"
            /\ \E size \in Nat : Tail(todo') = <<ExpandCall(n, size), CopyCall(n, size)>>
  PROVE  Files'
<1>1. Last(n)' /\ inode'[n] = node /\ \A m \in INodeNo : m # n => inode'[m] = inode[m]
  BY NewINode
<1>2. SameChunks /\ inode_bitmap' = inode_bitmap \cup {n}
  BY NewINodeChunks DEF BlockWalk, AllocINode
<1> SUFFICES ASSUME NEW m \in INodeNo, m \in inode_bitmap', inode'[m].f_type = "REGULAR"
             PROVE  IF Unfinished(m)' THEN Growing(m)' ELSE CopiedTo(m, inode[m].f_size)'
  BY DEF Files, INodeNo
<1>3. Unfinished(m)' <=> todo' # << >> /\ m = n
  BY <1>1, UnfinishedNext
<1>4. CASE m = n
  <2>1. PICK size \in Nat : Tail(todo') = <<ExpandCall(n, size), CopyCall(n, size)>>
    BY <1>1, <1>4
  <2>2. inode'[n].f_size = 0 /\ todo' # << >> /\ Cur'.op = "add_dentry"
    BY <1>1, <1>4
  <2>3. ExpandCall(n, size)' = ExpandCall(n, size) /\ CopyCall(n, size)' = CopyCall(n, size)
    BY DEF ExpandCall, CopyCall, ZeroDEntry, BAD_INODE
  <2>4. Growing(n)'
    BY <2>1, <2>2, <2>3 DEF Growing
  <2> QED  BY <1>3, <1>4, <2>2, <2>4
<1>5. CASE m # n
  <2>1. m \in inode_bitmap /\ inode'[m] = inode[m]
    BY <1>1, <1>2, <1>5
  <2>2. CopiedTo(m, inode[m].f_size)
    BY <2>1 DEF Files, Unfinished
  <2>3. CopiedTo(m, inode[m].f_size)'
    BY <1>2, <2>1, <2>2, CopiedStays DEF SameChunks
  <2> QED  BY <1>3, <1>5, <2>3
<1> QED  BY <1>4, <1>5

LEMMA MakeDirFiles ==
  ASSUME BlockWalk, DirTree, Files, NEW name \in Names, MakeDir(name) PROVE Files'
<1>1. todo = << >> /\ \E n \in INodeNo : AllocINode(n, NewDir)
  BY DEF MakeDir, Between
<1> QED  BY <1>1, HostFiles DEF NewDir

LEMMA MakeFileFiles ==
  ASSUME BlockWalk, DirTree, Files, NEW name \in Names, NEW size \in FileSizes,
         MakeFile(name, size)
  PROVE  Files'
<1>1. todo = << >> /\ size \in Nat
  BY HostAssumption DEF MakeFile, Between
<1>2. PICK n \in INodeNo :
        /\ AllocINode(n, NewFile)
        /\ todo' = <<AddDentryCall(Top.dir, FileEntry(n, name)),
                     ExpandCall(n, size), CopyCall(n, size)>>
  BY DEF MakeFile
<1>3. /\ todo' # << >> /\ Cur' = AddDentryCall(Top.dir, FileEntry(n, name))
      /\ Tail(todo') = <<ExpandCall(n, size), CopyCall(n, size)>>
  BY <1>2, CallLists DEF Cur
<1>4. Cur'.op = "add_dentry" /\ NewFile.f_size = 0
  BY <1>3 DEF AddDentryCall, NewFile
<1> QED  BY <1>1, <1>2, <1>3, <1>4, HostFiles

LEMMA StepFiles == ASSUME BlockWalk, DirTree, Files, [Next]_vars PROVE Files'
<1>1. ASSUME UNCHANGED <<blk_no, table, content, inode, inode_bitmap, todo, stage>>
      PROVE  Files'
  <2>1. SameChunks
    BY <1>1, UntouchedChunks
  <2> SUFFICES ASSUME NEW n \in INodeNo \cap inode_bitmap, inode[n].f_type = "REGULAR"
               PROVE  IF Unfinished(n)' THEN Growing(n)' ELSE CopiedTo(n, inode[n].f_size)'
    BY <1>1 DEF Files, INodeNo
  <2>2. Unfinished(n)' <=> Unfinished(n)
    BY <1>1 DEF Unfinished
  <2>3. CASE Unfinished(n)
    <3>1. Growing(n) /\ todo # << >>
      BY <2>3 DEF Files, Unfinished
    <3> QED  BY <1>1, <2>1, <2>2, <2>3, <3>1, GrowingKept DEF Cur
  <2>4. CASE ~ Unfinished(n)
    <3>1. CopiedTo(n, inode[n].f_size)
      BY <2>4 DEF Files
    <3>2. CopiedTo(n, inode[n].f_size)'
      BY <1>1, <2>1, <3>1, CopiedStays DEF SameChunks
    <3> QED  BY <2>2, <2>4, <3>2
  <2> QED  BY <2>3, <2>4
<1>2. CASE GetBlknoStep
  BY <1>2, LoopsKeepFiles, CallGetBlknoFiles
<1>3. CASE CallerStep
  BY <1>3, NextDentryFiles, StoreDentryFiles, ExpandedFiles, CopyChunkFiles, CopyDoneFiles
  DEF CallerStep
<1>4. CASE \E name \in Names : MakeDir(name)
  BY <1>4, MakeDirFiles
<1>5. CASE \E name \in Names, size \in FileSizes : MakeFile(name, size)
  BY <1>5, MakeFileFiles
<1>6. CASE INodeOverrun \/ NameTooLong \/ LeaveDir
  BY <1>1, <1>6 DEF INodeOverrun, NameTooLong, LeaveDir, Halt, alloc_vars
<1>7. CASE UNCHANGED vars
  BY <1>1, <1>7 DEF vars, alloc_vars
<1> QED
  BY <1>2, <1>3, <1>4, <1>5, <1>6, <1>7 DEF Next, HostStep

LEMMA InitFiles == ASSUME Init PROVE Files
<1>1. inode = [n \in INodeNo |-> IF n = ROOT_INODE THEN NewDir ELSE ZeroINode]
  BY DEF Init
<1>2. \A n \in INodeNo : inode[n].f_type # "REGULAR"
  BY <1>1 DEF NewDir, ZeroINode
<1> QED  BY <1>2 DEF Files

----------------------------------------------------------------------------
(* Names on their way into the directories.                                *)

LEMMA TwoCalls ==
  ASSUME NEW a, NEW b
  PROVE  /\ Len(<< >>) = 0 /\ Len(<<a, b>>) = 2
         /\ \A i \in 1 .. 2 : <<a, b>>[i] \in {a, b}
<1>1. \A i \in 1 .. 2 : i = 1 \/ i = 2
  OBVIOUS
<1>2. Len(<< >>) = 0 /\ Len(<<a, b>>) = 2
  OBVIOUS
<1>3. <<a, b>>[1] = a /\ <<a, b>>[2] = b
  OBVIOUS
<1> QED  BY <1>1, <1>2, <1>3

LEMMA AddedIs ==
  ASSUME DirTree, Adding
  PROVE  /\ Cur.entry.inode # BAD_INODE /\ Cur.entry.name \in Names \cup {".", ".."}
         /\ Cur.entry.name \in Names =>
              \A i \in 1 .. Len(Tail(todo)) : Tail(todo)[i].entry.name \notin Names
<1>1. PICK n \in INodeNo : Last(n) /\ (Unnamed(n) \/ AllNamed(n) \/ RootInMaking(n))
  BY DEF DirTree, Making
<1>2. n # BAD_INODE
  BY <1>1 DEF Last, ROOT_INODE, BAD_INODE, INodeNo
<1>3. Cur.op = "add_dentry" /\ todo # << >>
  BY DEF Adding
<1>4. CASE RootInMaking(n)
  <2>1. Cur.entry \in {DirEntry(n, "."), DirEntry(n, "..")}
    BY <1>4 DEF RootInMaking, Doing, Dot, DotDot, AddDentryCall
  <2> QED  BY <1>2, <2>1, NamesApart DEF DirEntry
<1>5. CASE AllNamed(n)
  BY <1>3, <1>5 DEF AllNamed, Writing, Doing, ExpandCall, CopyCall
<1>6. CASE Unnamed(n)
  <2>1. PICK d \in Directories, name \in Names :
          d < n /\ (DirInMaking(n, d, name) \/ FileInMaking(n, d, name))
    BY <1>6 DEF Unnamed
  <2>2. d # BAD_INODE
    BY DEF Directories, DirTree
  <2>3. CASE DirInMaking(n, d, name)
    <3>1. \/ Cur.entry \in {DirEntry(n, "."), DirEntry(d, "..")}
          \/ Cur.entry = DirEntry(n, name) /\ Tail(todo) = << >>
      BY <2>3 DEF DirInMaking, Doing, Dot, DotDot, ChildDir, AddDentryCall
    <3>2. CASE Cur.entry \in {DirEntry(n, "."), DirEntry(d, "..")}
      BY <1>2, <2>2, <3>2, NamesApart DEF DirEntry
    <3>3. CASE Cur.entry = DirEntry(n, name) /\ Tail(todo) = << >>
      <4>1. Len(Tail(todo)) = 0
        BY <3>3, TwoCalls
      <4>2. Cur.entry.inode = n /\ Cur.entry.name \in Names
        BY <3>3 DEF DirEntry
      <4> QED  BY <1>2, <4>1, <4>2
    <3> QED  BY <3>1, <3>2, <3>3
  <2>4. CASE FileInMaking(n, d, name)
    <3>1. PICK size \in Nat : /\ Tail(todo) = <<ExpandCall(n, size), CopyCall(n, size)>>
                             /\ Cur.entry = FileEntry(n, name)
      BY <2>4 DEF FileInMaking, Doing, ChildFile, AddDentryCall
    <3>2. \A i \in 1 .. Len(Tail(todo)) :
            Tail(todo)[i] \in {ExpandCall(n, size), CopyCall(n, size)}
      BY <3>1, TwoCalls
    <3>3. ZeroDEntry.name \notin Names
      BY HostAssumption DEF ZeroDEntry
    <3>4. Cur.entry.inode = n /\ Cur.entry.name \in Names
      BY <3>1 DEF FileEntry
    <3> QED  BY <1>2, <3>2, <3>3, <3>4 DEF ExpandCall, CopyCall
  <2> QED  BY <2>1, <2>3, <2>4
<1> QED  BY <1>1, <1>4, <1>5, <1>6

LEMMA NamesKept ==
  ASSUME HostNames, SameRead, Directories' = Directories, InOnce', FreeNameless',
         \A d \in INodeNo, name \in Names :
           /\ Coming(d, name)' => Coming(d, name)
           /\ OnItsWay(d, name)' => OnItsWay(d, name)
  PROVE  HostNames'
<1>1. \A d \in INodeNo, p \in Nat : Read(d, p)' = Read(d, p) /\ (Entry(d, p)' <=> Entry(d, p))
  BY DEF SameRead, Entry, BAD_INODE
<1>2. Directories \subseteq INodeNo
  BY DEF Directories
<1>3. NamesDiffer'
  BY <1>1, <1>2 DEF HostNames, NamesDiffer
<1>4. \A d \in INodeNo, name \in Names : NoName(d, name) => NoName(d, name)'
  BY <1>1 DEF NoName
<1>5. MetOnce'
  BY <1>4 DEF HostNames, MetOnce, INodeNo
<1> QED  BY <1>3, <1>5 DEF HostNames

LEMMA SameDEntries ==
  ASSUME FreeNameless, UNCHANGED dentry PROVE FreeNameless'
BY DEF FreeNameless, BlockNo, BAD_INODE, BAD_BLOCK

LEMMA OnePointerNameless ==
  ASSUME TypeOK, FreeNameless, NEW b \in BlockNo, OnePointer(b) PROVE FreeNameless'
<1>1. b # BAD_BLOCK /\ dentry' = [dentry EXCEPT ![b] = ZeroDEntries]
  BY DEF OnePointer, INodePointer, TablePointer, NewBlock
<1>2. \A c \in BlockNo : dentry'[c] = IF c = b THEN ZeroDEntries ELSE dentry[c]
  BY <1>1 DEF TypeOK
<1>3. \A r \in 0 .. BLK_SIZE - 1 :
        ZeroDEntries[r].inode = BAD_INODE /\ ZeroDEntries[r].name = ""
  BY DEF ZeroDEntries, ZeroDEntry
<1>4. BAD_BLOCK \in BlockNo /\ "" \notin Names
  BY Sorts, HostAssumption
<1>5. \A c \in BlockNo, r \in 0 .. BLK_SIZE - 1 :
        \/ dentry'[c][r].inode = BAD_INODE /\ dentry'[c][r].name \notin Names
        \/ dentry'[c][r] = dentry[c][r]
  BY <1>2, <1>3, <1>4
<1>6. \A r \in 0 .. BLK_SIZE - 1 : dentry'[BAD_BLOCK][r] = dentry[BAD_BLOCK][r]
  BY <1>1, <1>2, <1>4
<1> QED  BY <1>5, <1>6 DEF FreeNameless, BlockNo, BAD_INODE, BAD_BLOCK

LEMMA SameDirectories ==
  ASSUME UNCHANGED inode_bitmap, \A n \in INodeNo : inode'[n].f_type = inode[n].f_type
  PROVE  Directories' = Directories
BY DEF Directories, INodeNo

LEMMA SameFrames ==
  ASSUME UNCHANGED stack
  PROVE  /\ InOnce => InOnce'
         /\ \A d \in INodeNo, name \in Names : Coming(d, name)' => Coming(d, name)
BY DEF InOnce, Coming

LEMMA GetBlknoStepNames ==
  ASSUME BlockWalk, DirTree, Files, HostNames, GetBlknoStep PROVE HostNames'
<1>1. TypeOK /\ InOnce /\ FreeNameless
  BY DEF BlockWalk, Ownership, HostNames
<1>2. CASE CallGetBlkno
  <2>1. UNCHANGED <<blk_no, table, dentry, inode_bitmap, stack, todo>>
    BY <1>2, AlwaysGrows DEF CallGetBlkno, alloc_vars
  <2>2. \A n \in INodeNo : inode'[n].f_type = inode[n].f_type
    <3>1. Ino \in INodeNo /\ inode \in [INodeNo -> INode]
      BY <1>1, <1>2, CurType DEF CallGetBlkno, Running, TypeOK
    <3>2. inode' = [inode EXCEPT ![Ino].f_size = IF @ < Off THEN Off ELSE @]
      BY <1>2, AlwaysGrows DEF CallGetBlkno
    <3> QED  BY <3>1, <3>2 DEF INode
  <2> QED
    BY <1>1, <2>1, <2>2, UntouchedRead, SameDirectories, SameDEntries, SameFrames, NamesKept
    DEF OnItsWay
<1>3. CASE ~ CallGetBlkno
  <2>1. /\ UNCHANGED dentry \/ \E b \in BlockNo : OnePointer(b)
        /\ UNCHANGED <<inode, inode_bitmap, todo, stack>>
    BY <1>3, LoopsPoint
  <2>2. SameRead
    BY <1>3, LoopsKeepTree
  <2>3. FreeNameless'
    BY <1>1, <2>1, SameDEntries, OnePointerNameless
  <2> QED
    BY <1>1, <2>1, <2>2, <2>3, SameDirectories, SameFrames, NamesKept DEF OnItsWay
<1> QED  BY <1>2, <1>3

LEMMA CallsNotNew ==
  ASSUME TypeOK, CallerStep
  PROVE  \A d \in INodeNo, name \in Names : OnItsWay(d, name)' => OnItsWay(d, name)
BY CallsLeft DEF OnItsWay

LEMMA NoStoreNames ==
  ASSUME BlockWalk, HostNames, CallerStep, ~ StoreDentry PROVE HostNames'
<1>1. TypeOK /\ InOnce /\ FreeNameless
  BY DEF BlockWalk, Ownership, HostNames
<1>2. UNCHANGED <<blk_no, table, dentry, inode, inode_bitmap, stack>>
  BY DEF CallerStep, NextDentry, Expanded, CopyChunk, CopyDone, Return
<1> QED
  BY <1>1, <1>2, UntouchedRead, SameDirectories, SameDEntries, SameFrames, CallsNotNew, NamesKept

LEMMA StoreDentryNames ==
  ASSUME BlockWalk, DirTree, HostNames, StoreDentry PROVE HostNames'
<1>1. /\ Ownership /\ TypeOK /\ Running("ready") /\ Adding /\ CallerStep /\ todo # << >>
      /\ UNCHANGED <<blk_no, table, inode, inode_bitmap, stack>> /\ todo' = Tail(todo)
      /\ dentry' = [dentry EXCEPT
                     ![GetBlkno(Ino, Cur.pos)][Cur.pos % BLK_SIZE] = Cur.entry]
  BY DEF BlockWalk, Ownership, StoreDentry, Running, Return, Adding, CallerStep
<1>2. NamesDiffer /\ InOnce /\ MetOnce /\ FreeNameless
  BY DEF HostNames
<1>3. PICK d, q, e : d = Ino /\ q = Cur.pos /\ e = Cur.entry
  OBVIOUS
<1>4. d \in Directories /\ d \in INodeNo /\ q \in Nat /\ Stored(d, q) /\ Probing(q)
  BY <1>3, FreePlace
<1>5. /\ e.inode # BAD_INODE /\ e.name \in Names \cup {".", ".."}
      /\ e.name \in Names =>
           \A i \in 1 .. Len(todo') : todo'[i].entry.name \notin Names
  BY <1>1, <1>3, AddedIs
<1>6. \A n \in INodeNo, p \in Nat :
        Read(n, p)' = IF n = d /\ p = q THEN e ELSE Read(n, p)
  BY <1>1, <1>3, StoreRead
<1>7. \A n \in INodeNo, p \in Nat : Entry(n, p)' <=> Entry(n, p) \/ (n = d /\ p = q)
  BY <1>5, <1>6 DEF Entry, BAD_INODE
<1>8. e.name \in Names => OnItsWay(d, e.name)
  <2>1. 1 \in 1 .. Len(todo) /\ todo[1] = Cur
    BY <1>1 DEF TypeOK, Cur
  <2> QED  BY <1>3, <2>1 DEF OnItsWay, Ino
<1>9. NoName(d, e.name)
  <2>1. CASE e.name \in Names
    BY <1>2, <1>4, <1>8, <2>1 DEF MetOnce
  <2>2. CASE e.name = "."
    <3>1. Stored(d, 0)
      BY <1>3, <1>4, <2>2 DEF Probing
    <3> QED  BY <3>1 DEF Stored, NoName
  <2>3. CASE e.name = ".."
    <3>1. Stored(d, 1)
      BY <1>3, <1>4, <2>3 DEF Probing
    <3>2. \A p \in Nat : Entry(d, p) => p = 0
      BY <3>1 DEF Stored
    <3>3. Entry(d, 0) => Truthful(d, 0)
      BY <1>4 DEF DirTree, EntriesTruthful
    <3>4. Entry(d, 0) => Read(d, 0).name = "."
      BY <3>3 DEF Truthful, DirEntry
    <3> QED  BY <2>3, <3>2, <3>4, NamesApart DEF NoName
  <2> QED  BY <1>5, <2>1, <2>2, <2>3
<1>10. Directories' = Directories /\ Directories \subseteq INodeNo
  BY <1>1 DEF Directories, INodeNo
<1>11. NamesDiffer'
  <2> SUFFICES ASSUME NEW c \in Directories, NEW p \in Nat, NEW r \in Nat,
                      Entry(c, p)', Entry(c, r)', Read(c, p)'.name = Read(c, r)'.name
               PROVE  p = r
    BY <1>10 DEF NamesDiffer
  <2>1. c \in INodeNo
    BY <1>10
  <2>2. CASE ~ (c = d /\ (p = q \/ r = q))
    BY <1>2, <1>6, <1>7, <2>1, <2>2 DEF NamesDiffer
  <2>3. CASE c = d /\ (p = q \/ r = q)
    BY <1>6, <1>7, <1>9, <2>1, <2>3 DEF NoName
  <2> QED  BY <2>2, <2>3
<1>12. MetOnce'
  <2> SUFFICES ASSUME NEW c \in INodeNo, NEW name \in Names
               PROVE  /\ Coming(c, name)' \/ OnItsWay(c, name)' => NoName(c, name)'
                      /\ ~ (Coming(c, name)' /\ OnItsWay(c, name)')
    BY DEF MetOnce, INodeNo
  <2>1. /\ Coming(c, name)' => Coming(c, name)
        /\ OnItsWay(c, name)' => OnItsWay(c, name)
    BY <1>1, SameFrames, CallsNotNew
  <2>2. OnItsWay(c, name)' => name # e.name
    BY <1>5 DEF OnItsWay
  <2>3. Coming(c, name)' => ~ (c = d /\ name = e.name)
    BY <1>2, <1>4, <1>8, <2>1 DEF MetOnce
  <2>4. NoName(c, name) /\ ~ (c = d /\ name = e.name) => NoName(c, name)'
    BY <1>6, <1>7 DEF NoName
  <2> QED  BY <1>2, <2>1, <2>2, <2>3, <2>4 DEF MetOnce
<1>13. FreeNameless'
  <2>1. PICK c, o : c = BlockAt(Ino, Cur.pos \div BLK_SIZE) /\ o = Cur.pos % BLK_SIZE
    OBVIOUS
  <2>2. /\ c # BAD_BLOCK
        /\ \A b \in BlockNo, r \in 0 .. BLK_SIZE - 1 :
             dentry'[b][r] = IF b = c /\ r = o THEN e ELSE dentry[b][r]
    BY <1>1, <1>3, <2>1, StorePlace
  <2>3. BAD_BLOCK \in BlockNo
    BY Sorts
  <2> QED  BY <1>2, <1>5, <2>2, <2>3 DEF FreeNameless, BlockNo, BAD_INODE, BAD_BLOCK
<1> QED  BY <1>1, <1>2, <1>11, <1>12, <1>13, SameFrames DEF HostNames

(* make_fs takes a name off the directory on top.                          *)
LEMMA TakenFrames ==
  ASSUME TypeOK, Between, InOnce, NEW name \in Names, name \in Top.rest,
         NEW d, d = Top.dir
  PROVE  /\ Coming(d, name)
         /\ \A i \in 1 .. Len(stack) : \A x \in Taken(name)[i].rest :
              x \in stack[i].rest /\ ~ (stack[i].dir = d /\ x = name)
<1>1. /\ \A i \in 1 .. Len(stack) :
           /\ Taken(name)[i].dir = stack[i].dir
           /\ Taken(name)[i].rest =
                IF i = Len(stack) THEN stack[i].rest \ {name} ELSE stack[i].rest
      /\ d = stack[Len(stack)].dir /\ Len(stack) \in 1 .. Len(stack)
  BY TakenKeepsDirs
<1>2. Coming(d, name)
  BY <1>1 DEF Coming, Top
<1>3. ASSUME NEW i \in 1 .. Len(stack), NEW x \in Taken(name)[i].rest
      PROVE  x \in stack[i].rest /\ ~ (stack[i].dir = d /\ x = name)
  <2>1. stack[i].dir = d => i = Len(stack)
    BY <1>1 DEF InOnce
  <2> QED  BY <1>1, <2>1
<1> QED  BY <1>2, <1>3

LEMMA NameTaken ==
  ASSUME BlockWalk, DirTree, HostNames, todo = << >>,
         NEW n \in INodeNo, NEW node, AllocINode(n, node), InOnce',
         NEW d \in Directories, NEW name \in Names, Coming(d, name),
         \A c \in INodeNo, x \in Names :
           /\ OnItsWay(c, x)' => c = d /\ x = name
           /\ Coming(c, x)' => c = n \/ (Coming(c, x) /\ ~ (c = d /\ x = name))
  PROVE  HostNames'
<1>1. /\ SameRead /\ \A p \in Nat : ~ Entry(n, p)'
      /\ \A c \in Directories' : c \in Directories \/ c = n
      /\ d < n
  BY NewINode
<1>2. NamesDiffer /\ MetOnce /\ FreeNameless /\ UNCHANGED dentry /\ d \in INodeNo
  BY DEF HostNames, AllocINode, Directories
<1>3. \A c \in INodeNo, p \in Nat : Read(c, p)' = Read(c, p) /\ (Entry(c, p)' <=> Entry(c, p))
  BY <1>1 DEF SameRead, Entry, BAD_INODE
<1>4. NamesDiffer'
  <2> SUFFICES ASSUME NEW c \in Directories', NEW p \in Nat, NEW r \in Nat,
                      Entry(c, p)', Entry(c, r)', Read(c, p)'.name = Read(c, r)'.name
               PROVE  p = r
    BY DEF NamesDiffer
  <2>1. c \in Directories /\ c \in INodeNo
    BY <1>1 DEF Directories
  <2> QED  BY <1>2, <1>3, <2>1 DEF NamesDiffer
<1>5. MetOnce'
  <2> SUFFICES ASSUME NEW c \in INodeNo, NEW x \in Names
               PROVE  /\ Coming(c, x)' \/ OnItsWay(c, x)' => NoName(c, x)'
                      /\ ~ (Coming(c, x)' /\ OnItsWay(c, x)')
    BY DEF MetOnce, INodeNo
  <2>1. /\ OnItsWay(c, x)' => c = d /\ x = name
        /\ Coming(c, x)' => c = n \/ (Coming(c, x) /\ ~ (c = d /\ x = name))
    OBVIOUS
  <2>2. d # n
    BY <1>1, <1>2 DEF INodeNo
  <2>3. NoName(n, x)'
    BY <1>1 DEF NoName
  <2>4. NoName(c, x) => NoName(c, x)'
    BY <1>3 DEF NoName
  <2>5. Coming(c, x) => NoName(c, x)
    BY <1>2 DEF MetOnce
  <2> QED  BY <2>1, <2>2, <2>3, <2>4, <2>5
<1> QED  BY <1>2, <1>4, <1>5, SameDEntries DEF HostNames

LEMMA ThreeListed ==
  ASSUME NEW a, NEW b, NEW c
  PROVE  Len(<<a, b, c>>) = 3 /\ \A i \in 1 .. 3 : <<a, b, c>>[i] \in {a, b, c}
<1>1. \A i \in 1 .. 3 : i = 1 \/ i = 2 \/ i = 3
  OBVIOUS
<1>2. Len(<<a, b, c>>) = 3
  OBVIOUS
<1>3. <<a, b, c>>[1] = a /\ <<a, b, c>>[2] = b /\ <<a, b, c>>[3] = c
  OBVIOUS
<1> QED  BY <1>1, <1>2, <1>3

LEMMA MakeDirNames ==
  ASSUME BlockWalk, DirTree, HostNames, NEW name \in Names, MakeDir(name) PROVE HostNames'
<1>1. PICK n \in INodeNo :
        /\ AllocINode(n, NewDir)
        /\ todo' = Append(DotCalls(n, Top.dir), AddDentryCall(Top.dir, DirEntry(n, name)))
        /\ stack' = Append(Taken(name), [dir |-> n, rest |-> Names])
  BY DEF MakeDir
<1>2. /\ TypeOK /\ Ownership /\ Between /\ todo = << >> /\ name \in Top.rest /\ InOnce
      /\ DirsAreDirs
  BY DEF MakeDir, Between, BlockWalk, Ownership, HostNames
<1>3. PICK d : d = Top.dir
  OBVIOUS
<1>4. d \in Directories /\ Taken(name) \in Seq(Frame)
  BY <1>2, <1>3, TopIsDir, TakenDirs
<1>5. \A i \in 1 .. Len(stack) : stack[i].dir < n /\ stack[i].dir \in INodeNo
  <2>1. \A c \in Directories : c < n
    BY <1>1, <1>2, NewINode
  <2>2. \A i \in 1 .. Len(stack) : stack[i].dir \in Directories /\ stack[i].dir \in INodeNo
    BY <1>2, INodesKnown DEF Ownership, INodesInUse, DirsAreDirs, Directories
  <2> QED  BY <2>1, <2>2
<1>6. \A c \in INodeNo, x \in Names : OnItsWay(c, x)' => c = d /\ x = name
  <2>1. todo' = <<Dot(n), DotDot(n, d), ChildDir(n, d, name)>>
    <3>1. todo' = Append(<<Dot(n), DotDot(n, d)>>, ChildDir(n, d, name))
      BY <1>1, <1>3 DEF DotCalls, Dot, DotDot, ChildDir
    <3> QED  BY <3>1, ThreeCalls
  <2>2. \A i \in 1 .. Len(todo') : todo'[i] \in {Dot(n), DotDot(n, d), ChildDir(n, d, name)}
    BY <2>1, ThreeListed
  <2> QED
    BY <2>2, NamesApart DEF OnItsWay, Dot, DotDot, ChildDir, AddDentryCall, DirEntry
<1>7. /\ Len(stack') = Len(stack) + 1 /\ stack'[Len(stack) + 1] = [dir |-> n, rest |-> Names]
      /\ \A i \in 1 .. Len(stack) : stack'[i] = Taken(name)[i]
      /\ \A i \in 1 .. Len(stack) : Taken(name)[i].dir = stack[i].dir
      /\ Len(stack) \in Nat
  <2>1. [dir |-> n, rest |-> Names] \in Frame /\ Len(stack) \in Nat
    BY <1>2 DEF Frame, TypeOK
  <2>2. /\ Len(Taken(name)) = Len(stack)
        /\ \A i \in 1 .. Len(stack) : Taken(name)[i].dir = stack[i].dir
    BY <1>2, TakenKeepsDirs
  <2> QED  BY <1>1, <1>4, <2>1, <2>2, AppendProperties
<1>8. /\ Coming(d, name)
      /\ \A i \in 1 .. Len(stack) : \A x \in Taken(name)[i].rest :
           x \in stack[i].rest /\ ~ (stack[i].dir = d /\ x = name)
  BY <1>2, <1>3, TakenFrames
<1>9. \A i \in 1 .. Len(stack') : i \in 1 .. Len(stack) \/ i = Len(stack) + 1
  BY <1>7
<1>10. \A c \in INodeNo, x \in Names :
         Coming(c, x)' => c = n \/ (Coming(c, x) /\ ~ (c = d /\ x = name))
  BY <1>7, <1>8, <1>9 DEF Coming
<1>11. InOnce'
  <2>1. \A i \in 1 .. Len(stack') :
          \/ i \in 1 .. Len(stack) /\ stack'[i].dir = stack[i].dir /\ stack'[i].dir # n
          \/ i = Len(stack) + 1 /\ stack'[i].dir = n
    BY <1>5, <1>7, <1>9 DEF INodeNo
  <2> QED  BY <1>2, <2>1 DEF InOnce
<1> QED  BY <1>1, <1>2, <1>4, <1>6, <1>8, <1>10, <1>11, NameTaken

LEMMA MakeFileNames ==
  ASSUME BlockWalk, DirTree, HostNames, NEW name \in Names, NEW size \in FileSizes,
         MakeFile(name, size)
  PROVE  HostNames'
<1>1. PICK n \in INodeNo :
        /\ AllocINode(n, NewFile)
        /\ todo' = <<AddDentryCall(Top.dir, FileEntry(n, name)),
                     ExpandCall(n, size), CopyCall(n, size)>>
  BY DEF MakeFile
<1>2. /\ TypeOK /\ Ownership /\ Between /\ todo = << >> /\ name \in Top.rest /\ InOnce
      /\ DirsAreDirs /\ stack' = Taken(name)
  BY DEF MakeFile, Between, BlockWalk, Ownership, HostNames
<1>3. PICK d : d = Top.dir
  OBVIOUS
<1>4. d \in Directories
  BY <1>2, <1>3, TopIsDir
<1>5. \A c \in INodeNo, x \in Names : OnItsWay(c, x)' => c = d /\ x = name
  <2>1. todo' = <<ChildFile(n, d, name), ExpandCall(n, size), CopyCall(n, size)>>
    BY <1>1, <1>3 DEF ChildFile
  <2>2. \A i \in 1 .. Len(todo') :
          todo'[i] \in {ChildFile(n, d, name), ExpandCall(n, size), CopyCall(n, size)}
    BY <2>1, ThreeListed
  <2>3. ZeroDEntry.name \notin Names
    BY HostAssumption DEF ZeroDEntry
  <2> QED
    BY <2>2, <2>3 DEF OnItsWay, ChildFile, AddDentryCall, FileEntry, ExpandCall, CopyCall
<1>6. /\ Len(Taken(name)) = Len(stack)
      /\ \A i \in 1 .. Len(stack) : Taken(name)[i].dir = stack[i].dir
  BY <1>2, TakenKeepsDirs
<1>7. /\ Coming(d, name)
      /\ \A i \in 1 .. Len(stack) : \A x \in Taken(name)[i].rest :
           x \in stack[i].rest /\ ~ (stack[i].dir = d /\ x = name)
  BY <1>2, <1>3, TakenFrames
<1>8. \A c \in INodeNo, x \in Names :
        Coming(c, x)' => c = n \/ (Coming(c, x) /\ ~ (c = d /\ x = name))
  BY <1>2, <1>6, <1>7 DEF Coming
<1>9. InOnce'
  BY <1>2, <1>6 DEF InOnce
<1> QED  BY <1>1, <1>2, <1>4, <1>5, <1>7, <1>8, <1>9, NameTaken

LEMMA StepNames ==
  ASSUME BlockWalk, DirTree, Files, HostNames, [Next]_vars PROVE HostNames'
<1>1. TypeOK /\ InOnce /\ FreeNameless
  BY DEF BlockWalk, Ownership, HostNames
<1>2. ASSUME UNCHANGED <<alloc_vars, inode, inode_bitmap, todo>>, InOnce',
             \A d \in INodeNo, name \in Names : Coming(d, name)' => Coming(d, name)
      PROVE  HostNames'
  BY <1>1, <1>2, UntouchedRead, SameDirectories, SameDEntries, NamesKept DEF OnItsWay, alloc_vars
<1>3. CASE GetBlknoStep
  BY <1>3, GetBlknoStepNames
<1>4. CASE CallerStep
  BY <1>4, StoreDentryNames, NoStoreNames
<1>5. CASE \E name \in Names : MakeDir(name)
  BY <1>5, MakeDirNames
<1>6. CASE \E name \in Names, size \in FileSizes : MakeFile(name, size)
  BY <1>6, MakeFileNames
<1>7. CASE INodeOverrun \/ NameTooLong
  <2>1. UNCHANGED <<alloc_vars, inode, inode_bitmap, todo, stack>>
    BY <1>7 DEF INodeOverrun, NameTooLong, Halt, alloc_vars
  <2> QED  BY <1>1, <1>2, <2>1, SameFrames
<1>8. CASE LeaveDir
  <2>1. /\ UNCHANGED <<alloc_vars, inode, inode_bitmap, todo>>
        /\ stack' = SubSeq(stack, 1, Len(stack) - 1)
    BY <1>8 DEF LeaveDir, alloc_vars
  <2>2. \A i \in 1 .. Len(stack') : stack'[i] = stack[i] /\ i \in 1 .. Len(stack)
    BY <1>1, <2>1 DEF TypeOK
  <2>3. InOnce' /\ \A d \in INodeNo, name \in Names : Coming(d, name)' => Coming(d, name)
    BY <1>1, <2>2 DEF InOnce, Coming
  <2> QED  BY <1>2, <2>1, <2>3
<1>9. CASE UNCHANGED vars
  <2>1. UNCHANGED <<alloc_vars, inode, inode_bitmap, todo, stack>>
    BY <1>9 DEF vars, alloc_vars
  <2> QED  BY <1>1, <1>2, <2>1, SameFrames
<1> QED
  BY <1>3, <1>4, <1>5, <1>6, <1>7, <1>8, <1>9 DEF Next, HostStep

LEMMA InitNames == ASSUME Init PROVE HostNames
<1>1. TypeOK /\ Ownership /\ NullTable
  BY InitOwnership, InitWalk DEF Ownership, BlockWalk
<1>2. \A n \in INodeNo, p \in Nat : ~ Entry(n, p)
  <2>1. \A n \in INodeNo, k \in PtrIdx : blk_no[n][k] = BAD_BLOCK
    BY DEF Init, ZeroPtrs
  <2> QED  BY <1>1, <2>1, EmptyRead
<1>3. NamesDiffer
  BY <1>2 DEF NamesDiffer, Directories
<1>4. Len(stack) = 1
  BY DEF Init
<1>5. InOnce
  BY <1>4 DEF InOnce
<1>6. todo = <<Dot(ROOT_INODE), DotDot(ROOT_INODE, ROOT_INODE)>>
  BY DEF Init, DotCalls, Dot, DotDot
<1>7. \A i \in 1 .. Len(todo) :
        todo[i] \in {Dot(ROOT_INODE), DotDot(ROOT_INODE, ROOT_INODE)}
  BY <1>6, TwoCalls
<1>8. \A d \in INodeNo, name \in Names : ~ OnItsWay(d, name)
  BY <1>7, NamesApart DEF OnItsWay, Dot, DotDot, AddDentryCall, DirEntry
<1>9. MetOnce
  BY <1>2, <1>8 DEF MetOnce, NoName
<1>10. FreeNameless
  <2>1. \A b \in BlockNo, r \in 0 .. BLK_SIZE - 1 : dentry[b][r] = ZeroDEntry
    BY DEF Init, ZeroDEntries
  <2>2. BAD_BLOCK \in BlockNo
    BY Sorts
  <2>3. ZeroDEntry.inode = BAD_INODE /\ ZeroDEntry.name \notin Names
    BY HostAssumption DEF ZeroDEntry
  <2> QED  BY <2>1, <2>2, <2>3 DEF FreeNameless
<1> QED  BY <1>3, <1>5, <1>9, <1>10 DEF HostNames

LEMMA StepDirectories ==
  ASSUME BlockWalk, DirTree, [Next]_vars PROVE Directories \subseteq Directories'
<1>1. TypeOK
  BY DEF BlockWalk, Ownership
<1>2. CASE CallGetBlkno
  <2>1. Ino \in INodeNo /\ inode \in [INodeNo -> INode] /\ UNCHANGED inode_bitmap
    BY <1>1, <1>2, CurType DEF CallGetBlkno, Running, TypeOK
  <2>2. \/ inode' = [inode EXCEPT ![Ino].f_size = IF @ < Off THEN Off ELSE @]
        \/ inode' = inode
    BY <1>2 DEF CallGetBlkno
  <2>3. \A n \in INodeNo : inode'[n].f_type = inode[n].f_type
    BY <2>1, <2>2 DEF INode
  <2> QED  BY <2>1, <2>3, SameDirectories
<1>3. CASE GetBlknoStep /\ ~ CallGetBlkno
  BY <1>3, LoopsPoint, SameDirectories
<1>4. CASE CallerStep
  <2>1. UNCHANGED <<inode, inode_bitmap>>
    BY <1>4 DEF CallerStep, NextDentry, StoreDentry, Expanded, CopyChunk, CopyDone, Return
  <2> QED  BY <2>1, SameDirectories
<1>5. CASE (\E name \in Names : MakeDir(name)) \/
           (\E name \in Names, size \in FileSizes : MakeFile(name, size))
  <2>1. todo = << >> /\ \E n \in INodeNo, node \in {NewDir, NewFile} : AllocINode(n, node)
    BY <1>5 DEF MakeDir, MakeFile, Between
  <2> QED  BY <2>1, NewINode
<1>6. CASE INodeOverrun \/ NameTooLong \/ LeaveDir \/ UNCHANGED vars
  <2>1. UNCHANGED <<inode, inode_bitmap>>
    BY <1>6 DEF INodeOverrun, NameTooLong, LeaveDir, Halt, vars
  <2> QED  BY <2>1, SameDirectories
<1> QED  BY <1>2, <1>3, <1>4, <1>5, <1>6 DEF Next, HostStep

LEMMA StepImage == ASSUME Image, [Next]_vars PROVE Image'
<1>1. ROOT_INODE \in Directories'
  BY StepDirectories DEF Image, Shape
<1> QED  BY <1>1, StepWalk, StepTree, StepFiles, StepNames DEF Image, Shape, ROOT_INODE

LEMMA InitImage == ASSUME Init PROVE Image
<1>1. ROOT_INODE \in Directories
  BY Sorts DEF Init, Directories, NewDir
<1> QED  BY <1>1, InitWalk, InitTree, InitFiles, InitNames DEF Image, Shape

(* Whatever the host tree: directories by the rules, files that hold what  *)
(* was copied as far as the copy has come, and every name once.            *)
THEOREM ImageHolds == Spec => []Image
BY InitImage, StepImage, PTL DEF Spec

----------------------------------------------------------------------------
(* What a reader finds, entry by entry.                                    *)

Line(n, d, p) ==
  [dir |-> d, name |-> Read(d, p).name, inode |-> n, f_type |-> Read(d, p).f_type,
   size |-> IF Read(d, p).f_type = "REGULAR" THEN inode[n].f_size ELSE 0]
Shown(n, d, p) == NamedAt(n, d, p) /\ ~ Unfinished(n)

SeenAs ==
  \A e : e \in TreeSeen <=>
           \E n \in INodeNo, d \in Directories, p \in Nat :
             Shown(n, d, p) /\ e = Line(n, d, p)

(* The image has fewer blocks than an inode can point to.                  *)
LEMMA RoomToGrow ==
  ASSUME Ownership, NullTable, NEW n \in INodeNo, NEW m \in Nat, Stored(n, m)
  PROVE  m \div BLK_SIZE < MaxBlocks
<1> SUFFICES ASSUME ~ (m \div BLK_SIZE < MaxBlocks) PROVE FALSE
  OBVIOUS
<1> DEFINE places == 0 .. MaxBlocks - 1
           f == [k \in places |-> BlockAt(n, k)]
<1>1. /\ BLK_SIZE \in Nat \ {0} /\ BLK_COUNT \in Nat \ {0} /\ MaxBlocks \in Nat
      /\ BLK_COUNT - 1 < MaxBlocks
  <2> DEFINE square == BLKNO_PER_BLK * BLKNO_PER_BLK
  <2>1. square \in Nat
    BY Sorts
  <2>2. BLK_COUNT <= square /\ MaxBlocks = DIRECT_BLK_COUNT + BLKNO_PER_BLK + square
    BY GeometryAssumption DEF MaxBlocks
  <2> HIDE DEF square
  <2> QED  BY Sorts, <2>1, <2>2
<1>2. ASSUME NEW k \in places PROVE BlockAt(n, k) # BAD_BLOCK /\ k \in Nat /\ k < MaxBlocks
  <2>1. k \in Nat /\ k < MaxBlocks /\ m \div BLK_SIZE \in Nat
    BY <1>1, DivMod
  <2>2. k + 1 <= m \div BLK_SIZE /\ k + 1 \in Int
    BY <1>1, <2>1
  <2>3. (k + 1) * BLK_SIZE <= m
    BY <1>1, <2>2, DivLeq
  <2>4. k * BLK_SIZE \in Nat /\ (k + 1) * BLK_SIZE = k * BLK_SIZE + BLK_SIZE
    BY <1>1, <2>1
  <2>5. k * BLK_SIZE < m
    BY <1>1, <2>3, <2>4
  <2>6. Entry(n, k * BLK_SIZE)
    BY <2>4, <2>5 DEF Stored
  <2>7. Has(n, k * BLK_SIZE)
    BY <2>6 DEF Entry, Read, ZeroDEntry
  <2>8. (k * BLK_SIZE) \div BLK_SIZE = k
    <3>1. PICK a \in Nat : a = k * BLK_SIZE
      BY <2>4
    <3>2. a < (k + 1) * BLK_SIZE /\ k * BLK_SIZE <= a
      BY <1>1, <2>4, <3>1
    <3>3. k <= a \div BLK_SIZE /\ ~ (k + 1 <= a \div BLK_SIZE)
      <4>1. k <= a \div BLK_SIZE
        BY <1>1, <2>1, <3>2, DivLeq
      <4>2. ~ (k + 1 <= a \div BLK_SIZE)
        <5>1. ~ ((k + 1) * BLK_SIZE <= a)
          BY <1>1, <2>4, <3>1, <3>2
        <5> QED  BY <1>1, <2>2, <5>1, DivLeq
      <4> QED  BY <4>1, <4>2
    <3>4. a \div BLK_SIZE \in Nat
      BY <1>1, DivMod
    <3> QED  BY <2>1, <3>1, <3>3, <3>4
  <2> QED  BY <2>1, <2>7, <2>8 DEF Has
<1>3. \A k \in places : f[k] \in 1 .. BLK_COUNT - 1
  <2> SUFFICES ASSUME NEW k \in places PROVE BlockAt(n, k) \in 1 .. BLK_COUNT - 1
    OBVIOUS
  <2>1. BlockAt(n, k) \in BlockNo /\ BlockAt(n, k) # BAD_BLOCK
    BY <1>2, BlockAtType
  <2> QED  BY <2>1 DEF BlockNo, BAD_BLOCK
<1>4. \A k, l \in places : f[k] = f[l] => k = l
  <2> SUFFICES ASSUME NEW k \in places, NEW l \in places, BlockAt(n, k) = BlockAt(n, l)
               PROVE  k = l
    OBVIOUS
  <2>1. /\ k \in Nat /\ k < MaxBlocks /\ l \in Nat /\ l < MaxBlocks
        /\ BlockAt(n, k) # BAD_BLOCK
    BY <1>2
  <2> QED  BY <2>1, BlockAtOnce
<1>5. Cardinality(places) = MaxBlocks /\ IsFiniteSet(places)
  BY <1>1, FS_Interval
<1>6. Cardinality(1 .. BLK_COUNT - 1) = BLK_COUNT - 1 /\ IsFiniteSet(1 .. BLK_COUNT - 1)
  BY <1>1, FS_Interval
<1>7. f \in [places -> 1 .. BLK_COUNT - 1]
  BY <1>3
<1> HIDE DEF f, places
<1>8. \E k, l \in places : k # l /\ f[k] = f[l]
  BY <1>1, <1>5, <1>6, <1>7, FS_PigeonHole
<1> QED  BY <1>4, <1>8

(* Up to its size a directory has its entries, and then free places.       *)
LEMMA UpToSize ==
  ASSUME Image, NEW d \in Directories
  PROVE  /\ \A p \in Nat : Entry(d, p) => p < inode[d].f_size
         /\ \A p \in Nat : p < inode[d].f_size => p \div BLK_SIZE < MaxBlocks
         /\ inode[d].f_size \in Nat /\ d \in INodeNo
<1>1. Ownership /\ NullTable /\ TypeOK /\ DirTree /\ d \in INodeNo
  BY DEF Image, Shape, BlockWalk, Ownership, Directories
<1>2. PICK m \in Nat : Stored(d, m) /\ Filled(d, m)
  BY <1>1 DEF DirTree, NoHoles
<1>3. /\ inode[d].f_size \in Nat /\ m <= inode[d].f_size
      /\ inode[d].f_size <= m + 1 \/ inode[d].f_size = 2
  BY <1>1, <1>2 DEF Filled, Probing, TypeOK, INode
<1>4. m \div BLK_SIZE < MaxBlocks
  BY <1>1, <1>2, RoomToGrow
<1>5. ASSUME NEW p \in Nat, p < inode[d].f_size PROVE p \div BLK_SIZE < MaxBlocks
  <2>1. BLK_SIZE \in Nat \ {0} /\ MaxBlocks \in Nat /\ 3 <= MaxBlocks
    <3> DEFINE square == BLKNO_PER_BLK * BLKNO_PER_BLK
    <3>1. square \in Nat /\ (1 <= square)
      <4>1. 1 <= BLKNO_PER_BLK /\ BLKNO_PER_BLK \in Nat
        BY Sorts
      <4>2. 1 * BLKNO_PER_BLK <= square
        BY <4>1, TimesMono
      <4> QED  BY <4>1, <4>2
    <3>2. MaxBlocks = DIRECT_BLK_COUNT + BLKNO_PER_BLK + square
      BY DEF MaxBlocks
    <3> HIDE DEF square
    <3> QED  BY Sorts, <3>1, <3>2
  <2>2. /\ p \div BLK_SIZE \in Nat /\ (p \div BLK_SIZE) * BLK_SIZE <= p
    <3>1. p \div BLK_SIZE \in Nat
      BY <2>1, DivMod
    <3> QED  BY <2>1, <3>1, DivLeq
  <2>3. CASE p <= m
    <3>1. (p \div BLK_SIZE) * BLK_SIZE <= m
      <4>1. (p \div BLK_SIZE) * BLK_SIZE \in Int
        BY <2>1, <2>2
      <4> QED  BY <2>2, <2>3, <4>1
    <3>2. p \div BLK_SIZE <= m \div BLK_SIZE /\ m \div BLK_SIZE \in Nat
      BY <2>1, <2>2, <3>1, DivLeq, DivMod
    <3> QED  BY <1>4, <2>1, <2>2, <3>2
  <2>4. CASE p <= 1
    <3>1. ~ (2 <= p \div BLK_SIZE)
      <4>1. ~ (2 * BLK_SIZE <= p)
        BY <2>1, <2>4
      <4> QED  BY <2>1, <4>1, DivLeq
    <3> QED  BY <2>1, <2>2, <3>1
  <2> QED  BY <1>3, <1>5, <2>3, <2>4
<1>6. \A p \in Nat : Entry(d, p) => p < inode[d].f_size
  BY <1>2, <1>3 DEF Stored
<1> QED  BY <1>1, <1>3, <1>5, <1>6

(* Whatever has a name and lies within the size is an entry.               *)
LEMMA NamedIsEntry ==
  ASSUME Image, NEW d \in Directories, NEW p \in Nat, p < inode[d].f_size,
         DEntryAt(d, p).name \in Names
  PROVE  Entry(d, p)
<1> SUFFICES ASSUME ~ Entry(d, p) PROVE FALSE
  OBVIOUS
<1>1. Ownership /\ FreeNameless /\ d \in INodeNo
  BY DEF Image, Shape, BlockWalk, HostNames, Directories
<1>2. PICK k : k = p \div BLK_SIZE
  OBVIOUS
<1>3. k \in Nat /\ k < MaxBlocks /\ p % BLK_SIZE \in 0 .. BLK_SIZE - 1
  BY <1>2, UpToSize, ReadCases
<1>4. PICK b : b = BlockAt(d, k)
  OBVIOUS
<1>5. b \in BlockNo
  BY <1>1, <1>3, <1>4, BlockAtType
<1>6. DEntryAt(d, p) = dentry[b][p % BLK_SIZE]
  BY <1>2, <1>4 DEF DEntryAt, GetBlkno, BlockAt
<1>7. dentry[b][p % BLK_SIZE].inode = BAD_INODE
  <2>1. CASE b = BAD_BLOCK
    BY <1>1, <1>3, <2>1 DEF FreeNameless
  <2>2. CASE b # BAD_BLOCK
    BY <1>2, <1>3, <1>4, <1>6, <2>2 DEF Entry, Read, Has
  <2> QED  BY <2>1, <2>2
<1> QED  BY <1>1, <1>3, <1>5, <1>6, <1>7 DEF FreeNameless

(* A file that is shown can be read up to its size.                        *)
LEMMA ReadWhole ==
  ASSUME Image, NEW n \in INodeNo \cap inode_bitmap, inode[n].f_type = "REGULAR",
         ~ Unfinished(n)
  PROVE  SizeRead(n) = inode[n].f_size
<1>1. CopiedTo(n, inode[n].f_size) /\ n # BAD_INODE /\ inode[n].f_size \in Nat
  BY DEF Image, Shape, Files, DirTree, BlockWalk, Ownership, TypeOK, INode
<1>2. ASSUME NEW off \in 0 .. inode[n].f_size - 1
      PROVE  content[GetBlkno(n, off)] = <<n, off \div BLK_SIZE>>
  <2>1. off \in Nat /\ off < inode[n].f_size
    BY <1>1
  <2>2. Chunk(n, off \div BLK_SIZE) = <<n, off \div BLK_SIZE>>
    BY <1>1, <2>1 DEF CopiedTo, Copied
  <2>3. ZeroData # <<n, off \div BLK_SIZE>>
    BY <1>1 DEF ZeroData
  <2>4. Chunk(n, off \div BLK_SIZE) = content[BlockAt(n, off \div BLK_SIZE)]
    BY <2>2, <2>3 DEF Chunk
  <2>5. GetBlkno(n, off) = BlockAt(n, off \div BLK_SIZE)
    BY DEF GetBlkno, BlockAt
  <2> QED  BY <2>2, <2>4, <2>5
<1> QED  BY <1>2 DEF SizeRead

LEMMA LineSeen ==
  ASSUME Image, NEW n \in INodeNo, NEW d \in Directories, NEW p \in Nat, Shown(n, d, p)
  PROVE  EntrySeen(d, Read(d, p)) = Line(n, d, p)
<1>1. EntriesTruthful /\ 2 <= p /\ Entry(d, p) /\ Read(d, p).inode = n /\ ~ Unfinished(n)
  BY DEF Image, Shape, DirTree, Shown, NamedAt
<1>2. n \in inode_bitmap /\ Read(d, p).f_type = inode[n].f_type
  BY <1>1 DEF EntriesTruthful, Truthful
<1>3. Read(d, p).f_type = "REGULAR" => SizeRead(n) = inode[n].f_size
  BY <1>1, <1>2, ReadWhole
<1> QED  BY <1>1, <1>3 DEF EntrySeen, Line

LEMMA Seen == ASSUME Image PROVE SeenAs
<1>1. DirTree /\ EntriesTruthful
  BY DEF Image, Shape, DirTree
<1> SUFFICES ASSUME NEW e
             PROVE  e \in TreeSeen <=>
                      \E n \in INodeNo, d \in Directories, p \in Nat :
                        Shown(n, d, p) /\ e = Line(n, d, p)
  BY DEF SeenAs
<1>2. ASSUME e \in TreeSeen
      PROVE  \E n \in INodeNo, d \in Directories, p \in Nat :
               Shown(n, d, p) /\ e = Line(n, d, p)
  <2>1. PICK d \in Directories : \E f \in Entries(d) :
          f.name \in Names /\ ~ Unfinished(f.inode) /\ e = EntrySeen(d, f)
    BY <1>2 DEF TreeSeen
  <2>2. PICK p \in 0 .. inode[d].f_size - 1 :
          /\ DEntryAt(d, p).name \in Names /\ ~ Unfinished(DEntryAt(d, p).inode)
          /\ e = EntrySeen(d, DEntryAt(d, p))
    BY <2>1 DEF Entries
  <2>3. p \in Nat /\ p < inode[d].f_size /\ d \in INodeNo
    BY UpToSize
  <2>4. Entry(d, p)
    BY <2>2, <2>3, NamedIsEntry
  <2>5. DEntryAt(d, p) = Read(d, p)
    BY <2>4, EntryFound
  <2>6. Truthful(d, p)
    BY <1>1, <2>3, <2>4 DEF EntriesTruthful
  <2>7. 2 <= p
    <3>1. p # 0
      BY <2>2, <2>5, <2>6, NamesApart DEF Truthful, DirEntry
    <3>2. p # 1
      BY <2>2, <2>5, <2>6, NamesApart DEF Truthful
    <3> QED  BY <2>3, <3>1, <3>2
  <2>8. PICK n : n = Read(d, p).inode
    OBVIOUS
  <2>9. n \in INodeNo
    BY <2>3, <2>8, ReadType DEF Image, Shape, BlockWalk, DEntry
  <2>10. Shown(n, d, p)
    BY <2>2, <2>4, <2>5, <2>7, <2>8 DEF Shown, NamedAt
  <2>11. e = Line(n, d, p)
    BY <2>2, <2>3, <2>5, <2>9, <2>10, LineSeen
  <2> QED  BY <2>3, <2>9, <2>10, <2>11
<1>3. ASSUME NEW n \in INodeNo, NEW d \in Directories, NEW p \in Nat, Shown(n, d, p),
             e = Line(n, d, p)
      PROVE  e \in TreeSeen
  <2>1. 2 <= p /\ Entry(d, p) /\ Read(d, p).inode = n /\ ~ Unfinished(n)
    BY <1>3 DEF Shown, NamedAt
  <2>2. Read(d, p).name \in Names /\ n \in inode_bitmap /\ d < n
    BY <1>1, <2>1 DEF EntriesTruthful, Truthful
  <2>3. p < inode[d].f_size /\ inode[d].f_size \in Nat /\ d \in INodeNo
    BY <2>1, UpToSize
  <2>4. Read(d, p) \in Entries(d)
    <3>1. p \in 0 .. inode[d].f_size - 1
      BY <2>3
    <3>2. DEntryAt(d, p) = Read(d, p)
      BY <2>1, EntryFound
    <3> QED  BY <3>1, <3>2 DEF Entries
  <2>5. ~ Unfinished(d)
    BY <2>2, <2>3 DEF Unfinished, INodeNo
  <2>6. e = EntrySeen(d, Read(d, p))
    BY <1>3, LineSeen
  <2> QED  BY <2>1, <2>2, <2>4, <2>5, <2>6 DEF TreeSeen
<1> QED  BY <1>2, <1>3

----------------------------------------------------------------------------
(* The tree as it grows.                                                   *)

StillTree ==
  [Tree!Next]_<<TreeSeen, status # "run">>

LEMMA NothingNew ==
  ASSUME TreeSeen' = TreeSeen, status = "run" \/ UNCHANGED status PROVE StillTree
<1>1. CASE status = "run" /\ status' # "run"
  BY <1>1 DEF StillTree, Tree!Next, Tree!Finish
<1>2. CASE ~ (status = "run" /\ status' # "run")
  <2>1. (status # "run")' = (status # "run")
    BY <1>2
  <2> QED  BY <2>1 DEF StillTree
<1> QED  BY <1>1, <1>2

LEMMA SameSeen ==
  ASSUME SeenAs, SeenAs', Directories \subseteq Directories',
         \A n \in INodeNo, d \in Directories' \ Directories, p \in Nat : ~ Shown(n, d, p)',
         \A n \in INodeNo, d \in Directories, p \in Nat :
           /\ Shown(n, d, p)' <=> Shown(n, d, p)
           /\ Shown(n, d, p) => Line(n, d, p)' = Line(n, d, p)
  PROVE  TreeSeen' = TreeSeen
<1>1. ASSUME NEW e PROVE e \in TreeSeen' <=> e \in TreeSeen
  <2>1. e \in TreeSeen <=> \E n \in INodeNo, d \in Directories, p \in Nat :
                             Shown(n, d, p) /\ e = Line(n, d, p)
    BY DEF SeenAs
  <2>2. e \in TreeSeen' <=> \E n \in INodeNo, d \in Directories', p \in Nat :
                              Shown(n, d, p)' /\ e = Line(n, d, p)'
    BY DEF SeenAs, INodeNo
  <2> QED  BY <2>1, <2>2
<1> QED  BY <1>1

(* A named inode is in use, of the type its entry says, and not the root.  *)
LEMMA NamedINode ==
  ASSUME Image, NEW n \in INodeNo, NEW d \in Directories, NEW p \in Nat, NamedAt(n, d, p)
  PROVE  /\ n \in inode_bitmap /\ Read(d, p).f_type = inode[n].f_type
         /\ Read(d, p).name \in Names /\ d \in INodeNo /\ d < n /\ n # ROOT_INODE
<1>1. Truthful(d, p) /\ 2 <= p /\ Read(d, p).inode = n
  BY DEF Image, Shape, DirTree, EntriesTruthful, NamedAt
<1>2. d \in INodeNo /\ d # BAD_INODE
  BY DEF Image, Shape, DirTree, Directories
<1>3. d < n
  BY <1>1 DEF Truthful
<1>4. n # ROOT_INODE
  BY <1>2, <1>3 DEF INodeNo, BAD_INODE, ROOT_INODE
<1> QED  BY <1>1, <1>2, <1>3, <1>4 DEF Truthful

LEMMA KeptSeen ==
  ASSUME Image, SeenAs, SeenAs', SameRead, Directories' = Directories,
         UNCHANGED inode_bitmap, todo' = << >> <=> todo = << >>,
         \A n \in INodeNo \cap inode_bitmap :
           ~ Unfinished(n) /\ inode[n].f_type = "REGULAR" =>
             inode'[n].f_size = inode[n].f_size
  PROVE  TreeSeen' = TreeSeen
<1> SUFFICES ASSUME NEW n \in INodeNo, NEW d \in Directories, NEW p \in Nat
             PROVE  /\ Shown(n, d, p)' <=> Shown(n, d, p)
                    /\ Shown(n, d, p) => Line(n, d, p)' = Line(n, d, p)
  BY SameSeen
<1>1. d \in INodeNo
  BY DEF Directories
<1>2. Read(d, p)' = Read(d, p) /\ (NamedAt(n, d, p)' <=> NamedAt(n, d, p))
  BY <1>1 DEF SameRead, NamedAt, Entry, BAD_INODE
<1>3. Unfinished(n)' <=> Unfinished(n)
  BY DEF Unfinished
<1>4. Shown(n, d, p) => Line(n, d, p)' = Line(n, d, p)
  <2> SUFFICES ASSUME Shown(n, d, p) PROVE Line(n, d, p)' = Line(n, d, p)
    OBVIOUS
  <2>1. n \in inode_bitmap /\ Read(d, p).f_type = inode[n].f_type
    BY NamedINode DEF Shown
  <2>2. Read(d, p).f_type = "REGULAR" => inode'[n].f_size = inode[n].f_size
    BY <2>1 DEF Shown
  <2> QED  BY <1>2, <2>2 DEF Line
<1> QED  BY <1>2, <1>3, <1>4 DEF Shown

LEMMA GetBlknoStepSeen ==
  ASSUME Image, SeenAs, SeenAs', GetBlknoStep PROVE TreeSeen' = TreeSeen
<1>1. BlockWalk /\ TypeOK /\ DirTree /\ Files
  BY DEF Image, Shape, BlockWalk, Ownership
<1>2. CASE CallGetBlkno
  <2>1. /\ UNCHANGED <<blk_no, table, dentry, inode_bitmap, todo>> /\ todo # << >>
        /\ inode' = [inode EXCEPT ![Ino].f_size = IF @ < Off THEN Off ELSE @]
    BY <1>1, <1>2, AlwaysGrows DEF CallGetBlkno, Running, alloc_vars
  <2>2. Ino \in INodeNo /\ inode \in [INodeNo -> INode]
    BY <1>1, <2>1, CurType DEF TypeOK
  <2>3. /\ \A n \in INodeNo : inode'[n].f_type = inode[n].f_type
        /\ \A n \in INodeNo : n # Ino => inode'[n] = inode[n]
    BY <2>1, <2>2 DEF INode
  <2>4. PICK k \in INodeNo : Last(k)
    BY <1>1 DEF DirTree, Making
  <2>5. Unfinished(Ino) \/ inode[Ino].f_type # "REGULAR"
    <3>1. CASE Adding
      BY <1>1, <3>1, AddingDir DEF Directories
    <3>2. CASE ~ Adding
      <4>1. Ino = k /\ k \in inode_bitmap
        BY <1>1, <2>1, <2>4, <3>2, WritingLast, LastUsed
      <4> QED  BY <2>1, <2>4, <4>1, UnfinishedIs
    <3> QED  BY <3>1, <3>2
  <2> QED  BY <2>1, <2>3, <2>5, UntouchedRead, SameDirectories, KeptSeen
<1>3. CASE ~ CallGetBlkno
  BY <1>1, <1>3, LoopsPoint, LoopsKeepTree, SameDirectories, KeptSeen
<1> QED  BY <1>2, <1>3

LEMMA OnTheWaySeen ==
  ASSUME Image, SeenAs, SeenAs', NextDentry \/ Expanded \/ CopyChunk
  PROVE  TreeSeen' = TreeSeen
<1>1. /\ BlockWalk /\ TypeOK /\ DirTree /\ Files /\ todo # << >>
      /\ UNCHANGED <<blk_no, table, dentry, inode, inode_bitmap>>
  BY DEF Image, Shape, BlockWalk, Ownership, NextDentry, Expanded, CopyChunk, Running, Return
<1>2. Cur \in Call /\ Cur = todo[1]
  BY <1>1, CurType DEF Cur, TypeOK
<1>3. CASE NextDentry
  <2>1. todo' = [todo EXCEPT ![1].pos = @ + 1]
    BY <1>1, <1>3, ProbesOn DEF NextDentry, Return
  <2>2. \E c : todo' = [todo EXCEPT ![1] = c]
    BY <1>2, <2>1
  <2> QED
    BY <1>1, <2>2, HeadMoved, UntouchedRead, SameDirectories, KeptSeen
<1>4. CASE CopyChunk
  <2>1. todo' = [todo EXCEPT ![1].pos = @ + CopyLen, ![1].len = @ - CopyLen]
    BY <1>4 DEF CopyChunk, Return
  <2>2. \E c : todo' = [todo EXCEPT ![1] = c]
    BY <1>1, <1>2, <2>1 DEF TypeOK
  <2> QED
    BY <1>1, <2>2, HeadMoved, UntouchedRead, SameDirectories, KeptSeen
<1>5. CASE Expanded
  <2>1. Cur.op = "expand" /\ todo' = Tail(todo) /\ ~ Adding
    BY <1>5 DEF Expanded, Return, Adding
  <2>2. PICK k \in INodeNo : Last(k)
    BY <1>1 DEF DirTree, Making
  <2>3. todo' = <<CopyCall(k, Cur.pos)>>
    BY <1>1, <2>1, <2>2, WritingLast DEF Growing
  <2> QED
    BY <1>1, <2>3, CallLists, UntouchedRead, SameDirectories, KeptSeen
<1> QED  BY <1>3, <1>4, <1>5

(* The inode made for a host entry is not seen yet.                        *)
LEMMA MakingUnseen ==
  ASSUME Image, SeenAs, SeenAs', todo = << >>, todo' # << >>,
         NEW n \in INodeNo, NEW node, AllocINode(n, node)
  PROVE  TreeSeen' = TreeSeen
<1>1. /\ SameRead /\ Last(n)' /\ n \notin inode_bitmap
      /\ \A p \in Nat : ~ Entry(n, p)'
      /\ \A m \in INodeNo : m # n => inode'[m] = inode[m]
      /\ \A c \in Directories' : c \in Directories \/ c = n
      /\ Directories \subseteq Directories'
  BY NewINode DEF Image, Shape
<1>2. inode_bitmap' = inode_bitmap \cup {n}
  BY DEF AllocINode
<1>3. \A m \in INodeNo, d \in Directories' \ Directories, p \in Nat : ~ Shown(m, d, p)'
  BY <1>1 DEF Shown, NamedAt
<1>4. ASSUME NEW m \in INodeNo, NEW d \in Directories, NEW p \in Nat
      PROVE  /\ Shown(m, d, p)' <=> Shown(m, d, p)
             /\ Shown(m, d, p) => Line(m, d, p)' = Line(m, d, p)
  <2>1. d \in INodeNo
    BY DEF Directories
  <2>2. Read(d, p)' = Read(d, p) /\ (NamedAt(m, d, p)' <=> NamedAt(m, d, p))
    BY <1>1, <2>1 DEF SameRead, NamedAt, Entry, BAD_INODE
  <2>3. ASSUME NamedAt(m, d, p)
        PROVE  m # n /\ ~ Unfinished(m) /\ ~ Unfinished(m)'
    <3>1. m \in inode_bitmap /\ m # n
      BY <1>1, <2>3, NamedINode
    <3>2. ~ Unfinished(m)' /\ ~ Unfinished(m)
      BY <1>1, <1>2, <3>1, UnfinishedNext DEF Unfinished
    <3> QED  BY <3>1, <3>2
  <2>4. NamedAt(m, d, p) => Line(m, d, p)' = Line(m, d, p)
    BY <1>1, <2>2, <2>3 DEF Line
  <2> QED  BY <2>2, <2>3, <2>4 DEF Shown
<1> QED  BY <1>1, <1>3, <1>4, SameSeen

(* When the calls for the last inode are over, its entry is seen.          *)
LEMMA OneMore ==
  ASSUME Image, Image', SeenAs, SeenAs', status = "run",
         UNCHANGED <<inode, inode_bitmap, status>>, todo # << >>, todo' = << >>,
         NEW n \in INodeNo, Last(n), OthersNamed(n), inode[n].f_type \in {"DIR", "REGULAR"},
         NEW d \in Directories, NEW q \in Nat, NamedAt(n, d, q)',
         \A m \in INodeNo : m # n => ~ NamedAt(m, d, q),
         \A c \in INodeNo, p \in Nat : c # d \/ p # q => Read(c, p)' = Read(c, p)
  PROVE  Tree!Next
<1> DEFINE new == Line(n, d, q)'
<1>1. TypeOK /\ Directories' = Directories /\ Directories \subseteq INodeNo /\ d \in INodeNo
  BY SameDirectories DEF Image, Shape, BlockWalk, Ownership, Directories
<1>2. \A m \in INodeNo, c \in Directories, p \in Nat :
        Shown(m, c, p) <=> NamedAt(m, c, p) /\ m # n
  BY NamedINode, UnfinishedIs DEF Shown
<1>3. \A m \in INodeNo, c \in Directories, p \in Nat : Shown(m, c, p)' <=> NamedAt(m, c, p)'
  BY DEF Shown, Unfinished
<1>4. \A m \in INodeNo, c \in Directories, p \in Nat :
        c # d \/ p # q => (NamedAt(m, c, p)' <=> NamedAt(m, c, p))
  BY <1>1 DEF NamedAt, Entry, BAD_INODE
<1>5. NamedOnce' /\ NamesDiffer'
  BY DEF Image, Shape, DirTree, HostNames
<1>6. \A c \in Directories, p \in Nat : c # d \/ p # q => ~ NamedAt(n, c, p)
  BY <1>1, <1>4, <1>5 DEF NamedOnce, INodeNo
<1>7. \A m \in INodeNo : NamedAt(m, d, q)' => m = n
  BY DEF NamedAt
<1>8. \A m \in INodeNo, c \in Directories, p \in Nat :
        Shown(m, c, p)' <=> Shown(m, c, p) \/ (m = n /\ c = d /\ p = q)
  BY <1>2, <1>3, <1>4, <1>6, <1>7
<1>9. \A m \in INodeNo, c \in Directories, p \in Nat :
        Shown(m, c, p) => Line(m, c, p)' = Line(m, c, p)
  BY <1>1, <1>2 DEF Line
<1>10. /\ \A e : e \in TreeSeen <=> \E m \in INodeNo, c \in Directories, p \in Nat :
                                     Shown(m, c, p) /\ e = Line(m, c, p)
       /\ \A e : e \in TreeSeen' <=> \E m \in INodeNo, c \in Directories, p \in Nat :
                                     Shown(m, c, p)' /\ e = Line(m, c, p)'
  BY <1>1 DEF SeenAs, INodeNo
<1>11. /\ Read(d, q)'.f_type = inode[n].f_type /\ Read(d, q)'.name \in Names
       /\ d < n /\ n # ROOT_INODE
  <2>1. Truthful(d, q)' /\ 2 <= q /\ Read(d, q)'.inode = n
    BY <1>1 DEF Image, Shape, DirTree, EntriesTruthful, NamedAt
  <2>2. d # BAD_INODE
    BY DEF Image, Shape, DirTree, Directories
  <2>3. d < n
    BY <2>1 DEF Truthful
  <2>4. n # ROOT_INODE
    BY <1>1, <2>2, <2>3 DEF INodeNo, BAD_INODE, ROOT_INODE
  <2> QED  BY <2>1, <2>3, <2>4 DEF Truthful
<1>12. /\ new.dir = d /\ new.inode = n /\ new.name = Read(d, q)'.name
       /\ new.f_type = inode[n].f_type
       /\ new \in Tree!Entry
  <2>1. inode[n].f_size \in Nat
    BY <1>1 DEF TypeOK, INode
  <2> QED  BY <1>1, <1>11, <2>1 DEF Line, Tree!Entry
<1> HIDE DEF new
<1>13. \A e \in TreeSeen : e.inode # n
  BY <1>2, <1>10 DEF Line
<1>14. \A e \in TreeSeen : ~ (e.dir = new.dir /\ e.name = new.name)
  <2> SUFFICES ASSUME NEW e \in TreeSeen, e.dir = d, e.name = Read(d, q)'.name PROVE FALSE
    BY <1>12
  <2>1. PICK m \in INodeNo, c \in Directories, p \in Nat : Shown(m, c, p) /\ e = Line(m, c, p)
    BY <1>10
  <2>2. c = d /\ e.name = Read(d, p).name
    BY <2>1 DEF Line
  <2>3. p # q
    BY <1>2, <2>1, <2>2
  <2>4. Read(d, p)' = Read(d, p) /\ Entry(d, p)' /\ Entry(d, q)'
    BY <1>1, <1>3, <1>8, <2>1, <2>2, <2>3 DEF NamedAt
  <2> QED  BY <1>1, <1>5, <2>2, <2>3, <2>4 DEF NamesDiffer
<1>15. Tree!IsDirectory(d)
  <2>1. CASE d = ROOT_INODE
    BY <2>1 DEF Tree!IsDirectory
  <2>2. CASE d # ROOT_INODE
    <3>1. d \in inode_bitmap \ {BAD_INODE, ROOT_INODE, n} /\ inode[d].f_type = "DIR"
      BY <1>11, <2>2, <1>1 DEF Image, Shape, DirTree, Directories, INodeNo
    <3>2. PICK c \in Directories, p \in Nat : NamedAt(d, c, p)
      BY <3>1 DEF OthersNamed, Named
    <3>3. Shown(d, c, p) /\ Read(c, p).f_type = "DIR"
      BY <1>1, <1>2, <3>1, <3>2, NamedINode
    <3>4. PICK e : e = Line(d, c, p)
      OBVIOUS
    <3>5. e \in TreeSeen
      BY <1>1, <1>10, <3>3, <3>4
    <3>6. e.inode = d /\ e.f_type = "DIR"
      BY <3>3, <3>4 DEF Line
    <3> QED  BY <3>5, <3>6 DEF Tree!IsDirectory
  <2> QED  BY <2>1, <2>2
<1>16. \A e : e \in TreeSeen' <=> e \in TreeSeen \/ e = new
  BY <1>8, <1>9, <1>10, <1>1 DEF new
<1>17. TreeSeen' = TreeSeen \cup {new} /\ new \in TreeSeen' \ TreeSeen
  BY <1>12, <1>13, <1>16
<1>18. Tree!Copy(new)
  BY <1>11, <1>12, <1>13, <1>14, <1>15, <1>17 DEF Tree!Copy
<1> QED  BY <1>12, <1>17, <1>18 DEF Tree!Next

(* Which entry the call in progress adds for the last inode.               *)
LEMMA AddedFor ==
  ASSUME DirTree, Adding, NEW n \in INodeNo, Last(n)
  PROVE  /\ Tail(todo) # << >> /\ Cur.entry.name \in Names =>
              Cur.entry.inode = n
         /\ Tail(todo) = << >> =>
              \/ n = ROOT_INODE /\ Cur.entry.name = ".."
              \/ /\ OthersNamed(n) /\ Cur.entry.inode = n /\ Cur.entry.name \in Names
                 /\ inode[n].f_type = "DIR"
<1>1. PICK m \in INodeNo : Last(m) /\ (Unnamed(m) \/ AllNamed(m) \/ RootInMaking(m))
  BY DEF DirTree, Making
<1>2. m = n
  BY <1>1 DEF Last, INodeNo
<1>3. Cur.op = "add_dentry" /\ todo # << >>
  BY DEF Adding
<1>4. CASE RootInMaking(n)
  <2>1. \/ Cur.entry = DirEntry(n, ".") /\ Tail(todo) = <<DotDot(n, n)>>
        \/ Cur.entry = DirEntry(n, "..")
    BY <1>4 DEF RootInMaking, Doing, Dot, DotDot, AddDentryCall
  <2>2. \/ Cur.entry.name = "." /\ Tail(todo) # << >>
        \/ Cur.entry.name = ".."
    <3>1. <<DotDot(n, n)>> # << >>
      BY CallLists
    <3> QED  BY <2>1, <3>1 DEF DirEntry
  <2>3. n = ROOT_INODE
    BY <1>4 DEF RootInMaking
  <2> QED  BY <2>2, <2>3, NamesApart
<1>5. CASE AllNamed(n)
  BY <1>3, <1>5 DEF AllNamed, Writing, Doing, ExpandCall, CopyCall
<1>6. CASE Unnamed(n)
  <2>1. PICK d \in Directories, name \in Names :
          d < n /\ (DirInMaking(n, d, name) \/ FileInMaking(n, d, name))
    BY <1>6 DEF Unnamed
  <2>2. OthersNamed(n)
    BY <1>6 DEF Unnamed
  <2>3. CASE DirInMaking(n, d, name)
    <3>1. \/ /\ Cur.entry = DirEntry(n, ".")
             /\ Tail(todo) = <<DotDot(n, d), ChildDir(n, d, name)>>
          \/ Cur.entry = DirEntry(d, "..") /\ Tail(todo) = <<ChildDir(n, d, name)>>
          \/ Cur.entry = DirEntry(n, name)
      BY <2>3 DEF DirInMaking, Doing, Dot, DotDot, ChildDir, AddDentryCall
    <3>2. inode[n].f_type = "DIR"
      BY <2>3 DEF DirInMaking
    <3>3. \/ Cur.entry.name \in {".", ".."} /\ Tail(todo) # << >>
          \/ Cur.entry.name \in Names /\ Cur.entry.inode = n
      BY <3>1, CallLists DEF DirEntry
    <3> QED  BY <2>2, <3>2, <3>3, NamesApart
  <2>4. CASE FileInMaking(n, d, name)
    <3>1. PICK size \in Nat : /\ Tail(todo) = <<ExpandCall(n, size), CopyCall(n, size)>>
                             /\ Cur.entry = FileEntry(n, name)
      BY <2>4 DEF FileInMaking, Doing, ChildFile, AddDentryCall
    <3> QED  BY <3>1, CallLists DEF FileEntry
  <2> QED  BY <2>1, <2>3, <2>4
<1> QED  BY <1>1, <1>2, <1>4, <1>5, <1>6

LEMMA StoreDentrySeen ==
  ASSUME Image, Image', SeenAs, SeenAs', StoreDentry PROVE StillTree
<1>1. /\ BlockWalk /\ DirTree /\ Running("ready") /\ Adding /\ todo # << >> /\ status = "run"
      /\ UNCHANGED <<blk_no, table, inode, inode_bitmap, status>> /\ todo' = Tail(todo)
      /\ dentry' = [dentry EXCEPT
                     ![GetBlkno(Ino, Cur.pos)][Cur.pos % BLK_SIZE] = Cur.entry]
  BY DEF Image, Shape, StoreDentry, Running, Return, Adding
<1>2. PICK d, q, e : d = Ino /\ q = Cur.pos /\ e = Cur.entry
  OBVIOUS
<1>3. /\ d \in Directories /\ d \in INodeNo /\ q \in Nat /\ ~ Entry(d, q) /\ Probing(q)
  BY <1>1, <1>2, FreePlace
<1>4. \A n \in INodeNo, p \in Nat :
        Read(n, p)' = IF n = d /\ p = q THEN e ELSE Read(n, p)
  BY <1>1, <1>2, StoreRead
<1>5. PICK k \in INodeNo : Last(k)
  BY <1>1 DEF DirTree, Making
<1>6. e.inode # BAD_INODE /\ e.name \in Names \cup {".", ".."}
  BY <1>1, <1>2, AddedIs
<1>7. 2 <= q => e.name \in Names
  BY <1>2, <1>3, <1>6 DEF Probing
<1>8. /\ todo' # << >> /\ e.name \in Names => e.inode = k
      /\ todo' = << >> =>
           \/ k = ROOT_INODE /\ e.name = ".."
           \/ /\ OthersNamed(k) /\ e.inode = k /\ e.name \in Names
              /\ inode[k].f_type = "DIR"
  BY <1>1, <1>2, <1>5, AddedFor
<1>9. Directories' = Directories /\ Directories \subseteq INodeNo
  BY <1>1, SameDirectories DEF Directories
<1>10. \A n \in INodeNo, c \in Directories, p \in Nat :
         c # d \/ p # q => (NamedAt(n, c, p)' <=> NamedAt(n, c, p)) /\ Read(c, p)' = Read(c, p)
  BY <1>4, <1>9 DEF NamedAt, Entry, BAD_INODE
<1>11. \A n \in INodeNo : ~ NamedAt(n, d, q)
  BY <1>3 DEF NamedAt
<1>12. CASE todo' # << >> \/ (k = ROOT_INODE /\ e.name = "..")
  <2> SUFFICES ASSUME NEW n \in INodeNo, NEW c \in Directories, NEW p \in Nat
               PROVE  /\ Shown(n, c, p)' <=> Shown(n, c, p)
                      /\ Shown(n, c, p) => Line(n, c, p)' = Line(n, c, p)
    <3>1. TreeSeen' = TreeSeen
      BY <1>9, SameSeen
    <3> QED  BY <1>1, <3>1, NothingNew
  <2>1. NamedAt(n, c, p) => n \in inode_bitmap /\ n # ROOT_INODE /\ (c # d \/ p # q)
    BY <1>11, NamedINode
  <2>2. n \in inode_bitmap /\ n # ROOT_INODE =>
          (Unfinished(n)' <=> Unfinished(n)) \/ k = ROOT_INODE
    BY <1>1, <1>12 DEF Unfinished
  <2>3. CASE c = d /\ p = q
    <3>1. ~ Shown(n, c, p)
      BY <2>1, <2>3 DEF Shown
    <3>2. ASSUME NamedAt(n, c, p)' PROVE Unfinished(n)'
      <4>1. 2 <= q /\ e.inode = n
        BY <1>3, <1>4, <2>3, <3>2 DEF NamedAt
      <4>2. e.name # ".." /\ e.name \in Names
        BY <1>7, <4>1, NamesApart
      <4>3. n = k /\ todo' # << >>
        BY <1>8, <1>12, <4>1, <4>2
      <4>4. Last(k)' /\ n \in inode_bitmap'
        BY <1>1, <1>5, <4>3, LastUsed DEF Last, INodeNo, ROOT_INODE
      <4> QED  BY <4>3, <4>4, UnfinishedNext
    <3> QED  BY <3>1, <3>2 DEF Shown
  <2>4. CASE ~ (c = d /\ p = q)
    <3>1. (NamedAt(n, c, p)' <=> NamedAt(n, c, p)) /\ Read(c, p)' = Read(c, p)
      BY <1>10, <2>4
    <3>2. NamedAt(n, c, p) => (Unfinished(n)' <=> Unfinished(n))
      <4>1. CASE k = ROOT_INODE
        <5>1. NamedAt(n, c, p) => FALSE
          BY <1>5, <4>1, NamedINode DEF Last, ROOT_INODE, INodeNo, BAD_INODE
        <5> QED  BY <5>1
      <4>2. CASE k # ROOT_INODE
        BY <2>1, <2>2, <4>2
      <4> QED  BY <4>1, <4>2
    <3> QED  BY <1>1, <3>1, <3>2 DEF Shown, Line
  <2> QED  BY <2>3, <2>4
<1>13. CASE ~ (todo' # << >> \/ (k = ROOT_INODE /\ e.name = ".."))
  <2>1. /\ todo' = << >> /\ OthersNamed(k) /\ e.inode = k /\ e.name \in Names
        /\ inode[k].f_type = "DIR"
    BY <1>8, <1>13
  <2>2. 2 <= q
    BY <1>2, <1>3, <2>1 DEF Probing
  <2>3. NamedAt(k, d, q)'
    BY <1>3, <1>4, <1>6, <2>1, <2>2 DEF NamedAt, Entry, BAD_INODE
  <2>4. \A c \in INodeNo, p \in Nat : c # d \/ p # q => Read(c, p)' = Read(c, p)
    BY <1>4
  <2>5. Tree!Next
    BY <1>1, <1>3, <1>5, <1>11, <2>1, <2>3, <2>4, OneMore
  <2> QED  BY <2>5 DEF StillTree
<1> QED  BY <1>12, <1>13

LEMMA CopyDoneSeen ==
  ASSUME Image, Image', SeenAs, SeenAs', CopyDone PROVE StillTree
<1>1. /\ BlockWalk /\ Ownership /\ DirTree /\ Files /\ ~ Adding /\ todo # << >>
      /\ status = "run" /\ Cur.op = "copy" /\ todo' = Tail(todo)
      /\ UNCHANGED <<blk_no, table, dentry, inode, inode_bitmap, status>>
  BY DEF Image, Shape, BlockWalk, CopyDone, Running, Return, Adding
<1>2. PICK n \in INodeNo : Last(n) /\ AllNamed(n) /\ Ino = n
  BY <1>1, NotAdding
<1>3. inode[n].f_type = "REGULAR" /\ todo' = << >>
  BY <1>1, <1>2, WritingLast DEF Growing
<1>4. n # ROOT_INODE
  BY <1>3 DEF Image, Directories
<1>5. OthersNamed(n) /\ Named(n)
  BY <1>2, <1>4 DEF AllNamed
<1>6. PICK d \in Directories, q \in Nat : NamedAt(n, d, q)
  BY <1>5 DEF Named
<1>7. \A c \in INodeNo, p \in Nat : Read(c, p)' = Read(c, p)
  BY <1>1, UntouchedRead DEF SameRead
<1>8. NamedAt(n, d, q)'
  BY <1>6, <1>7 DEF NamedAt, Entry, BAD_INODE, Directories
<1>9. \A m \in INodeNo : m # n => ~ NamedAt(m, d, q)
  BY <1>6 DEF NamedAt
<1>10. Tree!Next
  BY <1>1, <1>2, <1>3, <1>5, <1>7, <1>8, <1>9, OneMore
<1> QED  BY <1>10 DEF StillTree

LEMMA StepSeen ==
  ASSUME Image, Image', SeenAs, SeenAs', [Next]_vars PROVE StillTree
<1>1. ASSUME UNCHANGED <<alloc_vars, inode, inode_bitmap, todo>> PROVE TreeSeen' = TreeSeen
  BY <1>1, UntouchedRead, SameDirectories, KeptSeen DEF alloc_vars
<1>2. CASE GetBlknoStep
  <2>1. status = "run"
    BY <1>2 DEF GetBlknoStep, CallGetBlkno, AllocDirect, DirectDone, AllocIndirect,
                AllocIndirectEntry, IndirectDone, AllocIndirect2, AllocTable,
                AllocTableEntry, Running
  <2> QED  BY <1>2, <2>1, GetBlknoStepSeen, NothingNew
<1>3. CASE NextDentry \/ Expanded \/ CopyChunk
  <2>1. status = "run"
    BY <1>3 DEF NextDentry, Expanded, CopyChunk, Running
  <2> QED  BY <1>3, <2>1, OnTheWaySeen, NothingNew
<1>4. CASE StoreDentry \/ CopyDone
  BY <1>4, StoreDentrySeen, CopyDoneSeen
<1>5. CASE (\E name \in Names : MakeDir(name)) \/
           (\E name \in Names, size \in FileSizes : MakeFile(name, size))
  <2>1. /\ todo = << >> /\ status = "run"
        /\ \E n \in INodeNo, node \in {NewDir, NewFile} : AllocINode(n, node)
    BY <1>5 DEF MakeDir, MakeFile, Between
  <2>2. todo' # << >>
    <3>1. CASE \E name \in Names : MakeDir(name)
      <4>1. PICK name \in Names, n \in INodeNo :
              todo' = Append(DotCalls(n, Top.dir), AddDentryCall(Top.dir, DirEntry(n, name)))
        BY <3>1 DEF MakeDir
      <4>2. \E a, b, c : todo' = <<a, b, c>>
        BY <4>1, ThreeCalls DEF DotCalls
      <4> QED  BY <4>2, CallLists
    <3>2. CASE \E name \in Names, size \in FileSizes : MakeFile(name, size)
      <4>1. \E a, b, c : todo' = <<a, b, c>>
        BY <3>2 DEF MakeFile
      <4> QED  BY <4>1, CallLists
    <3> QED  BY <1>5, <3>1, <3>2
  <2> QED  BY <2>1, <2>2, MakingUnseen, NothingNew
<1>6. CASE INodeOverrun \/ NameTooLong \/ LeaveDir
  <2>1. UNCHANGED <<alloc_vars, inode, inode_bitmap, todo>> /\ status = "run"
    BY <1>6 DEF INodeOverrun, NameTooLong, LeaveDir, Halt, Between
  <2> QED  BY <1>1, <2>1, NothingNew
<1>7. CASE UNCHANGED vars
  <2>1. UNCHANGED <<alloc_vars, inode, inode_bitmap, todo>> /\ UNCHANGED status
    BY <1>7 DEF vars
  <2> QED  BY <1>1, <2>1, NothingNew
<1> QED
  BY <1>2, <1>3, <1>4, <1>5, <1>6, <1>7 DEF Next, CallerStep, HostStep

LEMMA InitSeen == ASSUME Init PROVE Tree!Init
<1>1. Image /\ SeenAs
  BY InitImage, Seen
<1>2. \A n \in INodeNo, p \in Nat : ~ Entry(n, p)
  <2>1. Ownership /\ NullTable
    BY <1>1 DEF Image, Shape, BlockWalk
  <2>2. \A n \in INodeNo, k \in PtrIdx : blk_no[n][k] = BAD_BLOCK
    BY DEF Init, ZeroPtrs
  <2> QED  BY <2>1, <2>2, EmptyRead
<1>3. TreeSeen = {}
  BY <1>1, <1>2 DEF SeenAs, Shown, NamedAt, Directories
<1>4. status = "run"
  BY DEF Init
<1> QED  BY <1>3, <1>4 DEF Tree!Init

(* The builder implements FsTree: read through its own pointers, the image *)
(* grows by one whole host entry at a time, below a directory already in   *)
(* it and under a name not yet there, and no later allocation, entry or    *)
(* write of make_fs changes what has been copied.                          *)
THEOREM CopiesTree == Spec => CopiesHostTree
<1>1. Init => Tree!Init
  BY InitSeen
<1>2. Image => SeenAs
  BY Seen
<1>3. Image /\ Image' /\ SeenAs /\ SeenAs' /\ [Next]_vars
        => [Tree!Next]_<<TreeSeen, status # "run">>
  BY StepSeen DEF StillTree
<1> QED  BY <1>1, <1>2, <1>3, ImageHolds, PTL DEF Spec, CopiesHostTree, Tree!Spec

----------------------------------------------------------------------------
(* How many blocks a file has.                                             *)

(* Inode n has the first c blocks of those it can point to, and no other.  *)
Held(n, c) == \A k \in Nat : HasBlock(n, k) <=> k < c

(* Past the indirect blocks a call of get_blkno takes one block more.      *)
Beyond == IF DIRECT_BLK_COUNT + BLKNO_PER_BLK <= Target THEN 1 ELSE 0

(* Blocks of a file of this size when it has been copied up to pos.        *)
Blocks(size, pos) ==
  (size \div BLK_SIZE) + 1 + (IF IsDouble(size) THEN 1 ELSE 0) + DoubleChunks(pos)

(* The file being made has none yet, grows towards its size, or is copied  *)
(* block by block.                                                         *)
Holding(n, c) ==
  \/ Cur.op = "add_dentry" /\ c = 0
  \/ /\ Cur.op = "expand"
     /\ IF stage = "ready" THEN c = Target + 1 + Beyond ELSE c <= Target + 1
  \/ /\ Cur.op = "copy"
     /\ Cur.pos % BLK_SIZE = 0 \/ Cur.len = 0
     /\ stage # "idle" => Cur.len # 0
     /\ c = Blocks(inode[n].f_size, Cur.pos) + (IF stage = "ready" THEN Beyond ELSE 0)

Extent(n, c) ==
  IF Unfinished(n) THEN Holding(n, c)
  ELSE c = Blocks(inode[n].f_size, inode[n].f_size)
Extents ==
  \A n \in INodeNo \cap inode_bitmap :
    inode[n].f_type = "REGULAR" => \E c \in Nat : Held(n, c) /\ Extent(n, c)

----------------------------------------------------------------------------
(* Which block a step adds to which inode.                                 *)

(* The block number of each pointer.                                       *)
LEMMA PlaceOf ==
  ASSUME NEW n, NEW i \in TableIdx, NEW j \in TableIdx
  PROVE  LET k == DIRECT_BLK_COUNT + j
             l == DIRECT_BLK_COUNT + BLKNO_PER_BLK + (i * BLKNO_PER_BLK + j)
         IN  /\ k \in Nat /\ k < MaxBlocks /\ l \in Nat /\ l < MaxBlocks
             /\ BlockAt(n, k) = table[blk_no[n][INDIRECT]][j]
             /\ BlockAt(n, k)' = table'[blk_no'[n][INDIRECT]][j]
             /\ BlockAt(n, l) = table[table[blk_no[n][INDIRECT2]][i]][j]
             /\ BlockAt(n, l)' = table'[table'[blk_no'[n][INDIRECT2]][i]][j]
<1> DEFINE D == DIRECT_BLK_COUNT
           B == BLKNO_PER_BLK
           k == D + j
           q == i * B + j
           l == D + B + q
<1>1. D \in Nat \ {0} /\ B \in Nat \ {0} /\ B * B \in Nat
  BY Sorts
<1>2. i \in 0 .. B - 1 /\ j \in 0 .. B - 1 /\ i \in Nat /\ j \in Nat
  BY <1>1 DEF TableIdx
<1>3. i * B \in Nat /\ i * B <= (B - 1) * B /\ (B - 1) * B = B * B - B
  BY <1>1, <1>2, TimesMono
<1>4. q \in Nat /\ q < B * B
  BY <1>1, <1>2, <1>3
<1>5. MaxBlocks = D + B + B * B
  BY DEF MaxBlocks
<1> HIDE DEF q
<1>6. k \in Nat /\ k < MaxBlocks /\ ~ (k < D) /\ k - D - B < 0 /\ k - D = j
  BY <1>1, <1>2, <1>5
<1>7. /\ BlockAt(n, k) = table[blk_no[n][INDIRECT]][j]
      /\ BlockAt(n, k)' = table'[blk_no'[n][INDIRECT]][j]
  BY <1>6 DEF BlockAt
<1>8. l \in Nat /\ l < MaxBlocks /\ ~ (l < D) /\ ~ (l - D - B < 0) /\ l - D - B = q
  BY <1>1, <1>4, <1>5
<1>9. q \div B = i /\ q % B = j
  <2>1. /\ q \div B \in Nat /\ q % B \in 0 .. B - 1
        /\ q = (q \div B) * B + (q % B)
    BY <1>1, <1>4, Euclid
  <2>2. PICK g, h : g = q \div B /\ h = q % B
    OBVIOUS
  <2>3. g \in Nat /\ h \in 0 .. B - 1 /\ i * B + j = g * B + h /\ i * B + j \in Nat
    BY <1>2, <1>3, <2>1, <2>2 DEF q
  <2>4. /\ g < i \/ (g = i /\ h <= j)
        /\ i < g \/ (i = g /\ j <= h)
    BY <1>1, <1>2, <2>3, RowByRow
  <2> QED  BY <1>2, <2>2, <2>3, <2>4
<1>10. /\ BlockAt(n, l) = table[table[blk_no[n][INDIRECT2]][i]][j]
       /\ BlockAt(n, l)' = table'[table'[blk_no'[n][INDIRECT2]][i]][j]
  BY <1>8, <1>9 DEF BlockAt
<1> QED  BY <1>6, <1>7, <1>8, <1>10 DEF q

BlocksApart ==
  \A n, m \in INodeNo, k, l \in Nat :
    HasBlock(n, k) /\ l < MaxBlocks /\ BlockAt(n, k) = BlockAt(m, l) => n = m /\ k = l

LEMMA Apart == Ownership /\ NullTable => BlocksApart
BY BlockAtOnce DEF BlocksApart, HasBlock

LEMMA ApartNext == ASSUME Ownership', NullTable' PROVE BlocksApart'
BY Apart, PTL

(* A new block with the number at is one more, and the only one.           *)
LEMMA HolderAdded ==
  ASSUME Ownership, NullTable, Ownership', NullTable', NEW b \in BlockNo, OnePointer(b),
         NEW n \in INodeNo, NEW at \in Nat, at < MaxBlocks, BlockAt(n, at)' = b
  PROVE  \A m \in INodeNo, k \in Nat :
           HasBlock(m, k)' <=> HasBlock(m, k) \/ (m = n /\ k = at)
<1>1. b # BAD_BLOCK
  BY DEF OnePointer, INodePointer, TablePointer, NewBlock
<1>2. HasBlock(n, at)'
  BY <1>1, ChunkCases
<1>3. \A m \in INodeNo, k \in Nat :
        k < MaxBlocks /\ BlockAt(m, k)' = b => m = n /\ k = at
  BY <1>2, ApartNext DEF BlocksApart, INodeNo, MaxBlocks
<1> SUFFICES ASSUME NEW m \in INodeNo, NEW k \in Nat
             PROVE  HasBlock(m, k)' <=> HasBlock(m, k) \/ (m = n /\ k = at)
  OBVIOUS
<1>4. CASE m = n /\ k = at
  BY <1>2, <1>4
<1>5. CASE ~ (m = n /\ k = at)
  <2>1. k < MaxBlocks => BlockAt(m, k)' = BlockAt(m, k)
    BY <1>3, <1>5, BlockAtStep
  <2> QED  BY <1>5, <2>1, ChunkCases DEF HasBlock
<1> QED  BY <1>4, <1>5

(* A new block of pointers is no block of a file.                          *)
LEMMA HolderKept ==
  ASSUME Ownership, NullTable, Ownership', NullTable', NEW b \in BlockNo, OnePointer(b),
         NEW n \in INodeNo,
         \/ b = blk_no'[n][INDIRECT] \/ b = blk_no'[n][INDIRECT2]
         \/ \E i \in TableIdx : b = table'[blk_no'[n][INDIRECT2]][i]
  PROVE  \A m \in INodeNo, k \in Nat : HasBlock(m, k)' <=> HasBlock(m, k)
<1>1. b # BAD_BLOCK
  BY DEF OnePointer, INodePointer, TablePointer, NewBlock
<1>2. /\ blk_no' \in [INodeNo -> [PtrIdx -> BlockNo]]
      /\ table' \in [BlockNo -> [TableIdx -> BlockNo]]
      /\ \A x, y \in INodeNo, i, j \in PtrIdx :
           blk_no'[x][i] # BAD_BLOCK /\ blk_no'[x][i] = blk_no'[y][j] => x = y /\ i = j
      /\ \A c, d \in BlockNo, i, j \in TableIdx :
           table'[c][i] # BAD_BLOCK /\ table'[c][i] = table'[d][j] => c = d /\ i = j
      /\ \A x \in INodeNo, i \in PtrIdx, c \in BlockNo, j \in TableIdx :
           blk_no'[x][i] # BAD_BLOCK => blk_no'[x][i] # table'[c][j]
      /\ \A j \in TableIdx : table'[BAD_BLOCK][j] = BAD_BLOCK
  BY DEF Ownership, TypeOK, BlocksOwnedOnce, NullTable, INodeNo, PtrIdx, BlockNo, TableIdx,
         BAD_BLOCK
<1>3. /\ INDIRECT \in PtrIdx /\ INDIRECT2 \in PtrIdx /\ INDIRECT # INDIRECT2
      /\ DIRECT_BLK_COUNT = INDIRECT /\ INDIRECT < INDIRECT2 /\ PtrIdx \subseteq Nat
  BY Sorts DEF INDIRECT, INDIRECT2, PtrIdx
<1>4. \A x \in INodeNo : /\ blk_no'[x][INDIRECT] \in BlockNo /\ blk_no'[x][INDIRECT2] \in BlockNo
                        /\ \A i \in TableIdx : table'[blk_no'[x][INDIRECT2]][i] \in BlockNo
  BY <1>2, <1>3
<1>5. ASSUME NEW m \in INodeNo, NEW k \in Nat, k < MaxBlocks PROVE BlockAt(m, k)' # b
  <2>1. CASE k \in PtrIdx /\ k < DIRECT_BLK_COUNT /\ BlockAt(m, k)' = blk_no'[m][k]
    <3>1. k # INDIRECT /\ k # INDIRECT2
      BY <1>3, <2>1
    <3> QED  BY <1>1, <1>2, <1>3, <1>4, <2>1, <3>1
  <2>2. ASSUME NEW j \in TableIdx, BlockAt(m, k)' = table'[blk_no'[m][INDIRECT]][j]
        PROVE  BlockAt(m, k)' # b
    <3>1. blk_no'[m][INDIRECT] # BAD_BLOCK \/ BlockAt(m, k)' = BAD_BLOCK
      BY <1>2, <2>2
    <3>2. ASSUME NEW i \in TableIdx, b = table'[blk_no'[n][INDIRECT2]][i],
                 blk_no'[m][INDIRECT] # BAD_BLOCK
          PROVE  BlockAt(m, k)' # b
      <4>1. blk_no'[m][INDIRECT] # blk_no'[n][INDIRECT2]
        BY <1>2, <1>3, <3>2
      <4> QED  BY <1>1, <1>2, <1>4, <2>2, <3>2, <4>1
    <3> QED  BY <1>1, <1>2, <1>3, <1>4, <2>2, <3>1, <3>2
  <2>3. ASSUME NEW i \in TableIdx, NEW j \in TableIdx,
               BlockAt(m, k)' = table'[table'[blk_no'[m][INDIRECT2]][i]][j]
        PROVE  BlockAt(m, k)' # b
    <3> DEFINE u == table'[blk_no'[m][INDIRECT2]][i]
           v == blk_no'[n][INDIRECT2]
    <3>1. u \in BlockNo /\ v \in BlockNo
      BY <1>4
    <3>2. \A h \in TableIdx : v # BAD_BLOCK => v # table'[blk_no'[m][INDIRECT2]][h]
      BY <1>2, <1>3, <1>4
    <3>3. blk_no'[n][INDIRECT] = b => b # table'[u][j]
      BY <1>1, <1>2, <1>3, <3>1
    <3>4. v = b => b # table'[u][j]
      BY <1>1, <1>2, <1>3, <3>1
    <3>5. u = v => u = BAD_BLOCK
      BY <3>2
    <3> HIDE DEF u, v
    <3>6. ASSUME NEW h \in TableIdx, b = table'[v][h] PROVE b # table'[u][j]
      BY <1>1, <1>2, <3>1, <3>5, <3>6
    <3>7. b # table'[u][j]
      BY <3>3, <3>4, <3>6 DEF v
    <3> QED  BY <2>3, <3>7 DEF u
  <2> QED  BY <1>5, <2>1, <2>2, <2>3, BlockCases
<1> SUFFICES ASSUME NEW m \in INodeNo, NEW k \in Nat PROVE HasBlock(m, k)' <=> HasBlock(m, k)
  OBVIOUS
<1>6. k < MaxBlocks => BlockAt(m, k)' = BlockAt(m, k)
  BY <1>5, BlockAtStep
<1> QED  BY <1>6, ChunkCases DEF HasBlock

SameBlocks == \A m \in INodeNo, k \in Nat : HasBlock(m, k)' <=> HasBlock(m, k)
MoreBlocks(at) ==
  /\ ~ HasBlock(Ino, at) /\ \A k \in 0 .. at - 1 : HasBlock(Ino, k)
  /\ \A m \in INodeNo, k \in Nat :
       HasBlock(m, k)' <=> HasBlock(m, k) \/ (m = Ino /\ k = at)

(* The loops of get_blkno take no block, or the first that is missing, up  *)
(* to the one wanted; the double-indirect scan takes one past it and ends. *)
TakesNone ==
  /\ SameBlocks
  /\ stage' = "ready" =>
       HasBlock(Ino, Target) /\ Target < DIRECT_BLK_COUNT + BLKNO_PER_BLK
TakesOne ==
  \E at \in Nat :
    /\ MoreBlocks(at)
    /\ IF stage' = "ready"
       THEN Target < at /\ DIRECT_BLK_COUNT + BLKNO_PER_BLK <= Target
       ELSE at <= Target

LEMMA UntouchedBlocks == ASSUME UNCHANGED <<blk_no, table>> PROVE SameBlocks
BY DEF SameBlocks, HasBlock, BlockAt, MaxBlocks, BAD_BLOCK

LEMMA HaltTakes == ASSUME BitmapFull, stage # "ready" PROVE TakesNone
BY UntouchedBlocks DEF BitmapFull, Halt, alloc_vars, TakesNone

LEMMA AllocDirectTakes == ASSUME BlockWalk, BlockWalk', AllocDirect PROVE TakesNone \/ TakesOne
<1> SUFFICES ASSUME ~ BitmapFull PROVE TakesOne
  BY HaltTakes DEF AllocDirect, Running
<1>1. /\ Ownership /\ NullTable /\ Ownership' /\ NullTable' /\ todo # << >>
      /\ stage = "direct"
  BY DEF BlockWalk, AllocDirect, Running
<1>2. Ino \in INodeNo /\ Off \in Nat /\ Target \in Nat
  BY <1>1, WalkTypes
<1>3. PICK k \in 0 .. DIRECT_BLK_COUNT - 1 :
        k * BLK_SIZE <= Off /\ FirstBad(blk_no[Ino], k) /\ FillINode(Ino, k)
  BY DEF AllocDirect
<1>4. k \in PtrIdx /\ k \in Nat /\ k < DIRECT_BLK_COUNT /\ k < MaxBlocks
  BY Sorts DEF MaxBlocks
<1>5. PICK b \in BlockNo : INodePointer(Ino, k, b)
  BY <1>1, <1>2, <1>3, <1>4, FilledINode
<1>6. stage' = "direct"
  BY <1>1, <1>2, <1>3, <1>4, FilledINode
<1>7. OnePointer(b)
  BY <1>2, <1>3, <1>4, <1>5 DEF OnePointer, FirstBad
<1>8. \A l \in 0 .. k : l \in Nat /\ l < MaxBlocks /\ BlockAt(Ino, l) = blk_no[Ino][l]
  BY <1>4, Sorts DEF BlockAt, MaxBlocks
<1>9. PICK n \in INodeNo : n = Ino /\ BlockAt(n, k)' = b
  <2>1. PICK n \in INodeNo : n = Ino
    BY <1>2
  <2>2. blk_no'[n][k] = b
    BY <1>4, <1>5, <2>1 DEF INodePointer
  <2>3. BlockAt(n, k)' = b
    BY <1>4, <2>2 DEF BlockAt
  <2> QED  BY <2>1, <2>3
<1>10. ~ HasBlock(Ino, k) /\ \A l \in 0 .. k - 1 : HasBlock(Ino, l)
  BY <1>3, <1>4, <1>8 DEF HasBlock, FirstBad
<1>11. \A m \in INodeNo, l \in Nat :
         HasBlock(m, l)' <=> HasBlock(m, l) \/ (m = n /\ l = k)
  BY <1>1, <1>2, <1>4, <1>7, <1>9, HolderAdded
<1>12. k <= Target
  BY <1>2, <1>3, <1>4, InBlocks DEF Target
<1> QED  BY <1>4, <1>6, <1>9, <1>10, <1>11, <1>12 DEF TakesOne, MoreBlocks

LEMMA DirectDoneTakes == ASSUME BlockWalk, DirectDone PROVE TakesNone
<1>1. /\ Ownership /\ todo # << >>
      /\ UNCHANGED <<blk_no, table>> /\ stage' = IF Off1 < 0 THEN "ready" ELSE "indirect"
  BY DEF BlockWalk, DirectDone, Running, Proceed, alloc_vars
<1>2. Off \in Nat /\ Target \in Nat
  BY <1>1, WalkTypes
<1>3. /\ Off1 < 0 <=> Target < DIRECT_BLK_COUNT
      /\ \A k \in Nat : k * BLK_SIZE <= Off <=> k <= Target
  BY <1>2, InBlocks DEF Off1, Target
<1>4. ASSUME Off1 < 0
      PROVE  HasBlock(Ino, Target) /\ Target < DIRECT_BLK_COUNT + BLKNO_PER_BLK
  <2>1. Target \in 0 .. DIRECT_BLK_COUNT - 1 /\ Target * BLK_SIZE <= Off
    BY <1>2, <1>3, <1>4, Sorts
  <2>2. blk_no[Ino][Target] # BAD_BLOCK
    BY <2>1 DEF DirectDone
  <2>3. Target < DIRECT_BLK_COUNT + BLKNO_PER_BLK /\ Target < MaxBlocks
    BY <1>2, <1>3, <1>4, Sorts DEF MaxBlocks
  <2> QED  BY <1>3, <1>4, <2>2, <2>3 DEF HasBlock, BlockAt
<1> QED  BY <1>1, <1>4, UntouchedBlocks DEF TakesNone

LEMMA IndirectDoneTakes == ASSUME BlockWalk, IndirectDone PROVE TakesNone
<1>1. /\ Ownership /\ todo # << >> /\ DIRECT_BLK_COUNT <= Target
      /\ UNCHANGED <<blk_no, table>> /\ stage' = IF Off2 < 0 THEN "ready" ELSE "indirect2"
  BY DEF BlockWalk, Walk, IndirectDone, Running, Proceed, alloc_vars
<1>2. Off \in Nat /\ Target \in Nat
  BY <1>1, WalkTypes
<1>3. /\ Off2 < 0 <=> Target < DIRECT_BLK_COUNT + BLKNO_PER_BLK
      /\ \A j \in Nat : j * BLK_SIZE <= Off1 <=> DIRECT_BLK_COUNT + j <= Target
  BY <1>2, InBlocks DEF Off1, Off2, Target
<1>4. ASSUME Off2 < 0 PROVE HasBlock(Ino, Target)
  <2>1. PICK j : j = Target - DIRECT_BLK_COUNT
    OBVIOUS
  <2>2. j \in TableIdx /\ j \in Nat /\ DIRECT_BLK_COUNT + j = Target
    BY <1>1, <1>2, <1>3, <1>4, <2>1, Sorts DEF TableIdx
  <2>3. j * BLK_SIZE <= Off1
    BY <1>2, <1>3, <2>2
  <2>4. table[blk_no[Ino][INDIRECT]][j] # BAD_BLOCK
    BY <2>2, <2>3 DEF IndirectDone
  <2> QED  BY <2>2, <2>4, PlaceOf DEF HasBlock
<1> QED  BY <1>1, <1>3, <1>4, UntouchedBlocks DEF TakesNone

(* A block of pointers of the inode gets its block.                        *)
LEMMA INodePointerTakes ==
  ASSUME BlockWalk, BlockWalk', todo # << >>, stage # "ready", NEW k \in {INDIRECT, INDIRECT2},
         blk_no[Ino][k] = BAD_BLOCK, FillINode(Ino, k)
  PROVE  TakesNone
<1> SUFFICES ASSUME ~ BitmapFull PROVE TakesNone
  BY HaltTakes
<1>1. /\ Ownership /\ NullTable /\ Ownership' /\ NullTable' /\ k \in PtrIdx
  BY Sorts DEF BlockWalk
<1>2. PICK n \in INodeNo : n = Ino
  BY <1>1, WalkTypes
<1>3. PICK b \in BlockNo : INodePointer(n, k, b)
  BY <1>1, <1>2, FilledINode
<1>4. stage' = stage /\ OnePointer(b) /\ blk_no'[n][k] = b
  BY <1>1, <1>2, <1>3, FilledINode DEF OnePointer, INodePointer
<1>5. SameBlocks
  BY <1>1, <1>4, HolderKept DEF SameBlocks
<1> QED  BY <1>4, <1>5 DEF TakesNone

LEMMA TableFilled ==
  ASSUME Ownership, NEW t \in BlockNo, t # BAD_BLOCK, t \in fs_block_bitmap,
         NEW j \in TableIdx, table[t][j] = BAD_BLOCK, NEW next, FillTable(t, j, next),
         ~ BitmapFull
  PROVE  /\ stage' = next
         /\ \E b \in BlockNo :
              OnePointer(b) /\ blk_no' = blk_no
              /\ \A c \in BlockNo, i \in TableIdx :
                   table'[c][i] = IF c = t /\ i = j THEN b ELSE table[c][i]
<1>1. stage' = next
  BY FilledTable
<1>2. PICK b \in BlockNo : TablePointer(t, j, b)
  BY FilledTable
<1>3. OnePointer(b)
  BY <1>2 DEF OnePointer
<1> QED  BY <1>1, <1>2, <1>3 DEF TablePointer

LEMMA AllocTableTakes == ASSUME BlockWalk, BlockWalk', AllocTable PROVE TakesNone
<1> SUFFICES ASSUME ~ BitmapFull PROVE TakesNone
  BY HaltTakes DEF AllocTable, Running
<1>1. /\ Ownership /\ NullTable /\ Ownership' /\ NullTable' /\ todo # << >>
      /\ stage = "indirect2"
  BY DEF BlockWalk, AllocTable, Running
<1>2. PICK n \in INodeNo : n = Ino
  BY <1>1, WalkTypes
<1>3. PICK t : t = blk_no[n][INDIRECT2]
  OBVIOUS
<1>4. t \in BlockNo /\ t # BAD_BLOCK /\ t \in fs_block_bitmap
  BY <1>1, <1>2, <1>3, WalkTypes, Sorts DEF AllocTable
<1>5. PICK i \in TableIdx : table[t][i] = BAD_BLOCK /\ FillTable(t, i, "indirect2")
  BY <1>2, <1>3 DEF AllocTable
<1>6. stage' = "indirect2"
  BY <1>1, <1>4, <1>5, TableFilled
<1>7. PICK b \in BlockNo : OnePointer(b) /\ blk_no' = blk_no /\ table'[t][i] = b
  BY <1>1, <1>4, <1>5, TableFilled
<1>8. b = table'[blk_no'[n][INDIRECT2]][i]
  BY <1>3, <1>7
<1>9. SameBlocks
  BY <1>1, <1>7, <1>8, HolderKept DEF SameBlocks
<1> QED  BY <1>6, <1>9 DEF TakesNone

LEMMA AllocIndirectEntryTakes ==
  ASSUME BlockWalk, BlockWalk', AllocIndirectEntry PROVE TakesNone \/ TakesOne
<1> SUFFICES ASSUME ~ BitmapFull PROVE TakesOne
  BY HaltTakes DEF AllocIndirectEntry, Running
<1>1. /\ Ownership /\ NullTable /\ Ownership' /\ NullTable' /\ todo # << >>
      /\ DirectTo(Ino, Target) /\ DIRECT_BLK_COUNT <= Target
  BY DEF BlockWalk, AllocIndirectEntry, Running, Walk
<1>2. PICK n \in INodeNo : n = Ino
  BY <1>1, WalkTypes
<1>3. PICK t : t = blk_no[n][INDIRECT]
  OBVIOUS
<1>4. t \in BlockNo /\ t # BAD_BLOCK /\ t \in fs_block_bitmap /\ Off \in Nat /\ Target \in Nat
  BY <1>1, <1>2, <1>3, WalkTypes, Sorts DEF AllocIndirectEntry
<1>5. PICK j \in TableIdx :
        j * BLK_SIZE <= Off1 /\ FirstBad(table[t], j) /\ FillTable(t, j, "indirect")
  BY <1>2, <1>3 DEF AllocIndirectEntry
<1>6. stage' = "indirect"
  BY <1>1, <1>4, <1>5, TableFilled DEF FirstBad
<1>7. PICK b \in BlockNo : OnePointer(b) /\ blk_no' = blk_no /\ table'[t][j] = b
  BY <1>1, <1>4, <1>5, TableFilled DEF FirstBad
<1>8. PICK at : at = DIRECT_BLK_COUNT + j
  OBVIOUS
<1>9. at \in Nat /\ at < MaxBlocks /\ BlockAt(n, at)' = b /\ BlockAt(n, at) = BAD_BLOCK
  BY <1>3, <1>5, <1>7, <1>8, PlaceOf DEF FirstBad
<1>10. \A m \in INodeNo, l \in Nat :
         HasBlock(m, l)' <=> HasBlock(m, l) \/ (m = n /\ l = at)
  BY <1>1, <1>7, <1>9, HolderAdded
<1>11. at <= Target
  <2>1. j \in Nat
    BY DEF TableIdx
  <2> QED  BY <1>4, <1>5, <1>8, <2>1, InBlocks DEF Off1, Target
<1>12. ASSUME NEW k \in 0 .. at - 1 PROVE HasBlock(n, k)
  <2>1. k \in Nat /\ k < MaxBlocks /\ k < at
    BY <1>9, Sorts DEF MaxBlocks
  <2>2. CASE k < DIRECT_BLK_COUNT
    <3>1. k \in 0 .. DIRECT_BLK_COUNT - 1 /\ k <= Target
      BY <1>4, <1>11, <2>1, <2>2, <1>9, Sorts
    <3>2. blk_no[n][k] # BAD_BLOCK
      BY <1>1, <1>2, <3>1 DEF DirectTo
    <3> QED  BY <2>1, <2>2, <3>2 DEF HasBlock, BlockAt
  <2>3. CASE ~ (k < DIRECT_BLK_COUNT)
    <3>1. PICK l : l = k - DIRECT_BLK_COUNT
      OBVIOUS
    <3>2. l \in TableIdx /\ l \in 0 .. j - 1 /\ k = DIRECT_BLK_COUNT + l
      BY <1>8, <2>1, <2>3, <3>1, Sorts DEF TableIdx
    <3>3. table[t][l] # BAD_BLOCK
      BY <1>5, <3>2 DEF FirstBad
    <3> QED  BY <1>3, <2>1, <3>2, <3>3, PlaceOf DEF HasBlock
  <2> QED  BY <2>2, <2>3
<1> QED  BY <1>2, <1>6, <1>9, <1>10, <1>11, <1>12 DEF TakesOne, MoreBlocks, HasBlock

(* The double-indirect scan passes full tables only: the entry it takes is *)
(* the first one without a block.                                          *)
LEMMA AllocTableEntryTakes ==
  ASSUME BlockWalk, BlockWalk', AllocTableEntry PROVE TakesNone \/ TakesOne
<1> DEFINE D == DIRECT_BLK_COUNT
           B == BLKNO_PER_BLK
<1> SUFFICES ASSUME ~ BitmapFull PROVE TakesOne
  BY HaltTakes DEF AllocTableEntry, Running
<1>1. /\ Ownership /\ NullTable /\ Ownership' /\ NullTable' /\ todo # << >>
      /\ DirectTo(Ino, Target) /\ IndirectTo(Ino, Target) /\ D + B <= Target
  BY DEF BlockWalk, AllocTableEntry, Running, Walk
<1>2. PICK n \in INodeNo : n = Ino
  BY <1>1, WalkTypes
<1>3. PICK t : t = blk_no[n][INDIRECT2]
  OBVIOUS
<1>4. t \in BlockNo /\ t # BAD_BLOCK /\ Off \in Nat /\ Target \in Nat
  BY <1>1, <1>2, <1>3, WalkTypes DEF AllocTableEntry
<1>5. PICK i \in TableIdx, j \in TableIdx :
        /\ ScanAt(i) /\ table[t][i] # BAD_BLOCK /\ FirstBad(table[table[t][i]], j)
        /\ FillTable(table[t][i], j, IF ScanStop(i, j) THEN "ready" ELSE "indirect2")
  BY <1>2, <1>3 DEF AllocTableEntry
<1>6. PICK u, next : u = table[t][i] /\ next = IF ScanStop(i, j) THEN "ready" ELSE "indirect2"
  OBVIOUS
<1>7. /\ u \in BlockNo /\ u # BAD_BLOCK /\ u \in fs_block_bitmap /\ table[u][j] = BAD_BLOCK
      /\ FillTable(u, j, next)
  BY <1>1, <1>4, <1>5, <1>6 DEF Ownership, TypeOK, PointersAllocated, Allocated, FirstBad
<1>8. stage' = next
  BY <1>1, <1>7, TableFilled
<1>9. PICK b \in BlockNo :
        /\ OnePointer(b) /\ blk_no' = blk_no
        /\ \A c \in BlockNo, l \in TableIdx :
             table'[c][l] = IF c = u /\ l = j THEN b ELSE table[c][l]
  BY <1>1, <1>7, TableFilled
<1>10. PICK at : at = D + B + (i * B + j)
  OBVIOUS
<1>11. table'[t][i] = u /\ table'[u][j] = b
  <2>1. ~ (t = u /\ i = j)
    BY <1>6, <1>7
  <2> QED  BY <1>4, <1>6, <1>7, <1>9, <2>1
<1>12. at \in Nat /\ at < MaxBlocks /\ BlockAt(n, at)' = b /\ BlockAt(n, at) = BAD_BLOCK
  BY <1>3, <1>6, <1>7, <1>9, <1>10, <1>11, PlaceOf
<1>13. \A m \in INodeNo, l \in Nat :
         HasBlock(m, l)' <=> HasBlock(m, l) \/ (m = n /\ l = at)
  BY <1>1, <1>9, <1>12, HolderAdded
<1>14. ScanStop(i, j) <=> Target < at
  <2>1. i \in Nat /\ j \in Nat
    BY DEF TableIdx
  <2> QED  BY <1>4, <1>10, <2>1, InBlocks DEF ScanStop, Off1, Off2, Target
<1>15. ASSUME NEW k \in 0 .. at - 1 PROVE HasBlock(n, k)
  <2>1. k \in Nat /\ k < MaxBlocks /\ k < at /\ D \in Nat /\ B \in Nat
    BY <1>12, Sorts DEF MaxBlocks
  <2>2. CASE k < D
    <3>1. k \in 0 .. D - 1 /\ k <= Target
      BY <1>1, <1>4, <2>1, <2>2
    <3>2. blk_no[n][k] # BAD_BLOCK
      BY <1>1, <1>2, <3>1 DEF DirectTo
    <3> QED  BY <2>1, <2>2, <3>2 DEF HasBlock, BlockAt
  <2>3. CASE D <= k /\ k < D + B
    <3>1. PICK l : l = k - D
      OBVIOUS
    <3>2. l \in TableIdx /\ k = D + l /\ D + l <= Target
      BY <1>1, <1>4, <2>1, <2>3, <3>1 DEF TableIdx
    <3>3. table[blk_no[n][INDIRECT]][l] # BAD_BLOCK
      BY <1>1, <1>2, <3>2 DEF IndirectTo
    <3> QED  BY <2>1, <3>2, <3>3, PlaceOf DEF HasBlock
  <2>4. CASE D + B <= k
    <3>1. ~ (k \in PtrIdx /\ k < D)
      BY <2>1, <2>4
    <3>2. ~ (\E l \in TableIdx : k = D + l)
      BY <2>1, <2>4 DEF TableIdx
    <3>3. PICK g \in TableIdx, h \in TableIdx :
            k = D + B + (g * B + h) /\ BlockAt(n, k) = table[table[t][g]][h]
      BY <1>3, <2>1, <3>1, <3>2, BlockCases
    <3>4. g \in Nat /\ i \in Nat /\ h \in 0 .. B - 1 /\ j \in 0 .. B - 1
      BY DEF TableIdx
    <3>5. g * B \in Nat /\ i * B \in Nat /\ B \in Nat \ {0}
      BY <3>4, Sorts
    <3>6. g * B + h <= i * B + j /\ g * B + h # i * B + j
      BY <1>10, <2>1, <3>3, <3>4, <3>5
    <3>7. g < i \/ (g = i /\ h < j)
      <4>1. g < i \/ (g = i /\ h <= j)
        BY <3>4, <3>5, <3>6, RowByRow
      <4> QED  BY <3>4, <3>6, <4>1
    <3>8. table[table[t][g]][h] # BAD_BLOCK
      <4>1. CASE g < i
        <5>1. g \in 0 .. i - 1
          BY <3>4, <4>1
        <5>2. FullTable(table[t][g])
          BY <1>2, <1>3, <1>5, <5>1 DEF ScanAt
        <5> QED  BY <5>2 DEF FullTable
      <4>2. CASE g = i /\ h < j
        <5>1. h \in 0 .. j - 1
          BY <3>4, <4>2
        <5> QED  BY <1>5, <4>2, <5>1 DEF FirstBad
      <4> QED  BY <3>7, <4>1, <4>2
    <3> QED  BY <2>1, <3>3, <3>8 DEF HasBlock
  <2> QED  BY <2>1, <2>2, <2>3, <2>4
<1>16. IF stage' = "ready" THEN Target < at /\ D + B <= Target ELSE at <= Target
  BY <1>1, <1>4, <1>6, <1>8, <1>12, <1>14
<1> QED  BY <1>2, <1>12, <1>13, <1>15, <1>16 DEF TakesOne, MoreBlocks, HasBlock

LEMMA LoopsTake ==
  ASSUME BlockWalk, BlockWalk', GetBlknoStep, ~ CallGetBlkno PROVE TakesNone \/ TakesOne
<1>1. CASE AllocIndirect
  BY <1>1, INodePointerTakes DEF AllocIndirect, Running
<1>2. CASE AllocIndirect2
  BY <1>2, INodePointerTakes DEF AllocIndirect2, Running
<1> QED
  BY <1>1, <1>2, AllocDirectTakes, DirectDoneTakes, AllocIndirectEntryTakes,
     IndirectDoneTakes, AllocTableTakes, AllocTableEntryTakes DEF GetBlknoStep

(* A file has more blocks than the one that is copied next.                *)
LEMMA PosBelow ==
  ASSUME NEW size \in Nat, NEW pos \in Nat, pos <= size
  PROVE  /\ Blocks(size, pos) \in Nat /\ pos \div BLK_SIZE < Blocks(size, pos)
         /\ DoubleChunks(pos) \in Nat
<1>1. BLK_SIZE \in Nat \ {0} /\ DIRECT_BLK_COUNT \in Nat /\ BLKNO_PER_BLK \in Nat
  BY Sorts
<1>2. /\ size \div BLK_SIZE \in Nat /\ pos \div BLK_SIZE \in Nat
      /\ pos \div BLK_SIZE <= size \div BLK_SIZE
  <2>1. /\ \A k \in Nat : k * BLK_SIZE <= size <=> k <= size \div BLK_SIZE
        /\ \A k \in Nat : k * BLK_SIZE <= pos <=> k <= pos \div BLK_SIZE
        /\ size \div BLK_SIZE \in Nat /\ pos \div BLK_SIZE \in Nat
    BY InBlocks
  <2>2. PICK k \in Nat : k = pos \div BLK_SIZE
    BY <2>1
  <2>3. k * BLK_SIZE \in Nat /\ k * BLK_SIZE <= pos
    BY <1>1, <2>1, <2>2
  <2>4. k * BLK_SIZE <= size
    BY <2>3
  <2> QED  BY <2>1, <2>2, <2>4
<1>3. DoubleChunks(pos) \in Nat
  <2> DEFINE over == pos - BLK_SIZE * (DIRECT_BLK_COUNT + BLKNO_PER_BLK)
  <2>1. over \in Int
    BY <1>1
  <2> HIDE DEF over
  <2>2. over > 0 => (over + BLK_SIZE - 1) \div BLK_SIZE \in Nat
    <3>1. over > 0 => over + BLK_SIZE - 1 \in Nat
      BY <1>1, <2>1
    <3> QED  BY <1>1, <3>1, DivMod
  <2> QED  BY <2>1, <2>2 DEF DoubleChunks, over
<1> QED  BY <1>2, <1>3 DEF Blocks

----------------------------------------------------------------------------
(* A step keeps every file's extent.                                       *)

LEMMA ExtentNext ==
  ASSUME NEW n, NEW c
  PROVE  /\ Held(n, c)' <=> \A k \in Nat : HasBlock(n, k)' <=> k < c
         /\ Holding(n, c)' <=>
              \/ Cur'.op = "add_dentry" /\ c = 0
              \/ /\ Cur'.op = "expand"
                 /\ IF stage' = "ready" THEN c = Target' + 1 + Beyond' ELSE c <= Target' + 1
              \/ /\ Cur'.op = "copy"
                 /\ Cur'.pos % BLK_SIZE = 0 \/ Cur'.len = 0
                 /\ stage' # "idle" => Cur'.len # 0
                 /\ c = Blocks(inode'[n].f_size, Cur'.pos)
                          + (IF stage' = "ready" THEN Beyond' ELSE 0)
         /\ Extent(n, c)' <=>
              IF Unfinished(n)' THEN Holding(n, c)'
              ELSE c = Blocks(inode'[n].f_size, inode'[n].f_size)
<1>1. Blocks(inode[n].f_size, Cur.pos)' = Blocks(inode'[n].f_size, Cur'.pos)
  BY DEF Blocks, IsDouble, DoubleChunks
<1>2. Blocks(inode[n].f_size, inode[n].f_size)' = Blocks(inode'[n].f_size, inode'[n].f_size)
  BY DEF Blocks, IsDouble, DoubleChunks
<1>3. Held(n, c)' <=> \A k \in Nat : HasBlock(n, k)' <=> k < c
  BY DEF Held
<1>4. Holding(n, c)' <=>
        \/ Cur'.op = "add_dentry" /\ c = 0
        \/ /\ Cur'.op = "expand"
           /\ IF stage' = "ready" THEN c = Target' + 1 + Beyond' ELSE c <= Target' + 1
        \/ /\ Cur'.op = "copy"
           /\ Cur'.pos % BLK_SIZE = 0 \/ Cur'.len = 0
           /\ stage' # "idle" => Cur'.len # 0
           /\ c = Blocks(inode'[n].f_size, Cur'.pos)
                    + (IF stage' = "ready" THEN Beyond' ELSE 0)
  BY <1>1 DEF Holding
<1>5. Extent(n, c)' <=> IF Unfinished(n)' THEN Holding(n, c)'
                        ELSE c = Blocks(inode'[n].f_size, inode'[n].f_size)
  BY <1>2 DEF Extent
<1> QED  BY <1>3, <1>4, <1>5

(* All files but the last one keep their blocks.                           *)
LEMMA ExtentsStep ==
  ASSUME Extents, NEW k \in INodeNo, Last(k), todo # << >>, UNCHANGED inode_bitmap,
         \A n \in INodeNo : inode'[n].f_type = inode[n].f_type,
         \A n \in INodeNo :
           n # k /\ inode[n].f_type = "REGULAR" =>
             /\ inode'[n].f_size = inode[n].f_size
             /\ \A l \in Nat : HasBlock(n, l)' <=> HasBlock(n, l),
         \A c \in Nat :
           inode[k].f_type = "REGULAR" /\ Held(k, c) /\ Holding(k, c) =>
             \E d \in Nat :
               /\ Held(k, d)'
               /\ IF todo' # << >> THEN Holding(k, d)'
                  ELSE d = Blocks(inode'[k].f_size, inode'[k].f_size)
  PROVE  Extents'
<1>1. Last(k)'
  BY DEF Last, INodeNo, ROOT_INODE
<1> SUFFICES ASSUME NEW n \in INodeNo \cap inode_bitmap, inode[n].f_type = "REGULAR"
             PROVE  \E c \in Nat : Held(n, c)' /\ Extent(n, c)'
  BY DEF Extents, INodeNo
<1>2. /\ Unfinished(n) <=> n = k
      /\ Unfinished(n)' <=> todo' # << >> /\ n = k
  BY <1>1, UnfinishedIs, UnfinishedNext
<1>3. PICK c \in Nat : Held(n, c) /\ Extent(n, c)
  BY DEF Extents
<1>4. CASE n = k
  <2>1. Holding(k, c)
    BY <1>2, <1>3, <1>4 DEF Extent
  <2>2. PICK d \in Nat :
          /\ Held(k, d)'
          /\ IF todo' # << >> THEN Holding(k, d)'
             ELSE d = Blocks(inode'[k].f_size, inode'[k].f_size)
    BY <1>3, <1>4, <2>1
  <2> QED  BY <1>2, <1>4, <2>2, ExtentNext
<1>5. CASE n # k
  <2>1. /\ inode'[n].f_size = inode[n].f_size
        /\ \A l \in Nat : HasBlock(n, l)' <=> HasBlock(n, l)
    BY <1>5
  <2>2. Held(n, c)'
    BY <1>3, <2>1 DEF Held
  <2>3. c = Blocks(inode[n].f_size, inode[n].f_size)
    BY <1>2, <1>3, <1>5 DEF Extent
  <2> QED  BY <1>2, <1>5, <2>1, <2>2, <2>3, ExtentNext
<1> QED  BY <1>4, <1>5

LEMMA LoopsKeepExtents ==
  ASSUME BlockWalk, BlockWalk', DirTree, Files, Extents, GetBlknoStep, ~ CallGetBlkno
  PROVE  Extents'
<1>1. /\ UNCHANGED <<inode, inode_bitmap, todo>> /\ todo # << >>
      /\ stage # "idle" /\ stage' # "idle" /\ TypeOK /\ Ownership
  BY LoopsPoint DEF BlockWalk, Ownership
<1>2. stage # "ready"
  BY DEF GetBlknoStep, AllocDirect, DirectDone, AllocIndirect, AllocIndirectEntry,
         IndirectDone, AllocIndirect2, AllocTable, AllocTableEntry, Running
<1>3. PICK k \in INodeNo : Last(k)
  BY DEF DirTree, Making
<1>4. /\ Cur' = Cur /\ Target' = Target /\ Beyond' = Beyond
      /\ Ino \in INodeNo /\ Off \in Nat /\ Target \in Nat
  BY <1>1, WalkTypes DEF Cur, Target, Off, Beyond
<1>5. TakesNone \/ TakesOne
  BY LoopsTake
<1>6. \A m \in INodeNo : m # Ino => \A l \in Nat : HasBlock(m, l)' <=> HasBlock(m, l)
  BY <1>5 DEF TakesNone, TakesOne, SameBlocks, MoreBlocks
<1>7. CASE Adding
  <2>1. inode[Ino].f_type # "REGULAR" /\ Cur.op = "add_dentry"
    BY <1>7, AddingDir DEF Directories, Adding
  <2>2. ASSUME NEW c \in Nat, inode[k].f_type = "REGULAR", Held(k, c), Holding(k, c)
        PROVE  Held(k, c)' /\ Holding(k, c)'
    <3>1. c = 0
      BY <2>1, <2>2 DEF Holding
    <3>2. \A l \in Nat : HasBlock(k, l)' <=> HasBlock(k, l)
      BY <1>6, <2>1, <2>2
    <3> QED  BY <1>4, <2>1, <2>2, <3>1, <3>2, ExtentNext DEF Held
  <2> QED  BY <1>1, <1>3, <1>6, <2>1, <2>2, ExtentsStep
<1>8. CASE ~ Adding
  <2>1. Ino = k /\ Growing(k) /\ Cur.op # "add_dentry" /\ Off = Cur.pos
    BY <1>1, <1>3, <1>8, WritingLast DEF Adding, Off
  <2> SUFFICES ASSUME NEW c \in Nat, Held(k, c), Holding(k, c)
               PROVE  \E d \in Nat : Held(k, d)' /\ Holding(k, d)'
    BY <1>1, <1>3, <1>6, <2>1, ExtentsStep
  <2>2. PICK d \in Nat :
          /\ Held(k, d)'
          /\ \/ d = c /\ (stage' = "ready" => Target < c /\ Beyond = 0)
             \/ /\ d = c + 1
                /\ IF stage' = "ready" THEN Target < c /\ Beyond = 1 ELSE c <= Target
    <3>1. CASE TakesNone
      <4>1. Held(k, c)'
        BY <3>1, ExtentNext DEF TakesNone, SameBlocks, Held
      <4>2. stage' = "ready" => Target < c /\ Beyond = 0
        BY <1>4, <2>1, <3>1, Sorts DEF TakesNone, Held, Beyond
      <4> QED  BY <4>1, <4>2
    <3>2. CASE TakesOne
      <4>1. PICK at \in Nat :
              /\ MoreBlocks(at)
              /\ IF stage' = "ready"
                 THEN Target < at /\ DIRECT_BLK_COUNT + BLKNO_PER_BLK <= Target
                 ELSE at <= Target
        BY <3>2 DEF TakesOne
      <4>2. at = c
        <5>1. ~ (at < c)
          BY <2>1, <4>1 DEF MoreBlocks, Held
        <5>2. ~ (c < at)
          <6> SUFFICES ASSUME c < at PROVE FALSE
            OBVIOUS
          <6>1. c \in 0 .. at - 1
            OBVIOUS
          <6> QED  BY <2>1, <4>1, <6>1 DEF MoreBlocks, Held
        <5> QED  BY <5>1, <5>2
      <4>3. \A l \in Nat : HasBlock(k, l)' <=> l < c + 1
        <5>1. \A l \in Nat : HasBlock(k, l)' <=> HasBlock(k, l) \/ l = c
          BY <2>1, <4>1, <4>2 DEF MoreBlocks
        <5>2. \A l \in Nat : HasBlock(k, l) <=> l < c
          BY DEF Held
        <5> QED  BY <5>1, <5>2
      <4>4. c + 1 \in Nat /\ Held(k, c + 1)'
        BY <4>3, ExtentNext
      <4>5. stage' = "ready" => Beyond = 1
        BY <4>1 DEF Beyond
      <4> QED  BY <4>1, <4>2, <4>4, <4>5
    <3> QED  BY <1>5, <3>1, <3>2
  <2>3. CASE Cur.op = "expand"
    BY <1>1, <1>2, <1>4, <2>2, <2>3, ExtentNext DEF Holding
  <2>4. CASE Cur.op = "copy"
    <3> DEFINE size == inode[k].f_size
    <3>1. size \in Nat /\ Cur.pos \in Nat /\ Cur.pos <= size
      <4>1. Cur.pos \in Nat /\ Cur.len \in Nat
        BY <1>1, CurType, CallFields
      <4> QED  BY <2>1, <2>4, <4>1 DEF Growing
    <3>2. c = Blocks(size, Cur.pos) /\ Cur.len # 0 /\ Cur.pos % BLK_SIZE = 0
      <4>1. c = Blocks(size, Cur.pos) + 0 /\ Cur.len # 0 /\ Cur.pos % BLK_SIZE = 0
        BY <1>1, <1>2, <2>4 DEF Holding
      <4>2. Blocks(size, Cur.pos) \in Nat
        BY <3>1, PosBelow
      <4> QED  BY <4>1, <4>2
    <3>3. Target < c
      BY <2>1, <3>1, <3>2, PosBelow DEF Target
    <3>4. d = c + IF stage' = "ready" THEN Beyond ELSE 0
      BY <1>4, <2>2, <3>3
    <3>5. inode' = inode
      BY <1>1
    <3> HIDE DEF size
    <3>6. Holding(k, d)'
      BY <1>4, <2>4, <3>2, <3>4, <3>5, ExtentNext DEF size
    <3> QED  BY <2>2, <3>6
  <2> QED  BY <2>1, <2>3, <2>4 DEF Growing
<1> QED  BY <1>7, <1>8

LEMMA CallGetBlknoExtents ==
  ASSUME BlockWalk, DirTree, Files, Extents, CallGetBlkno PROVE Extents'
<1>1. /\ TypeOK /\ Ownership /\ todo # << >> /\ stage = "idle"
      /\ UNCHANGED <<blk_no, table, inode_bitmap>> /\ ~ (Cur.op = "copy" /\ Cur.len = 0)
  BY DEF BlockWalk, Ownership, CallGetBlkno, Running, alloc_vars
<1>2. PICK k \in INodeNo : Last(k)
  BY DEF DirTree, Making
<1>3. /\ Ino \in INodeNo /\ Off \in Nat /\ inode \in [INodeNo -> INode]
      /\ inode[Ino].f_size \in Nat /\ Cur.pos \in Nat /\ Cur.len \in Nat
  BY <1>1, WalkTypes, CurType, CallFields DEF TypeOK, INode
<1>4. SameBlocks
  BY <1>1, UntouchedBlocks
<1>5. /\ inode' = [inode EXCEPT ![Ino].f_size = IF @ < Off THEN Off ELSE @]
      /\ stage' = "direct" /\ UNCHANGED todo
  BY <1>1, AlwaysGrows DEF CallGetBlkno
<1>6. /\ \A n \in INodeNo : inode'[n].f_type = inode[n].f_type
      /\ \A n \in INodeNo : n # Ino => inode'[n] = inode[n]
      /\ inode'[Ino].f_size = IF inode[Ino].f_size < Off THEN Off ELSE inode[Ino].f_size
  BY <1>3, <1>5 DEF INode
<1>7. Cur' = Cur /\ Target' = Target /\ Beyond' = Beyond
  BY <1>5 DEF Cur, Target, Off, Beyond
<1>8. Ino # k \/ Cur.op = "add_dentry" => inode[Ino].f_type # "REGULAR"
  BY <1>1, <1>2, WritingLast, AddingDir DEF Adding, Directories
<1>9. \A n \in INodeNo :
        n # k /\ inode[n].f_type = "REGULAR" =>
          /\ inode'[n].f_size = inode[n].f_size
          /\ \A l \in Nat : HasBlock(n, l)' <=> HasBlock(n, l)
  BY <1>4, <1>6, <1>8 DEF SameBlocks
<1>10. ASSUME NEW c \in Nat, inode[k].f_type = "REGULAR", Held(k, c), Holding(k, c)
       PROVE  Held(k, c)' /\ Holding(k, c)'
  <2>1. Held(k, c)'
    BY <1>4, <1>10, ExtentNext DEF SameBlocks, Held
  <2>2. CASE Cur.op # "copy"
    <3>1. \/ Cur.op = "add_dentry" /\ c = 0
          \/ Cur.op = "expand" /\ c <= Target + 1
      BY <1>1, <1>10, <2>2 DEF Holding
    <3> QED  BY <1>5, <1>7, <2>1, <3>1, ExtentNext
  <2>3. CASE Cur.op = "copy"
    <3>1. Ino = k /\ Growing(k) /\ Off = Cur.pos
      BY <1>1, <1>2, <2>3, WritingLast DEF Adding, Off
    <3>2. inode'[k].f_size = inode[k].f_size
      BY <1>3, <1>6, <2>3, <3>1 DEF Growing
    <3>3. Cur.pos % BLK_SIZE = 0 /\ c = Blocks(inode[k].f_size, Cur.pos) + 0
      BY <1>1, <1>10, <2>3 DEF Holding
    <3> QED  BY <1>1, <1>5, <1>7, <2>1, <2>3, <3>2, <3>3, ExtentNext
  <2> QED  BY <2>1, <2>2, <2>3
<1> QED  BY <1>1, <1>2, <1>5, <1>6, <1>9, <1>10, ExtentsStep

(* The callers of get_blkno take no block themselves.                      *)
LEMMA CallerExtents ==
  ASSUME BlockWalk, DirTree, Files, Extents, CallerStep, NEW k \in INodeNo, Last(k),
         \A c \in Nat :
           inode[k].f_type = "REGULAR" /\ Held(k, c) /\ Holding(k, c) =>
             IF todo' # << >> THEN Holding(k, c)'
             ELSE c = Blocks(inode[k].f_size, inode[k].f_size)
  PROVE  Extents'
<1>1. UNCHANGED <<inode, inode_bitmap, blk_no, table>> /\ todo # << >>
  BY DEF CallerStep, NextDentry, StoreDentry, Expanded, CopyChunk, CopyDone, Running, Return
<1>2. SameBlocks
  BY <1>1, UntouchedBlocks
<1>3. \A c \in Nat : Held(k, c) => Held(k, c)'
  BY <1>2, ExtentNext DEF SameBlocks, Held
<1> QED  BY <1>1, <1>2, <1>3, ExtentsStep DEF SameBlocks

LEMMA NextDentryExtents ==
  ASSUME BlockWalk, DirTree, Files, Extents, NextDentry PROVE Extents'
<1>1. TypeOK /\ todo # << >> /\ Cur.op = "add_dentry" /\ CallerStep
  BY DEF BlockWalk, Ownership, NextDentry, Running, CallerStep
<1>2. PICK k \in INodeNo : Last(k)
  BY DEF DirTree, Making
<1>3. todo' = [todo EXCEPT ![1].pos = @ + 1]
  BY ProbesOn DEF NextDentry, Return
<1>4. Cur \in Call /\ Cur = todo[1]
  BY <1>1, CurType DEF Cur, TypeOK
<1> DEFINE call == [Cur EXCEPT !.pos = @ + 1]
<1>5. todo' = [todo EXCEPT ![1] = call] /\ call.op = "add_dentry"
  BY <1>1, <1>3, <1>4 DEF Call
<1> HIDE DEF call
<1>6. todo' # << >> /\ Cur'.op = "add_dentry"
  BY <1>1, <1>5, HeadMoved
<1>7. \A c \in Nat : Holding(k, c) => Holding(k, c)'
  BY <1>1, <1>6, ExtentNext DEF Holding
<1> QED  BY <1>1, <1>2, <1>6, <1>7, CallerExtents

LEMMA StoreDentryExtents ==
  ASSUME BlockWalk, DirTree, Files, Extents, StoreDentry PROVE Extents'
<1>1. /\ todo # << >> /\ Cur.op = "add_dentry" /\ CallerStep
      /\ todo' = Tail(todo) /\ stage' = "idle"
  BY DEF StoreDentry, Running, Return, CallerStep
<1>2. PICK k \in INodeNo : Last(k)
  BY DEF DirTree, Making
<1>3. ASSUME inode[k].f_type = "REGULAR", NEW c \in Nat, Holding(k, c)
      PROVE  todo' # << >> /\ Holding(k, c)'
  <2>1. k \in inode_bitmap /\ Unfinished(k)
    BY <1>1, <1>2, LastUsed, UnfinishedIs
  <2>2. Growing(k)
    BY <1>3, <2>1 DEF Files
  <2>3. PICK size \in Nat : todo' = <<ExpandCall(k, size), CopyCall(k, size)>>
    BY <1>1, <2>2 DEF Growing
  <2>4. todo' # << >> /\ Cur' = ExpandCall(k, size)
    BY <2>3, CallLists DEF Cur
  <2>5. Cur'.op = "expand" /\ Cur'.pos = size
    BY <2>4 DEF ExpandCall
  <2>6. PICK at : at = Target'
    OBVIOUS
  <2>7. at \in Nat
    BY <2>5, <2>6, ChunkNo DEF Target, Off
  <2>8. c = 0
    BY <1>1, <1>3 DEF Holding
  <2>9. c <= at + 1
    BY <2>7, <2>8
  <2> QED  BY <1>1, <2>4, <2>5, <2>6, <2>9, ExtentNext
<1> QED  BY <1>1, <1>2, <1>3, CallerExtents

LEMMA ExpandedExtents ==
  ASSUME BlockWalk, DirTree, Files, Extents, Expanded PROVE Extents'
<1>1. /\ TypeOK /\ todo # << >> /\ Cur.op = "expand" /\ ~ Adding /\ todo' = Tail(todo)
      /\ stage = "ready" /\ stage' = "idle" /\ CallerStep /\ inode' = inode
  BY DEF BlockWalk, Ownership, Expanded, Running, Return, Adding, CallerStep
<1>2. PICK k \in INodeNo : Last(k)
  BY DEF DirTree, Making
<1>3. PICK size : size = Cur.pos
  OBVIOUS
<1>4. /\ size \in Nat /\ Off = size /\ todo' = <<CopyCall(k, size)>>
      /\ inode[k].f_size = size
  BY <1>1, <1>2, <1>3, WritingLast, CurType, CallFields DEF Growing, Off
<1>5. todo' # << >> /\ Cur' = CopyCall(k, size)
  BY <1>4, CallLists DEF Cur
<1>6. Cur'.op = "copy" /\ Cur'.pos = 0
  BY <1>5 DEF CopyCall
<1>7. /\ Target = size \div BLK_SIZE /\ Target \in Nat
      /\ IsDouble(size) <=> DIRECT_BLK_COUNT + BLKNO_PER_BLK <= Target
  <2>1. PICK e : e = DIRECT_BLK_COUNT + BLKNO_PER_BLK
    OBVIOUS
  <2>2. e \in Nat /\ BLK_SIZE \in Nat /\ e * BLK_SIZE = BLK_SIZE * e
    BY <2>1, Sorts
  <2>3. e * BLK_SIZE <= size <=> e <= size \div BLK_SIZE
    BY <1>4, <2>2, InBlocks
  <2> QED  BY <1>4, <2>1, <2>2, <2>3, ChunkNo DEF IsDouble, Target
<1>8. DoubleChunks(0) = 0 /\ 0 % BLK_SIZE = 0
  <2>1. PICK e : e = BLK_SIZE * (DIRECT_BLK_COUNT + BLKNO_PER_BLK)
    OBVIOUS
  <2>2. e \in Nat /\ BLK_SIZE \in Nat \ {0}
    BY <2>1, Sorts
  <2> QED  BY <2>1, <2>2 DEF DoubleChunks
<1>9. Target + 1 + Beyond = Blocks(size, 0)
  BY <1>7, <1>8 DEF Beyond, Blocks
<1>10. ASSUME NEW c \in Nat, Holding(k, c) PROVE Holding(k, c)'
  <2>1. c = Target + 1 + Beyond
    BY <1>1, <1>10 DEF Holding
  <2>2. c = Blocks(inode'[k].f_size, Cur'.pos) + 0
    BY <1>1, <1>4, <1>6, <1>9, <2>1
  <2> QED  BY <1>1, <1>6, <1>8, <2>2, ExtentNext
<1> QED  BY <1>1, <1>2, <1>5, <1>10, CallerExtents

LEMMA WholeRows ==
  ASSUME NEW d \in Nat \ {0}, NEW r \in Nat, NEW s \in 0 .. d - 1
  PROVE  (r * d + s) \div d = r
<1> DEFINE x == r * d + s
<1>1. r * d \in Nat /\ s \in Nat
  OBVIOUS
<1>2. x \in Nat
  BY <1>1
<1> HIDE DEF x
<1>3. /\ x \div d \in Nat /\ x % d \in 0 .. d - 1
      /\ x = (x \div d) * d + (x % d)
  BY <1>2, Euclid
<1>4. PICK g, h : g = x \div d /\ h = x % d
  OBVIOUS
<1>5. g \in Nat /\ h \in 0 .. d - 1 /\ r * d + s = g * d + h /\ r * d + s \in Nat
  BY <1>2, <1>3, <1>4 DEF x
<1>6. /\ g < r \/ (g = r /\ h <= s)
      /\ r < g \/ (r = g /\ s <= h)
  BY <1>5, RowByRow
<1> QED  BY <1>4, <1>5, <1>6 DEF x

LEMMA RowStart == ASSUME NEW d \in Nat \ {0}, NEW r \in Nat PROVE (r * d) % d = 0
<1>1. PICK x : x = r * d
  OBVIOUS
<1>2. x \in Nat
  BY <1>1
<1>3. (r * d + 0) \div d = r
  BY WholeRows
<1>4. x \div d = r
  BY <1>1, <1>2, <1>3
<1>5. x = (x \div d) * d + (x % d) /\ x % d \in 0 .. d - 1
  BY <1>2, Euclid
<1>6. x = x + (x % d) /\ x % d \in Int
  BY <1>1, <1>4, <1>5
<1> QED  BY <1>1, <1>2, <1>6

(* A chunk beyond the indirect blocks is one more, cut short or not.       *)
LEMMA NextChunk ==
  ASSUME NEW pos \in Nat, pos % BLK_SIZE = 0, NEW len \in 1 .. BLK_SIZE
  PROVE  DoubleChunks(pos + len) =
           DoubleChunks(pos)
             + IF DIRECT_BLK_COUNT + BLKNO_PER_BLK <= pos \div BLK_SIZE THEN 1 ELSE 0
<1> DEFINE d == BLK_SIZE
           e == DIRECT_BLK_COUNT + BLKNO_PER_BLK
<1>1. d = BLK_SIZE /\ e = DIRECT_BLK_COUNT + BLKNO_PER_BLK
  OBVIOUS
<1>2. /\ DoubleChunks(pos) =
           IF pos - d * e <= 0 THEN 0 ELSE (pos - d * e + d - 1) \div d
      /\ DoubleChunks(pos + len) =
           IF (pos + len) - d * e <= 0 THEN 0 ELSE ((pos + len) - d * e + d - 1) \div d
  BY Zenon DEF DoubleChunks
<1>3. d \in Nat \ {0} /\ e \in Nat /\ d * e \in Nat /\ d * e = e * d
  BY Sorts
<1> HIDE DEF d, e
<1>4. PICK k : k = pos \div d
  OBVIOUS
<1>5. k \in Nat /\ pos = k * d
  <2>1. pos \div d \in Nat /\ pos = (pos \div d) * d + (pos % d)
    BY <1>3, Euclid
  <2>2. k * d \in Nat
    BY <1>3, <1>4, <2>1
  <2> QED  BY <1>1, <1>4, <2>1, <2>2
<1>6. CASE k < e
  <2>1. (k + 1) * d <= e * d /\ (k + 1) * d = k * d + d /\ k * d \in Nat
    <3>1. k + 1 <= e
      BY <1>3, <1>5, <1>6
    <3> QED  BY <1>3, <1>5, <3>1, TimesMono
  <2>2. len \in Nat /\ len <= d
    BY <1>1, <1>3
  <2>3. pos - d * e <= 0 /\ (pos + len) - d * e <= 0
    BY <1>3, <1>5, <2>1, <2>2
  <2>4. ~ (e <= k)
    BY <1>3, <1>5, <1>6
  <2> QED  BY <1>1, <1>4, <1>2, <2>3, <2>4
<1>7. CASE e <= k
  <2>1. PICK r : r = k - e
    OBVIOUS
  <2>2. r \in Nat /\ k = e + r
    BY <1>3, <1>5, <1>7, <2>1
  <2>3. (e + r) * d = e * d + r * d /\ r * d \in Nat /\ (r + 1) * d = r * d + d
    BY <1>3, <2>2
  <2>4. pos - d * e = r * d
    BY <1>3, <1>5, <2>2, <2>3
  <2>5. r * d <= 0 => r = 0
    BY <1>3, <2>2
  <2>6. (r * d + (d - 1)) \div d = r /\ r * d + (d - 1) = r * d + d - 1
    <3>1. d - 1 \in 0 .. d - 1
      BY <1>3
    <3> QED  BY <1>3, <2>2, <2>3, <3>1, WholeRows
  <2>7. DoubleChunks(pos) = r
    BY <1>2, <2>2, <2>3, <2>4, <2>5, <2>6
  <2>8. PICK s : s = len - 1
    OBVIOUS
  <2>9. s \in 0 .. d - 1 /\ len \in Nat /\ len = s + 1 /\ s \in Nat
    BY <1>1, <1>3, <2>8
  <2>10. ((r + 1) * d + s) \div d = r + 1
    BY <1>3, <2>2, <2>9, WholeRows
  <2>11. (pos + len) - d * e > 0 /\ (pos + len) - d * e + d - 1 = (r + 1) * d + s
    BY <1>3, <1>5, <2>3, <2>4, <2>9
  <2>12. DoubleChunks(pos + len) = r + 1
    BY <1>3, <1>5, <1>2, <2>9, <2>10, <2>11
  <2> QED  BY <1>1, <1>4, <1>7, <2>7, <2>12
<1> QED  BY <1>3, <1>5, <1>6, <1>7

LEMMA CopyChunkExtents ==
  ASSUME BlockWalk, DirTree, Files, Extents, CopyChunk PROVE Extents'
<1>1. /\ TypeOK /\ todo # << >> /\ Cur.op = "copy" /\ stage = "ready" /\ stage' = "idle"
      /\ CallerStep /\ inode' = inode /\ ~ Adding
      /\ todo' = [todo EXCEPT ![1].pos = @ + CopyLen, ![1].len = @ - CopyLen]
  BY DEF BlockWalk, Ownership, CopyChunk, Running, Return, CallerStep, Adding
<1>2. PICK k \in INodeNo : Last(k)
  BY DEF DirTree, Making
<1>3. /\ Cur \in Call /\ Cur = todo[1] /\ Cur.pos \in Nat /\ Cur.len \in Nat
      /\ CopyLen \in Nat
  BY <1>1, CurType, CallFields, CopyLenType DEF Cur, TypeOK
<1> DEFINE call == [[Cur EXCEPT !.pos = @ + CopyLen] EXCEPT !.len = @ - CopyLen]
<1>4. todo' = [todo EXCEPT ![1] = call]
  BY <1>1, <1>3 DEF TypeOK
<1>5. call.op = "copy" /\ call.pos = Cur.pos + CopyLen /\ call.len = Cur.len - CopyLen
  BY <1>1, <1>3 DEF Call
<1> HIDE DEF call
<1>6. todo' # << >> /\ Cur' = call
  BY <1>1, <1>4, HeadMoved
<1>7. ASSUME inode[k].f_type = "REGULAR", NEW c \in Nat, Holding(k, c)
      PROVE  Holding(k, c)'
  <2>1. PICK size, pos, len : size = inode[k].f_size /\ pos = Cur.pos /\ len = CopyLen
    OBVIOUS
  <2>2. /\ pos % BLK_SIZE = 0 /\ Cur.len # 0
        /\ c = Blocks(size, pos) + Beyond /\ Target = pos \div BLK_SIZE
    BY <1>1, <1>7, <2>1 DEF Holding, Target, Off
  <2>3. /\ pos \in Nat /\ len \in 1 .. BLK_SIZE
        /\ len = Cur.len \/ len = BLK_SIZE
    <3>1. BLK_SIZE \in Nat \ {0}
      BY Sorts
    <3>2. CopyLen = MinOf(Cur.len, BLK_SIZE)
      BY <2>1, <2>2, <3>1 DEF CopyLen
    <3> QED  BY <1>3, <2>1, <2>2, <3>1, <3>2 DEF MinOf
  <2>4. DoubleChunks(pos + len) = DoubleChunks(pos) + Beyond
    BY <2>2, <2>3, NextChunk DEF Beyond
  <2>5. c = Blocks(size, pos + len)
    <3>1. PICK a, b : a = (size \div BLK_SIZE) + 1 + (IF IsDouble(size) THEN 1 ELSE 0) /\ b = Beyond
      OBVIOUS
    <3>2. PICK h : h = DoubleChunks(pos)
      OBVIOUS
    <3>3. a \in Nat /\ b \in Nat /\ h \in Nat
      <4>1. size \in Nat
        BY <1>1, <2>1 DEF TypeOK, INode
      <4>2. size \div BLK_SIZE \in Nat
        BY <4>1, ChunkNo
      <4>3. a \in Nat
        BY <3>1, <4>2
      <4>4. h \in Nat
        BY <2>3, <3>2, PosBelow
      <4> QED  BY <3>1, <4>3, <4>4 DEF Beyond
    <3>4. c = (a + h) + b /\ Blocks(size, pos + len) = a + (h + b)
      BY <2>2, <2>4, <3>1, <3>2 DEF Blocks
    <3> QED  BY <3>3, <3>4
  <2>6. (pos + len) % BLK_SIZE = 0 \/ Cur'.len = 0
    <3>1. CASE len = BLK_SIZE
      <4>1. PICK d, q : d = BLK_SIZE /\ q = pos \div BLK_SIZE
        OBVIOUS
      <4>2. /\ d \in Nat \ {0} /\ q \in Nat /\ pos = q * d + (pos % d)
        BY <2>3, <4>1, Sorts, Euclid
      <4>3. q * d \in Nat /\ (q + 1) * d \in Nat /\ (q + 1) * d = q * d + d
        BY <4>2
      <4>4. pos + len = (q + 1) * d
        BY <2>2, <3>1, <4>1, <4>2, <4>3
      <4>5. ((q + 1) * d) % d = 0
        <5>1. q + 1 \in Nat
          BY <4>2
        <5> QED  BY <4>2, <5>1, RowStart
      <4> QED  BY <4>1, <4>4, <4>5
    <3>2. CASE len = Cur.len
      BY <1>3, <1>5, <1>6, <2>1, <3>2
    <3> QED  BY <2>3, <3>1, <3>2
  <2>7. Cur'.op = "copy" /\ Cur'.pos = pos + len /\ inode'[k].f_size = size
    BY <1>1, <1>5, <1>6, <2>1
  <2>8. c = Blocks(size, pos + len) + 0
    BY <2>5
  <2> QED  BY <1>1, <2>6, <2>7, <2>8, ExtentNext
<1> QED  BY <1>1, <1>2, <1>6, <1>7, CallerExtents

LEMMA CopyDoneExtents ==
  ASSUME BlockWalk, DirTree, Files, Extents, CopyDone PROVE Extents'
<1>1. /\ TypeOK /\ todo # << >> /\ Cur.op = "copy" /\ ~ Adding /\ Cur.len = 0
      /\ stage = "idle" /\ todo' = Tail(todo) /\ CallerStep
  BY DEF BlockWalk, Ownership, CopyDone, Running, Return, Adding, CallerStep
<1>2. PICK k \in INodeNo : Last(k)
  BY DEF DirTree, Making
<1>3. Growing(k) /\ Cur.pos \in Nat
  BY <1>1, <1>2, WritingLast, CurType, CallFields
<1>4. todo' = << >> /\ Cur.pos = inode[k].f_size
  BY <1>1, <1>3 DEF Growing
<1>5. \A c \in Nat : Holding(k, c) => c = Blocks(inode[k].f_size, inode[k].f_size) + 0
  BY <1>1, <1>4 DEF Holding
<1>6. Blocks(inode[k].f_size, inode[k].f_size) \in Nat
  <2>1. Cur.pos <= Cur.pos
    BY <1>3
  <2>2. Blocks(Cur.pos, Cur.pos) \in Nat
    BY <1>3, <2>1, PosBelow
  <2> QED  BY <1>4, <2>2
<1>7. \A c \in Nat : Holding(k, c) => c = Blocks(inode[k].f_size, inode[k].f_size)
  BY <1>5, <1>6
<1> QED  BY <1>1, <1>2, <1>4, <1>7, CallerExtents

LEMMA EmptyBlocks ==
  ASSUME Ownership, NullTable, NEW n \in INodeNo, \A k \in PtrIdx : blk_no[n][k] = BAD_BLOCK
  PROVE  \A k \in Nat : ~ HasBlock(n, k)
<1> SUFFICES ASSUME NEW k \in Nat, k < MaxBlocks PROVE BlockAt(n, k) = BAD_BLOCK
  BY DEF HasBlock
<1>1. \A j \in TableIdx : table[BAD_BLOCK][j] = BAD_BLOCK
  BY DEF NullTable
<1>2. CASE k \in PtrIdx /\ BlockAt(n, k) = blk_no[n][k]
  BY <1>2
<1>3. CASE \E j \in TableIdx : BlockAt(n, k) = table[blk_no[n][INDIRECT]][j]
  BY <1>1, <1>3, Sorts
<1>4. CASE \E i, j \in TableIdx : BlockAt(n, k) = table[table[blk_no[n][INDIRECT2]][i]][j]
  BY <1>1, <1>4, Sorts
<1> QED  BY <1>2, <1>3, <1>4, BlockCases

(* make_dir and make_file begin with an inode that has no blocks.          *)
LEMMA HostExtents ==
  ASSUME BlockWalk, DirTree, Extents, todo = << >>, NEW n \in INodeNo, NEW node,
         AllocINode(n, node),
         node.f_type = "REGULAR" => todo' # << >> /\ Cur'.op = "add_dentry"
  PROVE  Extents'
<1>1. /\ Last(n)' /\ inode'[n] = node /\ \A m \in INodeNo : m # n => inode'[m] = inode[m]
      /\ n \notin inode_bitmap
  BY NewINode
<1>2. Ownership /\ NullTable /\ inode_bitmap' = inode_bitmap \cup {n}
  BY DEF BlockWalk, AllocINode
<1>3. UNCHANGED <<blk_no, table>>
  BY <1>2, AllocINodePointers DEF AllocINode
<1>4. SameBlocks
  BY <1>3, UntouchedBlocks
<1> SUFFICES ASSUME NEW m \in INodeNo, m \in inode_bitmap', inode'[m].f_type = "REGULAR"
             PROVE  \E c \in Nat : Held(m, c)' /\ Extent(m, c)'
  BY DEF Extents, INodeNo
<1>5. Unfinished(m)' <=> todo' # << >> /\ m = n
  BY <1>1, UnfinishedNext
<1>6. CASE m = n
  <2>1. \A k \in PtrIdx : blk_no[n][k] = BAD_BLOCK
    BY <1>1, <1>2 DEF Ownership, FreshIsZero
  <2>2. \A k \in Nat : ~ HasBlock(n, k)
    BY <1>2, <2>1, EmptyBlocks
  <2>3. \A k \in Nat : HasBlock(n, k)' <=> k < 0
    BY <1>4, <2>2 DEF SameBlocks
  <2>4. Held(n, 0)' /\ Holding(n, 0)' /\ 0 \in Nat
    BY <1>1, <1>6, <2>3, ExtentNext
  <2> QED  BY <1>1, <1>5, <1>6, <2>4, ExtentNext
<1>7. CASE m # n
  <2>1. m \in inode_bitmap /\ inode'[m] = inode[m]
    BY <1>1, <1>2, <1>7
  <2>2. PICK c \in Nat : Held(m, c) /\ Extent(m, c)
    BY <2>1 DEF Extents
  <2>3. c = Blocks(inode[m].f_size, inode[m].f_size)
    BY <2>2 DEF Extent, Unfinished
  <2>4. Held(m, c)'
    BY <1>4, <2>2, ExtentNext DEF SameBlocks, Held
  <2> QED  BY <1>5, <1>7, <2>1, <2>3, <2>4, ExtentNext
<1> QED  BY <1>6, <1>7

LEMMA StepExtents ==
  ASSUME BlockWalk, BlockWalk', DirTree, Files, Extents, [Next]_vars PROVE Extents'
<1>1. ASSUME UNCHANGED <<blk_no, table, inode, inode_bitmap, todo, stage>>
      PROVE  Extents'
  <2>1. SameBlocks
    BY <1>1, UntouchedBlocks
  <2> SUFFICES ASSUME NEW n \in INodeNo \cap inode_bitmap, inode[n].f_type = "REGULAR"
               PROVE  \E c \in Nat : Held(n, c)' /\ Extent(n, c)'
    BY <1>1 DEF Extents, INodeNo
  <2>2. PICK c \in Nat : Held(n, c) /\ Extent(n, c)
    BY DEF Extents
  <2>3. Held(n, c)'
    BY <2>1, <2>2, ExtentNext DEF SameBlocks, Held
  <2>4. /\ Unfinished(n)' <=> Unfinished(n)
        /\ Cur' = Cur /\ Target' = Target /\ Beyond' = Beyond
    BY <1>1 DEF Unfinished, Cur, Target, Off, Beyond
  <2>5. Holding(n, c) => Holding(n, c)'
    BY <1>1, <2>4, ExtentNext DEF Holding
  <2> QED  BY <1>1, <2>2, <2>3, <2>4, <2>5, ExtentNext DEF Extent
<1>2. CASE GetBlknoStep
  BY <1>2, LoopsKeepExtents, CallGetBlknoExtents
<1>3. CASE CallerStep
  BY <1>3, NextDentryExtents, StoreDentryExtents, ExpandedExtents, CopyChunkExtents,
     CopyDoneExtents DEF CallerStep
<1>4. CASE \E name \in Names : MakeDir(name)
  <2>1. todo = << >> /\ \E n \in INodeNo : AllocINode(n, NewDir)
    BY <1>4 DEF MakeDir, Between
  <2> QED  BY <2>1, HostExtents DEF NewDir
<1>5. CASE \E name \in Names, size \in FileSizes : MakeFile(name, size)
  <2>1. PICK name \in Names, size \in FileSizes : MakeFile(name, size)
    BY <1>5
  <2>2. PICK n \in INodeNo :
          /\ AllocINode(n, NewFile)
          /\ todo' = <<AddDentryCall(Top.dir, FileEntry(n, name)),
                       ExpandCall(n, size), CopyCall(n, size)>>
    BY <2>1 DEF MakeFile
  <2>3. todo' # << >> /\ Cur' = AddDentryCall(Top.dir, FileEntry(n, name))
    BY <2>2, CallLists DEF Cur
  <2>4. Cur'.op = "add_dentry" /\ todo = << >>
    BY <2>1, <2>3 DEF AddDentryCall, MakeFile, Between
  <2> QED  BY <2>2, <2>3, <2>4, HostExtents
<1>6. CASE INodeOverrun \/ NameTooLong \/ LeaveDir
  BY <1>1, <1>6 DEF INodeOverrun, NameTooLong, LeaveDir, Halt, alloc_vars
<1>7. CASE UNCHANGED vars
  BY <1>1, <1>7 DEF vars, alloc_vars
<1> QED
  BY <1>2, <1>3, <1>4, <1>5, <1>6, <1>7 DEF Next, HostStep

LEMMA InitExtents == ASSUME Init PROVE Extents
<1>1. inode = [n \in INodeNo |-> IF n = ROOT_INODE THEN NewDir ELSE ZeroINode]
  BY DEF Init
<1>2. \A n \in INodeNo : inode[n].f_type # "REGULAR"
  BY <1>1 DEF NewDir, ZeroINode
<1> QED  BY <1>2 DEF Extents

----------------------------------------------------------------------------
(* The blocks, counted.                                                    *)

(* The entries of a block of tables, table by table.                       *)
LEMMA EntriesCounted ==
  ASSUME NEW m \in Nat, m <= BLKNO_PER_BLK * BLKNO_PER_BLK
  PROVE  Cardinality({e \in TableIdx \X TableIdx : e[1] * BLKNO_PER_BLK + e[2] < m}) = m
<1> DEFINE B == BLKNO_PER_BLK
           S == 0 .. m - 1
           T == {e \in TableIdx \X TableIdx : e[1] * B + e[2] < m}
           f == [x \in S |-> <<x \div B, x % B>>]
<1>1. B \in Nat \ {0} /\ TableIdx = 0 .. B - 1
  BY Sorts DEF TableIdx
<1>2. ASSUME NEW x \in S
      PROVE  /\ x \div B \in TableIdx /\ x % B \in TableIdx
             /\ (x \div B) * B + (x % B) = x
  <2>1. PICK g, h : g = x \div B /\ h = x % B
    OBVIOUS
  <2>2. x \in Nat /\ x < m
    OBVIOUS
  <2>3. g \in Nat /\ h \in 0 .. B - 1 /\ x = g * B + h
    BY <1>1, <2>1, <2>2, Euclid
  <2>4. g < B
    <3> SUFFICES ASSUME B <= g PROVE FALSE
      BY <1>1, <2>3
    <3>1. B * B <= g * B
      BY <1>1, <2>3, TimesMono
    <3>2. g * B \in Nat /\ B * B \in Nat
      BY <1>1, <2>3
    <3> QED  BY <2>2, <2>3, <3>1, <3>2
  <2> QED  BY <1>1, <2>1, <2>3, <2>4
<1>3. f \in [S -> T]
  BY <1>2
<1>4. ASSUME NEW x \in S, NEW y \in S, f[x] = f[y] PROVE x = y
  <2>1. x \div B = y \div B /\ x % B = y % B
    BY <1>4
  <2> QED  BY <1>2, <2>1
<1>5. ASSUME NEW e \in T PROVE \E x \in S : f[x] = e
  <2>1. PICK i \in TableIdx, j \in TableIdx : e = <<i, j>>
    OBVIOUS
  <2>2. i \in Nat /\ j \in 0 .. B - 1 /\ i * B + j < m
    BY <1>1, <2>1
  <2>3. PICK x : x = i * B + j
    OBVIOUS
  <2>4. i * B \in Nat /\ x \in S
    <3>1. i * B \in Nat
      BY <1>1, <2>2
    <3> QED  BY <2>2, <2>3, <3>1
  <2>5. x \div B = i
    BY <1>1, <2>2, <2>3, WholeRows
  <2>6. (x \div B) * B + (x % B) = x /\ x % B \in 0 .. B - 1
    BY <1>1, <1>2, <2>4
  <2>7. x % B = j
    <3>1. PICK h : h = x % B
      OBVIOUS
    <3>2. h \in 0 .. B - 1 /\ i * B + h = i * B + j
      BY <2>3, <2>5, <2>6, <3>1
    <3> QED  BY <2>2, <2>4, <3>1, <3>2
  <2> QED  BY <2>1, <2>4, <2>5, <2>7
<1>6. IsFiniteSet(S) /\ Cardinality(S) = m
  BY FS_Interval
<1> HIDE DEF f, S, T
<1>7. f \in Bijection(S, T)
  BY <1>3, <1>4, <1>5 DEF Bijection, Injection, Surjection, IsInjective
<1>8. ExistsBijection(S, T)
  BY <1>7 DEF ExistsBijection
<1>9. Cardinality(T) = m
  BY <1>6, <1>8, FS_Bijection
<1> QED  BY <1>9 DEF T

LEMMA HeldCounted ==
  ASSUME NullTable, NEW n \in INodeNo, NEW c \in Nat, Held(n, c)
  PROVE  DataBlocks(n) = c
<1> DEFINE D == DIRECT_BLK_COUNT
           B == BLKNO_PER_BLK
           t1 == blk_no[n][INDIRECT]
           t2 == blk_no[n][INDIRECT2]
<1>1. D \in Nat \ {0} /\ B \in Nat \ {0} /\ B * B \in Nat /\ MaxBlocks = D + B + B * B
  BY Sorts DEF MaxBlocks
<1>2. c <= MaxBlocks
  <2>1. ~ HasBlock(n, MaxBlocks) /\ MaxBlocks \in Nat
    BY <1>1 DEF HasBlock
  <2> QED  BY <2>1 DEF Held
<1>3. \A k \in Nat : k < MaxBlocks => (BlockAt(n, k) # BAD_BLOCK <=> k < c)
  BY DEF Held, HasBlock
<1>4. DirectBlocks(n) = IF c < D THEN c ELSE D
  <2>1. ASSUME NEW k \in 0 .. D - 1 PROVE blk_no[n][k] # BAD_BLOCK <=> k < c
    <3>1. k \in Nat /\ k < D /\ k < MaxBlocks
      BY <1>1
    <3> QED  BY <1>3, <3>1 DEF BlockAt
  <2>2. PICK m \in Nat : m = IF c < D THEN c ELSE D
    BY <1>1
  <2>3. {k \in 0 .. D - 1 : blk_no[n][k] # BAD_BLOCK} = 0 .. m - 1
    BY <1>1, <2>1, <2>2
  <2>4. Cardinality(0 .. m - 1) = m
    BY FS_Interval
  <2> QED  BY <2>2, <2>3, <2>4 DEF DirectBlocks
<1>5. TableBlocks(t1) = IF c <= D THEN 0 ELSE IF c < D + B THEN c - D ELSE B
  <2>1. ASSUME NEW j \in TableIdx PROVE table[t1][j] # BAD_BLOCK <=> D + j < c
    BY <1>3, <2>1, PlaceOf
  <2>2. PICK m \in Nat : m = IF c <= D THEN 0 ELSE IF c < D + B THEN c - D ELSE B
    BY <1>1
  <2>3. {j \in TableIdx : table[t1][j] # BAD_BLOCK} = 0 .. m - 1
    BY <1>1, <2>1, <2>2 DEF TableIdx
  <2>4. Cardinality(0 .. m - 1) = m
    BY FS_Interval
  <2> QED  BY <2>2, <2>3, <2>4 DEF TableBlocks
<1>6. DoubleBlocks(t2) = IF c <= D + B THEN 0 ELSE c - D - B
  <2>1. ASSUME NEW i \in TableIdx, NEW j \in TableIdx
        PROVE  table[t2][i] # BAD_BLOCK /\ table[table[t2][i]][j] # BAD_BLOCK
                 <=> D + B + (i * B + j) < c
    <3>1. table[table[t2][i]][j] # BAD_BLOCK <=> D + B + (i * B + j) < c
      <4>1. PICK k : k = D + B + (i * B + j)
        OBVIOUS
      <4>2. k \in Nat /\ k < MaxBlocks /\ BlockAt(n, k) = table[table[t2][i]][j]
        BY <4>1, PlaceOf
      <4> QED  BY <1>3, <4>1, <4>2
    <3>2. table[t2][i] = BAD_BLOCK => table[table[t2][i]][j] = BAD_BLOCK
      BY DEF NullTable
    <3> QED  BY <3>1, <3>2
  <2>2. PICK m \in Nat : m = IF c <= D + B THEN 0 ELSE c - D - B
    BY <1>1
  <2>3. ASSUME NEW i \in TableIdx, NEW j \in TableIdx
        PROVE  D + B + (i * B + j) < c <=> i * B + j < m
    <3>1. i \in Nat /\ j \in Nat
      BY DEF TableIdx
    <3>2. i * B + j \in Nat
      BY <1>1, <3>1
    <3> QED  BY <1>1, <2>2, <3>2
  <2>4. {e \in TableIdx \X TableIdx :
           table[t2][e[1]] # BAD_BLOCK /\ table[table[t2][e[1]]][e[2]] # BAD_BLOCK}
          = {e \in TableIdx \X TableIdx : e[1] * B + e[2] < m}
    BY <2>1, <2>3
  <2>5. m <= B * B
    BY <1>1, <1>2, <2>2
  <2> QED  BY <2>2, <2>4, <2>5, EntriesCounted DEF DoubleBlocks
<1> QED  BY <1>1, <1>4, <1>5, <1>6 DEF DataBlocks

----------------------------------------------------------------------------
(* What a file takes.                                                      *)

LEMMA StepImageExtents ==
  ASSUME Image, Extents, [Next]_vars PROVE Image' /\ Extents'
<1>1. Image'
  BY StepImage
<1>2. BlockWalk'
  BY <1>1, StepWalk DEF Image, Shape
<1> QED  BY <1>1, <1>2, StepExtents DEF Image, Shape

LEMMA ImageFootprint == ASSUME Image, Extents PROVE Footprint
<1>1. BlockWalk /\ DirTree /\ Files /\ TypeOK /\ NullTable
  BY DEF Image, Shape, BlockWalk, Ownership
<1>2. PICK k \in INodeNo : Last(k)
  BY <1>1 DEF DirTree, Making
<1>3. ASSUME Running("idle"), Cur.op = "copy", Cur.len = 0 PROVE Off = inode[Ino].f_size
  <2>1. todo # << >> /\ ~ Adding
    BY <1>3 DEF Running, Adding
  <2>2. Ino = k /\ Growing(k)
    BY <1>1, <1>2, <2>1, WritingLast
  <2>3. Cur.pos \in Nat
    BY <1>1, <2>1, CurType, CallFields
  <2> QED  BY <1>3, <2>2, <2>3 DEF Growing, Off
<1>4. ASSUME todo = << >>, NEW n \in inode_bitmap, inode[n].f_type = "REGULAR",
             NEW size, size = inode[n].f_size
      PROVE  DataBlocks(n) = (size \div BLK_SIZE) + 1
               + (IF IsDouble(size) THEN 1 + DoubleChunks(size) ELSE 0)
  <2>1. n \in INodeNo /\ size \in Nat
    BY <1>1, <1>2, <1>4, LastUsed DEF TypeOK, INode
  <2>2. PICK c \in Nat : Held(n, c) /\ Extent(n, c)
    BY <1>4, <2>1 DEF Extents
  <2>3. DataBlocks(n) = c /\ c = Blocks(size, size)
    BY <1>1, <1>4, <2>1, <2>2, HeldCounted DEF Extent, Unfinished
  <2>4. ~ IsDouble(size) => DoubleChunks(size) = 0
    <3>1. PICK e : e = BLK_SIZE * (DIRECT_BLK_COUNT + BLKNO_PER_BLK)
      OBVIOUS
    <3>2. e \in Nat
      BY <3>1, Sorts
    <3> QED  BY <2>1, <3>1, <3>2 DEF IsDouble, DoubleChunks
  <2>5. size \div BLK_SIZE \in Nat /\ DoubleChunks(size) \in Nat
    BY <2>1, ChunkNo, PosBelow
  <2> QED  BY <2>3, <2>4, <2>5 DEF Blocks
<1> QED  BY <1>3, <1>4 DEF Footprint

(* A file has the first blocks get_blkno can point to, as many as its size *)
(* touches; past the indirect blocks it has one more for the expansion and *)
(* one for every chunk copied there.  Its size is the one that is copied.  *)
THEOREM FilesTakeTheirBlocks == Spec => []Footprint
<1>1. Init => Image /\ Extents
  BY InitImage, InitExtents
<1>2. Image /\ Extents /\ [Next]_vars => (Image /\ Extents)'
  BY StepImageExtents
<1>3. Image /\ Extents => Footprint
  BY ImageFootprint
<1> QED  BY <1>1, <1>2, <1>3, PTL DEF Spec
=============================================================================

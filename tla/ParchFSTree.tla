----------------------------- MODULE ParchFSTree -----------------------------
(***************************************************************************)
(* What add_dentry leaves behind: the directories of the image are a tree. *)
(* The blocks are forgotten first: a directory is what a reader finds at   *)
(* its positions, and of all steps only a store of add_dentry changes it.  *)
(***************************************************************************)
EXTENDS ParchFSProofs

----------------------------------------------------------------------------
(* Directories by position.                                                *)

Has(n, p) == p \div BLK_SIZE < MaxBlocks /\ BlockAt(n, p \div BLK_SIZE) # BAD_BLOCK

(* The entry at position p of inode n; none where no block is.             *)
Read(n, p) == IF Has(n, p) THEN DEntryAt(n, p) ELSE ZeroDEntry
Entry(n, p) == Read(n, p).inode # BAD_INODE

(* The entries of directory c are at its first m positions.                *)
Stored(c, m) == \A p \in Nat : Entry(c, p) <=> p < m

----------------------------------------------------------------------------
(* The invariant.                                                          *)

Adding == todo # << >> /\ Cur.op = "add_dentry"

(* add_dentry probes up to the first free place, and grows the directory   *)
(* when that is the end of it.  A new directory begins with room for two.  *)
Probing(m) ==
  /\ Cur.pos <= m
  /\ Cur.entry.name = "." => m = 0
  /\ Cur.entry.name = ".." => m = 1
  /\ Cur.entry.name \in Names => 2 <= m
  /\ \/ inode[Ino].f_size = IF m < 2 THEN 2 ELSE m
     \/ 2 <= m /\ Cur.pos = m /\ stage # "idle" /\ inode[Ino].f_size = m + 1

Filled(c, m) == IF Adding /\ Ino = c THEN Probing(m) ELSE 2 <= m /\ m = inode[c].f_size
NoHoles == \A c \in Directories : \E m \in Nat : Stored(c, m) /\ Filled(c, m)

(* What an entry says is so.                                               *)
Truthful(c, p) ==
  LET e == Read(c, p)
  IN  /\ p = 0 => e = DirEntry(c, ".")
      /\ p = 1 => e.name = ".."
      /\ 2 <= p =>
           /\ e.name \in Names /\ e.inode \in inode_bitmap
           /\ c < e.inode /\ p <= e.inode
           /\ e.f_type = inode[e.inode].f_type
           /\ e.f_type = "DIR" => Read(e.inode, 1) = DirEntry(c, "..")

EntriesTruthful == \A c \in Directories, p \in Nat : Entry(c, p) => Truthful(c, p)

NamedAt(n, d, p) == 2 <= p /\ Entry(d, p) /\ Read(d, p).inode = n
Named(n) == \E d \in Directories, p \in Nat : NamedAt(n, d, p)
NamedOnce ==
  \A n \in INodeNo, c, d \in Directories, p, q \in Nat :
    NamedAt(n, c, p) /\ NamedAt(n, d, q) => c = d /\ p = q

(* Inodes are handed out in order; the last one is being worked on.        *)
Last(n) == n \in INodeNo /\ ROOT_INODE <= n /\ inode_bitmap = 0 .. n

(* The calls to do are call, at any position, and then rest.               *)
Doing(call, rest) ==
  /\ todo # << >> /\ Tail(todo) = rest
  /\ Cur.op = call.op /\ Ino = call.ino /\ Cur.entry = call.entry

Dot(n) == AddDentryCall(n, DirEntry(n, "."))
DotDot(n, d) == AddDentryCall(n, DirEntry(d, ".."))
ChildDir(n, d, name) == AddDentryCall(d, DirEntry(n, name))
ChildFile(n, d, name) == AddDentryCall(d, FileEntry(n, name))

(* make_dir and make_file at work on inode n, before directory d names it. *)
DirInMaking(n, d, name) ==
  /\ inode[n].f_type = "DIR"
  /\ \/ Doing(Dot(n), <<DotDot(n, d), ChildDir(n, d, name)>>)
     \/ Doing(DotDot(n, d), <<ChildDir(n, d, name)>>)
     \/ Doing(ChildDir(n, d, name), << >>) /\ Read(n, 1) = DirEntry(d, "..")

FileInMaking(n, d, name) ==
  /\ inode[n].f_type = "REGULAR"
  /\ \E size \in Nat : Doing(ChildFile(n, d, name), <<ExpandCall(n, size), CopyCall(n, size)>>)

OthersNamed(n) == \A x \in inode_bitmap \ {BAD_INODE, ROOT_INODE, n} : Named(x)
Unnamed(n) ==
  /\ ~ Named(n) /\ OthersNamed(n)
  /\ \E d \in Directories, name \in Names :
       d < n /\ (DirInMaking(n, d, name) \/ FileInMaking(n, d, name))

(* Afterwards, and while the file is written.                              *)
Writing(n) ==
  \E size \in Nat : \/ Doing(ExpandCall(n, size), <<CopyCall(n, size)>>)
                    \/ Doing(CopyCall(n, size), << >>)
AllNamed(n) ==
  /\ n # ROOT_INODE => Named(n)
  /\ OthersNamed(n)
  /\ todo = << >> \/ (inode[n].f_type = "REGULAR" /\ Writing(n))

(* The constructor at work on the root directory.                          *)
RootInMaking(n) ==
  /\ n = ROOT_INODE
  /\ Doing(Dot(n), <<DotDot(n, n)>>) \/ Doing(DotDot(n, n), << >>)

Making == \E n \in INodeNo : Last(n) /\ (Unnamed(n) \/ AllNamed(n) \/ RootInMaking(n))

DirTree ==
  /\ inode[BAD_INODE].f_type = "NONE"
  /\ NoHoles /\ EntriesTruthful /\ NamedOnce /\ Making
Shape == BlockWalk /\ DirTree

----------------------------------------------------------------------------
(* Where a block number leads: to one pointer of the inode or of its       *)
(* blocks of pointers.                                                     *)

LEMMA BlockCases ==
  ASSUME NEW n, NEW k \in Nat, k < MaxBlocks
  PROVE  \/ k \in PtrIdx /\ k < DIRECT_BLK_COUNT /\ BlockAt(n, k) = blk_no[n][k]
            /\ BlockAt(n, k)' = blk_no'[n][k]
         \/ \E j \in TableIdx :
              /\ k = DIRECT_BLK_COUNT + j
              /\ BlockAt(n, k) = table[blk_no[n][INDIRECT]][j]
              /\ BlockAt(n, k)' = table'[blk_no'[n][INDIRECT]][j]
         \/ \E i, j \in TableIdx :
              /\ k = DIRECT_BLK_COUNT + BLKNO_PER_BLK + (i * BLKNO_PER_BLK + j)
              /\ BlockAt(n, k) = table[table[blk_no[n][INDIRECT2]][i]][j]
              /\ BlockAt(n, k)' = table'[table'[blk_no'[n][INDIRECT2]][i]][j]
<1> DEFINE D == DIRECT_BLK_COUNT
           B == BLKNO_PER_BLK
           p == k - D - B
<1>1. D \in Nat \ {0} /\ B \in Nat \ {0}
  BY Sorts
<1>2. CASE k < D
  <2>1. k \in PtrIdx
    BY <1>1, <1>2, Sorts
  <2> QED  BY <1>2, <2>1 DEF BlockAt
<1>3. CASE D <= k /\ k < D + B
  <2>1. k - D \in TableIdx /\ k = D + (k - D)
    BY <1>1, <1>3 DEF TableIdx
  <2>2. /\ BlockAt(n, k) = table[blk_no[n][INDIRECT]][k - D]
        /\ BlockAt(n, k)' = table'[blk_no'[n][INDIRECT]][k - D]
    BY <1>1, <1>3 DEF BlockAt
  <2> QED  BY <2>1, <2>2
<1>4. CASE D + B <= k
  <2>1. /\ p \div B \in TableIdx /\ p % B \in TableIdx
        /\ p \in Nat /\ p = (p \div B) * B + (p % B)
    BY <1>1, <1>4, TwoIndices
  <2>2. /\ BlockAt(n, k) = table[table[blk_no[n][INDIRECT2]][p \div B]][p % B]
        /\ BlockAt(n, k)' = table'[table'[blk_no'[n][INDIRECT2]][p \div B]][p % B]
    BY <1>1, <1>4 DEF BlockAt
  <2>3. k = D + B + ((p \div B) * B + (p % B))
    <3>1. k = D + B + p
      BY <1>1
    <3> HIDE DEF p
    <3> QED  BY <2>1, <3>1
  <2> QED  BY <2>1, <2>2, <2>3
<1> QED  BY <1>1, <1>2, <1>3, <1>4

LEMMA BlockAtType ==
  ASSUME Ownership, NEW n \in INodeNo, NEW k \in Nat, k < MaxBlocks
  PROVE  /\ BlockAt(n, k) \in BlockNo
         /\ BlockAt(n, k) # BAD_BLOCK => BlockAt(n, k) \in fs_block_bitmap
<1>1. blk_no[n] \in [PtrIdx -> BlockNo] /\ table \in [BlockNo -> [TableIdx -> BlockNo]]
  BY DEF Ownership, TypeOK
<1>2. \A t \in BlockNo, j \in TableIdx :
        /\ table[t][j] \in BlockNo
        /\ table[t][j] # BAD_BLOCK => table[t][j] \in fs_block_bitmap
  BY <1>1 DEF Ownership, PointersAllocated, Allocated
<1>3. \A l \in PtrIdx : blk_no[n][l] # BAD_BLOCK => blk_no[n][l] \in fs_block_bitmap
  BY DEF Ownership, PointersAllocated, Allocated
<1>4. blk_no[n][INDIRECT] \in BlockNo /\ blk_no[n][INDIRECT2] \in BlockNo
  BY <1>1, Sorts
<1>5. CASE k \in PtrIdx /\ BlockAt(n, k) = blk_no[n][k]
  BY <1>1, <1>3, <1>5
<1>6. CASE \E j \in TableIdx : BlockAt(n, k) = table[blk_no[n][INDIRECT]][j]
  BY <1>2, <1>4, <1>6
<1>7. CASE \E i, j \in TableIdx : BlockAt(n, k) = table[table[blk_no[n][INDIRECT2]][i]][j]
  BY <1>2, <1>4, <1>7
<1> QED  BY <1>5, <1>6, <1>7, BlockCases

(* No two block numbers lead to the same block.                            *)
LEMMA BlockAtOnce ==
  ASSUME Ownership, NullTable, NEW n \in INodeNo, NEW m \in INodeNo,
         NEW k \in Nat, k < MaxBlocks, NEW l \in Nat, l < MaxBlocks,
         BlockAt(n, k) = BlockAt(m, l), BlockAt(n, k) # BAD_BLOCK
  PROVE  n = m /\ k = l
<1> DEFINE D == DIRECT_BLK_COUNT
           B == BLKNO_PER_BLK
           IsDirect(x, y) == y \in PtrIdx /\ y < D /\ BlockAt(x, y) = blk_no[x][y]
           IsIndirect(x, y) ==
             \E j \in TableIdx : y = D + j /\ BlockAt(x, y) = table[blk_no[x][INDIRECT]][j]
           IsDouble2(x, y) ==
             \E i, j \in TableIdx :
               /\ y = D + B + (i * B + j)
               /\ BlockAt(x, y) = table[table[blk_no[x][INDIRECT2]][i]][j]
<1>1. \A x \in INodeNo :
        /\ blk_no[x][INDIRECT] \in BlockNo /\ blk_no[x][INDIRECT2] \in BlockNo
        /\ \A i \in TableIdx : table[blk_no[x][INDIRECT2]][i] \in BlockNo
  BY Sorts DEF Ownership, TypeOK
<1>2. /\ \A x, y \in INodeNo, i, j \in PtrIdx :
           blk_no[x][i] # BAD_BLOCK /\ blk_no[x][i] = blk_no[y][j] => x = y /\ i = j
      /\ \A b, c \in BlockNo, i, j \in TableIdx :
           table[b][i] # BAD_BLOCK /\ table[b][i] = table[c][j] => b = c /\ i = j
      /\ \A x \in INodeNo, i \in PtrIdx, b \in BlockNo, j \in TableIdx :
           blk_no[x][i] # BAD_BLOCK => blk_no[x][i] # table[b][j]
  BY DEF Ownership, BlocksOwnedOnce
<1>3. \A b, j : j \in TableIdx /\ table[b][j] # BAD_BLOCK => b # BAD_BLOCK
  BY DEF NullTable
<1>4. D \in Nat /\ B \in Nat
  BY Sorts
<1>5. /\ IsDirect(n, k) \/ IsIndirect(n, k) \/ IsDouble2(n, k)
      /\ IsDirect(m, l) \/ IsIndirect(m, l) \/ IsDouble2(m, l)
  BY BlockCases
<1> HIDE DEF D, B
<1>6. CASE IsDirect(n, k) /\ IsDirect(m, l)
  <2>1. k \in PtrIdx /\ l \in PtrIdx /\ blk_no[n][k] = blk_no[m][l] /\ blk_no[n][k] # BAD_BLOCK
    BY <1>6
  <2> QED  BY <1>2, <2>1
<1>7. CASE IsDirect(n, k) /\ (IsIndirect(m, l) \/ IsDouble2(m, l))
  BY <1>1, <1>2, <1>7
<1>8. CASE (IsIndirect(n, k) \/ IsDouble2(n, k)) /\ IsDirect(m, l)
  BY <1>1, <1>2, <1>8
<1>9. CASE IsIndirect(n, k) /\ IsIndirect(m, l)
  BY <1>1, <1>2, <1>3, <1>9, Sorts
<1>10. CASE IsIndirect(n, k) /\ IsDouble2(m, l)
  <2>1. PICK i, j \in TableIdx, h \in TableIdx :
          /\ table[blk_no[n][INDIRECT]][h] = table[table[blk_no[m][INDIRECT2]][i]][j]
          /\ table[blk_no[n][INDIRECT]][h] # BAD_BLOCK
    BY <1>10
  <2>2. blk_no[n][INDIRECT] = table[blk_no[m][INDIRECT2]][i]
    BY <1>1, <1>2, <2>1
  <2> QED  BY <1>1, <1>2, <1>3, <2>1, <2>2, Sorts
<1>11. CASE IsDouble2(n, k) /\ IsIndirect(m, l)
  <2>1. PICK i, j \in TableIdx, h \in TableIdx :
          /\ table[blk_no[m][INDIRECT]][h] = table[table[blk_no[n][INDIRECT2]][i]][j]
          /\ table[blk_no[m][INDIRECT]][h] # BAD_BLOCK
    BY <1>11
  <2>2. blk_no[m][INDIRECT] = table[blk_no[n][INDIRECT2]][i]
    BY <1>1, <1>2, <2>1
  <2> QED  BY <1>1, <1>2, <1>3, <2>1, <2>2, Sorts
<1>12. CASE IsDouble2(n, k) /\ IsDouble2(m, l)
  <2>1. PICK i, j \in TableIdx : /\ k = D + B + (i * B + j)
                                /\ BlockAt(n, k) = table[table[blk_no[n][INDIRECT2]][i]][j]
    BY <1>12
  <2>2. PICK g, h \in TableIdx : /\ l = D + B + (g * B + h)
                                /\ BlockAt(m, l) = table[table[blk_no[m][INDIRECT2]][g]][h]
    BY <1>12
  <2>3. table[blk_no[n][INDIRECT2]][i] = table[blk_no[m][INDIRECT2]][g] /\ j = h
    BY <1>1, <1>2, <2>1, <2>2
  <2>4. table[blk_no[n][INDIRECT2]][i] # BAD_BLOCK
    BY <1>3, <2>1
  <2>5. blk_no[n][INDIRECT2] = blk_no[m][INDIRECT2] /\ i = g
    BY <1>1, <1>2, <2>3, <2>4
  <2>6. blk_no[n][INDIRECT2] # BAD_BLOCK
    BY <1>3, <2>4
  <2> QED  BY <1>1, <1>2, <2>1, <2>2, <2>3, <2>5, <2>6, Sorts
<1> QED  BY <1>5, <1>6, <1>7, <1>8, <1>9, <1>10, <1>11, <1>12

(* A new pointer leads one block number, which led nowhere, to the new     *)
(* block, and no other one.                                                *)
OnePointer(b) ==
  \/ \E n \in INodeNo, k \in PtrIdx : blk_no[n][k] = BAD_BLOCK /\ INodePointer(n, k, b)
  \/ \E t \in BlockNo, j \in TableIdx :
       t # BAD_BLOCK /\ table[t][j] = BAD_BLOCK /\ TablePointer(t, j, b)

LEMMA BlockAtStep ==
  ASSUME Ownership, NullTable, NEW b \in BlockNo, OnePointer(b),
         NEW m \in INodeNo, NEW l \in Nat, l < MaxBlocks
  PROVE  \/ BlockAt(m, l)' = BlockAt(m, l)
         \/ BlockAt(m, l) = BAD_BLOCK /\ BlockAt(m, l)' = b
<1> DEFINE x == blk_no[m][INDIRECT]
           y == blk_no[m][INDIRECT2]
<1>1. x \in BlockNo /\ y \in BlockNo /\ \A i \in TableIdx : table[y][i] \in BlockNo
  BY Sorts DEF Ownership, TypeOK
<1>2. b # BAD_BLOCK /\ \A j \in TableIdx : table[b][j] = BAD_BLOCK /\ table[BAD_BLOCK][j] = BAD_BLOCK
  BY DEF OnePointer, INodePointer, TablePointer, NewBlock, Ownership, FreshIsZero, NullTable
<1>3. CASE \E n \in INodeNo, k \in PtrIdx : blk_no[n][k] = BAD_BLOCK /\ INodePointer(n, k, b)
  <2>1. PICK n \in INodeNo, k \in PtrIdx : blk_no[n][k] = BAD_BLOCK /\ INodePointer(n, k, b)
    BY <1>3
  <2>2. \A c \in BlockNo, j \in TableIdx : table'[c][j] = table[c][j]
    BY <2>1 DEF INodePointer
  <2>3. \A k2 \in PtrIdx : \/ blk_no'[m][k2] = blk_no[m][k2]
                           \/ blk_no[m][k2] = BAD_BLOCK /\ blk_no'[m][k2] = b
    BY <2>1 DEF INodePointer
  <2>4. CASE l \in PtrIdx /\ BlockAt(m, l) = blk_no[m][l] /\ BlockAt(m, l)' = blk_no'[m][l]
    BY <2>3, <2>4
  <2>5. ASSUME NEW j \in TableIdx, BlockAt(m, l) = table[x][j], BlockAt(m, l)' = table'[blk_no'[m][INDIRECT]][j]
        PROVE  BlockAt(m, l)' = BlockAt(m, l)
    BY <1>1, <1>2, <2>2, <2>3, <2>5, Sorts
  <2>6. ASSUME NEW i \in TableIdx, NEW j \in TableIdx, BlockAt(m, l) = table[table[y][i]][j],
               BlockAt(m, l)' = table'[table'[blk_no'[m][INDIRECT2]][i]][j]
        PROVE  BlockAt(m, l)' = BlockAt(m, l)
    <3>1. blk_no'[m][INDIRECT2] \in BlockNo /\ table'[blk_no'[m][INDIRECT2]][i] = table[y][i]
      BY <1>1, <1>2, <2>2, <2>3, Sorts
    <3> QED  BY <1>1, <2>2, <2>6, <3>1
  <2> QED  BY <2>4, <2>5, <2>6, BlockCases
<1>4. CASE \E t \in BlockNo, j \in TableIdx :
             t # BAD_BLOCK /\ table[t][j] = BAD_BLOCK /\ TablePointer(t, j, b)
  <2>1. PICK t \in BlockNo, j \in TableIdx :
          t # BAD_BLOCK /\ table[t][j] = BAD_BLOCK /\ TablePointer(t, j, b)
    BY <1>4
  <2>2. /\ blk_no' = blk_no /\ t # b
        /\ \A c \in BlockNo, i \in TableIdx :
             table'[c][i] = IF c = t /\ i = j THEN b ELSE table[c][i]
    BY <2>1 DEF TablePointer
  <2>3. CASE BlockAt(m, l) = blk_no[m][l] /\ BlockAt(m, l)' = blk_no'[m][l]
    BY <2>2, <2>3
  <2>4. ASSUME NEW h \in TableIdx, BlockAt(m, l) = table[x][h], BlockAt(m, l)' = table'[blk_no'[m][INDIRECT]][h]
        PROVE  \/ BlockAt(m, l)' = BlockAt(m, l)
               \/ BlockAt(m, l) = BAD_BLOCK /\ BlockAt(m, l)' = b
    BY <1>1, <2>1, <2>2, <2>4
  <2>5. ASSUME NEW i \in TableIdx, NEW h \in TableIdx, BlockAt(m, l) = table[table[y][i]][h],
               BlockAt(m, l)' = table'[table'[blk_no'[m][INDIRECT2]][i]][h]
        PROVE  \/ BlockAt(m, l)' = BlockAt(m, l)
               \/ BlockAt(m, l) = BAD_BLOCK /\ BlockAt(m, l)' = b
    <3>1. CASE y = t /\ i = j
      <4>1. table'[y][i] = b /\ table[y][i] = BAD_BLOCK
        BY <1>1, <2>1, <2>2, <3>1
      <4>2. table'[b][h] = BAD_BLOCK /\ table[BAD_BLOCK][h] = BAD_BLOCK
        BY <1>2, <2>2
      <4> QED  BY <2>2, <2>5, <4>1, <4>2
    <3>2. CASE ~ (y = t /\ i = j)
      <4>1. table'[y][i] = table[y][i]
        BY <1>1, <2>2, <3>2
      <4> QED  BY <1>1, <2>1, <2>2, <2>5, <4>1
    <3> QED  BY <3>1, <3>2
  <2> QED  BY <2>3, <2>4, <2>5, BlockCases
<1> QED  BY <1>3, <1>4 DEF OnePointer

LEMMA ReadCases ==
  ASSUME NEW n, NEW p \in Nat
  PROVE  LET k == p \div BLK_SIZE
         IN  /\ k \in Nat /\ p % BLK_SIZE \in 0 .. BLK_SIZE - 1
             /\ Has(n, p) <=> k < MaxBlocks /\ BlockAt(n, k) # BAD_BLOCK
             /\ Has(n, p)' <=> k < MaxBlocks /\ BlockAt(n, k)' # BAD_BLOCK
             /\ Read(n, p) = IF Has(n, p) THEN dentry[BlockAt(n, k)][p % BLK_SIZE]
                             ELSE ZeroDEntry
             /\ Read(n, p)' = IF Has(n, p)' THEN dentry'[BlockAt(n, k)'][p % BLK_SIZE]
                              ELSE ZeroDEntry
<1> DEFINE k == p \div BLK_SIZE
<1>1. k \in Nat /\ p % BLK_SIZE \in 0 .. BLK_SIZE - 1
  BY DivMod, Sorts
<1>2. GetBlkno(n, p) = BlockAt(n, k) /\ GetBlkno(n, p)' = BlockAt(n, k)'
  BY DEF GetBlkno, BlockAt
<1>3. /\ Has(n, p) <=> k < MaxBlocks /\ BlockAt(n, k) # BAD_BLOCK
      /\ Has(n, p)' <=> k < MaxBlocks /\ BlockAt(n, k)' # BAD_BLOCK
  BY DEF Has, MaxBlocks, BAD_BLOCK
<1>4. /\ Read(n, p) = IF Has(n, p) THEN dentry[BlockAt(n, k)][p % BLK_SIZE] ELSE ZeroDEntry
      /\ Read(n, p)' = IF Has(n, p)' THEN dentry'[BlockAt(n, k)'][p % BLK_SIZE] ELSE ZeroDEntry
  BY <1>2 DEF Read, DEntryAt, ZeroDEntry, BAD_INODE
<1> QED  BY <1>1, <1>3, <1>4

----------------------------------------------------------------------------
(* What a step does to the directories.                                    *)

SameRead == \A n \in INodeNo, p \in Nat : Read(n, p)' = Read(n, p)

LEMMA UntouchedRead ==
  ASSUME UNCHANGED <<blk_no, table, dentry>> PROVE SameRead
BY DEF SameRead, Read, Has, BlockAt, DEntryAt, GetBlkno, MaxBlocks, ZeroDEntry, BAD_BLOCK, BAD_INODE

LEMMA OnePointerRead ==
  ASSUME Ownership, NullTable, NEW b \in BlockNo, OnePointer(b) PROVE SameRead
<1> SUFFICES ASSUME NEW n \in INodeNo, NEW p \in Nat PROVE Read(n, p)' = Read(n, p)
  BY DEF SameRead
<1> DEFINE k == p \div BLK_SIZE
<1>1. k \in Nat /\ p % BLK_SIZE \in 0 .. BLK_SIZE - 1
  BY ReadCases
<1>2. /\ b \notin fs_block_bitmap /\ dentry' = [dentry EXCEPT ![b] = ZeroDEntries]
      /\ b # BAD_BLOCK
  BY DEF OnePointer, INodePointer, TablePointer, NewBlock
<1>3. dentry \in [BlockNo -> [0 .. BLK_SIZE - 1 -> DEntry]]
  BY DEF Ownership, TypeOK
<1>4. dentry'[b][p % BLK_SIZE] = ZeroDEntry
  BY <1>1, <1>2, <1>3 DEF ZeroDEntries
<1>5. CASE ~ (k < MaxBlocks)
  BY <1>5, ReadCases
<1>6. CASE k < MaxBlocks /\ BlockAt(n, k)' = BlockAt(n, k)
  <2>1. BlockAt(n, k) # BAD_BLOCK => BlockAt(n, k) \in BlockNo /\ BlockAt(n, k) # b
    BY <1>1, <1>2, <1>6, BlockAtType
  <2>2. BlockAt(n, k) # BAD_BLOCK => dentry'[BlockAt(n, k)] = dentry[BlockAt(n, k)]
    BY <1>2, <1>3, <2>1
  <2> QED  BY <1>6, <2>2, ReadCases
<1>7. CASE k < MaxBlocks /\ BlockAt(n, k) = BAD_BLOCK /\ BlockAt(n, k)' = b
  BY <1>2, <1>4, <1>7, ReadCases
<1> QED  BY <1>1, <1>5, <1>6, <1>7, BlockAtStep

(* An inode without blocks, as one that make_fs has just taken, is empty.  *)
LEMMA EmptyRead ==
  ASSUME Ownership, NullTable, NEW n \in INodeNo,
         \A k \in PtrIdx : blk_no[n][k] = BAD_BLOCK
  PROVE  \A p \in Nat : ~ Entry(n, p)
<1> SUFFICES ASSUME NEW p \in Nat PROVE Read(n, p).inode = BAD_INODE
  BY DEF Entry
<1> DEFINE k == p \div BLK_SIZE
<1>1. \A l \in PtrIdx : blk_no[n][l] = BAD_BLOCK
  OBVIOUS
<1>2. \A j \in TableIdx : table[BAD_BLOCK][j] = BAD_BLOCK
  BY DEF NullTable
<1>3. ASSUME k < MaxBlocks, k \in Nat PROVE BlockAt(n, k) = BAD_BLOCK
  <2>1. CASE k \in PtrIdx /\ BlockAt(n, k) = blk_no[n][k]
    BY <1>1, <2>1
  <2>2. CASE \E j \in TableIdx : BlockAt(n, k) = table[blk_no[n][INDIRECT]][j]
    BY <1>1, <1>2, <2>2, Sorts
  <2>3. CASE \E i, j \in TableIdx : BlockAt(n, k) = table[table[blk_no[n][INDIRECT2]][i]][j]
    BY <1>1, <1>2, <2>3, Sorts
  <2> QED  BY <1>3, <2>1, <2>2, <2>3, BlockCases
<1>4. Read(n, p) = ZeroDEntry
  BY <1>3, ReadCases
<1>5. ZeroDEntry.inode = BAD_INODE
  BY DEF ZeroDEntry
<1> QED  BY <1>4, <1>5

(* An inode that is not in use has no pointers to lose.                    *)
LEMMA AllocINodePointers ==
  ASSUME Ownership, NEW n \in INodeNo, NEW node, AllocINode(n, node)
  PROVE  blk_no' = blk_no
<1>1. blk_no \in [INodeNo -> [PtrIdx -> BlockNo]]
  BY DEF Ownership, TypeOK
<1>2. n \notin inode_bitmap /\ blk_no' = [blk_no EXCEPT ![n] = ZeroPtrs]
  BY DEF AllocINode, FirstAvailable
<1>3. blk_no[n] = ZeroPtrs
  <2>1. \A k \in PtrIdx : blk_no[n][k] = BAD_BLOCK
    BY <1>2 DEF Ownership, FreshIsZero
  <2>2. blk_no[n] \in [PtrIdx -> BlockNo]
    BY <1>1
  <2> QED  BY <2>1, <2>2 DEF ZeroPtrs
<1> QED  BY <1>1, <1>2, <1>3

LEMMA AllocINodeRead ==
  ASSUME Ownership, NEW n \in INodeNo, NEW node, AllocINode(n, node)
  PROVE  SameRead
<1>1. blk_no' = blk_no
  BY AllocINodePointers
<1> QED  BY <1>1, UntouchedRead DEF AllocINode

LEMMA ReadyRead ==
  ASSUME BlockWalk, Running("ready")
  PROVE  /\ Read(Ino, Cur.pos) = DEntryAt(Ino, Cur.pos)
         /\ GetBlkno(Ino, Cur.pos) = BlockAt(Ino, Cur.pos \div BLK_SIZE)
         /\ Has(Ino, Cur.pos)
<1> DEFINE k == Cur.pos \div BLK_SIZE
<1>1. /\ Ino \in INodeNo /\ Cur.pos \in Nat
      /\ Target \in Nat /\ HasBlocks(Ino, Target) /\ k \in 0 .. Target
  BY PosInBlocks
<1>2. BlockAt(Ino, k) # BAD_BLOCK
  BY <1>1, BlockThere DEF BlockWalk, Usable
<1>3. k < MaxBlocks
  <2>1. Target < MaxBlocks /\ MaxBlocks \in Nat
    BY <1>1, Sorts DEF HasBlocks, MaxBlocks
  <2> QED  BY <1>1, <2>1
<1>4. Has(Ino, Cur.pos)
  BY <1>2, <1>3 DEF Has
<1> QED  BY <1>4 DEF Read, GetBlkno, BlockAt

(* add_dentry writes one place of one block.                               *)
LEMMA StorePlace ==
  ASSUME BlockWalk, Running("ready"),
         dentry' = [dentry EXCEPT
                     ![GetBlkno(Ino, Cur.pos)][Cur.pos % BLK_SIZE] = Cur.entry]
  PROVE  LET c == BlockAt(Ino, Cur.pos \div BLK_SIZE)
         IN  /\ c \in BlockNo /\ c # BAD_BLOCK /\ Cur.pos \div BLK_SIZE < MaxBlocks
             /\ Cur.pos \div BLK_SIZE \in Nat /\ Cur.pos % BLK_SIZE \in 0 .. BLK_SIZE - 1
             /\ \A b \in BlockNo, r \in 0 .. BLK_SIZE - 1 :
                  dentry'[b][r] = IF b = c /\ r = Cur.pos % BLK_SIZE THEN Cur.entry
                                  ELSE dentry[b][r]
<1> DEFINE q == Cur.pos
           c == BlockAt(Ino, q \div BLK_SIZE)
<1>1. Ownership /\ TypeOK /\ Ino \in INodeNo /\ q \in Nat
  BY PosInBlocks DEF BlockWalk, Ownership
<1>2. Has(Ino, q) /\ GetBlkno(Ino, q) = c
  BY ReadyRead
<1>3. q \div BLK_SIZE \in Nat /\ q % BLK_SIZE \in 0 .. BLK_SIZE - 1
  BY <1>1, ReadCases
<1>4. q \div BLK_SIZE < MaxBlocks /\ c # BAD_BLOCK
  BY <1>2 DEF Has
<1>5. dentry \in [BlockNo -> [0 .. BLK_SIZE - 1 -> DEntry]] /\ c \in BlockNo
  BY <1>1, <1>3, <1>4, BlockAtType DEF TypeOK
<1>6. dentry' = [dentry EXCEPT ![c][q % BLK_SIZE] = Cur.entry]
  BY <1>2
<1> HIDE DEF c, q
<1>7. \A b \in BlockNo :
        dentry'[b] = IF b = c THEN [dentry[c] EXCEPT ![q % BLK_SIZE] = Cur.entry]
                     ELSE dentry[b]
  BY <1>5, <1>6
<1>8. \A r \in 0 .. BLK_SIZE - 1 :
        [dentry[c] EXCEPT ![q % BLK_SIZE] = Cur.entry][r]
          = IF r = q % BLK_SIZE THEN Cur.entry ELSE dentry[c][r]
  BY <1>5
<1>9. \A b \in BlockNo, r \in 0 .. BLK_SIZE - 1 :
        dentry'[b][r] = IF b = c /\ r = q % BLK_SIZE THEN Cur.entry ELSE dentry[b][r]
  <2> SUFFICES ASSUME NEW b \in BlockNo, NEW r \in 0 .. BLK_SIZE - 1
               PROVE  dentry'[b][r] = IF b = c /\ r = q % BLK_SIZE THEN Cur.entry
                                     ELSE dentry[b][r]
    OBVIOUS
  <2>1. CASE b = c
    BY <1>7, <1>8, <2>1
  <2>2. CASE b # c
    BY <1>7, <2>2
  <2> QED  BY <2>1, <2>2
<1> QED  BY <1>3, <1>4, <1>5, <1>9 DEF c, q

(* add_dentry writes one position of one directory.                        *)
LEMMA StoreRead ==
  ASSUME BlockWalk, Running("ready"), UNCHANGED <<blk_no, table>>,
         dentry' = [dentry EXCEPT
                     ![GetBlkno(Ino, Cur.pos)][Cur.pos % BLK_SIZE] = Cur.entry]
  PROVE  \A n \in INodeNo, p \in Nat :
           Read(n, p)' = IF n = Ino /\ p = Cur.pos THEN Cur.entry ELSE Read(n, p)
<1> DEFINE q == Cur.pos
           c == BlockAt(Ino, q \div BLK_SIZE)
<1> SUFFICES ASSUME NEW n \in INodeNo, NEW p \in Nat
             PROVE  Read(n, p)' = IF n = Ino /\ p = q THEN Cur.entry ELSE Read(n, p)
  OBVIOUS
<1> DEFINE k == p \div BLK_SIZE
<1>1. Ownership /\ NullTable /\ Ino \in INodeNo /\ q \in Nat
  BY PosInBlocks DEF BlockWalk
<1>2. /\ q \div BLK_SIZE \in Nat /\ q % BLK_SIZE \in 0 .. BLK_SIZE - 1
      /\ q \div BLK_SIZE < MaxBlocks /\ c # BAD_BLOCK /\ c \in BlockNo
      /\ \A b \in BlockNo, r \in 0 .. BLK_SIZE - 1 :
           dentry'[b][r] = IF b = c /\ r = q % BLK_SIZE THEN Cur.entry ELSE dentry[b][r]
  BY StorePlace
<1>3. k \in Nat /\ p % BLK_SIZE \in 0 .. BLK_SIZE - 1
  BY ReadCases
<1>4. /\ BlockAt(n, k)' = BlockAt(n, k)
      /\ Has(n, p)' <=> Has(n, p)
  BY DEF BlockAt, Has, MaxBlocks, BAD_BLOCK
<1>5. CASE ~ Has(n, p)
  BY <1>2, <1>4, <1>5, ReadCases
<1>6. CASE Has(n, p)
  <2>1. k < MaxBlocks /\ BlockAt(n, k) # BAD_BLOCK
    BY <1>6 DEF Has
  <2>2. BlockAt(n, k) \in BlockNo
    BY <1>1, <1>3, <2>1, BlockAtType
  <2>3. /\ Read(n, p) = dentry[BlockAt(n, k)][p % BLK_SIZE]
        /\ Read(n, p)' = dentry'[BlockAt(n, k)][p % BLK_SIZE]
    BY <1>4, <1>6, ReadCases
  <2>4. CASE n = Ino /\ p = q
    <3> HIDE DEF q, c
    <3> QED  BY <1>2, <2>3, <2>4 DEF c, k
  <2>5. CASE ~ (n = Ino /\ p = q)
    <3>1. ~ (BlockAt(n, k) = c /\ p % BLK_SIZE = q % BLK_SIZE)
      <4> SUFFICES ASSUME BlockAt(n, k) = c, p % BLK_SIZE = q % BLK_SIZE PROVE FALSE
        OBVIOUS
      <4>1. n = Ino /\ k = q \div BLK_SIZE
        BY <1>1, <1>2, <1>3, <2>1, BlockAtOnce
      <4>2. /\ p = k * BLK_SIZE + (p % BLK_SIZE)
            /\ q = (q \div BLK_SIZE) * BLK_SIZE + (q % BLK_SIZE)
        BY <1>1, Euclid, Sorts
      <4> QED  BY <2>5, <4>1, <4>2
    <3> HIDE DEF c, k, q
    <3> QED  BY <1>2, <1>3, <2>2, <2>3, <2>5, <3>1
  <2> QED  BY <2>4, <2>5
<1> QED  BY <1>5, <1>6

LEMMA ReadType ==
  ASSUME Ownership, NEW n \in INodeNo, NEW p \in Nat PROVE Read(n, p) \in DEntry
<1> DEFINE k == p \div BLK_SIZE
<1>1. k \in Nat /\ p % BLK_SIZE \in 0 .. BLK_SIZE - 1
  BY ReadCases
<1>2. dentry \in [BlockNo -> [0 .. BLK_SIZE - 1 -> DEntry]]
  BY DEF Ownership, TypeOK
<1>3. CASE Has(n, p)
  <2>1. k < MaxBlocks
    BY <1>3 DEF Has
  <2>2. BlockAt(n, k) \in BlockNo
    BY <1>1, <2>1, BlockAtType
  <2>3. dentry[BlockAt(n, k)][p % BLK_SIZE] \in DEntry
    <3> HIDE DEF k
    <3> QED  BY <1>1, <1>2, <2>2
  <2> QED  BY <1>3, <2>3, ReadCases
<1>4. CASE ~ Has(n, p)
  BY <1>4, Zeros, ReadCases
<1> QED  BY <1>3, <1>4

----------------------------------------------------------------------------
(* Steps that leave the directories as they were.                          *)

(* The list of calls, as long as the three literals of make_dir.           *)
LEMMA CallLists ==
  ASSUME NEW a, NEW b, NEW c
  PROVE  /\ <<a>> # << >> /\ Head(<<a>>) = a /\ Tail(<<a>>) = << >>
         /\ <<a, b>> # << >> /\ Head(<<a, b>>) = a /\ Tail(<<a, b>>) = <<b>>
         /\ <<a, b, c>> # << >> /\ Head(<<a, b, c>>) = a /\ Tail(<<a, b, c>>) = <<b, c>>
OBVIOUS

LEMMA ThreeCalls ==
  ASSUME NEW a, NEW b, NEW c
  PROVE  Append(<<a, b>>, c) = <<a, b, c>>
<1> DEFINE S == {a, b, c}
           s == <<a, b>>
           t == <<a, b, c>>
<1>1. s \in Seq(S) /\ c \in S /\ t \in Seq(S) /\ Len(s) = 2 /\ Len(t) = 3
  OBVIOUS
<1>2. /\ Append(s, c) \in Seq(S) /\ Len(Append(s, c)) = 3
      /\ \A i \in 1 .. 2 : Append(s, c)[i] = s[i]
      /\ Append(s, c)[3] = c
  BY <1>1, AppendProperties
<1>3. s[1] = a /\ s[2] = b /\ t[1] = a /\ t[2] = b /\ t[3] = c
  OBVIOUS
<1> HIDE DEF S, s, t
<1>4. \A i \in 1 .. 3 : Append(s, c)[i] = t[i]
  BY <1>2, <1>3
<1>5. Append(s, c) = t
  BY <1>1, <1>2, <1>4, SeqEqual
<1> QED  BY <1>5 DEF s, t

LEMMA FirstReplaced ==
  ASSUME NEW S, NEW s \in Seq(S), s # << >>, NEW c
  PROVE  LET t == [s EXCEPT ![1] = c]
         IN  t # << >> /\ Head(t) = c /\ Tail(t) = Tail(s)
<1> DEFINE t == [s EXCEPT ![1] = c]
           X == S \cup {c}
<1>1. s \in Seq(X) /\ Len(s) \in Nat \ {0} /\ 1 \in 1 .. Len(s)
  OBVIOUS
<1>2. t \in Seq(X) /\ Len(t) = Len(s) /\ \A i \in 1 .. Len(s) : t[i] = IF i = 1 THEN c ELSE s[i]
  BY <1>1, ExceptSeq
<1> HIDE DEF t, X
<1>3. t # << >> /\ Head(t) = c
  BY <1>1, <1>2
<1>4. /\ Tail(t) \in Seq(X) /\ Len(Tail(t)) = Len(s) - 1
      /\ Tail(s) \in Seq(X) /\ Len(Tail(s)) = Len(s) - 1
  BY <1>1, <1>2, <1>3, HeadTailProperties
<1>5. \A i \in 1 .. Len(s) - 1 : Tail(t)[i] = Tail(s)[i]
  BY <1>1, <1>2, <1>3, HeadTailProperties
<1>6. Tail(t) = Tail(s)
  BY <1>4, <1>5, SeqEqual
<1> QED  BY <1>3, <1>6 DEF t

LEMMA LastUsed ==
  ASSUME NEW n, Last(n)
  PROVE  inode_bitmap \subseteq INodeNo /\ n \in inode_bitmap
BY INodeAssumption DEF Last, INodeNo, ROOT_INODE

(* Nothing is written, but perhaps a size.                                 *)
SameEntries ==
  /\ SameRead /\ inode_bitmap' = inode_bitmap
  /\ \A n \in INodeNo : inode'[n].f_type = inode[n].f_type

LEMMA EntriesKept ==
  ASSUME Ownership, DirTree, SameEntries
  PROVE  /\ EntriesTruthful' /\ NamedOnce' /\ inode'[BAD_INODE].f_type = "NONE"
         /\ Directories' = Directories /\ Directories \subseteq INodeNo
         /\ \A n \in INodeNo : /\ Last(n) => Last(n)'
                               /\ Named(n)' <=> Named(n)
                               /\ OthersNamed(n) => OthersNamed(n)'
<1>1. Directories' = Directories /\ Directories \subseteq INodeNo
  BY DEF Directories, SameEntries
<1>2. \A n \in INodeNo, p \in Nat : Entry(n, p)' <=> Entry(n, p)
  BY DEF SameEntries, SameRead, Entry, BAD_INODE
<1>3. EntriesTruthful'
  <2> SUFFICES ASSUME NEW c \in Directories', NEW p \in Nat, Entry(c, p)'
               PROVE  Truthful(c, p)'
    BY DEF EntriesTruthful
  <2>1. Truthful(c, p) /\ c \in INodeNo /\ Read(c, p)' = Read(c, p)
    BY <1>1, <1>2 DEF DirTree, EntriesTruthful, SameEntries, SameRead
  <2>2. PICK x \in INodeNo : x = Read(c, p).inode
    BY <2>1, ReadType DEF DEntry
  <2>3. inode'[x].f_type = inode[x].f_type /\ Read(x, 1)' = Read(x, 1)
    BY <2>2 DEF SameEntries, SameRead
  <2> QED  BY <2>1, <2>2, <2>3 DEF Truthful, DirEntry, SameEntries
<1>4. \A n \in INodeNo : Named(n)' <=> Named(n)
  BY <1>1, <1>2 DEF Named, NamedAt, SameEntries, SameRead
<1>5. NamedOnce'
  BY <1>1, <1>2 DEF NamedOnce, NamedAt, SameEntries, SameRead, DirTree
<1>6. inode'[BAD_INODE].f_type = "NONE"
  BY Sorts DEF DirTree, SameEntries
<1>7. PICK m \in INodeNo : Last(m)
  BY DEF DirTree, Making
<1>8. inode_bitmap \subseteq INodeNo
  BY <1>7, LastUsed
<1>9. \A n \in INodeNo : (Last(n) => Last(n)') /\ (OthersNamed(n) => OthersNamed(n)')
  BY <1>4, <1>8 DEF OthersNamed, Last, SameEntries, BAD_INODE, ROOT_INODE, INodeNo
<1> QED  BY <1>1, <1>3, <1>4, <1>5, <1>6, <1>9

(* The calls to do are those of before, with other positions at most.      *)
SameCalls ==
  /\ todo = << >> => todo' = << >>
  /\ \A call, rest : Doing(call, rest) => Doing(call, rest)'

LEMMA MakingKept ==
  ASSUME Ownership, DirTree, SameEntries, SameCalls
  PROVE  Making'
<1>1. PICK n \in INodeNo : Last(n) /\ (Unnamed(n) \/ AllNamed(n) \/ RootInMaking(n))
  BY DEF DirTree, Making
<1>2. /\ Directories' = Directories /\ Directories \subseteq INodeNo
      /\ Last(n)' /\ (Named(n)' <=> Named(n)) /\ (OthersNamed(n) => OthersNamed(n)')
  BY <1>1, EntriesKept
<1>3. ASSUME Unnamed(n) PROVE Unnamed(n)'
  <2>1. PICK d \in Directories, name \in Names :
          d < n /\ (DirInMaking(n, d, name) \/ FileInMaking(n, d, name))
    BY <1>3 DEF Unnamed
  <2>2. DirInMaking(n, d, name) => DirInMaking(n, d, name)'
    BY DEF DirInMaking, SameCalls, SameEntries, SameRead
  <2>3. FileInMaking(n, d, name) => FileInMaking(n, d, name)'
    BY DEF FileInMaking, SameCalls, SameEntries
  <2> QED  BY <1>2, <1>3, <2>1, <2>2, <2>3 DEF Unnamed
<1>4. ASSUME AllNamed(n) PROVE AllNamed(n)'
  BY <1>2, <1>4 DEF AllNamed, Writing, SameCalls, SameEntries, ROOT_INODE
<1>5. ASSUME RootInMaking(n) PROVE RootInMaking(n)'
  BY <1>5 DEF RootInMaking, SameCalls, ROOT_INODE
<1> QED  BY <1>1, <1>2, <1>3, <1>4, <1>5 DEF Making

(* A call that adds no entry is about a file, and so are those after it.   *)
LEMMA NotAdding ==
  ASSUME DirTree, todo # << >>, ~ Adding
  PROVE  \E n \in INodeNo : Last(n) /\ AllNamed(n) /\ Writing(n) /\ Ino = n /\ Ino \notin Directories
<1>1. PICK n \in INodeNo : Last(n) /\ (Unnamed(n) \/ AllNamed(n) \/ RootInMaking(n))
  BY DEF DirTree, Making
<1>2. ~ Unnamed(n) /\ ~ RootInMaking(n)
  BY DEF Adding, Unnamed, RootInMaking, DirInMaking, FileInMaking, Doing,
         Dot, DotDot, ChildDir, ChildFile, AddDentryCall
<1>3. AllNamed(n) /\ Writing(n) /\ inode[n].f_type = "REGULAR"
  BY <1>1, <1>2 DEF AllNamed
<1>4. Ino = n
  BY <1>3 DEF Writing, Doing, ExpandCall, CopyCall
<1> QED  BY <1>1, <1>3, <1>4 DEF Directories

(* A call of INode::write returns.                                         *)
LEMMA WritingNext ==
  ASSUME Ownership, DirTree, SameEntries, todo # << >>, ~ Adding, todo' = Tail(todo)
  PROVE  Making' /\ ~ Adding'
<1>1. PICK n \in INodeNo : Last(n) /\ AllNamed(n) /\ Writing(n)
  BY NotAdding
<1>2. Last(n)' /\ (Named(n)' <=> Named(n)) /\ (OthersNamed(n) => OthersNamed(n)')
  BY <1>1, EntriesKept
<1>3. PICK size \in Nat : todo' = << >> \/ todo' = <<CopyCall(n, size)>>
  BY <1>1 DEF Writing, Doing
<1>4. inode'[n].f_type = "REGULAR"
  BY <1>1 DEF AllNamed, SameEntries
<1>5. CASE todo' = << >>
  <2>1. AllNamed(n)' /\ ~ Adding'
    BY <1>1, <1>2, <1>5 DEF AllNamed, Adding, ROOT_INODE
  <2> QED  BY <1>2, <2>1 DEF Making
<1>6. CASE todo' = <<CopyCall(n, size)>>
  <2>1. todo' # << >> /\ Cur' = CopyCall(n, size) /\ Tail(todo') = << >>
    BY <1>6, CallLists DEF Cur
  <2>2. Doing(CopyCall(n, size), << >>)' /\ ~ Adding'
    BY <2>1 DEF Doing, Ino, CopyCall, Adding, ZeroDEntry, BAD_INODE
  <2>3. AllNamed(n)'
    BY <1>1, <1>2, <1>4, <2>2 DEF AllNamed, Writing, ROOT_INODE
  <2> QED  BY <1>2, <2>2, <2>3 DEF Making
<1> QED  BY <1>3, <1>5, <1>6

LEMMA CallsUntouched == ASSUME UNCHANGED todo PROVE SameCalls
BY DEF SameCalls, Doing, Cur, Ino

LEMMA CallMoved ==
  ASSUME TypeOK, todo # << >>, NEW c, todo' = [todo EXCEPT ![1] = c],
         c.op = Cur.op, c.ino = Cur.ino, c.entry = Cur.entry
  PROVE  SameCalls /\ todo' # << >> /\ Cur' = c
<1>1. todo' # << >> /\ Head(todo') = c /\ Tail(todo') = Tail(todo)
  BY FirstReplaced DEF TypeOK
<1> QED  BY <1>1 DEF SameCalls, Doing, Cur, Ino

LEMMA HolesKept ==
  ASSUME Ownership, DirTree, SameEntries,
         \A c \in Directories, m \in Nat :
           Stored(c, m) /\ Filled(c, m) => Filled(c, m)'
  PROVE  NoHoles'
<1>1. Directories' = Directories /\ Directories \subseteq INodeNo
  BY EntriesKept
<1>2. \A c \in Directories, m \in Nat : Stored(c, m)' <=> Stored(c, m)
  BY <1>1 DEF Stored, Entry, SameEntries, SameRead, BAD_INODE
<1> QED  BY <1>1, <1>2 DEF NoHoles, DirTree

LEMMA KeptTree ==
  ASSUME Ownership, DirTree, SameRead, UNCHANGED <<inode, inode_bitmap, todo>>,
         stage # "idle" => stage' # "idle"
  PROVE  DirTree'
<1>1. SameEntries
  BY DEF SameEntries
<1>2. \A c, m : Filled(c, m) => Filled(c, m)'
  BY DEF Filled, Adding, Probing, Cur, Ino
<1>3. NoHoles'
  BY <1>1, <1>2, HolesKept
<1>4. Making'
  BY <1>1, CallsUntouched, MakingKept
<1> QED  BY <1>1, <1>3, <1>4, EntriesKept DEF DirTree, BAD_INODE

(* What the loops of get_blkno do to an image: one more pointer, or none.  *)
LEMMA LoopsPoint ==
  ASSUME BlockWalk, GetBlknoStep, ~ CallGetBlkno
  PROVE  /\ UNCHANGED <<blk_no, table, dentry, content>> \/ \E b \in BlockNo : OnePointer(b)
         /\ UNCHANGED <<inode, inode_bitmap, todo, stack>>
         /\ todo # << >> /\ stage # "idle" /\ stage' # "idle"
<1> DEFINE t1 == blk_no[Ino][INDIRECT]
           t2 == blk_no[Ino][INDIRECT2]
           Goal == /\ \/ UNCHANGED <<blk_no, table, dentry, content>>
                      \/ \E b \in BlockNo : OnePointer(b)
                   /\ UNCHANGED <<inode, inode_bitmap, todo, stack>>
                   /\ todo # << >> /\ stage # "idle" /\ stage' # "idle"
<1>1. Ownership /\ NullTable /\ todo # << >> /\ stage # "idle"
  BY DEF BlockWalk, GetBlknoStep, CallGetBlkno, AllocDirect, DirectDone, AllocIndirect,
         AllocIndirectEntry, IndirectDone, AllocIndirect2, AllocTable, AllocTableEntry,
         Running
<1>2. /\ Ino \in INodeNo /\ t1 \in BlockNo /\ t2 \in BlockNo
      /\ t1 # BAD_BLOCK => t1 \in fs_block_bitmap
      /\ t2 # BAD_BLOCK => t2 \in fs_block_bitmap
  BY <1>1, WalkTypes, Sorts
<1>3. ASSUME NEW how, Halt(how) PROVE Goal
  BY <1>1, <1>3 DEF Halt, alloc_vars
<1>4. ASSUME NEW next \in Stages \ {"idle"}, Proceed(next) PROVE Goal
  BY <1>1, <1>4 DEF Proceed, alloc_vars
<1>5. ASSUME NEW k \in PtrIdx, FillINode(Ino, k), blk_no[Ino][k] = BAD_BLOCK PROVE Goal
  <2>1. CASE BitmapFull
    BY <1>3, <2>1 DEF BitmapFull
  <2>2. CASE ~ BitmapFull
    <3>1. stage' = stage /\ \E b \in BlockNo : INodePointer(Ino, k, b)
      BY <1>1, <1>2, <1>5, <2>2, FilledINode
    <3>2. PICK b \in BlockNo : INodePointer(Ino, k, b)
      BY <3>1
    <3>3. OnePointer(b)
      BY <1>2, <1>5, <3>2 DEF OnePointer
    <3> QED  BY <1>1, <3>1, <3>2, <3>3 DEF INodePointer, NewBlock
  <2> QED  BY <2>1, <2>2
<1>6. ASSUME NEW t \in BlockNo, t # BAD_BLOCK, t \in fs_block_bitmap, NEW j \in TableIdx,
             table[t][j] = BAD_BLOCK, NEW next \in Stages \ {"idle"}, FillTable(t, j, next)
      PROVE  Goal
  <2>1. CASE BitmapFull
    BY <1>3, <2>1 DEF BitmapFull
  <2>2. CASE ~ BitmapFull
    <3>1. stage' = next /\ \E b \in BlockNo : TablePointer(t, j, b)
      BY <1>1, <1>6, <2>2, FilledTable
    <3>2. PICK b \in BlockNo : TablePointer(t, j, b)
      BY <3>1
    <3>3. OnePointer(b)
      BY <1>6, <3>2 DEF OnePointer
    <3> QED  BY <1>1, <3>1, <3>2, <3>3 DEF TablePointer, NewBlock
  <2> QED  BY <2>1, <2>2
<1>7. CASE AllocDirect
  <2>1. PICK k \in 0 .. DIRECT_BLK_COUNT - 1 :
          FirstBad(blk_no[Ino], k) /\ FillINode(Ino, k)
    BY <1>7 DEF AllocDirect
  <2>2. k \in PtrIdx
    BY Sorts
  <2> QED  BY <1>5, <2>1, <2>2 DEF FirstBad
<1>8. CASE AllocIndirect
  BY <1>5, <1>8, Sorts DEF AllocIndirect
<1>9. CASE AllocIndirect2
  BY <1>5, <1>9, Sorts DEF AllocIndirect2
<1>10. CASE AllocIndirectEntry
  <2>1. t1 # BAD_BLOCK
    BY <1>10 DEF AllocIndirectEntry
  <2>2. PICK j \in TableIdx : FirstBad(table[t1], j) /\ FillTable(t1, j, "indirect")
    BY <1>10 DEF AllocIndirectEntry
  <2> HIDE DEF t1
  <2> QED  BY <1>2, <1>6, <2>1, <2>2 DEF FirstBad, Stages
<1>11. CASE AllocTable
  <2>1. t2 # BAD_BLOCK
    BY <1>11 DEF AllocTable
  <2>2. PICK i \in TableIdx : table[t2][i] = BAD_BLOCK /\ FillTable(t2, i, "indirect2")
    BY <1>11 DEF AllocTable
  <2> HIDE DEF t2
  <2> QED  BY <1>2, <1>6, <2>1, <2>2 DEF Stages
<1>12. CASE AllocTableEntry
  <2>1. PICK i \in TableIdx, j \in TableIdx :
          /\ table[t2][i] # BAD_BLOCK
          /\ FirstBad(table[table[t2][i]], j)
          /\ FillTable(table[t2][i], j, IF ScanStop(i, j) THEN "ready" ELSE "indirect2")
    BY <1>12 DEF AllocTableEntry
  <2>2. table[t2][i] \in BlockNo /\ table[t2][i] \in fs_block_bitmap
    BY <1>1, <1>2, <2>1 DEF Ownership, TypeOK, PointersAllocated, Allocated
  <2> HIDE DEF t2
  <2> QED  BY <1>6, <2>1, <2>2 DEF FirstBad, Stages
<1>13. CASE DirectDone
  <2>1. Proceed(IF Off1 < 0 THEN "ready" ELSE "indirect")
    BY <1>13 DEF DirectDone
  <2> QED  BY <1>4, <2>1 DEF Stages
<1>14. CASE IndirectDone
  <2>1. Proceed(IF Off2 < 0 THEN "ready" ELSE "indirect2")
    BY <1>14 DEF IndirectDone
  <2> QED  BY <1>4, <2>1 DEF Stages
<1> QED
  BY <1>7, <1>8, <1>9, <1>10, <1>11, <1>12, <1>13, <1>14 DEF GetBlknoStep

(* So no reader of a directory notices a thing.                            *)
LEMMA LoopsKeepTree ==
  ASSUME BlockWalk, GetBlknoStep, ~ CallGetBlkno
  PROVE  SameRead /\ UNCHANGED <<inode, inode_bitmap, todo>> /\ (stage # "idle" => stage' # "idle")
<1>1. Ownership /\ NullTable
  BY DEF BlockWalk
<1> QED  BY <1>1, LoopsPoint, UntouchedRead, OnePointerRead

LEMMA AddingDir ==
  ASSUME BlockWalk, Adding
  PROVE  /\ Ino \in Directories /\ Ino \in INodeNo /\ Off = Cur.pos + 1
         /\ Cur \in Call /\ Cur.pos \in Nat
<1>1. TypeOK /\ Ownership /\ todo # << >> /\ Cur.op = "add_dentry"
  BY DEF BlockWalk, Ownership, Adding
<1>2. Ino \in INodeNo /\ Ino \in inode_bitmap
  BY <1>1, WalkTypes
<1>3. 1 \in 1 .. Len(todo) /\ Cur = todo[1]
  BY <1>1 DEF TypeOK, Cur
<1>4. inode[Ino].f_type = "DIR"
  BY <1>1, <1>3 DEF BlockWalk, DirsAreDirs, Ino
<1>5. Cur \in Call /\ Cur.pos \in Nat
  BY <1>1, CurType, CallFields
<1> QED  BY <1>1, <1>2, <1>4, <1>5 DEF Directories, Off

LEMMA CallGetBlknoTree ==
  ASSUME BlockWalk, DirTree, CallGetBlkno PROVE DirTree'
<1>1. /\ TypeOK /\ Ownership /\ todo # << >> /\ stage = "idle"
      /\ UNCHANGED <<blk_no, table, dentry, inode_bitmap>>
  BY DEF BlockWalk, Ownership, CallGetBlkno, Running, alloc_vars
<1>2. Ino \in INodeNo /\ Off \in Nat /\ inode \in [INodeNo -> INode] /\ inode[Ino].f_size \in Nat
  BY <1>1, WalkTypes DEF TypeOK, INode
<1>3. CASE Cur.op = "expand" /\ Off < inode[Ino].f_size
  <2>1. todo' = Tail(todo) /\ UNCHANGED inode /\ ~ Adding
    BY <1>1, <1>3 DEF CallGetBlkno, Adding
  <2>2. SameEntries
    BY <1>1, <2>1, UntouchedRead DEF SameEntries
  <2>3. Making' /\ ~ Adding'
    BY <1>1, <2>1, <2>2, WritingNext
  <2>4. \A c, m : Filled(c, m) => Filled(c, m)'
    BY <2>1, <2>3 DEF Filled
  <2>5. NoHoles'
    BY <1>1, <2>2, <2>4, HolesKept
  <2> QED  BY <1>1, <2>2, <2>3, <2>5, EntriesKept DEF DirTree, BAD_INODE
<1>4. CASE ~ (Cur.op = "expand" /\ Off < inode[Ino].f_size)
  <2>1. /\ inode' = [inode EXCEPT ![Ino].f_size = IF @ < Off THEN Off ELSE @]
        /\ stage' = "direct" /\ UNCHANGED todo
    BY <1>1, <1>4 DEF CallGetBlkno
  <2>2. /\ \A n \in INodeNo : inode'[n].f_type = inode[n].f_type
        /\ \A n \in INodeNo : n # Ino => inode'[n] = inode[n]
        /\ inode'[Ino].f_size = IF inode[Ino].f_size < Off THEN Off ELSE inode[Ino].f_size
    BY <1>2, <2>1 DEF INode
  <2>3. SameEntries
    BY <1>1, <2>2, UntouchedRead DEF SameEntries
  <2>4. Cur' = Cur /\ Ino' = Ino /\ (Adding' <=> Adding)
    BY <2>1 DEF Cur, Ino, Adding
  <2>5. ASSUME NEW c \in Directories, NEW m \in Nat, Stored(c, m), Filled(c, m)
        PROVE  Filled(c, m)'
    <3>1. c \in INodeNo
      BY <2>5 DEF Directories
    <3>2. CASE Adding /\ c = Ino
      <4>1. Probing(m) /\ Off = Cur.pos + 1 /\ Cur.pos \in Nat
        BY <2>5, <3>2, AddingDir DEF Filled
      <4>2. Cur.pos <= m /\ inode[Ino].f_size = IF m < 2 THEN 2 ELSE m
        BY <1>1, <4>1 DEF Probing
      <4>3. \/ inode'[Ino].f_size = IF m < 2 THEN 2 ELSE m
            \/ 2 <= m /\ Cur.pos = m /\ inode'[Ino].f_size = m + 1
        BY <2>2, <4>1, <4>2
      <4>4. Probing(m)'
        BY <2>1, <2>4, <4>1, <4>3 DEF Probing
      <4> QED  BY <2>4, <3>2, <4>4 DEF Filled
    <3>3. CASE c # Ino
      BY <2>2, <2>4, <2>5, <3>1, <3>3 DEF Filled
    <3>4. CASE ~ Adding
      <4>1. c # Ino
        BY <1>1, <2>5, <3>4, NotAdding
      <4> QED  BY <3>3, <4>1
    <3> QED  BY <3>2, <3>3, <3>4
  <2>6. NoHoles'
    BY <1>1, <2>3, <2>5, HolesKept
  <2>7. Making'
    BY <1>1, <2>1, <2>3, CallsUntouched, MakingKept
  <2> QED  BY <1>1, <2>3, <2>6, <2>7, EntriesKept DEF DirTree, BAD_INODE
<1> QED  BY <1>3, <1>4

(* A place that is taken is not behind the end of the directory.           *)
LEMMA ProbesOn ==
  ASSUME BlockWalk, DirTree, NextDentry
  PROVE  Entry(Ino, Cur.pos) /\ Cur.pos + 1 <= inode[Ino].f_size
<1>1. Running("ready") /\ Adding /\ DEntryAt(Ino, Cur.pos).inode # BAD_INODE
  BY DEF NextDentry, Running, Adding
<1>2. Ino \in Directories /\ Cur.pos \in Nat
  BY <1>1, AddingDir
<1>3. Entry(Ino, Cur.pos)
  BY <1>1, ReadyRead DEF Entry
<1>4. PICK m \in Nat : Stored(Ino, m) /\ Probing(m)
  BY <1>1, <1>2 DEF DirTree, NoHoles, Filled
<1> QED  BY <1>2, <1>3, <1>4 DEF Stored, Probing

LEMMA NextDentryTree ==
  ASSUME BlockWalk, DirTree, NextDentry PROVE DirTree'
<1>1. /\ Ownership /\ TypeOK /\ Running("ready") /\ Adding
      /\ UNCHANGED <<blk_no, table, dentry, inode_bitmap, inode>> /\ stage' = "idle"
  BY DEF BlockWalk, Ownership, NextDentry, Running, Adding, Return
<1>2. Ino \in Directories /\ Ino \in INodeNo /\ Cur \in Call /\ Cur.pos \in Nat
  BY <1>1, AddingDir
<1>3. Entry(Ino, Cur.pos) /\ Cur.pos + 1 <= inode[Ino].f_size
  BY ProbesOn
<1> DEFINE call == [Cur EXCEPT !.pos = @ + 1]
<1>6. todo' = [todo EXCEPT ![1] = call] /\ todo # << >>
  <2>1. todo' = [todo EXCEPT ![1].pos = @ + 1] /\ todo # << >>
    BY <1>3 DEF NextDentry, Return, Running
  <2>2. Cur = todo[1]
    BY <1>1, <2>1 DEF Cur, TypeOK
  <2> QED  BY <2>1, <2>2
<1>7. /\ call.op = Cur.op /\ call.ino = Cur.ino /\ call.entry = Cur.entry
      /\ call.pos = Cur.pos + 1
  BY <1>2 DEF Call
<1> HIDE DEF call
<1>8. SameCalls /\ todo' # << >> /\ Cur' = call
  BY <1>1, <1>6, <1>7, CallMoved
<1>9. SameEntries
  BY <1>1, UntouchedRead DEF SameEntries
<1>10. Adding' /\ Ino' = Ino
  BY <1>1, <1>7, <1>8 DEF Adding, Ino
<1>11. ASSUME NEW c \in Directories, NEW l \in Nat, Stored(c, l), Filled(c, l)
       PROVE  Filled(c, l)'
  <2>1. CASE c = Ino
    <3>1. Probing(l)
      BY <1>1, <1>11, <2>1 DEF Filled
    <3>2. Cur.pos < l
      BY <1>2, <1>3, <1>11, <2>1 DEF Stored
    <3>3. Cur'.pos <= l /\ Cur'.entry = Cur.entry
      BY <1>2, <1>7, <1>8, <3>2
    <3>4. inode[Ino].f_size = IF l < 2 THEN 2 ELSE l
      BY <1>2, <3>1, <3>2 DEF Probing
    <3>5. Probing(l)'
      BY <1>1, <1>10, <3>1, <3>3, <3>4 DEF Probing
    <3> QED  BY <1>10, <2>1, <3>5 DEF Filled
  <2>2. CASE c # Ino
    BY <1>1, <1>10, <1>11, <2>2 DEF Filled
  <2> QED  BY <2>1, <2>2
<1>12. NoHoles'
  BY <1>1, <1>9, <1>11, HolesKept
<1>13. Making'
  BY <1>1, <1>8, <1>9, MakingKept
<1> QED  BY <1>1, <1>9, <1>12, <1>13, EntriesKept DEF DirTree, BAD_INODE

LEMMA WriteTree ==
  ASSUME BlockWalk, DirTree, Expanded \/ CopyChunk \/ CopyDone PROVE DirTree'
<1>1. /\ Ownership /\ TypeOK /\ todo # << >> /\ ~ Adding
      /\ UNCHANGED <<blk_no, table, dentry, inode_bitmap, inode>>
  BY DEF BlockWalk, Ownership, Expanded, CopyChunk, CopyDone, Running, Adding, Return
<1>2. SameEntries
  BY <1>1, UntouchedRead DEF SameEntries
<1>3. Making' /\ ~ Adding'
  <2>1. CASE todo' = Tail(todo)
    BY <1>1, <1>2, <2>1, WritingNext
  <2>2. CASE todo' # Tail(todo)
    <3>1. PICK c : /\ todo' = [todo EXCEPT ![1] = c]
                   /\ c.ino = Cur.ino /\ c.op = Cur.op /\ c.entry = Cur.entry
      BY <1>1, <2>2, FirstCallLeft DEF CallerStep
    <3>2. SameCalls /\ todo' # << >> /\ Cur' = c
      BY <1>1, <3>1, CallMoved
    <3>3. ~ Adding'
      BY <1>1, <3>1, <3>2 DEF Adding
    <3> QED  BY <1>1, <1>2, <3>2, <3>3, MakingKept
  <2> QED  BY <2>1, <2>2
<1>4. \A c, m : Filled(c, m) => Filled(c, m)'
  BY <1>1, <1>3 DEF Filled
<1>5. NoHoles'
  BY <1>1, <1>2, <1>4, HolesKept
<1> QED  BY <1>1, <1>2, <1>3, <1>5, EntriesKept DEF DirTree, BAD_INODE

----------------------------------------------------------------------------
(* The step that adds an entry.                                            *)

(* add_dentry stores behind the last entry, where the directory has room.  *)
LEMMA FreePlace ==
  ASSUME BlockWalk, DirTree, StoreDentry, NEW q, q = Cur.pos
  PROVE  /\ Ino \in Directories /\ Ino \in INodeNo /\ q \in Nat
         /\ Stored(Ino, q) /\ ~ Entry(Ino, q) /\ Probing(q)
         /\ inode[Ino].f_size = IF q < 2 THEN 2 ELSE q + 1
<1>1. /\ Running("ready") /\ Adding /\ DEntryAt(Ino, q).inode = BAD_INODE
  BY DEF StoreDentry, Running, Adding
<1>2. Ino \in Directories /\ Ino \in INodeNo /\ Off = q + 1 /\ q \in Nat
  BY <1>1, AddingDir
<1>3. PICK m \in Nat : Stored(Ino, m) /\ Probing(m)
  BY <1>1, <1>2 DEF DirTree, NoHoles, Filled
<1>4. ~ Entry(Ino, q)
  BY <1>1, ReadyRead DEF Entry
<1>5. q = m
  BY <1>2, <1>3, <1>4 DEF Stored, Probing
<1>6. q + 1 <= inode[Ino].f_size
  BY <1>1, <1>2 DEF BlockWalk, Walk, Running
<1>7. inode[Ino].f_size = IF q < 2 THEN 2 ELSE q + 1
  BY <1>2, <1>3, <1>5, <1>6 DEF Probing
<1> QED  BY <1>2, <1>3, <1>4, <1>5, <1>7

(* What add_dentry stores in directory d when q entries are there.         *)
Fits(e, d, q) ==
  /\ e.inode # BAD_INODE
  /\ q = 0 => e = DirEntry(d, ".")
  /\ q = 1 => e.name = ".."
  /\ 2 <= q =>
       /\ e.name \in Names /\ e.inode \in inode_bitmap /\ ~ Named(e.inode)
       /\ d < e.inode /\ q <= e.inode
       /\ e.f_type = inode[e.inode].f_type
       /\ e.f_type = "DIR" => Read(e.inode, 1) = DirEntry(d, "..")

LEMMA EntryAdded ==
  ASSUME Ownership, DirTree, UNCHANGED <<inode, inode_bitmap>>,
         NEW d \in Directories, NEW q \in Nat, NEW e, Stored(d, q), Fits(e, d, q),
         \A n \in INodeNo, p \in Nat :
           Read(n, p)' = IF n = d /\ p = q THEN e ELSE Read(n, p)
  PROVE  /\ EntriesTruthful' /\ NamedOnce' /\ Directories' = Directories
         /\ inode'[BAD_INODE].f_type = "NONE"
         /\ \A n \in INodeNo : Last(n)' <=> Last(n)
         /\ \A n \in INodeNo : Named(n)' <=> (Named(n) \/ (2 <= q /\ n = e.inode))
         /\ \A c \in Directories, m \in Nat : c # d => (Stored(c, m)' <=> Stored(c, m))
         /\ Stored(d, q + 1)'
<1>1. Directories' = Directories /\ Directories \subseteq INodeNo /\ BAD_INODE \notin Directories
  BY DEF Directories, DirTree
<1>2. d \in INodeNo /\ ~ Entry(d, q) /\ Read(d, q)' = e
  BY <1>1 DEF Stored
<1>3. \A n \in INodeNo, p \in Nat : Entry(n, p)' <=> (Entry(n, p) \/ (n = d /\ p = q))
  BY <1>2 DEF Entry, Fits, BAD_INODE
<1>4. \A n \in INodeNo, p \in Nat : Entry(n, p) => Read(n, p)' = Read(n, p)
  BY <1>2
<1>5. PICK k \in INodeNo : Last(k)
  BY DEF DirTree, Making
<1>6. inode_bitmap \subseteq INodeNo /\ INodeNo \subseteq Nat
  BY <1>5, LastUsed DEF INodeNo
<1>7. EntriesTruthful'
  <2> SUFFICES ASSUME NEW c \in Directories, NEW p \in Nat, Entry(c, p)'
               PROVE  Truthful(c, p)'
    BY <1>1 DEF EntriesTruthful
  <2>1. CASE Entry(c, p)
    <3>1. Truthful(c, p) /\ c \in INodeNo /\ Read(c, p)' = Read(c, p)
      BY <1>1, <1>4, <2>1 DEF DirTree, EntriesTruthful
    <3>2. PICK x \in INodeNo : x = Read(c, p).inode
      BY <3>1, ReadType DEF DEntry
    <3>3. Read(x, 1) = DirEntry(c, "..") => Read(x, 1)' = DirEntry(c, "..")
      <4>1. ASSUME Read(x, 1) = DirEntry(c, "..") PROVE Entry(x, 1)
        BY <1>1, <4>1 DEF Entry, DirEntry
      <4> QED  BY <1>4, <3>2, <4>1
    <3> QED  BY <3>1, <3>2, <3>3 DEF Truthful, DirEntry
  <2>2. CASE c = d /\ p = q
    <3>1. CASE q < 2
      BY <1>2, <2>2, <3>1 DEF Truthful, Fits, DirEntry
    <3>2. CASE 2 <= q
      <4>1. PICK x \in INodeNo : x = e.inode
        BY <1>6, <3>2 DEF Fits
      <4>2. x # d
        BY <1>2, <1>6, <3>2, <4>1 DEF Fits
      <4>3. Read(x, 1)' = Read(x, 1)
        BY <4>2
      <4> QED  BY <1>2, <2>2, <3>2, <4>1, <4>3 DEF Truthful, Fits, DirEntry
    <3> QED  BY <3>1, <3>2
  <2> QED  BY <1>1, <1>3, <2>1, <2>2
<1>8. \A n \in INodeNo, c \in Directories, p \in Nat :
        NamedAt(n, c, p)' <=> (NamedAt(n, c, p) \/ (c = d /\ p = q /\ 2 <= q /\ n = e.inode))
  BY <1>1, <1>2, <1>3, <1>4 DEF NamedAt
<1>9. \A n \in INodeNo : Named(n)' <=> (Named(n) \/ (2 <= q /\ n = e.inode))
  BY <1>1, <1>8 DEF Named
<1>10. NamedOnce'
  <2> SUFFICES ASSUME NEW n \in INodeNo, NEW b \in Directories, NEW c \in Directories,
                      NEW p \in Nat, NEW l \in Nat, NamedAt(n, b, p)', NamedAt(n, c, l)'
               PROVE  b = c /\ p = l
    BY <1>1 DEF NamedOnce
  <2>1. CASE 2 <= q /\ n = e.inode
    <3>1. ~ NamedAt(n, b, p) /\ ~ NamedAt(n, c, l)
      BY <2>1 DEF Fits, Named
    <3> QED  BY <1>8, <3>1
  <2>2. CASE ~ (2 <= q /\ n = e.inode)
    <3>1. NamedAt(n, b, p) /\ NamedAt(n, c, l)
      BY <1>8, <2>2
    <3> QED  BY <3>1 DEF DirTree, NamedOnce
  <2> QED  BY <2>1, <2>2
<1>11. \A c \in Directories, m \in Nat : c # d => (Stored(c, m)' <=> Stored(c, m))
  BY <1>1, <1>3 DEF Stored
<1>12. Stored(d, q + 1)'
  BY <1>2, <1>3 DEF Stored
<1>13. inode'[BAD_INODE].f_type = "NONE" /\ \A n \in INodeNo : Last(n)' <=> Last(n)
  BY DEF DirTree, Last, INodeNo, ROOT_INODE
<1> QED  BY <1>1, <1>7, <1>9, <1>10, <1>11, <1>12, <1>13

LEMMA DoingNow ==
  ASSUME NEW a, NEW rest, todo' # << >>, Cur' = a, Tail(todo') = rest
  PROVE  Doing(a, rest)'
BY DEF Doing, Ino

LEMMA NamesApart == "." \notin Names /\ ".." \notin Names /\ "." # ".."
BY HostAssumption

(* The first m entries are there after the step, in every directory.       *)
LEMMA HolesFilled ==
  ASSUME DirTree, Directories' = Directories, NEW d \in Directories, NEW q \in Nat,
         Stored(d, q + 1)', Filled(d, q + 1)',
         \A c \in Directories, m \in Nat : c # d => (Stored(c, m)' <=> Stored(c, m)),
         \A c \in Directories, m \in Nat : c # d /\ Filled(c, m) => Filled(c, m)'
  PROVE  NoHoles'
BY DEF NoHoles, DirTree

(* What the three places below have in common.                             *)
LEMMA Stores ==
  ASSUME BlockWalk, DirTree, StoreDentry, NEW n \in INodeNo, Last(n), NEW call, NEW rest,
         Doing(call, rest), NEW d, d = call.ino, NEW q, q = Cur.pos, Fits(call.entry, d, q)
  PROVE  /\ EntriesTruthful' /\ NamedOnce' /\ inode'[BAD_INODE].f_type = "NONE"
         /\ Directories' = Directories /\ Last(n)'
         /\ \A m \in INodeNo : Named(m)' <=> (Named(m) \/ (2 <= q /\ m = call.entry.inode))
         /\ OthersNamed(n) => OthersNamed(n)'
         /\ \A c \in Directories, m \in Nat : c # d => (Stored(c, m)' <=> Stored(c, m))
         /\ \A c \in Directories, m \in Nat :
              c # d /\ Filled(c, m) => 2 <= m /\ m = inode[c].f_size
         /\ Stored(d, q + 1)'
         /\ \A m \in INodeNo, p \in Nat : m # d \/ p # q => Read(m, p)' = Read(m, p)
         /\ Read(d, q)' = call.entry
         /\ todo' = rest /\ stage' = "idle" /\ UNCHANGED <<inode, inode_bitmap>>
<1>1. /\ Running("ready") /\ Adding /\ Ownership /\ todo' = rest /\ stage' = "idle"
      /\ UNCHANGED <<blk_no, table, inode, inode_bitmap>>
      /\ d = Ino /\ call.entry = Cur.entry
  BY DEF StoreDentry, Running, Adding, BlockWalk, Return, Doing
<1>2. d \in Directories /\ d \in INodeNo /\ q \in Nat /\ Stored(d, q)
  BY <1>1, FreePlace
<1>3. dentry' = [dentry EXCEPT ![GetBlkno(Ino, Cur.pos)][Cur.pos % BLK_SIZE] = Cur.entry]
  BY DEF StoreDentry
<1>4. \A m \in INodeNo, p \in Nat :
        Read(m, p)' = IF m = d /\ p = q THEN call.entry ELSE Read(m, p)
  BY <1>1, <1>3, StoreRead
<1>5. /\ EntriesTruthful' /\ NamedOnce' /\ Directories' = Directories
      /\ inode'[BAD_INODE].f_type = "NONE" /\ Last(n)'
      /\ \A m \in INodeNo : Named(m)' <=> (Named(m) \/ (2 <= q /\ m = call.entry.inode))
      /\ \A c \in Directories, m \in Nat : c # d => (Stored(c, m)' <=> Stored(c, m))
      /\ Stored(d, q + 1)'
  BY <1>1, <1>2, <1>4, EntryAdded
<1>6. OthersNamed(n) => OthersNamed(n)'
  BY <1>1, <1>5, LastUsed DEF OthersNamed, BAD_INODE, ROOT_INODE
<1>7. \A c \in Directories, m \in Nat :
        c # d /\ Filled(c, m) => 2 <= m /\ m = inode[c].f_size
  BY <1>1 DEF Filled
<1> QED  BY <1>1, <1>2, <1>4, <1>5, <1>6, <1>7

(* "." is stored first; ".." is next.                                      *)
LEMMA DotStored ==
  ASSUME BlockWalk, DirTree, StoreDentry, NEW n \in INodeNo, Last(n), NEW x, NEW rest,
         Doing(Dot(n), rest), rest # << >>, Head(rest) = DotDot(n, x)
  PROVE  /\ EntriesTruthful' /\ NamedOnce' /\ inode'[BAD_INODE].f_type = "NONE"
         /\ Directories' = Directories /\ Last(n)' /\ NoHoles'
         /\ Named(n)' <=> Named(n)
         /\ OthersNamed(n) => OthersNamed(n)'
         /\ Doing(DotDot(n, x), Tail(rest))' /\ UNCHANGED <<inode, inode_bitmap>>
<1>1. PICK q : q = Cur.pos
  OBVIOUS
<1>2. Dot(n).ino = n /\ Dot(n).entry = DirEntry(n, ".")
  BY DEF Dot, AddDentryCall
<1>3. Ino = n /\ Cur.entry = DirEntry(n, ".")
  BY <1>2 DEF Doing
<1>4. n \in Directories /\ q \in Nat /\ Probing(q) /\ inode[n].f_size = IF q < 2 THEN 2 ELSE q + 1
  BY <1>1, <1>3, FreePlace
<1>5. q = 0
  BY <1>3, <1>4 DEF Probing, DirEntry
<1>6. n # BAD_INODE
  BY DEF Last, ROOT_INODE, BAD_INODE
<1>7. Fits(Dot(n).entry, n, q)
  BY <1>2, <1>5, <1>6 DEF Fits, DirEntry
<1>8. /\ EntriesTruthful' /\ NamedOnce' /\ inode'[BAD_INODE].f_type = "NONE"
      /\ Directories' = Directories /\ Last(n)'
      /\ \A m \in INodeNo : Named(m)' <=> (Named(m) \/ (2 <= q /\ m = Dot(n).entry.inode))
      /\ OthersNamed(n) => OthersNamed(n)'
      /\ \A c \in Directories, m \in Nat : c # n => (Stored(c, m)' <=> Stored(c, m))
      /\ \A c \in Directories, m \in Nat :
           c # n /\ Filled(c, m) => 2 <= m /\ m = inode[c].f_size
      /\ Stored(n, q + 1)'
      /\ todo' = rest /\ stage' = "idle" /\ UNCHANGED <<inode, inode_bitmap>>
  BY <1>1, <1>2, <1>7, Stores
<1>9. todo' # << >> /\ Cur' = DotDot(n, x) /\ Tail(todo') = Tail(rest)
  BY <1>8 DEF Cur
<1>10. Adding' /\ Ino' = n /\ Cur'.pos = 0 /\ Cur'.entry.name = ".."
  BY <1>9 DEF Adding, Ino, DotDot, AddDentryCall, DirEntry
<1>11. Filled(n, q + 1)'
  BY <1>4, <1>5, <1>8, <1>10, NamesApart DEF Filled, Probing
<1>12. \A c \in Directories, m \in Nat : c # n /\ Filled(c, m) => Filled(c, m)'
  BY <1>8, <1>10 DEF Filled
<1>13. NoHoles'
  BY <1>4, <1>8, <1>11, <1>12, HolesFilled
<1>14. Doing(DotDot(n, x), Tail(rest))'
  BY <1>9, DoingNow
<1> QED  BY <1>5, <1>8, <1>13, <1>14

(* ".." is stored second; the entry in directory x is next, if there is.   *)
LEMMA DotDotStored ==
  ASSUME BlockWalk, DirTree, StoreDentry, NEW n \in INodeNo, Last(n),
         NEW x \in Directories, NEW rest, Doing(DotDot(n, x), rest),
         rest = << >> \/ (x # n /\ \E name \in Names : rest = <<ChildDir(n, x, name)>>)
  PROVE  /\ EntriesTruthful' /\ NamedOnce' /\ inode'[BAD_INODE].f_type = "NONE"
         /\ Directories' = Directories /\ Last(n)' /\ NoHoles'
         /\ Named(n)' <=> Named(n)
         /\ OthersNamed(n) => OthersNamed(n)'
         /\ todo' = rest /\ UNCHANGED <<inode, inode_bitmap>>
         /\ Read(n, 1)' = DirEntry(x, "..")
<1>1. PICK q : q = Cur.pos
  OBVIOUS
<1>2. DotDot(n, x).ino = n /\ DotDot(n, x).entry = DirEntry(x, "..")
  BY DEF DotDot, AddDentryCall
<1>3. Ino = n /\ Cur.entry = DirEntry(x, "..")
  BY <1>2 DEF Doing
<1>4. n \in Directories /\ q \in Nat /\ Probing(q) /\ inode[n].f_size = IF q < 2 THEN 2 ELSE q + 1
  BY <1>1, <1>3, FreePlace
<1>5. q = 1
  BY <1>3, <1>4 DEF Probing, DirEntry
<1>6. x # BAD_INODE
  BY DEF Directories, DirTree
<1>7. Fits(DotDot(n, x).entry, n, q)
  BY <1>2, <1>5, <1>6 DEF Fits, DirEntry
<1>8. /\ EntriesTruthful' /\ NamedOnce' /\ inode'[BAD_INODE].f_type = "NONE"
      /\ Directories' = Directories /\ Last(n)'
      /\ \A m \in INodeNo : Named(m)' <=> (Named(m) \/ (2 <= q /\ m = DotDot(n, x).entry.inode))
      /\ OthersNamed(n) => OthersNamed(n)'
      /\ \A c \in Directories, m \in Nat : c # n => (Stored(c, m)' <=> Stored(c, m))
      /\ \A c \in Directories, m \in Nat :
           c # n /\ Filled(c, m) => 2 <= m /\ m = inode[c].f_size
      /\ Stored(n, q + 1)' /\ Read(n, q)' = DotDot(n, x).entry
      /\ todo' = rest /\ stage' = "idle" /\ UNCHANGED <<inode, inode_bitmap>>
  BY <1>1, <1>2, <1>7, Stores
<1>9. ASSUME NEW c \in Directories, NEW m \in Nat, 2 <= m, m = inode[c].f_size
      PROVE  Filled(c, m)'
  <2>1. CASE rest = << >>
    BY <1>8, <1>9, <2>1 DEF Filled, Adding
  <2>2. ASSUME NEW name \in Names, rest = <<ChildDir(n, x, name)>> PROVE Filled(c, m)'
    <3>1. todo' # << >> /\ Cur' = ChildDir(n, x, name)
      BY <1>8, <2>2, CallLists DEF Cur
    <3>2. Adding' /\ Ino' = x /\ Cur'.pos = 0 /\ Cur'.entry.name = name
      BY <3>1 DEF Adding, Ino, ChildDir, AddDentryCall, DirEntry
    <3> QED  BY <1>8, <1>9, <2>2, <3>2, NamesApart DEF Filled, Probing
  <2> QED  BY <2>1, <2>2
<1>10. Filled(n, q + 1)'
  BY <1>4, <1>5, <1>9
<1>11. \A c \in Directories, m \in Nat : c # n /\ Filled(c, m) => Filled(c, m)'
  BY <1>8, <1>9
<1>12. NoHoles'
  BY <1>4, <1>8, <1>10, <1>11, HolesFilled
<1> QED  BY <1>2, <1>5, <1>8, <1>12

(* A directory holds no more entries than there are inodes to name.        *)
LEMMA RoomForNames ==
  ASSUME Ownership, DirTree, NEW n \in INodeNo, Last(n), ~ Named(n),
         NEW d \in Directories, d < n, NEW q \in Nat, 2 <= q, Stored(d, q)
  PROVE  q <= n
<1>1. d \in Nat \ {0} /\ n \in Nat /\ d \in INodeNo
  BY Sorts DEF Directories, DirTree, BAD_INODE, INodeNo
<1>2. CASE q = 2
  BY <1>1, <1>2
<1>3. CASE q # 2
  <2> DEFINE p == q - 1
  <2>1. p \in Nat /\ 2 <= p /\ Entry(d, p)
    BY <1>3 DEF Stored
  <2>2. Truthful(d, p)
    BY <2>1 DEF DirTree, EntriesTruthful
  <2>3. PICK x \in INodeNo : x = Read(d, p).inode
    BY <1>1, <2>1, ReadType DEF DEntry
  <2>4. x \in inode_bitmap /\ p <= x
    BY <2>1, <2>2, <2>3 DEF Truthful
  <2>5. x # n
    BY <2>1, <2>3 DEF Named, NamedAt
  <2>6. x \in 0 .. n
    BY <2>4 DEF Last
  <2> QED  BY <1>1, <2>1, <2>4, <2>5, <2>6
<1> QED  BY <1>2, <1>3

(* The entry for inode n is stored in directory x.                         *)
LEMMA ChildStored ==
  ASSUME BlockWalk, DirTree, StoreDentry, NEW n \in INodeNo, Last(n), ~ Named(n),
         NEW x \in Directories, x < n, NEW call, NEW rest, Doing(call, rest),
         call.ino = x, call.entry.name \in Names, call.entry.inode = n,
         call.entry.f_type = inode[n].f_type,
         inode[n].f_type = "DIR" => Read(n, 1) = DirEntry(x, ".."),
         rest = << >> \/ \E size : rest = <<ExpandCall(n, size), CopyCall(n, size)>>
  PROVE  /\ EntriesTruthful' /\ NamedOnce' /\ inode'[BAD_INODE].f_type = "NONE"
         /\ Last(n)' /\ NoHoles' /\ Named(n)'
         /\ OthersNamed(n) => OthersNamed(n)'
         /\ todo' = rest /\ UNCHANGED <<inode, inode_bitmap>>
<1>1. PICK q : q = Cur.pos
  OBVIOUS
<1>2. Ino = x /\ Cur.entry = call.entry
  BY DEF Doing
<1>3. /\ q \in Nat /\ Probing(q) /\ Stored(x, q)
      /\ inode[x].f_size = IF q < 2 THEN 2 ELSE q + 1
  BY <1>1, <1>2, FreePlace
<1>4. 2 <= q
  BY <1>2, <1>3 DEF Probing
<1>5. q <= n /\ n # BAD_INODE /\ n \in inode_bitmap
  BY <1>3, <1>4, RoomForNames, LastUsed DEF BlockWalk, Last, ROOT_INODE, BAD_INODE
<1>6. Fits(call.entry, x, q)
  BY <1>4, <1>5 DEF Fits
<1>7. /\ EntriesTruthful' /\ NamedOnce' /\ inode'[BAD_INODE].f_type = "NONE"
      /\ Directories' = Directories /\ Last(n)'
      /\ \A m \in INodeNo : Named(m)' <=> (Named(m) \/ (2 <= q /\ m = call.entry.inode))
      /\ OthersNamed(n) => OthersNamed(n)'
      /\ \A c \in Directories, m \in Nat : c # x => (Stored(c, m)' <=> Stored(c, m))
      /\ \A c \in Directories, m \in Nat :
           c # x /\ Filled(c, m) => 2 <= m /\ m = inode[c].f_size
      /\ Stored(x, q + 1)'
      /\ todo' = rest /\ stage' = "idle" /\ UNCHANGED <<inode, inode_bitmap>>
  BY <1>1, <1>6, Stores
<1>8. ~ Adding'
  <2>1. CASE rest = << >>
    BY <1>7, <2>1 DEF Adding
  <2>2. ASSUME NEW size, rest = <<ExpandCall(n, size), CopyCall(n, size)>> PROVE ~ Adding'
    <3>1. Cur' = ExpandCall(n, size)
      BY <1>7, <2>2, CallLists DEF Cur
    <3> QED  BY <3>1 DEF Adding, ExpandCall
  <2> QED  BY <2>1, <2>2
<1>9. Filled(x, q + 1)' /\ \A c \in Directories, m \in Nat : c # x /\ Filled(c, m) => Filled(c, m)'
  BY <1>3, <1>4, <1>7, <1>8 DEF Filled
<1>10. NoHoles'
  BY <1>3, <1>7, <1>9, HolesFilled
<1> QED  BY <1>4, <1>7, <1>10

LEMMA StoreDentryTree ==
  ASSUME BlockWalk, DirTree, StoreDentry PROVE DirTree'
<1>1. Adding /\ todo # << >>
  BY DEF StoreDentry, Running, Adding
<1>2. PICK n \in INodeNo : Last(n) /\ (Unnamed(n) \/ AllNamed(n) \/ RootInMaking(n))
  BY DEF DirTree, Making
<1>3. ~ AllNamed(n)
  BY <1>1 DEF AllNamed, Writing, Doing, Adding, ExpandCall, CopyCall
<1>4. CASE Unnamed(n)
  <2>1. /\ ~ Named(n) /\ OthersNamed(n)
        /\ \E x \in Directories, name \in Names :
             x < n /\ (DirInMaking(n, x, name) \/ FileInMaking(n, x, name))
    BY <1>4 DEF Unnamed
  <2>2. PICK x \in Directories, name \in Names :
          x < n /\ (DirInMaking(n, x, name) \/ FileInMaking(n, x, name))
    BY <2>1
  <2>3. n # x
    BY <2>2 DEF INodeNo
  <2>4. CASE inode[n].f_type = "DIR" /\ Doing(Dot(n), <<DotDot(n, x), ChildDir(n, x, name)>>)
    <3>1. PICK rest : rest = <<DotDot(n, x), ChildDir(n, x, name)>>
      OBVIOUS
    <3>2. rest # << >> /\ Head(rest) = DotDot(n, x) /\ Tail(rest) = <<ChildDir(n, x, name)>>
      BY <3>1, CallLists
    <3>3. Doing(Dot(n), rest)
      BY <2>4, <3>1
    <3>4. /\ EntriesTruthful' /\ NamedOnce' /\ inode'[BAD_INODE].f_type = "NONE"
          /\ Directories' = Directories /\ Last(n)' /\ NoHoles'
          /\ Named(n)' <=> Named(n)
          /\ OthersNamed(n) => OthersNamed(n)'
          /\ Doing(DotDot(n, x), Tail(rest))'
          /\ UNCHANGED <<inode, inode_bitmap>>
      BY <1>2, <3>2, <3>3, DotStored
    <3>5. Doing(DotDot(n, x), <<ChildDir(n, x, name)>>)'
      BY <3>2, <3>4
    <3>6. DirInMaking(n, x, name)'
      BY <2>4, <3>4, <3>5 DEF DirInMaking
    <3>7. Unnamed(n)'
      BY <2>1, <2>2, <3>4, <3>6 DEF Unnamed
    <3> QED  BY <3>4, <3>7 DEF DirTree, Making, BAD_INODE
  <2>5. CASE inode[n].f_type = "DIR" /\ Doing(DotDot(n, x), <<ChildDir(n, x, name)>>)
    <3>1. /\ EntriesTruthful' /\ NamedOnce' /\ inode'[BAD_INODE].f_type = "NONE"
          /\ Directories' = Directories /\ Last(n)' /\ NoHoles'
          /\ Named(n)' <=> Named(n)
          /\ OthersNamed(n) => OthersNamed(n)'
          /\ todo' = <<ChildDir(n, x, name)>> /\ UNCHANGED <<inode, inode_bitmap>>
          /\ Read(n, 1)' = DirEntry(x, "..")
      BY <1>2, <2>3, <2>5, DotDotStored
    <3>2. todo' # << >> /\ Cur' = ChildDir(n, x, name) /\ Tail(todo') = << >>
      BY <3>1, CallLists DEF Cur
    <3>3. Doing(ChildDir(n, x, name), << >>)'
      BY <3>2, DoingNow
    <3>4. DirInMaking(n, x, name)'
      BY <2>5, <3>1, <3>3 DEF DirInMaking, DirEntry
    <3>5. Unnamed(n)'
      BY <2>1, <2>2, <3>1, <3>4 DEF Unnamed
    <3> QED  BY <3>1, <3>5 DEF DirTree, Making, BAD_INODE
  <2>6. ASSUME NEW call, NEW rest, Doing(call, rest), call.ino = x, call.entry.name \in Names,
               call.entry.inode = n, call.entry.f_type = inode[n].f_type,
               inode[n].f_type = "DIR" => Read(n, 1) = DirEntry(x, ".."),
               \/ rest = << >>
               \/ /\ inode[n].f_type = "REGULAR"
                  /\ \E size \in Nat : rest = <<ExpandCall(n, size), CopyCall(n, size)>>
        PROVE  DirTree'
    <3>1. rest = << >> \/ \E size : rest = <<ExpandCall(n, size), CopyCall(n, size)>>
      BY <2>6
    <3>2. /\ EntriesTruthful' /\ NamedOnce' /\ inode'[BAD_INODE].f_type = "NONE"
          /\ Last(n)' /\ NoHoles' /\ Named(n)'
          /\ OthersNamed(n) => OthersNamed(n)'
          /\ todo' = rest /\ UNCHANGED <<inode, inode_bitmap>>
      BY <1>2, <2>1, <2>2, <2>6, <3>1, ChildStored
    <3>3. todo' = << >> \/ (inode'[n].f_type = "REGULAR" /\ Writing(n)')
      <4>1. ASSUME NEW size \in Nat, rest = <<ExpandCall(n, size), CopyCall(n, size)>>
            PROVE  Doing(ExpandCall(n, size), <<CopyCall(n, size)>>)'
        <5>1. /\ todo' # << >> /\ Cur' = ExpandCall(n, size)
              /\ Tail(todo') = <<CopyCall(n, size)>>
          BY <3>2, <4>1, CallLists DEF Cur
        <5> QED  BY <5>1, DoingNow
      <4> QED  BY <2>6, <3>2, <4>1 DEF Writing
    <3>4. AllNamed(n)'
      BY <2>1, <3>2, <3>3 DEF AllNamed
    <3> QED  BY <3>2, <3>4 DEF DirTree, Making, BAD_INODE
  <2>7. CASE /\ inode[n].f_type = "DIR" /\ Doing(ChildDir(n, x, name), << >>)
             /\ Read(n, 1) = DirEntry(x, "..")
    BY <2>6, <2>7 DEF ChildDir, AddDentryCall, DirEntry
  <2>8. CASE FileInMaking(n, x, name)
    <3>1. PICK size \in Nat :
            Doing(ChildFile(n, x, name), <<ExpandCall(n, size), CopyCall(n, size)>>)
      BY <2>8 DEF FileInMaking
    <3>2. inode[n].f_type = "REGULAR"
      BY <2>8 DEF FileInMaking
    <3>3. /\ ChildFile(n, x, name).ino = x /\ ChildFile(n, x, name).entry.name = name
          /\ ChildFile(n, x, name).entry.inode = n
          /\ ChildFile(n, x, name).entry.f_type = "REGULAR"
      BY DEF ChildFile, AddDentryCall, FileEntry
    <3> QED  BY <2>6, <3>1, <3>2, <3>3
  <2> QED  BY <2>2, <2>4, <2>5, <2>7, <2>8 DEF DirInMaking
<1>5. CASE RootInMaking(n)
  <2>1. n = ROOT_INODE /\ OthersNamed(n) /\ n \in INodeNo
    <3>1. n = ROOT_INODE
      BY <1>5 DEF RootInMaking
    <3> QED  BY <1>2, <3>1 DEF OthersNamed, Last, ROOT_INODE, BAD_INODE
  <2>2. CASE Doing(Dot(n), <<DotDot(n, n)>>)
    <3>1. /\ EntriesTruthful' /\ NamedOnce' /\ inode'[BAD_INODE].f_type = "NONE"
          /\ Directories' = Directories /\ Last(n)' /\ NoHoles'
          /\ Doing(DotDot(n, n), Tail(<<DotDot(n, n)>>))'
      BY <1>2, <2>2, CallLists, DotStored
    <3>2. Doing(DotDot(n, n), << >>)'
      BY <3>1, CallLists
    <3>3. RootInMaking(n)'
      BY <2>1, <3>2 DEF RootInMaking, ROOT_INODE
    <3> QED  BY <3>1, <3>3 DEF DirTree, Making, BAD_INODE
  <2>3. CASE Doing(DotDot(n, n), << >>)
    <3>1. n \in Directories
      <4>1. Ino = n
        BY <2>3 DEF Doing, DotDot, AddDentryCall
      <4> QED  BY <1>1, <4>1, AddingDir
    <3>2. /\ EntriesTruthful' /\ NamedOnce' /\ inode'[BAD_INODE].f_type = "NONE"
          /\ Last(n)' /\ NoHoles' /\ (OthersNamed(n) => OthersNamed(n)')
          /\ todo' = << >>
      BY <1>2, <2>3, <3>1, DotDotStored
    <3>3. AllNamed(n)'
      BY <2>1, <3>2 DEF AllNamed, ROOT_INODE
    <3> QED  BY <3>2, <3>3 DEF DirTree, Making, BAD_INODE
  <2> QED  BY <1>5, <2>2, <2>3 DEF RootInMaking
<1> QED  BY <1>2, <1>3, <1>4, <1>5

----------------------------------------------------------------------------
(* A new inode, before anything is stored in it or about it.               *)

LEMMA NextINode ==
  ASSUME NEW n \in INodeNo, NEW k \in INodeNo, Last(k),
         FirstAvailable(n, INodeBit \ inode_bitmap)
  PROVE  n = k + 1 /\ inode_bitmap \cup {n} = 0 .. n
<1>1. n \in INodeBit /\ n \notin 0 .. k /\ k \in Nat /\ n \in Nat
  BY DEF FirstAvailable, Last, INodeNo
<1>2. k + 1 \in INodeBit \ inode_bitmap
  BY <1>1, INodeAssumption DEF INodeBit, Last
<1>3. n <= k + 1
  BY <1>2 DEF FirstAvailable
<1> QED  BY <1>1, <1>3 DEF Last

LEMMA NewINode ==
  ASSUME BlockWalk, DirTree, todo = << >>, NEW n \in INodeNo, NEW node, AllocINode(n, node)
  PROVE  /\ SameRead /\ Last(n)' /\ n \notin inode_bitmap
         /\ \A p \in Nat : ~ Entry(n, p)'
         /\ inode'[n] = node /\ \A m \in INodeNo : m # n => inode'[m] = inode[m]
         /\ inode'[BAD_INODE].f_type = "NONE"
         /\ \A c \in Directories' : c \in Directories \/ c = n
         /\ Directories \subseteq Directories' /\ \A d \in Directories : d < n
         /\ EntriesTruthful' /\ NamedOnce' /\ ~ Named(n)' /\ OthersNamed(n)'
<1>1. Ownership /\ NullTable /\ inode \in [INodeNo -> INode]
  BY DEF BlockWalk, Ownership, TypeOK
<1>2. /\ FirstAvailable(n, INodeBit \ inode_bitmap) /\ n \notin inode_bitmap
      /\ inode_bitmap' = inode_bitmap \cup {n} /\ inode' = [inode EXCEPT ![n] = node]
  BY DEF AllocINode, FirstAvailable
<1>3. PICK k \in INodeNo : Last(k) /\ (Unnamed(k) \/ AllNamed(k) \/ RootInMaking(k))
  BY DEF DirTree, Making
<1>4. AllNamed(k)
  BY <1>3 DEF Unnamed, RootInMaking, DirInMaking, FileInMaking, Doing
<1>5. /\ n = k + 1 /\ inode_bitmap' = 0 .. n /\ k \in Nat /\ inode_bitmap = 0 .. k
      /\ inode_bitmap \subseteq INodeNo
  <2>1. n = k + 1 /\ inode_bitmap \cup {n} = 0 .. n
    BY <1>2, <1>3, NextINode
  <2>2. inode_bitmap \subseteq INodeNo /\ inode_bitmap = 0 .. k /\ k \in Nat
    BY <1>3, LastUsed DEF Last, INodeNo
  <2> QED  BY <1>2, <2>1, <2>2
<1>6. Last(n)'
  BY <1>3, <1>5 DEF Last, INodeNo, ROOT_INODE
<1>7. SameRead
  BY <1>1, AllocINodeRead
<1>8. \A p \in Nat : ~ Entry(n, p)'
  <2>1. \A l \in PtrIdx : blk_no[n][l] = BAD_BLOCK
    BY <1>1, <1>2 DEF Ownership, FreshIsZero
  <2>2. \A p \in Nat : ~ Entry(n, p)
    BY <1>1, <2>1, EmptyRead
  <2> QED  BY <1>7, <2>2 DEF Entry, SameRead, BAD_INODE
<1>9. /\ inode'[n] = node /\ \A m \in INodeNo : m # n => inode'[m] = inode[m]
      /\ inode'[BAD_INODE].f_type = "NONE"
  BY <1>1, <1>2, <1>5, Sorts DEF DirTree, BAD_INODE
<1>10. /\ \A c \in Directories' : c \in Directories \/ c = n
       /\ Directories \subseteq Directories' /\ \A d \in Directories : d < n
  BY <1>2, <1>5, <1>9 DEF Directories
<1>11. EntriesTruthful'
  <2> SUFFICES ASSUME NEW c \in Directories', NEW p \in Nat, Entry(c, p)'
               PROVE  Truthful(c, p)'
    BY DEF EntriesTruthful
  <2>1. c \in Directories /\ c \in INodeNo
    BY <1>8, <1>10 DEF Directories
  <2>2. Read(c, p)' = Read(c, p) /\ Entry(c, p)
    BY <1>7, <2>1 DEF SameRead, Entry, BAD_INODE
  <2>3. Truthful(c, p)
    BY <2>1, <2>2 DEF DirTree, EntriesTruthful
  <2>4. PICK x \in INodeNo : x = Read(c, p).inode
    BY <1>1, <2>1, ReadType DEF DEntry
  <2>5. Read(x, 1)' = Read(x, 1) /\ (x \in inode_bitmap => inode'[x] = inode[x])
    BY <1>2, <1>7, <1>9 DEF SameRead
  <2> QED  BY <1>2, <2>2, <2>3, <2>4, <2>5 DEF Truthful, DirEntry
<1>12. \A m \in INodeNo, d \in Directories', p \in Nat :
         NamedAt(m, d, p)' => d \in Directories /\ NamedAt(m, d, p)
  BY <1>7, <1>8, <1>10 DEF NamedAt, SameRead, Entry, Directories, BAD_INODE
<1>13. NamedOnce'
  BY <1>12 DEF NamedOnce, DirTree
<1>14. ~ Named(n)'
  <2> SUFFICES ASSUME NEW d \in Directories, NEW p \in Nat, NamedAt(n, d, p) PROVE FALSE
    BY <1>12 DEF Named
  <2>1. Truthful(d, p)
    BY DEF NamedAt, DirTree, EntriesTruthful
  <2> QED  BY <1>2, <2>1 DEF NamedAt, Truthful
<1>15. \A m \in INodeNo : Named(m) => Named(m)'
  BY <1>7, <1>10 DEF Named, NamedAt, SameRead, Entry, Directories, BAD_INODE
<1>16. OthersNamed(n)'
  <2> SUFFICES ASSUME NEW x \in 0 .. n, x # BAD_INODE, x # ROOT_INODE, x # n PROVE Named(x)'
    BY <1>5 DEF OthersNamed, BAD_INODE, ROOT_INODE
  <2>1. x \in 0 .. k /\ x \in INodeNo
    BY <1>5
  <2>2. Named(x)
    BY <1>3, <1>4, <1>5, <2>1 DEF AllNamed, OthersNamed
  <2> QED  BY <1>15, <2>1, <2>2
<1> QED  BY <1>2, <1>6, <1>7, <1>8, <1>9, <1>10, <1>11, <1>13, <1>14, <1>16

LEMMA TopIsDir ==
  ASSUME Ownership, DirsAreDirs, Between PROVE Top.dir \in Directories
<1>1. TypeOK /\ stack # << >> /\ stack \in Seq(Frame) /\ Len(stack) \in 1 .. Len(stack)
  BY EmptySeq DEF Between, Ownership, TypeOK
<1>2. Top \in Frame
  BY <1>1, ElementOfSeq DEF Top
<1>3. Top.dir \in INodeNo
  BY <1>2 DEF Frame
<1> QED  BY <1>1, <1>3 DEF Top, Directories, DirsAreDirs, Ownership, INodesInUse

LEMMA StoredKept ==
  ASSUME SameRead, NEW c \in INodeNo, NEW m \in Nat, Stored(c, m) PROVE Stored(c, m)'
BY DEF SameRead, Stored, Entry, BAD_INODE

LEMMA MakeDirTree ==
  ASSUME BlockWalk, DirTree, NEW name \in Names, MakeDir(name) PROVE DirTree'
<1>1. PICK n \in INodeNo :
        /\ AllocINode(n, NewDir)
        /\ todo' = Append(DotCalls(n, Top.dir), AddDentryCall(Top.dir, DirEntry(n, name)))
  BY DEF MakeDir
<1>2. TypeOK /\ Ownership /\ Between /\ todo = << >>
  BY DEF MakeDir, Between, BlockWalk, Ownership
<1>3. PICK d : d = Top.dir
  OBVIOUS
<1>4. d \in Directories
  BY <1>2, <1>3, TopIsDir DEF BlockWalk
<1>5. /\ SameRead /\ Last(n)' /\ n \notin inode_bitmap
      /\ \A p \in Nat : ~ Entry(n, p)'
      /\ inode'[n] = NewDir /\ \A m \in INodeNo : m # n => inode'[m] = inode[m]
      /\ inode'[BAD_INODE].f_type = "NONE"
      /\ \A c \in Directories' : c \in Directories \/ c = n
      /\ Directories \subseteq Directories' /\ \A c \in Directories : c < n
      /\ EntriesTruthful' /\ NamedOnce' /\ ~ Named(n)' /\ OthersNamed(n)'
  BY <1>1, <1>2, NewINode
<1>6. todo' = <<Dot(n), DotDot(n, d), ChildDir(n, d, name)>>
  <2>1. todo' = Append(<<Dot(n), DotDot(n, d)>>, ChildDir(n, d, name))
    BY <1>1, <1>3 DEF DotCalls, Dot, DotDot, ChildDir
  <2> QED  BY <2>1, ThreeCalls
<1>7. /\ todo' # << >> /\ Cur' = Dot(n)
      /\ Tail(todo') = <<DotDot(n, d), ChildDir(n, d, name)>>
  BY <1>6, CallLists DEF Cur
<1>8. Doing(Dot(n), <<DotDot(n, d), ChildDir(n, d, name)>>)'
  BY <1>7, DoingNow
<1>9. inode'[n].f_type = "DIR" /\ inode'[n].f_size = 2
  BY <1>5 DEF NewDir
<1>10. DirInMaking(n, d, name)'
  BY <1>8, <1>9 DEF DirInMaking
<1>11. Unnamed(n)'
  BY <1>4, <1>5, <1>10 DEF Unnamed
<1>12. Making'
  BY <1>5, <1>11 DEF Making
<1>13. Adding' /\ Ino' = n /\ Cur'.pos = 0 /\ Cur'.entry.name = "."
  BY <1>7 DEF Adding, Ino, Dot, AddDentryCall, DirEntry
<1>14. Stored(n, 0)' /\ Filled(n, 0)'
  <2>1. Stored(n, 0)'
    BY <1>5 DEF Stored
  <2>2. Filled(n, 0)'
    BY <1>9, <1>13, NamesApart DEF Filled, Probing
  <2> QED  BY <2>1, <2>2
<1>15. ASSUME NEW c \in Directories PROVE \E m \in Nat : Stored(c, m)' /\ Filled(c, m)'
  <2>1. c \in INodeNo /\ c # n
    BY <1>5 DEF Directories
  <2>2. PICK m \in Nat : Stored(c, m) /\ Filled(c, m)
    BY DEF DirTree, NoHoles
  <2>3. 2 <= m /\ m = inode'[c].f_size
    BY <1>2, <1>5, <2>1, <2>2 DEF Filled, Adding
  <2>4. Filled(c, m)'
    BY <1>13, <2>1, <2>3 DEF Filled
  <2>5. Stored(c, m)'
    BY <1>5, <2>1, <2>2, StoredKept
  <2> QED  BY <2>4, <2>5
<1>16. NoHoles'
  BY <1>5, <1>14, <1>15 DEF NoHoles
<1> QED  BY <1>5, <1>12, <1>16 DEF DirTree, BAD_INODE

LEMMA MakeFileTree ==
  ASSUME BlockWalk, DirTree, NEW name \in Names, NEW size \in FileSizes, MakeFile(name, size)
  PROVE  DirTree'
<1>1. PICK n \in INodeNo :
        /\ AllocINode(n, NewFile)
        /\ todo' = <<AddDentryCall(Top.dir, FileEntry(n, name)),
                     ExpandCall(n, size), CopyCall(n, size)>>
  BY DEF MakeFile
<1>2. TypeOK /\ Ownership /\ Between /\ todo = << >> /\ size \in Nat
  BY HostAssumption DEF MakeFile, Between, BlockWalk, Ownership
<1>3. PICK d : d = Top.dir
  OBVIOUS
<1>4. d \in Directories
  BY <1>2, <1>3, TopIsDir DEF BlockWalk
<1>5. /\ SameRead /\ Last(n)' /\ n \notin inode_bitmap
      /\ inode'[n] = NewFile /\ \A m \in INodeNo : m # n => inode'[m] = inode[m]
      /\ inode'[BAD_INODE].f_type = "NONE"
      /\ \A c \in Directories' : c \in Directories \/ c = n
      /\ Directories \subseteq Directories' /\ \A c \in Directories : c < n
      /\ EntriesTruthful' /\ NamedOnce' /\ ~ Named(n)' /\ OthersNamed(n)'
  BY <1>1, <1>2, NewINode
<1>6. inode'[n].f_type = "REGULAR"
  BY <1>5 DEF NewFile
<1>7. Directories' = Directories
  BY <1>5, <1>6 DEF Directories
<1>8. todo' = <<ChildFile(n, d, name), ExpandCall(n, size), CopyCall(n, size)>>
  BY <1>1, <1>3 DEF ChildFile
<1>9. /\ todo' # << >> /\ Cur' = ChildFile(n, d, name)
      /\ Tail(todo') = <<ExpandCall(n, size), CopyCall(n, size)>>
  BY <1>8, CallLists DEF Cur
<1>10. Doing(ChildFile(n, d, name), <<ExpandCall(n, size), CopyCall(n, size)>>)'
  BY <1>9, DoingNow
<1>11. FileInMaking(n, d, name)'
  BY <1>2, <1>6, <1>10 DEF FileInMaking
<1>12. Unnamed(n)'
  BY <1>4, <1>5, <1>11 DEF Unnamed
<1>13. Making'
  BY <1>5, <1>12 DEF Making
<1>14. Cur'.pos = 0 /\ Cur'.entry.name = name
  BY <1>9 DEF ChildFile, AddDentryCall, FileEntry
<1>15. ASSUME NEW c \in Directories PROVE \E m \in Nat : Stored(c, m)' /\ Filled(c, m)'
  <2>1. c \in INodeNo /\ c # n
    BY <1>5 DEF Directories
  <2>2. PICK m \in Nat : Stored(c, m) /\ Filled(c, m)
    BY DEF DirTree, NoHoles
  <2>3. 2 <= m /\ m = inode'[c].f_size
    BY <1>2, <1>5, <2>1, <2>2 DEF Filled, Adding
  <2>4. Probing(m)' \/ ~ (Adding' /\ Ino' = c)
    BY <1>14, <2>3, NamesApart DEF Probing
  <2>5. Filled(c, m)'
    BY <2>3, <2>4 DEF Filled
  <2>6. Stored(c, m)'
    BY <1>5, <2>1, <2>2, StoredKept
  <2> QED  BY <2>5, <2>6
<1>16. NoHoles'
  BY <1>7, <1>15 DEF NoHoles
<1> QED  BY <1>5, <1>13, <1>16 DEF DirTree, BAD_INODE

----------------------------------------------------------------------------
(* Every step, and the start.                                              *)

LEMMA StepTree == ASSUME BlockWalk, DirTree, [Next]_vars PROVE DirTree'
<1>1. Ownership
  BY DEF BlockWalk
<1>2. ASSUME UNCHANGED <<blk_no, table, dentry, inode, inode_bitmap, todo, stage>>
      PROVE  DirTree'
  BY <1>1, <1>2, UntouchedRead, KeptTree
<1>3. CASE GetBlknoStep
  <2>1. CASE CallGetBlkno
    BY <2>1, CallGetBlknoTree
  <2>2. CASE ~ CallGetBlkno
    BY <1>1, <1>3, <2>2, LoopsKeepTree, KeptTree
  <2> QED  BY <2>1, <2>2
<1>4. CASE CallerStep
  BY <1>4, NextDentryTree, StoreDentryTree, WriteTree DEF CallerStep
<1>5. CASE \E name \in Names : MakeDir(name)
  BY <1>5, MakeDirTree
<1>6. CASE \E name \in Names, size \in FileSizes : MakeFile(name, size)
  BY <1>6, MakeFileTree
<1>7. CASE INodeOverrun \/ NameTooLong \/ LeaveDir
  BY <1>2, <1>7 DEF INodeOverrun, NameTooLong, LeaveDir, Halt, alloc_vars
<1>8. CASE UNCHANGED vars
  BY <1>2, <1>8 DEF vars, alloc_vars
<1> QED
  BY <1>3, <1>4, <1>5, <1>6, <1>7, <1>8 DEF Next, HostStep

LEMMA InitTree == ASSUME Init PROVE DirTree
<1>1. BlockWalk /\ Ownership /\ NullTable
  BY InitWalk DEF BlockWalk
<1>2. /\ inode_bitmap = {BAD_INODE, ROOT_INODE} /\ todo = DotCalls(ROOT_INODE, ROOT_INODE)
      /\ blk_no = [n \in INodeNo |-> ZeroPtrs]
      /\ inode = [n \in INodeNo |-> IF n = ROOT_INODE THEN NewDir ELSE ZeroINode]
  BY DEF Init
<1>3. /\ inode[ROOT_INODE] = NewDir /\ inode[BAD_INODE].f_type = "NONE"
      /\ Directories = {ROOT_INODE}
  BY <1>2, Sorts DEF Directories, NewDir, ZeroINode, ROOT_INODE, BAD_INODE
<1>4. \A p \in Nat : ~ Entry(ROOT_INODE, p)
  <2>1. \A k \in PtrIdx : blk_no[ROOT_INODE][k] = BAD_BLOCK
    BY <1>2, Sorts DEF ZeroPtrs
  <2> QED  BY <1>1, <2>1, Sorts, EmptyRead
<1>5. EntriesTruthful /\ NamedOnce
  BY <1>3, <1>4 DEF EntriesTruthful, NamedOnce, NamedAt
<1>6. todo = <<Dot(ROOT_INODE), DotDot(ROOT_INODE, ROOT_INODE)>>
  BY <1>2 DEF DotCalls, Dot, DotDot
<1>7. /\ todo # << >> /\ Cur = Dot(ROOT_INODE)
      /\ Tail(todo) = <<DotDot(ROOT_INODE, ROOT_INODE)>>
  BY <1>6, CallLists DEF Cur
<1>8. Doing(Dot(ROOT_INODE), <<DotDot(ROOT_INODE, ROOT_INODE)>>)
  BY <1>7 DEF Doing, Ino
<1>9. Making
  <2>1. Last(ROOT_INODE)
    BY <1>2, Sorts DEF Last, BAD_INODE, ROOT_INODE
  <2> QED  BY <1>8, <2>1, Sorts DEF Making, RootInMaking
<1>10. Adding /\ Ino = ROOT_INODE /\ Cur.pos = 0 /\ Cur.entry.name = "."
  BY <1>7 DEF Adding, Ino, Dot, AddDentryCall, DirEntry
<1>11. Filled(ROOT_INODE, 0)
  BY <1>3, <1>10, NamesApart DEF Filled, Probing, NewDir
<1>12. Stored(ROOT_INODE, 0)
  BY <1>4 DEF Stored
<1>13. NoHoles
  BY <1>3, <1>11, <1>12 DEF NoHoles
<1> QED  BY <1>3, <1>5, <1>9, <1>13 DEF DirTree

(* At every step of the builder, whatever loop it is in: the entries of a  *)
(* directory are at its first positions, "." and ".." before the others,   *)
(* each names an inode after its own directory, and no two the same one.   *)
THEOREM ShapeHolds == Spec => []Shape
<1>1. Init => Shape
  BY InitWalk, InitTree DEF Shape
<1>2. Shape /\ [Next]_vars => Shape'
  BY StepWalk, StepTree DEF Shape
<1> QED  BY <1>1, <1>2, PTL DEF Spec

LEMMA EntryFound ==
  ASSUME NEW n, NEW p, Entry(n, p) PROVE DEntryAt(n, p) = Read(n, p)
<1>1. CASE Has(n, p)
  BY <1>1 DEF Read
<1>2. CASE ~ Has(n, p)
  BY <1>2 DEF Entry, Read, ZeroDEntry
<1> QED  BY <1>1, <1>2

LEMMA ShapeOfTree == ASSUME Shape PROVE TreeShape
<1> SUFFICES ASSUME todo = << >>
             PROVE  /\ \A d \in Directories :
                         /\ DEntryAt(d, 0) = DirEntry(d, ".")
                         /\ DEntryAt(d, 1).name = ".."
                         /\ \A p \in 2 .. inode[d].f_size - 1 : DEntryAt(d, p).name \in Names
                    /\ \A n \in inode_bitmap \ {BAD_INODE, ROOT_INODE} :
                         \E d \in Directories, p \in 2 .. INODE_COUNT :
                           /\ p < inode[d].f_size /\ d < n
                           /\ DEntryAt(d, p).inode = n
                           /\ DEntryAt(d, p).f_type = inode[n].f_type
                           /\ inode[n].f_type = "DIR" => DEntryAt(n, 1) = DirEntry(d, "..")
                           /\ \A c \in Directories : \A q \in 2 .. inode[c].f_size - 1 :
                                DEntryAt(c, q).inode = n => c = d /\ q = p
  BY DEF TreeShape
<1>1. Ownership /\ DirTree /\ ~ Adding
  BY DEF Shape, BlockWalk, Adding
<1>2. ASSUME NEW d \in Directories
      PROVE  /\ inode[d].f_size \in Nat /\ 2 <= inode[d].f_size
             /\ \A p \in Nat : Entry(d, p) <=> p < inode[d].f_size
  <2>1. PICK m \in Nat : Stored(d, m) /\ Filled(d, m)
    BY <1>1 DEF DirTree, NoHoles
  <2> QED  BY <1>1, <2>1 DEF Filled, Stored
<1>3. ASSUME NEW d \in Directories, NEW p \in Nat, p < inode[d].f_size
      PROVE  DEntryAt(d, p) = Read(d, p) /\ Truthful(d, p)
  BY <1>1, <1>2, <1>3, EntryFound DEF DirTree, EntriesTruthful
<1>4. ASSUME NEW d \in Directories
      PROVE  /\ DEntryAt(d, 0) = DirEntry(d, ".")
             /\ DEntryAt(d, 1).name = ".."
             /\ \A p \in 2 .. inode[d].f_size - 1 : DEntryAt(d, p).name \in Names
  BY <1>2, <1>3 DEF Truthful
<1>5. PICK k \in INodeNo : Last(k) /\ (Unnamed(k) \/ AllNamed(k) \/ RootInMaking(k))
  BY <1>1 DEF DirTree, Making
<1>6. AllNamed(k)
  BY <1>5 DEF Unnamed, RootInMaking, DirInMaking, FileInMaking, Doing
<1>7. ASSUME NEW n \in inode_bitmap \ {BAD_INODE, ROOT_INODE}
      PROVE  \E d \in Directories, p \in 2 .. INODE_COUNT :
               /\ p < inode[d].f_size /\ d < n
               /\ DEntryAt(d, p).inode = n
               /\ DEntryAt(d, p).f_type = inode[n].f_type
               /\ inode[n].f_type = "DIR" => DEntryAt(n, 1) = DirEntry(d, "..")
               /\ \A c \in Directories : \A q \in 2 .. inode[c].f_size - 1 :
                    DEntryAt(c, q).inode = n => c = d /\ q = p
  <2>1. n \in INodeNo /\ Named(n)
    BY <1>5, <1>6, LastUsed DEF AllNamed, OthersNamed
  <2>2. PICK d \in Directories, p \in Nat : NamedAt(n, d, p)
    BY <2>1 DEF Named
  <2>3. 2 <= p /\ Entry(d, p) /\ Read(d, p).inode = n /\ p < inode[d].f_size
    BY <1>2, <2>2 DEF NamedAt
  <2>4. DEntryAt(d, p) = Read(d, p) /\ Truthful(d, p)
    BY <1>3, <2>3
  <2>5. /\ d < n /\ p <= n /\ DEntryAt(d, p).inode = n
        /\ DEntryAt(d, p).f_type = inode[n].f_type
        /\ inode[n].f_type = "DIR" => Read(n, 1) = DirEntry(d, "..")
    BY <2>3, <2>4 DEF Truthful
  <2>6. p \in 2 .. INODE_COUNT
    BY <2>1, <2>3, <2>5, INodeAssumption DEF INodeNo
  <2>7. d # BAD_INODE
    BY <1>1 DEF Directories, DirTree
  <2>8. ASSUME inode[n].f_type = "DIR" PROVE DEntryAt(n, 1) = DirEntry(d, "..")
    <3>1. Entry(n, 1)
      BY <2>5, <2>7, <2>8 DEF Entry, DirEntry
    <3> QED  BY <2>5, <2>8, <3>1, EntryFound
  <2>9. ASSUME NEW c \in Directories, NEW q \in 2 .. inode[c].f_size - 1, DEntryAt(c, q).inode = n
        PROVE  c = d /\ q = p
    <3>1. q \in Nat /\ 2 <= q /\ q < inode[c].f_size
      BY <1>2
    <3>2. NamedAt(n, c, q)
      BY <1>2, <1>3, <2>9, <3>1 DEF NamedAt
    <3> QED  BY <1>1, <2>1, <2>2, <3>1, <3>2 DEF DirTree, NamedOnce
  <2> QED  BY <2>3, <2>5, <2>6, <2>8, <2>9
<1> QED  BY <1>4, <1>7

(* Between two host entries the image holds a tree: every directory is "." *)
(* and ".." and its children, without a hole, and every inode but the root *)
(* has exactly one name, in the directory that its own ".." names.         *)
THEOREM DirectoriesAreTree == Spec => []TreeShape
<1>1. Shape => TreeShape
  BY ShapeOfTree
<1> QED  BY <1>1, ShapeHolds, PTL

=============================================================================

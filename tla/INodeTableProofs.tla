-------------------------- MODULE INodeTableProofs --------------------------
(***************************************************************************)
(* The inode bitmap before and after the inode list overruns, for lists,   *)
(* nodes and bitmaps of any size: until then it marks exactly the numbers  *)
(* that were handed out, and it is reported full only if it is as long as  *)
(* the list.  The second rests on one node: SelfOverlaid lies over its own *)
(* bit, no other node lies over that bit, and so as long as make_fs runs   *)
(* it is not marked.                                                       *)
(***************************************************************************)
EXTENDS MCINodeTable, SequenceTheorems, TLAPS

SelfOverlaid == INODE_COUNT + INODE_COUNT \div (NODE_BITS - 1)

Types ==
  /\ inode_bits \in BitmapSizes
  /\ inode_bitmap \subseteq Int
  /\ f_type \in [INodeNo -> {"NONE", "DIR", "REGULAR"}]
  /\ handed \subseteq INodeBit
  /\ path \in Seq(handed)
  /\ status = "run" => path # <<>>

(* The root inode was handed out before the first step, BAD_INODE never    *)
(* is while the bitmap is the bitmap.                                      *)
Table ==
  /\ Types
  /\ SoundBeforeOverrun
  /\ ROOT_INODE \in handed /\ (~ Overrun => BAD_INODE \notin handed)
  /\ status = "run" /\ inode_bits # INODE_COUNT => SelfOverlaid \notin inode_bitmap
  /\ FullReported

----------------------------------------------------------------------------
(* Where nodes lie.                                                        *)

LEMMA Sizes ==
  /\ INODE_COUNT \in Nat /\ 1 < INODE_COUNT /\ NODE_BITS \in Nat /\ 2 <= NODE_BITS
  /\ \A b \in BitmapSizes : b \in Nat /\ INODE_COUNT <= b
  /\ PermBits \cup OtherBits \cup {DirBit, FileBit} \subseteq 0 .. NODE_BITS - 1
  BY SizesAssumption, FieldsAssumption

LEMMA NodesApart ==
  ASSUME NEW a \in Nat, NEW b \in Nat, a < b
  PROVE  a * NODE_BITS + NODE_BITS <= b * NODE_BITS
  <1> DEFINE d == b - (a + 1)
  <1>1. d \in Nat /\ b = (a + 1) + d
    OBVIOUS
  <1>2. d * NODE_BITS >= 0
    BY <1>1, Sizes
  <1>3. b * NODE_BITS = a * NODE_BITS + NODE_BITS + d * NODE_BITS
    BY <1>1, Sizes
  <1> QED BY <1>1, <1>2, <1>3, Sizes

(* Two nodes past the list lie over different bits.                        *)
LEMMA OverlaysDisjoint ==
  ASSUME NEW m \in Nat, NEW n \in Nat, IsOverlay(m), IsOverlay(n), m # n,
         NEW i \in 0 .. NODE_BITS - 1, NEW j \in 0 .. NODE_BITS - 1
  PROVE  OverlayBit(m, i) # OverlayBit(n, j)
  <1> DEFINE a == m - INODE_COUNT  b == n - INODE_COUNT
  <1>1. a \in Nat /\ b \in Nat /\ (a < b \/ b < a)
    BY Sizes DEF IsOverlay
  <1>2. a < b => a * NODE_BITS + NODE_BITS <= b * NODE_BITS
    BY <1>1, NodesApart
  <1>3. b < a => b * NODE_BITS + NODE_BITS <= a * NODE_BITS
    BY <1>1, NodesApart
  <1>4. a * NODE_BITS \in Int /\ b * NODE_BITS \in Int
    BY <1>1, Sizes
  <1>5. OverlayBit(m, i) = a * NODE_BITS + i /\ OverlayBit(n, j) = b * NODE_BITS + j
    BY DEF OverlayBit
  <1> HIDE DEF a, b
  <1> QED BY <1>1, <1>2, <1>3, <1>4, <1>5, Sizes

LEMMA OverlaysItself ==
  /\ SelfOverlaid \in Nat /\ IsOverlay(SelfOverlaid)
  /\ SelfOverlaid \in Overlay(SelfOverlaid)
  <1> DEFINE k == INODE_COUNT \div (NODE_BITS - 1)
             i == SelfOverlaid - k * NODE_BITS
  <1>1. k \in Nat /\ k * (NODE_BITS - 1) <= INODE_COUNT
        /\ INODE_COUNT < k * (NODE_BITS - 1) + (NODE_BITS - 1)
    <2> DEFINE d == NODE_BITS - 1
    <2>1. d \in Nat /\ d > 0
      BY Sizes
    <2>2. /\ INODE_COUNT \div d \in Nat
          /\ d * (INODE_COUNT \div d) <= INODE_COUNT
          /\ INODE_COUNT < d * (INODE_COUNT \div d) + d
      <3> HIDE DEF d
      <3> QED BY <2>1, Sizes
    <2> HIDE DEF d
    <2>3. d * (INODE_COUNT \div d) = (INODE_COUNT \div d) * d
      BY <2>1, <2>2
    <2> QED BY <2>1, <2>2, <2>3, Sizes DEF d
  <1>2. k * (NODE_BITS - 1) = k * NODE_BITS - k /\ k * NODE_BITS \in Nat
    BY <1>1, Sizes
  <1>3. SelfOverlaid = INODE_COUNT + k
    BY DEF SelfOverlaid
  <1> HIDE DEF k
  <1>4. i \in 0 .. NODE_BITS - 1
    BY <1>1, <1>2, <1>3, Sizes
  <1>5. SelfOverlaid = OverlayBit(SelfOverlaid, i)
    BY <1>1, <1>2, <1>3, Sizes DEF OverlayBit
  <1> QED BY <1>1, <1>3, <1>4, <1>5, Sizes DEF Overlay, IsOverlay

(* So what is written to another node does not touch that node's bit.      *)
LEMMA OthersSpareIt ==
  ASSUME NEW n \in Nat, IsOverlay(n), n # SelfOverlaid
  PROVE  SelfOverlaid \notin Overlay(n)
  <1>1. PICK i \in 0 .. NODE_BITS - 1 : SelfOverlaid = OverlayBit(SelfOverlaid, i)
    BY OverlaysItself DEF Overlay
  <1> QED BY <1>1, OverlaysItself, OverlaysDisjoint DEF Overlay

----------------------------------------------------------------------------
(* What alloc_inode and the writes to the node it returned do.             *)

Kinds == {<<"DIR", DirBit>>, <<"REGULAR", FileBit>>}

LEMMA Allocated ==
  ASSUME Table, NEW n \in INodeBit, NEW kind \in Kinds,
         AllocINode(n, kind[1], kind[2])
  PROVE  /\ n \in Nat /\ n \notin inode_bitmap
         /\ handed' = handed \cup {n}
         /\ f_type' \in [INodeNo -> {"NONE", "DIR", "REGULAR"}]
         /\ inode_bitmap' \subseteq Int
  <1>1. inode_bits \in Nat /\ kind[1] \in {"DIR", "REGULAR"} /\ kind[2] \in {DirBit, FileBit}
    BY Sizes DEF Kinds, Table, Types
  <1>2. n \in Nat /\ n \notin inode_bitmap /\ handed' = handed \cup {n}
    BY <1>1 DEF AllocINode, FirstAvailable, INodeBit
  <1>3. f_type' \in [INodeNo -> {"NONE", "DIR", "REGULAR"}]
    BY <1>1 DEF AllocINode, Table, Types
  <1>4. PICK others \in SUBSET OtherBits :
          inode_bitmap' = AfterFields(n, kind[2], others) \/ inode_bitmap' = AfterFields(n, kind[2], {})
    BY DEF AllocINode
  <1>5. \A i \in PermBits \cup {kind[2]} \cup others : OverlayBit(n, i) \in Int
    BY <1>1, <1>2, Sizes DEF OverlayBit
  <1>6. AfterAlloc(n) \subseteq Int
    <2>1. AfterAlloc(n) \subseteq inode_bitmap \cup {n}
      BY DEF AfterAlloc
    <2>2. inode_bitmap \subseteq Int
      BY DEF Table, Types
    <2>3. n \in Int
      BY <1>2
    <2> QED BY <2>1, <2>2, <2>3
  <1>7. inode_bitmap' \subseteq Int
    BY <1>4, <1>5, <1>6 DEF AfterFields
  <1> QED BY <1>2, <1>3, <1>7

(* Within the list, the bitmap gains the node's bit and nothing else.      *)
LEMMA AllocatedInList ==
  ASSUME NEW n, NEW type, NEW typeBit, AllocINode(n, type, typeBit), ~ IsOverlay(n)
  PROVE  /\ inode_bitmap' = inode_bitmap \cup {n}
         /\ AfterAlloc(n) = inode_bitmap \cup {n}
         /\ f_type' = [f_type EXCEPT ![n] = type]
  BY DEF AllocINode, AfterFields, AfterAlloc

(* The node over its own bit clears it, and no other node sets it.         *)
LEMMA ItselfUnmarked ==
  SelfOverlaid \notin AfterAlloc(SelfOverlaid)
  BY OverlaysItself DEF AfterAlloc

LEMMA OthersLeaveItUnmarked ==
  ASSUME Table, NEW n \in Nat, n # SelfOverlaid, NEW kind \in Kinds,
         AllocINode(n, kind[1], kind[2]), SelfOverlaid \notin inode_bitmap
  PROVE  SelfOverlaid \notin inode_bitmap'
  <1>1. CASE ~ IsOverlay(n)
    BY <1>1, AllocatedInList
  <1>2. CASE IsOverlay(n)
    <2>1. PICK others \in SUBSET OtherBits : inode_bitmap' = AfterFields(n, kind[2], others)
      BY <1>2 DEF AllocINode
    <2>2. SelfOverlaid \notin AfterAlloc(n)
      BY <1>2 DEF AfterAlloc
    <2>3. PermBits \cup {kind[2]} \cup others \subseteq 0 .. NODE_BITS - 1
      BY Sizes DEF Kinds
    <2>4. \A i \in PermBits \cup {kind[2]} \cup others : OverlayBit(n, i) \in Overlay(n)
      BY <2>3 DEF Overlay
    <2>5. SelfOverlaid \notin Overlay(n)
      BY <1>2, OthersSpareIt
    <2> QED BY <1>2, <2>1, <2>2, <2>4, <2>5 DEF AfterFields
  <1> QED BY <1>1, <1>2

----------------------------------------------------------------------------
(* The steps                                                               *)

(* A path stays one of numbers handed out.                                 *)
LEMMA PathTypes ==
  ASSUME NEW S, NEW T, S \subseteq T, NEW p \in Seq(S), NEW n \in T
  PROVE  p \in Seq(T) /\ Append(p, n) \in Seq(T) /\ Append(p, n) # <<>>
  OBVIOUS

(* The parent of what is made is what make_fs is inside of.                *)
LEMMA ParentKnown ==
  ASSUME Table, status = "run"
  PROVE  /\ path \in Seq(handed) /\ Len(path) \in Nat /\ Len(path) >= 1
         /\ Parent \in handed
         /\ ~ Overrun => Parent \in inode_bitmap /\ f_type[Parent] = "DIR"
  <1>1. path \in Seq(handed) /\ path # <<>>
    BY DEF Table, Types
  <1>2. Len(path) \in 1 .. Len(path) /\ Len(path) \in Nat
    BY <1>1
  <1> QED BY <1>1, <1>2 DEF Parent, Table, SoundBeforeOverrun

(* An allocation before the overrun, and the dentry in the parent: what    *)
(* make_dir and make_file have in common.                                  *)
LEMMA SoundAllocation ==
  ASSUME Table, status = "run", NEW n \in INodeBit, NEW kind \in Kinds,
         AllocINode(n, kind[1], kind[2]), ~ Overrun'
  PROVE  /\ ~ Overrun /\ n \notin handed /\ n \in AfterAlloc(n) /\ n # ROOT_INODE
         /\ inode_bitmap' = handed' \cup {BAD_INODE} /\ BAD_INODE \notin handed'
         /\ \A m \in handed : f_type'[m] = f_type[m]
         /\ f_type'[n] = kind[1]
         /\ Parent \in inode_bitmap' /\ ParentIsDir = {TRUE}
  <1>1. n \in Nat /\ n \notin inode_bitmap /\ handed' = handed \cup {n}
    BY Allocated
  <1>2. ~ Overrun /\ ~ IsOverlay(n) /\ \A m \in handed : ~ IsOverlay(m)
    BY <1>1 DEF Overrun
  <1>3. /\ inode_bitmap' = inode_bitmap \cup {n} /\ AfterAlloc(n) = inode_bitmap \cup {n}
        /\ f_type' = [f_type EXCEPT ![n] = kind[1]]
    BY <1>2, AllocatedInList
  <1>4. /\ inode_bitmap = handed \cup {BAD_INODE} /\ BAD_INODE \notin handed
        /\ ROOT_INODE \in handed
    BY <1>2 DEF Table, SoundBeforeOverrun
  <1>5. n \in INodeNo /\ f_type \in [INodeNo -> {"NONE", "DIR", "REGULAR"}]
    BY <1>1, <1>2, Sizes DEF IsOverlay, INodeNo, Table, Types
  <1>6. Parent \in handed /\ f_type[Parent] = "DIR" /\ handed \subseteq Nat
    BY <1>2, ParentKnown, Sizes DEF Table, Types, INodeBit
  <1>7. \A m \in handed : m \in INodeNo /\ m # n
    BY <1>1, <1>2, <1>4, <1>6, Sizes DEF IsOverlay, INodeNo
  <1>8. f_type'[n] = kind[1] /\ \A m \in handed : f_type'[m] = f_type[m]
    BY <1>3, <1>5, <1>7
  <1>9. ParentIsDir = {TRUE}
    BY <1>2, <1>6, <1>8 DEF ParentIsDir
  <1> QED BY <1>1, <1>2, <1>3, <1>4, <1>6, <1>7, <1>8, <1>9

LEMMA MakeDirKeeps ==
  ASSUME Table, MakeDir, UNCHANGED inode_bits
  PROVE  Table'
  <1>1. status = "run"
    BY DEF MakeDir
  <1>2. PICK n \in INodeBit :
          /\ AllocINode(n, "DIR", DirBit)
          /\ IF n \notin AfterAlloc(n) THEN Stop("assertion failed")
             ELSE IF n = ROOT_INODE
             THEN IF Parent = ROOT_INODE THEN Enter(n) ELSE Stop("root parent")
             ELSE AddToParent(Enter(n))
    BY DEF MakeDir
  <1> DEFINE kind == <<"DIR", DirBit>>
  <1>3. kind \in Kinds /\ AllocINode(n, kind[1], kind[2])
    BY <1>2 DEF Kinds
  <1>4. /\ n \in Nat /\ n \notin inode_bitmap /\ handed' = handed \cup {n}
        /\ f_type' \in [INodeNo -> {"NONE", "DIR", "REGULAR"}] /\ inode_bitmap' \subseteq Int
    BY <1>3, Allocated
  <1>5. path \in Seq(handed) /\ path # <<>>
    BY <1>1 DEF Table, Types
  <1>6. /\ status' \in {"run", "assertion failed", "non-dir inode", "root parent"}
        /\ \/ path' = path
           \/ path' = Append(path, n) /\ status' = "run"
        /\ status' = "run" => n \in AfterAlloc(n)
    BY <1>1, <1>2 DEF Stop, Enter, AddToParent
  <1>7. Types'
    BY <1>4, <1>5, <1>6, PathTypes DEF Table, Types, INodeBit
  <1>8. ASSUME ~ Overrun' PROVE SoundBeforeOverrun' /\ BAD_INODE \notin handed'
    <2>1. /\ ~ Overrun /\ n \notin handed /\ n \in AfterAlloc(n) /\ n # ROOT_INODE
          /\ inode_bitmap' = handed' \cup {BAD_INODE} /\ BAD_INODE \notin handed'
          /\ \A m \in handed : f_type'[m] = f_type[m]
          /\ f_type'[n] = "DIR"
          /\ Parent \in inode_bitmap' /\ ParentIsDir = {TRUE}
      BY <1>1, <1>3, <1>8, SoundAllocation
    <2>2. path' = Append(path, n) /\ status' = "run"
      BY <1>1, <1>2, <2>1 DEF Enter, AddToParent
    <2>3. ASSUME NEW i \in 1 .. Len(path')
          PROVE  path'[i] \in inode_bitmap' /\ f_type'[path'[i]] = "DIR"
      <3>1. CASE i \in 1 .. Len(path)
        <4>1. path'[i] = path[i] /\ path[i] \in handed
          BY <1>5, <2>2, <3>1
        <4>2. f_type[path[i]] = "DIR"
          BY <2>1, <3>1 DEF Table, SoundBeforeOverrun
        <4> QED BY <1>4, <2>1, <4>1, <4>2
      <3>2. CASE i = Len(path) + 1
        <4>1. path'[i] = n
          BY <1>5, <2>2, <3>2
        <4> QED BY <1>4, <2>1, <4>1
      <3> QED BY <1>5, <2>2, <2>3, <3>1, <3>2
    <2> QED BY <2>1, <2>2, <2>3 DEF SoundBeforeOverrun
  <1>9. status' = "run" /\ inode_bits # INODE_COUNT => SelfOverlaid \notin inode_bitmap'
    BY <1>1, <1>3, <1>4, <1>6, ItselfUnmarked, OthersLeaveItUnmarked DEF Table
  <1> QED BY <1>4, <1>6, <1>7, <1>8, <1>9 DEF Table, SoundBeforeOverrun, FullReported

LEMMA MakeFileKeeps ==
  ASSUME Table, MakeFile, UNCHANGED inode_bits
  PROVE  Table'
  <1>1. status = "run"
    BY DEF MakeFile
  <1>2. PICK n \in INodeBit :
          /\ AllocINode(n, "REGULAR", FileBit)
          /\ IF n \notin AfterAlloc(n) THEN Stop("assertion failed")
             ELSE AddToParent(UNCHANGED <<path, status>>)
    BY DEF MakeFile
  <1> DEFINE kind == <<"REGULAR", FileBit>>
  <1>3. kind \in Kinds /\ AllocINode(n, kind[1], kind[2])
    BY <1>2 DEF Kinds
  <1>4. /\ n \in Nat /\ n \notin inode_bitmap /\ handed' = handed \cup {n}
        /\ f_type' \in [INodeNo -> {"NONE", "DIR", "REGULAR"}] /\ inode_bitmap' \subseteq Int
    BY <1>3, Allocated
  <1>5. path \in Seq(handed) /\ path # <<>>
    BY <1>1 DEF Table, Types
  <1>6. /\ status' \in {"run", "assertion failed", "non-dir inode"}
        /\ path' = path
        /\ status' = "run" => n \in AfterAlloc(n)
    BY <1>1, <1>2 DEF Stop, AddToParent
  <1>7. Types'
    BY <1>4, <1>5, <1>6, PathTypes DEF Table, Types, INodeBit
  <1>8. ASSUME ~ Overrun' PROVE SoundBeforeOverrun' /\ BAD_INODE \notin handed'
    <2>1. /\ ~ Overrun /\ n \notin handed /\ n \in AfterAlloc(n)
          /\ inode_bitmap' = handed' \cup {BAD_INODE} /\ BAD_INODE \notin handed'
          /\ \A m \in handed : f_type'[m] = f_type[m]
          /\ Parent \in inode_bitmap' /\ ParentIsDir = {TRUE}
      BY <1>1, <1>3, <1>8, SoundAllocation
    <2>2. status' = "run"
      BY <1>1, <1>2, <2>1 DEF AddToParent
    <2>3. \A i \in 1 .. Len(path) : path[i] \in handed
      BY <1>5
    <2>4. \A i \in 1 .. Len(path) : f_type[path[i]] = "DIR"
      BY <2>1 DEF Table, SoundBeforeOverrun
    <2> QED BY <1>4, <1>6, <2>1, <2>2, <2>3, <2>4 DEF SoundBeforeOverrun
  <1>9. status' = "run" /\ inode_bits # INODE_COUNT => SelfOverlaid \notin inode_bitmap'
    BY <1>1, <1>3, <1>4, <1>6, ItselfUnmarked, OthersLeaveItUnmarked DEF Table
  <1> QED BY <1>4, <1>6, <1>7, <1>8, <1>9 DEF Table, SoundBeforeOverrun, FullReported

(* make_file asks for a parent that was handed out and, before the         *)
(* overrun, is still marked.                                               *)
LEMMA NoParentKeeps ==
  ASSUME Table, NoParent, UNCHANGED inode_bits
  PROVE  Table'
  <1>1. /\ status = "run" /\ Parent \notin inode_bitmap /\ status' = "assertion failed"
        /\ UNCHANGED <<inode_bitmap, f_type, handed, path>>
    BY DEF NoParent, Stop
  <1>2. Overrun /\ Overrun'
    BY <1>1, ParentKnown DEF Overrun
  <1>3. Types'
    BY <1>1 DEF Table, Types, INodeBit
  <1> QED BY <1>1, <1>2, <1>3 DEF Table, SoundBeforeOverrun, FullReported

(* The one step that reports a full bitmap.                                *)
LEMMA BitmapFullKeeps ==
  ASSUME Table, BitmapFull, UNCHANGED inode_bits
  PROVE  Table'
  <1>1. /\ status = "run" /\ INodeBit \subseteq inode_bitmap /\ status' = "inode bitmap full"
        /\ UNCHANGED <<inode_bitmap, f_type, handed, path>>
    BY DEF BitmapFull, Stop
  <1>2. inode_bits \in BitmapSizes /\ inode_bits \in Nat /\ handed \subseteq INodeBit
    BY Sizes DEF Table, Types
  <1>3. inode_bits = INODE_COUNT
    <2> SUFFICES ASSUME inode_bits # INODE_COUNT PROVE FALSE
      OBVIOUS
    <2>1. SelfOverlaid \in INodeBit
      BY <1>2, RoomAssumption, OverlaysItself DEF SelfOverlaid, INodeBit
    <2> QED BY <1>1, <2>1 DEF Table
  <1>4. ~ Overrun
    BY <1>2, <1>3, Sizes DEF Overrun, IsOverlay, INodeBit
  <1>5. inode_bitmap = handed \cup {BAD_INODE} /\ BAD_INODE \notin handed
    BY <1>4 DEF Table, SoundBeforeOverrun
  <1>6. handed = INodeBit \ {BAD_INODE}
    BY <1>1, <1>2, <1>5
  <1>7. Types' /\ FullReported'
    BY <1>1, <1>3, <1>6 DEF Table, Types, INodeBit, FullReported
  <1>8. SoundBeforeOverrun'
    BY <1>1, <1>4 DEF Table, SoundBeforeOverrun
  <1> QED BY <1>1, <1>5, <1>7, <1>8 DEF Table

LEMMA LeaveDirKeeps ==
  ASSUME Table, LeaveDir, UNCHANGED inode_bits
  PROVE  Table'
  <1>1. /\ status = "run" /\ path' = SubSeq(path, 1, Len(path) - 1)
        /\ status' = IF Len(path) = 1 THEN "dumped" ELSE "run"
        /\ UNCHANGED <<inode_bitmap, f_type, handed>>
    BY DEF LeaveDir
  <1>2. path \in Seq(handed) /\ Len(path) \in Nat /\ Len(path) >= 1
    BY <1>1, ParentKnown
  <1>3. /\ path' \in Seq(handed) /\ Len(path') = Len(path) - 1
        /\ \A i \in 1 .. Len(path') : path'[i] = path[i]
    <2> DEFINE n == Len(path) - 1
    <2>1. n \in Nat /\ \A i \in 1 .. n : path[i] \in handed
      BY <1>2
    <2>2. path' = SubSeq(path, 1, n)
      BY <1>1
    <2> HIDE DEF n
    <2>3. /\ path' \in Seq(handed)
          /\ Len(path') = IF 1 <= n THEN n - 1 + 1 ELSE 0
          /\ \A i \in 1 .. n - 1 + 1 : path'[i] = path[1 + i - 1]
      BY <2>1, <2>2, SubSeqProperties
    <2>4. Len(path') = n /\ \A i \in 1 .. n : path'[i] = path[i]
      BY <2>1, <2>3
    <2> QED BY <2>3, <2>4 DEF n
  <1>4. status' = "run" => path' # <<>>
    <2> SUFFICES ASSUME status' = "run" PROVE Len(path') # 0
      OBVIOUS
    <2> QED BY <1>1, <1>2, <1>3
  <1>5. Types'
    BY <1>1, <1>3, <1>4 DEF Table, Types, INodeBit
  <1>6. SoundBeforeOverrun'
    <2>1. Overrun' <=> Overrun
      BY <1>1 DEF Overrun
    <2>2. \A i \in 1 .. Len(path') : i \in 1 .. Len(path)
      BY <1>2, <1>3
    <2> QED BY <1>1, <1>3, <2>1, <2>2 DEF Table, SoundBeforeOverrun
  <1> QED BY <1>1, <1>5, <1>6 DEF Table, FullReported, Overrun

LEMMA TableInit == Init => Table
  <1> SUFFICES ASSUME Init PROVE Table
    OBVIOUS
  <1> USE DEF Init, BAD_INODE, ROOT_INODE
  <1>1. ROOT_INODE \in INodeBit /\ ROOT_INODE \in INodeNo /\ inode_bits \in Nat
    BY Sizes DEF INodeBit, INodeNo
  <1>2. Types
    BY <1>1 DEF Types, INodeBit
  <1>3. SoundBeforeOverrun
    BY <1>1, Sizes DEF SoundBeforeOverrun
  <1>4. SelfOverlaid \notin inode_bitmap
    BY Sizes, OverlaysItself DEF IsOverlay
  <1> QED BY <1>2, <1>3, <1>4 DEF Table, FullReported

LEMMA TableHolds == Spec => []Table
  <1>1. Table /\ [Next]_vars => Table'
    <2> SUFFICES ASSUME Table, [Next]_vars PROVE Table'
      OBVIOUS
    <2>1. CASE UNCHANGED vars
      BY <2>1 DEF vars, Table, Types, SoundBeforeOverrun, FullReported, Overrun, INodeBit
    <2>2. CASE Next
      BY <2>2, MakeDirKeeps, MakeFileKeeps, NoParentKeeps, BitmapFullKeeps, LeaveDirKeeps
         DEF Next, Step
    <2> QED BY <2>1, <2>2
  <1> QED BY <1>1, TableInit, PTL DEF Spec

(* Until a number past the list is handed out, the inode bitmap says what  *)
(* alloc_inode returned, and neither get_inode's assert nor the panics of  *)
(* make_dir and add_dentry fire.                                           *)
THEOREM BitmapSoundBeforeOverrun == Spec => []SoundBeforeOverrun
  <1>1. Table => SoundBeforeOverrun
    BY DEF Table
  <1> QED BY <1>1, TableHolds, PTL

(* alloc_inode's "inode bitmap full" is reached only when the bitmap is as *)
(* long as the list and every inode is in use: with the longer one of      *)
(* parchfs.h make_fs fails at the node that lies over its own bit.         *)
THEOREM FullOnlyWhenUsed == Spec => []FullReported
  <1>1. Table => FullReported
    BY DEF Table
  <1> QED BY <1>1, TableHolds, PTL
=============================================================================

------------------------------ MODULE MCMalloc ------------------------------
(* What must hold of the heap of a C program.                               *)
EXTENDS Malloc

(* Every variable of the allocator keeps its type.                         *)
TypeOK ==
  /\ ptr \in [Addr -> Addr \cup {NULL}]
  /\ size \in [Addr -> Nat]
  /\ freep \in Addr \cup {NULL} /\ brk \in HEAP_START .. HEAP_END
  /\ live \in SUBSET Heap /\ pc \in PCs
  /\ nbytes \in Requests \cup {0} /\ nunits \in Nat
  /\ p \in Addr \cup {NULL} /\ prevp \in Addr \cup {NULL} /\ bp \in Addr \cup {NULL}

(* What a search from freep can come to: what every set that holds freep   *)
(* and is closed under following ptr has in common.                        *)
Closed(S) == freep \in S /\ \A a \in S : ptr[a] \in S
Targets == {freep} \cup {ptr[a] : a \in Addr}
FreeList ==
  LET closed == {S \in SUBSET (Targets \ {NULL}) : Closed(S)}
  IN  IF freep = NULL THEN {} ELSE {a \in Targets : \A S \in closed : a \in S}

(* Blocks taken off the list for the call in progress.                     *)
InHand == IF Freeing THEN {bp} ELSE {}
Area(b) == b .. b + size[b] - 1

(* The free list is one cycle through base, in the order of addresses: the *)
(* search for the place of a freed block relies on it.  And no two free     *)
(* blocks touch: what is freed is joined on both sides.                     *)
ListInOrder ==
  LET list == FreeList
  IN  freep # NULL =>
        /\ BASE \in list
        /\ \A a \in list :
             IF \E c \in list : a < c
             THEN a < ptr[a] /\ ~ \E c \in list : a < c /\ c < ptr[a]
             ELSE ptr[a] = BASE
        /\ \A a \in list \ {BASE} : a + size[a] # ptr[a]

(* Live blocks, free blocks and the block in hand share the heap out among *)
(* themselves: no unit belongs to two of them, and none is lost.           *)
HeapPartitioned ==
  LET list == FreeList
      blocks == live \cup (list \ {BASE}) \cup InHand
  IN  /\ \A a, c \in blocks : a # c => Area(a) \cap Area(c) = {}
      /\ UNION {Area(a) : a \in blocks} = HEAP_START .. brk - 1
      /\ live \cap list = {} /\ InHand \cap (live \cup list) = {}

(* A call returns, or the process dies in it: the search, and the loop     *)
(* that asks for core and searches again, both end.                        *)
CallsReturn == (pc # "idle") ~> (pc \in {"idle", "crashed"})

(* The caller's view of the allocator.                                     *)
Abstract == INSTANCE Heap WITH
  Unit <- Heap, UnitBytes <- HEADER_SIZE,
  owned <- {Area(b) : b \in live},
  asked <- IF pc \in {"search", "core", "crashed"} THEN nbytes ELSE -1

(* What tb_malloc hands out is nobody else's, holds the bytes asked for,    *)
(* and stays as it is until the program frees it.                           *)
ImplementsHeap == Abstract!Spec

(* morecore returns 0 when the kernel has no more memory to give, and      *)
(* tb_malloc passes the 0 on.                                              *)
NoMemoryIsNull == pc # "crashed"
=============================================================================

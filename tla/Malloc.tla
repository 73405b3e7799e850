------------------------------- MODULE Malloc -------------------------------
(***************************************************************************)
(* tb_malloc, tb_free and morecore of usrlib/parch/utils.c: a circular     *)
(* list of free blocks, sorted by address, searched first fit from freep.  *)
(* A step is one iteration of a loop or one straight piece of code between *)
(* loops.  Addresses are counted in Headers; the static header base has    *)
(* address BASE, below the heap, which tb_sbrk (the kernel, external)      *)
(* extends without gaps.                                                   *)
(***************************************************************************)
EXTENDS Integers, FiniteSets

CONSTANTS
  HEADER_SIZE,   \* sizeof(Header): 16
  WORD,          \* 2^64, the modulus of the arithmetic on nbytes
  NU_WORD,       \* 2^32, the modulus of the parameter of morecore
  MIN_CORE,      \* the least morecore asks for: 4096
  HEAP_START, HEAP_END,  \* the units the kernel may give to this process
  Requests,      \* the sizes in bytes the program asks for
  Errno          \* the kernel's error number when it refuses tb_sbrk

ASSUME UnitsAssumption ==
  /\ HEADER_SIZE \in Nat \ {0} /\ WORD \in Nat \ {0} /\ NU_WORD \in Nat \ {0}
  /\ MIN_CORE \in Nat \ {0} /\ HEAP_START \in Nat /\ HEAP_END \in Nat
  /\ 1 < HEAP_START /\ HEAP_START <= HEAP_END
  /\ Requests \subseteq 0 .. WORD - 1 /\ Errno \in Nat \ {0}

NULL == -1
(* The stub of tb_sbrk returns a0 as it is: the error number, negated.     *)
SbrkError == - Errno
BASE == 0
Heap == HEAP_START .. HEAP_END - 1
Addr == {BASE} \cup Heap
(* A program never owns its last unit's successor, so bp + size may be     *)
(* HEAP_END; as an address it is only compared.                            *)

VARIABLES
  ptr, size,   \* the two fields of the header at each address
  freep,       \* where the next search starts, NULL before the first call
  brk,         \* the end of the heap
  live,        \* headers of the blocks the program holds
  pc,          \* where the call in progress is
  nbytes, nunits, p, prevp, bp   \* its parameter and its local variables

mem == <<ptr, size, freep>>
locals == <<nbytes, nunits, p, prevp, bp>>
vars == <<mem, brk, live, pc, locals>>

PCs == {"idle", "search", "free", "core", "crashed"}

(* Mutant: rounded down.                                                   *)
NUnitsDown(n) == (n % WORD) \div HEADER_SIZE + 1

NUnits(n) == ((n + HEADER_SIZE - 1) % WORD) \div HEADER_SIZE + 1

Return ==
  /\ pc' = "idle" /\ nbytes' = 0 /\ nunits' = 0
  /\ p' = NULL /\ prevp' = NULL /\ bp' = NULL

----------------------------------------------------------------------------
(* tb_malloc                                                               *)

Malloc(n) ==
  /\ pc = "idle"
  /\ nbytes' = n /\ nunits' = NUnits(n)
  /\ IF freep = NULL
     THEN /\ ptr' = [ptr EXCEPT ![BASE] = BASE]
          /\ size' = [size EXCEPT ![BASE] = 0]
          /\ freep' = BASE
     ELSE UNCHANGED mem
  /\ prevp' = freep'
  /\ p' = ptr'[freep']
  /\ pc' = "search"
  /\ UNCHANGED <<brk, live, bp>>

(* Mutant: a block one unit short is taken.                                *)
FitsOneShort == pc = "search" /\ size[p] + 1 >= nunits

Fits == pc = "search" /\ size[p] >= nunits

(* The block is unlinked whole, or its tail is cut off.                    *)
TakeWhole ==
  /\ Fits /\ size[p] = nunits
  /\ ptr' = [ptr EXCEPT ![prevp] = ptr[p]]
  /\ freep' = prevp
  /\ live' = live \cup {p}
  /\ Return
  /\ UNCHANGED <<size, brk>>

(* Mutant: p->s.size -= nunits is forgotten.                               *)
TakeTailUncut ==
  /\ Fits /\ size[p] # nunits
  /\ LET rest == size[p] - nunits
     IN  size' = [size EXCEPT ![p + rest] = nunits] /\ live' = live \cup {p + rest}
  /\ freep' = prevp
  /\ Return
  /\ UNCHANGED <<ptr, brk>>

TakeTail ==
  /\ Fits /\ size[p] # nunits
  /\ LET rest == size[p] - nunits
     IN  /\ size' = [size EXCEPT ![p] = rest, ![p + rest] = nunits]
         /\ live' = live \cup {p + rest}
  /\ freep' = prevp
  /\ Return
  /\ UNCHANGED <<ptr, brk>>

NextBlock ==
  /\ pc = "search" /\ size[p] < nunits /\ p # freep
  /\ prevp' = p /\ p' = ptr[p]
  /\ UNCHANGED <<mem, brk, live, pc, nbytes, nunits, bp>>

----------------------------------------------------------------------------
(* morecore, up to its call of tb_free                                     *)

CoreUnits == IF nunits % NU_WORD < MIN_CORE THEN MIN_CORE ELSE nunits % NU_WORD

NeedsCore == pc = "search" /\ size[p] < nunits /\ p = freep

MoreCore ==
  /\ NeedsCore
  /\ brk + CoreUnits <= HEAP_END
  /\ size' = [size EXCEPT ![brk] = CoreUnits]
  /\ bp' = brk /\ p' = freep
  /\ brk' = brk + CoreUnits
  /\ pc' = "core"
  /\ UNCHANGED <<ptr, freep, live, nbytes, nunits, prevp>>

(* The kernel may refuse whatever it is asked for.  Only -1 is recognised; *)
(* any other value is taken for the new memory, and hp->s.size is written. *)
NoCore ==
  /\ NeedsCore
  /\ IF SbrkError = -1 THEN Return
     ELSE pc' = "crashed" /\ UNCHANGED locals
  /\ UNCHANGED <<mem, brk, live>>

----------------------------------------------------------------------------
(* tb_free, called by the program or by morecore                           *)

Free(b) ==
  /\ pc = "idle" /\ b \in live
  /\ live' = live \ {b}
  /\ bp' = b /\ p' = freep
  /\ pc' = "free"
  /\ UNCHANGED <<mem, brk, nbytes, nunits, prevp>>

Freeing == pc \in {"free", "core"}
(* Mutant: at the last block the scan wants a second one on the list.      *)
AtEndStrict == p > ptr[p] /\ (p < bp \/ bp < ptr[p])
Between == p < bp /\ bp < ptr[p]
AtEnd == p >= ptr[p] /\ (p < bp \/ bp < ptr[p])

FreeScan ==
  /\ Freeing /\ ~ Between /\ ~ AtEnd
  /\ p' = ptr[p]
  /\ UNCHANGED <<mem, brk, live, pc, nbytes, nunits, prevp, bp>>

(* bp is linked in after p and joined with the neighbours it touches.      *)
JoinsUpper == bp + size[bp] = ptr[p]
UpperSize == IF JoinsUpper THEN size[bp] + size[ptr[p]] ELSE size[bp]
UpperPtr == IF JoinsUpper THEN ptr[ptr[p]] ELSE ptr[p]
(* Mutant: off by the header.                                              *)
JoinsLowerShort == p + size[p] + 1 = bp
JoinsLower == p + size[p] = bp

Linked ==
  /\ IF JoinsLower
     THEN /\ size' = [size EXCEPT ![bp] = UpperSize, ![p] = @ + UpperSize]
          /\ ptr' = [ptr EXCEPT ![bp] = UpperPtr, ![p] = UpperPtr]
     ELSE /\ size' = [size EXCEPT ![bp] = UpperSize]
          /\ ptr' = [ptr EXCEPT ![bp] = UpperPtr, ![p] = bp]
  /\ freep' = p

FreeLink ==
  /\ pc = "free" /\ (Between \/ AtEnd)
  /\ Linked
  /\ Return
  /\ UNCHANGED <<brk, live>>

(* Back in tb_malloc: p = morecore() = freep, then the loop's increment.   *)
CoreLink ==
  /\ pc = "core" /\ (Between \/ AtEnd)
  /\ Linked
  /\ prevp' = p /\ p' = ptr'[p]
  /\ pc' = "search" /\ bp' = NULL
  /\ UNCHANGED <<brk, live, nbytes, nunits>>

----------------------------------------------------------------------------

Init ==
  /\ ptr = [a \in Addr |-> NULL] /\ size = [a \in Addr |-> 0]
  /\ freep = NULL /\ brk = HEAP_START /\ live = {}
  /\ pc = "idle" /\ nbytes = 0 /\ nunits = 0
  /\ p = NULL /\ prevp = NULL /\ bp = NULL

Step ==
  \/ TakeWhole \/ TakeTail \/ NextBlock \/ MoreCore \/ NoCore
  \/ FreeScan \/ FreeLink \/ CoreLink

Next ==
  \/ \E n \in Requests : Malloc(n)
  \/ \E b \in live : Free(b)
  \/ Step

(* A call, once made, runs on; the program need not make another one.      *)
Spec == Init /\ [][Next]_vars /\ WF_vars(Step)
=============================================================================

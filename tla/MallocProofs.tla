---------------------------- MODULE MallocProofs ----------------------------
(***************************************************************************)
(* Theorems about the allocator, for every heap, every set of sizes and    *)
(* whatever the kernel refuses.  FreeList is what a search can come to;    *)
(* the proofs are about a set of addresses that is kept in order beside    *)
(* the pointers, and which is shown to be that list.                       *)
(***************************************************************************)
EXTENDS MCMalloc, FiniteSetTheorems, WellFoundedInduction, TLAPS

----------------------------------------------------------------------------
(* Addresses.                                                              *)

LEMMA Addresses ==
  /\ BASE = 0 /\ NULL = -1 /\ BASE \in Addr /\ NULL \notin Addr
  /\ Addr \subseteq Nat /\ Heap \subseteq Addr /\ BASE \notin Heap
  /\ \A a \in Addr : a < HEAP_END /\ (a # BASE => HEAP_START <= a /\ 1 < a /\ a \in Heap)
BY UnitsAssumption DEF BASE, NULL, Addr, Heap

LEMMA Least ==
  ASSUME NEW S \in SUBSET Nat, S # {} PROVE \E n \in S : \A m \in S : n <= m
<1>1. PICK n \in S : \A m \in S : ~ (<<m, n>> \in OpToRel(<, Nat))
  BY WFMin, NatLessThanWellFounded, Zenon
<1>2. \A m \in S : ~ (m < n)
  BY <1>1 DEF OpToRel
<1> QED  BY <1>2

LEMMA Greatest ==
  ASSUME NEW S \in SUBSET Addr, S # {} PROVE \E n \in S : \A m \in S : m <= n
<1> DEFINE T == {HEAP_END - a : a \in S}
<1>1. T \in SUBSET Nat /\ T # {}
  <2>1. \A a \in S : HEAP_END - a \in Nat
    BY Addresses, UnitsAssumption
  <2> QED  BY <2>1
<1>2. PICK t \in T : \A u \in T : t <= u
  BY <1>1, Least
<1>3. PICK n \in S : t = HEAP_END - n
  BY <1>2
<1>4. ASSUME NEW m \in S PROVE m <= n
  <2>1. HEAP_END - n <= HEAP_END - m
    BY <1>2, <1>3
  <2> QED  BY <2>1, <1>3, Addresses, UnitsAssumption
<1> QED  BY <1>3, <1>4

LEMMA DivMod ==
  ASSUME NEW d \in Nat \ {0}, NEW n \in Nat
  PROVE  n \div d \in Nat /\ n % d \in 0 .. d - 1
BY SMT

(* A block has a header, whatever was asked for.                           *)
LEMMA SomeUnits == \A n \in Requests : NUnits(n) \in Nat /\ NUnits(n) >= 1
<1> SUFFICES ASSUME NEW n \in Requests PROVE NUnits(n) \in Nat /\ NUnits(n) >= 1
  OBVIOUS
<1>1. n + HEADER_SIZE - 1 \in Nat
  BY UnitsAssumption
<1>2. (n + HEADER_SIZE - 1) % WORD \in Nat
  BY <1>1, DivMod, UnitsAssumption
<1>3. ((n + HEADER_SIZE - 1) % WORD) \div HEADER_SIZE \in Nat
  BY <1>2, DivMod, UnitsAssumption
<1> QED  BY <1>3 DEF NUnits

LEMMA SomeCore == nunits \in Nat => CoreUnits \in Nat /\ CoreUnits >= 1
<1> HAVE nunits \in Nat
<1>1. nunits % NU_WORD \in Nat
  BY DivMod, UnitsAssumption
<1> QED  BY <1>1, UnitsAssumption DEF CoreUnits

----------------------------------------------------------------------------
(* The list, kept beside the pointers.                                     *)

(* b is where the list goes on after address a.                            *)
Follows(F, a, b) ==
  /\ b \in F
  /\ \/ a < b /\ \A c \in F : c <= a \/ b <= c
     \/ b = BASE /\ \A c \in F : c <= a
Ordered(F) ==
  /\ BASE \in F /\ freep \in F
  /\ \A a \in F : Follows(F, a, ptr[a])
Joined(F) == \A a \in F \ {BASE} : a + size[a] # ptr[a]

(* A set that holds one place of an ordered list and follows the pointers  *)
(* holds the whole of it: from there the last place is come to, from that  *)
(* base, and from base every place.                                        *)
LEMMA ClosedHasAll ==
  ASSUME NEW F \in SUBSET Addr, Ordered(F), NEW S \in SUBSET Addr, Closed(S)
  PROVE  F \subseteq S
<1>1. /\ freep \in F \cap S /\ BASE \in F
      /\ \A a \in F : ptr[a] \in F
      /\ \A a \in S : ptr[a] \in S
  BY DEF Ordered, Follows, Closed
<1>2. BASE \in S
  <2>1. PICK m \in F \cap S : \A c \in F \cap S : c <= m
    BY <1>1, Greatest
  <2>2. ptr[m] \in F \cap S /\ ptr[m] <= m
    BY <1>1, <2>1
  <2>3. Follows(F, m, ptr[m]) /\ m \in Nat /\ ptr[m] \in Nat
    BY <2>2, Addresses DEF Ordered
  <2>4. ptr[m] = BASE
    BY <2>2, <2>3 DEF Follows
  <2> QED  BY <2>2, <2>4
<1> SUFFICES ASSUME F \ S # {} PROVE FALSE
  OBVIOUS
<1>3. PICK x \in F \ S : \A c \in F \ S : x <= c
  BY Least, Addresses
<1>4. x # BASE /\ BASE < x
  BY <1>2, <1>3, Addresses
<1> DEFINE below == {c \in F : c < x}
<1>5. PICK y \in below : \A c \in below : c <= y
  BY <1>1, <1>4, Greatest
<1>6. y \in S
  BY <1>3, <1>5, Addresses
<1>7. ptr[y] = x
  <2>1. Follows(F, y, ptr[y]) /\ ptr[y] \in F
    BY <1>1, <1>5 DEF Ordered
  <2>2. ~ (x <= y)
    BY <1>5, Addresses
  <2>3. y < ptr[y] /\ ptr[y] <= x
    BY <1>3, <2>1, <2>2, Addresses DEF Follows
  <2>4. ~ (ptr[y] < x)
    <3> SUFFICES ASSUME ptr[y] < x PROVE FALSE
      OBVIOUS
    <3>1. ptr[y] \in below
      BY <2>1
    <3>2. ptr[y] <= y /\ y \in Nat /\ ptr[y] \in Nat
      BY <1>5, <2>1, <3>1, Addresses
    <3> QED  BY <2>3, <3>2
  <2>5. ptr[y] \in Nat /\ x \in Nat
    BY <1>3, <2>1, Addresses
  <2> QED  BY <2>3, <2>4, <2>5
<1> QED  BY <1>1, <1>3, <1>6, <1>7

LEMMA ListIsOrdered ==
  ASSUME NEW F \in SUBSET Addr, Ordered(F), TypeOK PROVE FreeList = F
<1>1. freep # NULL /\ Closed(F)
  BY Addresses DEF Ordered, Follows, Closed
<1> DEFINE closed == {S \in SUBSET (Targets \ {NULL}) : Closed(S)}
<1>2. Targets \ {NULL} \in SUBSET Addr
  BY Addresses, <1>1 DEF Targets, TypeOK
<1>3. Closed({a \in Targets \ {NULL} : a \in F})
  BY <1>1, Addresses DEF Closed, Targets
<1>4. \A S \in closed : F \subseteq S
  BY <1>2, ClosedHasAll
<1>5. F \subseteq Targets
  BY <1>3, <1>4
<1>6. F \in closed
  BY <1>1, <1>5, Addresses
<1>7. {a \in Targets : \A S \in closed : a \in S} = F
  BY <1>4, <1>5, <1>6
<1> QED  BY <1>1, <1>7 DEF FreeList

----------------------------------------------------------------------------
(* Blocks that share out the heap up to its end.                           *)

Parted(B, sz, end) ==
  /\ \A b \in B : HEAP_START <= b /\ sz[b] > 0 /\ b + sz[b] <= end
  /\ \A a, b \in B : a < b => a + sz[a] <= b
  /\ \A u \in HEAP_START .. end - 1 : \E b \in B : b <= u /\ u < b + sz[b]

(* A block and the one it touches become one.                              *)
LEMMA Merged ==
  ASSUME NEW B \in SUBSET Addr, NEW sz \in [Addr -> Nat], NEW end \in Nat,
         Parted(B, sz, end), NEW a \in B, NEW b \in B, a + sz[a] = b,
         NEW new, new = [sz EXCEPT ![a] = sz[a] + sz[b]]
  PROVE  Parted(B \ {b}, new, end) /\ new \in [Addr -> Nat]
<1>1. a < b /\ new[a] = sz[a] + sz[b] /\ sz[b] \in Nat /\ sz[a] \in Nat
  BY Addresses DEF Parted
<1>2. \A c \in B : c # a => new[c] = sz[c]
  OBVIOUS
<1>3. \A c \in B : c \in Nat /\ sz[c] \in Nat
  BY Addresses
<1>4. \A c \in B \ {b} : HEAP_START <= c /\ new[c] > 0 /\ c + new[c] <= end
  BY <1>1, <1>2, <1>3 DEF Parted
<1>5. ASSUME NEW c \in B \ {b}, NEW d \in B \ {b}, c < d PROVE c + new[c] <= d
  <2>1. CASE c = a
    <3>1. b < d
      BY <1>1, <1>3, <1>5, <2>1 DEF Parted
    <3> QED  BY <1>1, <1>3, <2>1, <3>1 DEF Parted
  <2>2. CASE c # a
    BY <1>2, <1>5, <2>2 DEF Parted
  <2> QED  BY <2>1, <2>2
<1>6. ASSUME NEW u \in HEAP_START .. end - 1
      PROVE  \E c \in B \ {b} : c <= u /\ u < c + new[c]
  <2>1. PICK c \in B : c <= u /\ u < c + sz[c]
    BY DEF Parted
  <2>2. CASE c = b
    BY <1>1, <1>3, <2>1, <2>2, UnitsAssumption
  <2>3. CASE c = a
    BY <1>1, <1>3, <2>1, <2>3, UnitsAssumption
  <2>4. CASE c # a /\ c # b
    BY <1>2, <2>1, <2>4
  <2> QED  BY <2>2, <2>3, <2>4
<1>7. new \in [Addr -> Nat]
  BY <1>1
<1> QED  BY <1>4, <1>5, <1>6, <1>7 DEF Parted

(* The tail of a block becomes a block.                                    *)
LEMMA TailInside ==
  ASSUME NEW B \in SUBSET Addr, NEW sz \in [Addr -> Nat], NEW end \in Nat,
         end <= HEAP_END, Parted(B, sz, end), NEW a \in B,
         NEW n \in Nat, 0 < n, n < sz[a],
         NEW t, t = a + (sz[a] - n)
  PROVE  t \in Heap \ B /\ a # t /\ \A b \in B : ~ (a < b /\ b < a + sz[a])
<1>1. /\ a \in Nat /\ sz[a] \in Nat /\ a < t /\ t < a + sz[a] /\ a + sz[a] <= end
      /\ HEAP_START <= a /\ t \in Nat
  BY Addresses DEF Parted
<1>2. t \in Heap
  BY <1>1, UnitsAssumption DEF Heap
<1>3. \A b \in B : b \in Nat /\ sz[b] \in Nat
  BY Addresses
<1>4. \A b \in B : ~ (a < b /\ b < a + sz[a])
  BY <1>1, <1>3 DEF Parted
<1> QED  BY <1>1, <1>2, <1>4

LEMMA CutOff ==
  ASSUME NEW B \in SUBSET Addr, NEW sz \in [Addr -> Nat], NEW end \in Nat,
         end <= HEAP_END, Parted(B, sz, end), NEW a \in B,
         NEW n \in Nat, 0 < n, n < sz[a],
         NEW t, t = a + (sz[a] - n),
         NEW new, new[a] = sz[a] - n, new[t] = n,
         \A b \in B : b # a => new[b] = sz[b]
  PROVE  Parted(B \cup {t}, new, end)
<1>1. /\ a \in Nat /\ sz[a] \in Nat /\ a < t /\ t < a + sz[a] /\ a + sz[a] <= end
      /\ HEAP_START <= a /\ t \in Nat
  BY Addresses DEF Parted
<1>2. \A b \in B : b \in Nat /\ sz[b] \in Nat
  BY Addresses
<1>3. \A b \in B : ~ (a < b /\ b < a + sz[a])
  BY TailInside
<1>4. new[a] = sz[a] - n /\ new[t] = n /\ \A b \in B : b # a => new[b] = sz[b]
  OBVIOUS
<1>5. \A b \in B \cup {t} : HEAP_START <= b /\ new[b] > 0 /\ b + new[b] <= end
  BY <1>1, <1>2, <1>4, UnitsAssumption DEF Parted
<1>6. ASSUME NEW c \in B \cup {t}, NEW d \in B \cup {t}, c < d PROVE c + new[c] <= d
  <2>1. CASE c = a
    BY <1>1, <1>2, <1>3, <1>4, <1>6, <2>1
  <2>2. CASE c = t
    <3>1. d \in B /\ a < d
      BY <1>1, <1>2, <1>6, <2>2
    <3> QED  BY <1>1, <1>2, <1>3, <1>4, <2>2, <3>1
  <2>3. CASE c # a /\ c # t /\ d = t
    <3>1. c < a
      BY <1>1, <1>2, <1>3, <1>6, <2>3
    <3> QED  BY <1>1, <1>2, <1>4, <2>3, <3>1 DEF Parted
  <2>4. CASE c # a /\ c # t /\ d # t
    BY <1>4, <1>6, <2>4 DEF Parted
  <2> QED  BY <2>1, <2>2, <2>3, <2>4
<1>7. ASSUME NEW u \in HEAP_START .. end - 1
       PROVE  \E c \in B \cup {t} : c <= u /\ u < c + new[c]
  <2>1. PICK c \in B : c <= u /\ u < c + sz[c]
    BY DEF Parted
  <2>2. CASE c # a
    BY <1>4, <2>1, <2>2
  <2>3. CASE c = a /\ u < t
    BY <1>1, <1>4, <2>1, <2>3
  <2>4. CASE c = a /\ t <= u
    BY <1>1, <1>4, <2>1, <2>4
  <2>5. u < t \/ t <= u
    BY <1>1, UnitsAssumption
  <2> QED  BY <2>2, <2>3, <2>4, <2>5
<1> QED  BY <1>5, <1>6, <1>7 DEF Parted

(* The heap grows by a block.                                              *)
LEMMA Grown ==
  ASSUME NEW B \in SUBSET Addr, NEW sz \in [Addr -> Nat], NEW end \in Heap,
         Parted(B, sz, end), NEW n \in Nat, 0 < n,
         NEW new, new = [sz EXCEPT ![end] = n]
  PROVE  /\ end \notin B /\ new \in [Addr -> Nat]
         /\ \A b \in B : new[b] = sz[b]
         /\ Parted(B \cup {end}, new, end + n)
<1>1. end \in Addr /\ end \in Nat /\ HEAP_START <= end
  BY Addresses, UnitsAssumption DEF Heap
<1>2. \A b \in B : b \in Nat /\ sz[b] \in Nat /\ b < end
  BY Addresses DEF Parted
<1>3. end \notin B
  BY <1>1, <1>2
<1>4. new[end] = n /\ (\A b \in B : new[b] = sz[b]) /\ new \in [Addr -> Nat]
  BY <1>1, <1>3
<1>5. \A b \in B \cup {end} : HEAP_START <= b /\ new[b] > 0 /\ b + new[b] <= end + n
  BY <1>1, <1>2, <1>4 DEF Parted
<1>6. \A c, d \in B \cup {end} : c < d => c + new[c] <= d
  BY <1>1, <1>2, <1>4 DEF Parted
<1>7. ASSUME NEW u \in HEAP_START .. end + n - 1
      PROVE  \E c \in B \cup {end} : c <= u /\ u < c + new[c]
  <2>1. CASE u < end
    <3>1. u \in HEAP_START .. end - 1
      BY <1>1, <2>1, UnitsAssumption
    <3>2. PICK c \in B : c <= u /\ u < c + sz[c]
      BY <3>1 DEF Parted
    <3> QED  BY <3>2, <1>4
  <2>2. CASE end <= u
    BY <1>1, <1>4, <2>2
  <2> QED  BY <1>1, <2>1, <2>2, UnitsAssumption
<1> QED  BY <1>1, <1>3, <1>4, <1>5, <1>6, <1>7 DEF Parted

----------------------------------------------------------------------------
(* The order of a list, when a place is taken out of it or put in.         *)

LEMMA OnlyBefore ==
  ASSUME NEW F \in SUBSET Addr, NEW a \in F, NEW c \in F, NEW b,
         Follows(F, a, b), Follows(F, c, b), b # BASE
  PROVE  a = c
BY Addresses DEF Follows

LEMMA TakenOut ==
  ASSUME NEW F \in SUBSET Addr, NEW a \in F, NEW b, NEW c,
         Follows(F, a, b), Follows(F, b, c), b # BASE
  PROVE  /\ a # b /\ c # b /\ Follows(F \ {b}, a, c)
         /\ a < b /\ (b < c \/ c = BASE)
<1>1. /\ a \in Nat /\ b \in F /\ b \in Nat /\ c \in F /\ c \in Nat
      /\ \A d \in F : d \in Nat
  BY Addresses DEF Follows
<1>2. /\ a < b /\ \A d \in F : d <= a \/ b <= d
      /\ b < c \/ c = BASE
  BY DEF Follows
<1>3. c # b
  BY <1>1, <1>2
<1>4. CASE b < c /\ \A d \in F : d <= b \/ c <= d
  <2>1. \A d \in F \ {b} : d <= a \/ c <= d
    BY <1>1, <1>2, <1>4
  <2> QED  BY <1>1, <1>2, <1>3, <1>4, <2>1 DEF Follows
<1>5. CASE c = BASE /\ \A d \in F : d <= b
  <2>1. \A d \in F \ {b} : d <= a
    BY <1>1, <1>2, <1>5
  <2> QED  BY <1>1, <1>2, <1>3, <1>5, <2>1 DEF Follows
<1> QED  BY <1>4, <1>5 DEF Follows

LEMMA PutIn ==
  ASSUME NEW F \in SUBSET Addr, NEW a \in F, NEW b, NEW x \in Addr,
         Follows(F, a, b), x \notin F, a < x, x < b \/ b = BASE
  PROVE  /\ Follows(F \cup {x}, a, x) /\ Follows(F \cup {x}, x, b)
         /\ \A c \in F \ {a}, d \in F : Follows(F, c, d) => Follows(F \cup {x}, c, d)
<1>1. /\ a \in Nat /\ b \in F /\ b \in Nat /\ x \in Nat /\ BASE = 0
      /\ \A c \in F : c \in Nat
  BY Addresses DEF Follows
<1>2. \A c \in F : c <= a \/ (x < b /\ b <= c)
  BY <1>1 DEF Follows
<1>3. Follows(F \cup {x}, a, x)
  BY <1>1, <1>2 DEF Follows
<1>4. Follows(F \cup {x}, x, b)
  BY <1>1, <1>2 DEF Follows
<1>5. ASSUME NEW c \in F \ {a}, NEW d \in F, Follows(F, c, d)
      PROVE  Follows(F \cup {x}, c, d)
  <2>1. c < a \/ x < c
    BY <1>1, <1>2
  <2>2. CASE c < d /\ \A e \in F : e <= c \/ d <= e
    BY <1>1, <2>1, <2>2 DEF Follows
  <2>3. CASE d = BASE /\ \A e \in F : e <= c
    BY <1>1, <2>1, <2>3 DEF Follows
  <2> QED  BY <1>5, <2>2, <2>3 DEF Follows
<1> QED  BY <1>3, <1>4, <1>5

----------------------------------------------------------------------------
(* The invariant.                                                          *)

Blocks(F) == live \cup (F \ {BASE}) \cup InHand

Laid(F) ==
  /\ Ordered(F) /\ Joined(F) /\ size[BASE] = 0
  /\ live \cap F = {} /\ InHand \cap (live \cup F) = {}
  /\ Parted(Blocks(F), size, brk)

(* Where a call in progress is in the list.                                *)
Places(F) ==
  /\ pc \in {"search", "core"} => nbytes \in Requests /\ nunits = NUnits(nbytes)
  /\ pc = "search" => prevp \in F /\ p = ptr[prevp]
  /\ Freeing => p \in F /\ bp \in Heap

Unused == freep = NULL /\ pc = "idle" /\ live = {} /\ brk = HEAP_START

HeapSound == TypeOK /\ (Unused \/ \E F \in SUBSET Addr : Laid(F) /\ Places(F))

LEMMA BlocksAddresses ==
  ASSUME NEW F \in SUBSET Addr, TypeOK, Places(F)
  PROVE  Blocks(F) \in SUBSET Addr /\ brk \in Nat /\ brk <= HEAP_END
         /\ live \subseteq Heap
BY Addresses, UnitsAssumption DEF Blocks, TypeOK, Places, InHand

(* The place a scan ends at is the one before bp.                          *)
LEMMA ScanEnds ==
  ASSUME NEW F \in SUBSET Addr, Laid(F), Places(F), Freeing, Between \/ AtEnd
  PROVE  /\ p \in F /\ bp \in Heap /\ bp \notin F /\ p < bp
         /\ Follows(F, p, ptr[p]) /\ (bp < ptr[p] \/ ptr[p] = BASE)
<1>1. p \in F /\ bp \in Heap /\ Follows(F, p, ptr[p]) /\ bp \notin F
  BY DEF Laid, Places, Ordered, InHand
<1>2. p \in Nat /\ bp \in Nat /\ ptr[p] \in Nat /\ BASE = 0
  BY <1>1, Addresses DEF Follows
<1>3. CASE Between
  BY <1>1, <1>3 DEF Between
<1>4. CASE AtEnd
  <2>1. ptr[p] = BASE
    BY <1>1, <1>2, <1>4 DEF AtEnd, Follows
  <2>2. p < bp
    BY <1>2, <1>4, <2>1 DEF AtEnd
  <2> QED  BY <1>1, <2>1, <2>2
<1> QED  BY <1>3, <1>4

(* tb_free puts the block in order, and joins it with both neighbours.     *)
LEMMA FreeingKeeps ==
  ASSUME NEW F \in SUBSET Addr, TypeOK, Laid(F), Places(F), Freeing,
         Between \/ AtEnd, Linked
  PROVE  \E G \in SUBSET Addr :
           /\ p \in G /\ live \cap G = {}
           /\ freep' = p /\ \A a \in G : Follows(G, a, ptr'[a])
           /\ BASE \in G /\ size'[BASE] = 0
           /\ \A a \in G \ {BASE} : a + size'[a] # ptr'[a]
           /\ Parted(live \cup (G \ {BASE}), size', brk)
           /\ ptr' \in [Addr -> Addr \cup {NULL}] /\ size' \in [Addr -> Nat]
           /\ \A b \in live : size'[b] = size[b]
<1> DEFINE q == ptr[p]
           B == live \cup (F \ {BASE}) \cup {bp}
           M == IF JoinsUpper THEN F \ {q} ELSE F
           G == IF JoinsLower THEN M ELSE M \cup {bp}
           sz == [size EXCEPT ![bp] = UpperSize]
           BM == live \cup (M \ {BASE}) \cup {bp}
<1>1. /\ p \in F /\ bp \in Heap /\ bp \notin F /\ p < bp
      /\ Follows(F, p, q) /\ (bp < q \/ q = BASE)
  BY ScanEnds
<1>2. /\ \A a \in F : Follows(F, a, ptr[a]) /\ ptr[a] \in F
      /\ BASE \in F /\ size[BASE] = 0 /\ live \cap F = {} /\ bp \notin live
      /\ \A a \in F \ {BASE} : a + size[a] # ptr[a]
      /\ Parted(B, size, brk)
  BY DEF Laid, Ordered, Joined, Follows, InHand, Blocks
<1>3. /\ p \in Nat /\ bp \in Nat /\ q \in F /\ q \in Nat /\ BASE = 0
      /\ \A a \in Addr : size[a] \in Nat
      /\ ptr \in [Addr -> Addr \cup {NULL}] /\ size \in [Addr -> Nat]
      /\ p \in Addr /\ bp \in Addr /\ q \in Addr /\ BASE \in Addr
      /\ F \subseteq Nat /\ live \subseteq Heap /\ bp # BASE
  BY <1>1, <1>2, Addresses DEF TypeOK
<1>4. JoinsUpper => q # BASE /\ bp < q
  BY <1>1, <1>3 DEF JoinsUpper
<1>5. JoinsLower => p # BASE
  BY <1>1, <1>2, <1>3 DEF JoinsLower
<1>6. p \in M /\ BASE \in M /\ M \subseteq F
  BY <1>1, <1>2, <1>3, <1>4
<1>7. /\ Follows(M, p, UpperPtr) /\ (bp < UpperPtr \/ UpperPtr = BASE)
      /\ UpperPtr \in Addr
      /\ \A a \in M \ {p} : Follows(M, a, ptr[a])
      /\ JoinsUpper => q < UpperPtr \/ UpperPtr = BASE
  <2>1. CASE ~ JoinsUpper
    BY <1>1, <1>2, <1>3, <2>1 DEF UpperPtr
  <2>2. CASE JoinsUpper
    <3>1. UpperPtr = ptr[q] /\ Follows(F, q, ptr[q]) /\ ptr[q] \in F
      BY <1>2, <1>3, <2>2 DEF UpperPtr
    <3>2. Follows(M, p, UpperPtr) /\ (q < UpperPtr \/ UpperPtr = BASE)
      BY <1>1, <1>4, <2>2, <3>1, TakenOut
    <3>3. ASSUME NEW a \in M \ {p} PROVE Follows(M, a, ptr[a])
      <4>1. a \in F /\ Follows(F, a, ptr[a])
        BY <1>2, <1>6
      <4>2. ptr[a] # q
        BY <1>1, <1>4, <2>2, <4>1, OnlyBefore
      <4> QED  BY <2>2, <4>1, <4>2 DEF Follows
    <3>4. bp < UpperPtr \/ UpperPtr = BASE
      BY <1>3, <1>4, <2>2, <3>1, <3>2
    <3> QED  BY <3>1, <3>2, <3>3, <3>4, <1>3
  <2> QED  BY <2>1, <2>2
<1>8. Parted(BM, sz, brk) /\ sz \in [Addr -> Nat] /\ BM \in SUBSET Addr
  <2>1. B \in SUBSET Addr /\ brk \in Nat
    BY <1>3, Addresses, UnitsAssumption DEF TypeOK
  <2>2. CASE ~ JoinsUpper
    <3>1. sz = size /\ BM = B
      BY <1>3, <2>2 DEF UpperSize
    <3> QED  BY <1>2, <1>3, <2>1, <3>1
  <2>3. CASE JoinsUpper
    <3>1. sz = [size EXCEPT ![bp] = size[bp] + size[q]] /\ bp + size[bp] = q
      BY <2>3 DEF UpperSize, JoinsUpper
    <3>2. q \in B /\ bp \in B
      BY <1>3, <1>4, <2>3
    <3>3. Parted(B, size, brk) /\ size \in [Addr -> Nat]
      BY <1>2, <1>3
    <3>4. Parted(B \ {q}, sz, brk) /\ sz \in [Addr -> Nat]
      <4> HIDE DEF B, sz, q
      <4> QED  BY <2>1, <3>1, <3>2, <3>3, Merged
    <3>5. B \ {q} = BM
      BY <1>1, <1>2, <1>3, <1>4, <2>3
    <3> QED  BY <2>1, <3>4, <3>5
  <2> QED  BY <2>2, <2>3
<1>9. /\ sz[bp] = UpperSize /\ UpperSize \in Nat
      /\ \A a \in Addr : a # bp => sz[a] = size[a]
  BY <1>3 DEF UpperSize
<1>10. \A a \in M \ {p, BASE} : a + sz[a] # ptr[a]
  BY <1>1, <1>2, <1>6, <1>9
<1>11. bp + UpperSize # UpperPtr
  <2>1. CASE ~ JoinsUpper
    BY <1>3, <2>1 DEF UpperSize, UpperPtr, JoinsUpper
  <2>2. CASE JoinsUpper
    <3>1. UpperPtr = ptr[q] /\ bp + UpperSize = q + size[q]
      BY <1>3, <2>2 DEF UpperSize, UpperPtr, JoinsUpper
    <3> QED  BY <1>2, <1>3, <1>4, <2>2, <3>1
  <2> QED  BY <2>1, <2>2
<1>12. CASE JoinsLower
  <2>1. /\ size' = [size EXCEPT ![bp] = UpperSize, ![p] = @ + UpperSize]
        /\ ptr' = [ptr EXCEPT ![bp] = UpperPtr, ![p] = UpperPtr]
        /\ freep' = p /\ G = M
    BY <1>12 DEF Linked
  <2>2. size' = [sz EXCEPT ![p] = sz[p] + sz[bp]] /\ p + sz[p] = bp
    BY <1>1, <1>3, <1>9, <1>12, <2>1 DEF JoinsLower
  <2>3. p \in BM /\ bp \in BM
    BY <1>5, <1>6, <1>12
  <2>4. Parted(BM \ {bp}, size', brk) /\ size' \in [Addr -> Nat]
    <3>1. brk \in Nat
      BY UnitsAssumption DEF TypeOK
    <3> HIDE DEF BM, sz
    <3> QED  BY <1>8, <2>2, <2>3, <3>1, Merged
  <2>5. BM \ {bp} = live \cup (G \ {BASE})
    BY <1>1, <1>2, <1>6, <2>1
  <2>6. /\ ptr'[p] = UpperPtr /\ \A a \in M \ {p} : ptr'[a] = ptr[a]
        /\ ptr' \in [Addr -> Addr \cup {NULL}]
    BY <1>1, <1>3, <1>6, <1>7, <2>1
  <2>7. \A a \in G : Follows(G, a, ptr'[a])
    BY <1>6, <1>7, <2>1, <2>6
  <2>8. p + size'[p] = bp + UpperSize /\ \A a \in Addr \ {p, bp} : size'[a] = size[a]
    BY <1>1, <1>3, <1>9, <2>2
  <2>9. \A a \in G \ {BASE} : a + size'[a] # ptr'[a]
    BY <1>1, <1>3, <1>6, <1>9, <1>10, <1>11, <2>1, <2>6, <2>8
  <2>10. size'[BASE] = 0 /\ \A b \in live : size'[b] = size[b]
    BY <1>1, <1>2, <1>3, <1>5, <1>12, <2>8, Addresses
  <2>11. G \in SUBSET Addr /\ live \cap G = {}
    BY <1>2, <1>6, <2>1
  <2>12. BASE \in G /\ p \in G
    BY <1>6, <2>1
  <2>13. Parted(live \cup (G \ {BASE}), size', brk) /\ size' \in [Addr -> Nat]
    <3> HIDE DEF BM, G
    <3> QED  BY <2>4, <2>5
  <2> HIDE DEF G
  <2> QED  BY <2>1, <2>6, <2>7, <2>9, <2>10, <2>11, <2>12, <2>13
<1>13. CASE ~ JoinsLower
  <2>1. /\ size' = sz /\ ptr' = [ptr EXCEPT ![bp] = UpperPtr, ![p] = bp]
        /\ freep' = p /\ G = M \cup {bp}
    BY <1>13 DEF Linked
  <2>2. BM = live \cup (G \ {BASE})
    BY <1>3, <2>1
  <2>3. /\ ptr'[p] = bp /\ ptr'[bp] = UpperPtr /\ \A a \in M \ {p} : ptr'[a] = ptr[a]
        /\ ptr' \in [Addr -> Addr \cup {NULL}]
    BY <1>1, <1>3, <1>6, <1>7, <2>1
  <2>4. /\ Follows(G, p, bp) /\ Follows(G, bp, UpperPtr)
        /\ \A c \in M \ {p}, d \in M : Follows(M, c, d) => Follows(G, c, d)
    <3>1. M \in SUBSET Addr /\ bp \notin M
      BY <1>1, <1>6
    <3> QED  BY <1>1, <1>3, <1>6, <1>7, <2>1, <3>1, PutIn
  <2>5. \A a \in M \ {p} : ptr[a] \in M
    BY <1>7 DEF Follows
  <2>6. \A a \in G : Follows(G, a, ptr'[a])
    <3>1. \A a \in M \ {p} : Follows(G, a, ptr[a])
      <4> HIDE DEF G, M
      <4> QED  BY <1>7, <2>4, <2>5
    <3>2. \A a \in G : a = p \/ a = bp \/ a \in M \ {p}
      BY <2>1
    <3> HIDE DEF G, M
    <3> QED  BY <2>3, <2>4, <3>1, <3>2
  <2>7. p + size'[p] # ptr'[p]
    BY <1>1, <1>3, <1>9, <1>13, <2>1, <2>3 DEF JoinsLower
  <2>8. \A a \in G \ {BASE} : a + size'[a] # ptr'[a]
    BY <1>9, <1>10, <1>11, <2>1, <2>3, <2>7
  <2>9. size'[BASE] = 0 /\ \A b \in live : size'[b] = size[b]
    BY <1>2, <1>3, <1>9, <2>1, Addresses
  <2>10. G \in SUBSET Addr /\ live \cap G = {}
    BY <1>2, <1>3, <1>6, <2>1
  <2>11. BASE \in G /\ p \in G /\ Parted(live \cup (G \ {BASE}), size', brk)
         /\ size' \in [Addr -> Nat]
    BY <1>6, <1>8, <2>1, <2>2
  <2> HIDE DEF G
  <2> QED  BY <2>1, <2>3, <2>6, <2>8, <2>9, <2>10, <2>11
<1> QED  BY <1>12, <1>13

----------------------------------------------------------------------------
(* Every step keeps the invariant, and the sizes of live blocks.           *)

KeepsLive == \A b \in live : size'[b] = size[b]

LEMMA ReturnTypes ==
  ASSUME Return
  PROVE  /\ pc' = "idle" /\ nbytes' \in Requests \cup {0} /\ nunits' \in Nat
         /\ p' \in Addr \cup {NULL} /\ prevp' \in Addr \cup {NULL}
         /\ bp' \in Addr \cup {NULL}
BY DEF Return

(* What a step that only moves on from place to place leaves as it was.    *)
LEMMA LaidAsBefore ==
  ASSUME NEW F \in SUBSET Addr, Laid(F), UNCHANGED <<mem, brk, live>>, InHand' = InHand
  PROVE  Laid(F)'
<1>1. ptr' = ptr /\ size' = size /\ freep' = freep /\ brk' = brk /\ live' = live
  BY DEF mem
<1>2. Ordered(F)' /\ Joined(F)' /\ (size[BASE] = 0)'
  BY <1>1 DEF Laid, Ordered, Joined, BASE
<1>3. Blocks(F)' = Blocks(F)
  BY <1>1 DEF Blocks, BASE
<1>4. Parted(Blocks(F), size, brk)'
  BY <1>1, <1>3 DEF Laid
<1> QED  BY <1>1, <1>2, <1>4 DEF Laid

LEMMA InitSound == Init => HeapSound
<1> HAVE Init
<1>1. TypeOK
  BY Addresses, UnitsAssumption DEF Init, TypeOK, PCs
<1> QED  BY <1>1 DEF Init, HeapSound, Unused

LEMMA MallocSound ==
  ASSUME HeapSound, NEW n \in Requests, Malloc(n) PROVE HeapSound' /\ KeepsLive
<1>1. /\ TypeOK /\ pc = "idle" /\ nbytes' = n /\ nunits' = NUnits(n) /\ nunits' \in Nat
      /\ prevp' = freep' /\ p' = ptr'[freep'] /\ pc' = "search"
      /\ brk' = brk /\ live' = live /\ bp' = bp
  BY SomeUnits DEF HeapSound, Malloc
<1>2. InHand' = {} /\ InHand = {}
  BY <1>1 DEF InHand, Freeing
<1>3. CASE freep = NULL
  <2>1. /\ ptr' = [ptr EXCEPT ![BASE] = BASE] /\ size' = [size EXCEPT ![BASE] = 0]
        /\ freep' = BASE
    BY <1>3 DEF Malloc
  <2>2. ~ \E F \in SUBSET Addr : Laid(F)
    BY <1>3, Addresses DEF Laid, Ordered
  <2>3. live = {} /\ brk = HEAP_START
    BY <2>2 DEF HeapSound, Unused
  <2>4. ptr'[BASE] = BASE /\ size'[BASE] = 0
    BY <1>1, <2>1, Addresses DEF TypeOK
  <2>5. TypeOK'
    BY <1>1, <2>1, <2>4, Addresses DEF TypeOK, PCs
  <2>6. Blocks({BASE})' = {}
    BY <1>1, <1>2, <2>3 DEF Blocks, BASE
  <2>7. Parted({}, size', brk')
    BY <1>1, <2>3, UnitsAssumption DEF Parted
  <2>8. Laid({BASE})'
    <3>1. Ordered({BASE})' /\ Joined({BASE})' /\ (size[BASE] = 0)'
      BY <2>1, <2>4, Addresses DEF Ordered, Joined, Follows, BASE
    <3> QED  BY <1>1, <1>2, <2>3, <2>6, <2>7, <3>1 DEF Laid
  <2>9. Places({BASE})'
    BY <1>1, <2>1 DEF Places, Freeing, BASE
  <2>10. {BASE} \in SUBSET Addr
    BY Addresses
  <2>11. \E F \in SUBSET Addr : Laid(F)' /\ Places(F)'
    BY <2>8, <2>9, <2>10 DEF BASE
  <2> QED  BY <2>3, <2>5, <2>11 DEF HeapSound, KeepsLive, Addr, BASE, Heap
<1>4. CASE freep # NULL
  <2>1. UNCHANGED mem
    BY <1>4 DEF Malloc
  <2>2. PICK F \in SUBSET Addr : Laid(F) /\ Places(F)
    BY <1>4 DEF HeapSound, Unused
  <2>3. Laid(F)'
    BY <1>1, <1>2, <2>1, <2>2, LaidAsBefore
  <2>4. freep \in F /\ ptr[freep] \in F /\ ptr' = ptr /\ freep' = freep /\ size' = size
    BY <2>1, <2>2 DEF Laid, Ordered, Follows, mem
  <2>5. Places(F)'
    BY <1>1, <2>4 DEF Places, Freeing
  <2>6. TypeOK'
    BY <1>1, <2>4, Addresses DEF TypeOK, PCs
  <2> QED  BY <2>3, <2>4, <2>5, <2>6 DEF HeapSound, KeepsLive, Addr, BASE, Heap
<1> QED  BY <1>3, <1>4

(* The block a search stops at is a free one, with its units.              *)
LEMMA Found ==
  ASSUME HeapSound, pc = "search"
  PROVE  /\ TypeOK /\ nunits \in Nat /\ 1 <= nunits /\ nbytes \in Requests
         /\ nunits = NUnits(nbytes)
         /\ \E F \in SUBSET Addr :
              /\ Laid(F) /\ Places(F) /\ prevp \in F /\ p \in F /\ p = ptr[prevp]
              /\ Blocks(F) = live \cup (F \ {BASE})
<1>1. TypeOK
  BY DEF HeapSound
<1>2. PICK F \in SUBSET Addr : Laid(F) /\ Places(F)
  BY DEF HeapSound, Unused
<1>3. /\ prevp \in F /\ p = ptr[prevp] /\ nbytes \in Requests /\ nunits = NUnits(nbytes)
  BY <1>2 DEF Places
<1>4. p \in F
  BY <1>2, <1>3 DEF Laid, Ordered, Follows
<1>5. Blocks(F) = live \cup (F \ {BASE})
  BY DEF Blocks, InHand, Freeing
<1>6. nunits \in Nat /\ 1 <= nunits
  BY <1>3, SomeUnits
<1> QED  BY <1>1, <1>2, <1>3, <1>4, <1>5, <1>6

LEMMA TakeWholeSound ==
  ASSUME HeapSound, TakeWhole PROVE HeapSound' /\ KeepsLive /\ size' = size
<1>1. /\ pc = "search" /\ size[p] = nunits /\ ptr' = [ptr EXCEPT ![prevp] = ptr[p]]
      /\ freep' = prevp /\ live' = live \cup {p} /\ Return /\ size' = size /\ brk' = brk
  BY DEF TakeWhole, Fits
<1>2. TypeOK /\ nunits \in Nat /\ 1 <= nunits
  BY <1>1, Found
<1>3. PICK F \in SUBSET Addr :
        /\ Laid(F) /\ Places(F) /\ prevp \in F /\ p \in F /\ p = ptr[prevp]
        /\ Blocks(F) = live \cup (F \ {BASE})
  BY <1>1, Found
<1>4. PICK G \in SUBSET Addr : G = F \ {p}
  OBVIOUS
<1>5. /\ \A a \in F : Follows(F, a, ptr[a])
      /\ size[BASE] = 0 /\ live \cap F = {} /\ BASE \in F
      /\ \A a \in F \ {BASE} : a + size[a] # ptr[a]
      /\ Parted(live \cup (F \ {BASE}), size, brk)
  BY <1>3 DEF Laid, Ordered, Joined
<1>6. p # BASE /\ p \in Heap
  BY <1>1, <1>2, <1>3, <1>5, Addresses
<1>7. /\ prevp # p /\ prevp < p /\ Follows(G, prevp, ptr[p])
      /\ (p < ptr[p] \/ ptr[p] = BASE)
  BY <1>4, <1>3, <1>5, <1>6, TakenOut
<1>8. prevp \in Addr /\ ptr \in [Addr -> Addr \cup {NULL}] /\ ptr[p] \in Addr
  BY <1>2, <1>3, <1>5 DEF TypeOK, Follows
<1>9. ptr'[prevp] = ptr[p] /\ \A a \in G \ {prevp} : ptr'[a] = ptr[a]
  BY <1>4, <1>1, <1>8
<1>10. ASSUME NEW a \in G PROVE Follows(G, a, ptr'[a])
  <2>1. CASE a = prevp
    BY <1>7, <1>9, <2>1
  <2>2. CASE a # prevp
    <3>1. ptr[a] # p
      BY <1>4, <1>3, <1>5, <1>6, <2>2, OnlyBefore
    <3> QED  BY <1>4, <1>5, <1>9, <2>2, <3>1 DEF Follows
  <2> QED  BY <2>1, <2>2
<1>11. ASSUME NEW a \in G \ {BASE} PROVE a + size[a] # ptr'[a]
  <2>1. CASE a = prevp
    <3>1. a + size[a] <= p
      BY <1>4, <1>3, <1>6, <1>5, <1>7, <2>1 DEF Parted
    <3>2. a \in Nat /\ 1 < a /\ BASE = 0
      BY <1>4, Addresses
    <3>3. p \in Nat /\ size[a] \in Nat /\ ptr[p] \in Nat
      BY <1>2, <1>6, <1>8, Addresses DEF TypeOK
    <3> QED  BY <1>7, <1>9, <2>1, <3>1, <3>2, <3>3
  <2>2. CASE a # prevp
    BY <1>4, <1>5, <1>9, <2>2
  <2> QED  BY <2>1, <2>2
<1>12. InHand' = {} /\ Freeing' = FALSE /\ pc' = "idle"
  BY <1>1, ReturnTypes DEF InHand, Freeing
<1>13. Blocks(G)' = live \cup (F \ {BASE})
  BY <1>4, <1>1, <1>3, <1>6, <1>12 DEF Blocks, BASE
<1>14. Parted(Blocks(G)', size', brk')
  BY <1>1, <1>5, <1>13
<1>15. BASE \in G /\ prevp \in G /\ live' \cap G = {}
  BY <1>4, <1>1, <1>3, <1>5, <1>6, <1>7
<1>16. Ordered(G)' /\ Joined(G)'
  BY <1>1, <1>10, <1>11, <1>15 DEF Ordered, Joined, BASE
<1>17. Laid(G)'
  BY <1>1, <1>5, <1>12, <1>14, <1>15, <1>16 DEF Laid, BASE
<1>18. Places(G)'
  BY <1>12 DEF Places
<1>19. TypeOK'
  BY <1>1, <1>2, <1>6, <1>8, ReturnTypes DEF TypeOK, PCs
<1> QED  BY <1>1, <1>17, <1>18, <1>19 DEF HeapSound, KeepsLive, Addr, BASE, Heap

LEMMA TakeTailSound ==
  ASSUME HeapSound, TakeTail
  PROVE  /\ HeapSound' /\ KeepsLive
         /\ \E t \in Heap \ live : live' = live \cup {t} /\ size'[t] = nunits
<1> DEFINE t == p + (size[p] - nunits)
<1>1. /\ pc = "search" /\ nunits <= size[p] /\ size[p] # nunits
      /\ size' = [size EXCEPT ![p] = size[p] - nunits, ![t] = nunits]
      /\ live' = live \cup {t} /\ freep' = prevp /\ Return /\ ptr' = ptr /\ brk' = brk
  BY DEF TakeTail, Fits
<1>2. TypeOK /\ nunits \in Nat /\ 1 <= nunits
  BY <1>1, Found
<1>3. PICK F \in SUBSET Addr :
        /\ Laid(F) /\ Places(F) /\ prevp \in F /\ p \in F /\ p = ptr[prevp]
        /\ Blocks(F) = live \cup (F \ {BASE})
  BY <1>1, Found
<1>4. /\ \A a \in F : Follows(F, a, ptr[a]) /\ ptr[a] \in F
      /\ size[BASE] = 0 /\ live \cap F = {} /\ BASE \in F
      /\ \A a \in F \ {BASE} : a + size[a] # ptr[a]
  BY <1>3 DEF Laid, Ordered, Joined, Follows
<1>5. size[p] \in Nat /\ p # BASE /\ p \in Addr /\ size \in [Addr -> Nat]
  BY <1>1, <1>2, <1>3, <1>4, Addresses DEF TypeOK
<1>6. PICK B \in SUBSET Addr : B = Blocks(F)
  BY <1>2, <1>3, BlocksAddresses
<1>7. /\ Parted(B, size, brk) /\ p \in B /\ brk \in Nat /\ brk <= HEAP_END
      /\ nunits < size[p] /\ 0 < nunits
  BY <1>1, <1>2, <1>3, <1>5, <1>6, BlocksAddresses DEF Laid
<1>8. PICK tail : tail = t
  OBVIOUS
<1>9. /\ tail \in Heap \ B /\ size' \in [Addr -> Nat] /\ p # tail
      /\ \A b \in B : b # p => tail # b /\ size'[b] = size[b]
      /\ Parted(B \cup {tail}, size', brk)
  <2>1. size' = [size EXCEPT ![p] = size[p] - nunits, ![tail] = nunits]
    BY <1>1, <1>8
  <2>2. nunits \in Nat /\ size \in [Addr -> Nat] /\ tail = p + (size[p] - nunits)
    BY <1>2, <1>5, <1>8
  <2> HIDE DEF t
  <2>3. tail \in Heap \ B /\ p # tail
    BY <1>7, <2>2, TailInside
  <2>4. /\ size' \in [Addr -> Nat] /\ size'[p] = size[p] - nunits /\ size'[tail] = nunits
        /\ \A b \in B : b # p => tail # b /\ size'[b] = size[b]
    <3>1. size[p] - nunits \in Nat /\ tail \in Addr
      BY <1>5, <1>7, <2>2, <2>3, Addresses
    <3> QED  BY <1>5, <2>1, <2>2, <2>3, <3>1
  <2>5. Parted(B \cup {tail}, size', brk)
    BY <1>7, <2>2, <2>4, CutOff
  <2> QED  BY <2>3, <2>4, <2>5
<1>10. tail \notin F /\ tail \notin live /\ tail # BASE /\ p \notin live
  BY <1>3, <1>4, <1>6, <1>9, Addresses
<1>11. size'[p] = tail - p /\ size'[tail] = nunits /\ size'[BASE] = 0
  BY <1>1, <1>4, <1>5, <1>8, <1>9, <1>10, Addresses
<1>12. ASSUME NEW a \in F \ {BASE} PROVE a + size'[a] # ptr[a]
  <2>1. CASE a = p
    <3>1. p + size'[p] = tail
      BY <1>5, <1>9, <1>11, Addresses
    <3> QED  BY <1>4, <1>10, <2>1, <3>1
  <2>2. CASE a # p
    BY <1>3, <1>4, <1>6, <1>9, <2>2
  <2> QED  BY <2>1, <2>2
<1>13. InHand' = {} /\ Freeing' = FALSE /\ pc' = "idle"
  BY <1>1, ReturnTypes DEF InHand, Freeing
<1>14. Blocks(F)' = B \cup {tail}
  BY <1>1, <1>3, <1>6, <1>8, <1>13 DEF Blocks, BASE
<1>15. Ordered(F)' /\ Joined(F)'
  BY <1>1, <1>3, <1>4, <1>12 DEF Ordered, Joined, BASE
<1>16. Laid(F)'
  <2>1. live' \cap F = {}
    BY <1>1, <1>4, <1>8, <1>10
  <2>2. Parted(Blocks(F)', size', brk')
    BY <1>1, <1>9, <1>14
  <2> QED  BY <1>11, <1>13, <1>15, <2>1, <2>2 DEF Laid, BASE
<1>17. Places(F)'
  BY <1>13 DEF Places
<1>18. TypeOK'
  BY <1>1, <1>2, <1>3, <1>8, <1>9, ReturnTypes DEF TypeOK, PCs
<1>19. \A b \in live : size'[b] = size[b]
  BY <1>3, <1>6, <1>9, <1>10
<1>20. HeapSound' /\ KeepsLive
  BY <1>16, <1>17, <1>18, <1>19 DEF HeapSound, KeepsLive, Addr, BASE, Heap
<1> QED  BY <1>1, <1>8, <1>9, <1>10, <1>11, <1>20

LEMMA NextBlockSound ==
  ASSUME HeapSound, NextBlock PROVE HeapSound' /\ KeepsLive /\ size' = size
<1>1. /\ pc = "search" /\ prevp' = p /\ p' = ptr[p] /\ UNCHANGED <<mem, brk, live, pc>>
      /\ nbytes' = nbytes /\ nunits' = nunits /\ bp' = bp
      /\ ptr' = ptr /\ size' = size /\ freep' = freep
  BY DEF NextBlock, mem
<1>2. PICK F \in SUBSET Addr :
        Laid(F) /\ Places(F) /\ prevp \in F /\ p \in F /\ p = ptr[prevp]
  BY <1>1, Found
<1>3. InHand' = InHand
  BY <1>1 DEF InHand, Freeing
<1>4. Laid(F)'
  BY <1>1, <1>2, <1>3, LaidAsBefore
<1>5. ptr[p] \in F
  BY <1>2 DEF Laid, Ordered, Follows
<1>6. Places(F)'
  BY <1>1, <1>2 DEF Places, Freeing, NUnits
<1>7. TypeOK'
  BY <1>1, <1>2, <1>5 DEF HeapSound, TypeOK, Addr, PCs, BASE, Heap
<1> QED  BY <1>1, <1>4, <1>6, <1>7 DEF HeapSound, KeepsLive, Addr, BASE, Heap

LEMMA MoreCoreSound ==
  ASSUME HeapSound, MoreCore PROVE HeapSound' /\ KeepsLive
<1>1. /\ pc = "search" /\ brk + CoreUnits <= HEAP_END
      /\ size' = [size EXCEPT ![brk] = CoreUnits]
      /\ bp' = brk /\ p' = freep /\ brk' = brk + CoreUnits /\ pc' = "core"
      /\ ptr' = ptr /\ freep' = freep /\ live' = live
      /\ nbytes' = nbytes /\ nunits' = nunits /\ prevp' = prevp
  BY DEF MoreCore, NeedsCore
<1>2. TypeOK /\ nunits \in Nat /\ nbytes \in Requests /\ nunits = NUnits(nbytes)
  BY <1>1, Found
<1>3. PICK F \in SUBSET Addr :
        /\ Laid(F) /\ Places(F) /\ prevp \in F /\ p \in F
        /\ Blocks(F) = live \cup (F \ {BASE})
  BY <1>1, Found
<1>4. PICK n \in Nat : n = CoreUnits /\ 0 < n
  BY <1>2, SomeCore
<1>5. brk \in Heap /\ brk + n \in HEAP_START .. HEAP_END /\ size \in [Addr -> Nat]
  BY <1>1, <1>2, <1>4, UnitsAssumption DEF TypeOK, Heap
<1>6. PICK B \in SUBSET Addr : B = Blocks(F)
  BY <1>2, <1>3, BlocksAddresses
<1>7. /\ brk \notin B /\ size' \in [Addr -> Nat]
      /\ \A b \in B : size'[b] = size[b]
      /\ Parted(B \cup {brk}, size', brk + n)
  <2>1. Parted(B, size, brk)
    BY <1>3, <1>6 DEF Laid
  <2> QED  BY <1>1, <1>4, <1>5, <2>1, Grown
<1>8. brk # BASE /\ brk \notin F /\ brk \notin live /\ brk \in Addr
  BY <1>3, <1>5, <1>6, <1>7, Addresses
<1>9. size'[BASE] = 0
  BY <1>1, <1>3, <1>5, <1>8, Addresses DEF Laid
<1>10. InHand' = {brk}
  BY <1>1 DEF InHand, Freeing
<1>11. Blocks(F)' = B \cup {brk}
  BY <1>1, <1>3, <1>6, <1>10 DEF Blocks, BASE
<1>12. Ordered(F)' /\ Joined(F)'
  <2>1. \A a \in F \ {BASE} : size'[a] = size[a]
    BY <1>3, <1>6, <1>7
  <2> QED  BY <1>1, <1>3, <2>1 DEF Laid, Ordered, Joined, BASE
<1>13. Laid(F)'
  <2>1. Parted(Blocks(F)', size', brk')
    BY <1>1, <1>4, <1>7, <1>11
  <2> QED  BY <1>1, <1>3, <1>8, <1>9, <1>10, <1>12, <2>1 DEF Laid, BASE
<1>14. Places(F)'
  BY <1>1, <1>2, <1>3, <1>5 DEF Places, Freeing, Laid, Ordered, NUnits, Heap
<1>15. TypeOK'
  BY <1>1, <1>2, <1>4, <1>5, <1>7, <1>8 DEF TypeOK, PCs
<1>16. KeepsLive
  BY <1>3, <1>6, <1>7 DEF KeepsLive
<1> QED  BY <1>13, <1>14, <1>15, <1>16 DEF HeapSound, Addr, BASE, Heap

LEMMA NoCoreSound ==
  ASSUME HeapSound, NoCore PROVE HeapSound' /\ KeepsLive /\ size' = size
<1>1. /\ pc = "search" /\ UNCHANGED <<mem, brk, live>>
      /\ ptr' = ptr /\ size' = size /\ freep' = freep
      /\ Return \/ (pc' = "crashed" /\ UNCHANGED locals)
  BY DEF NoCore, NeedsCore, mem
<1>2. PICK F \in SUBSET Addr : Laid(F) /\ Places(F)
  BY <1>1, Found
<1>3. InHand' = {} /\ InHand = {} /\ pc' \in {"idle", "crashed"}
  BY <1>1, ReturnTypes DEF InHand, Freeing
<1>4. Laid(F)'
  BY <1>1, <1>2, <1>3, LaidAsBefore
<1>5. Places(F)'
  BY <1>3 DEF Places, Freeing
<1>6. TypeOK'
  BY <1>1, ReturnTypes DEF HeapSound, TypeOK, Addr, PCs, BASE, Heap, locals
<1> QED  BY <1>1, <1>4, <1>5, <1>6 DEF HeapSound, KeepsLive, Addr, BASE, Heap

LEMMA FreeSound ==
  ASSUME HeapSound, NEW b \in live, Free(b) PROVE HeapSound' /\ KeepsLive /\ size' = size
<1>1. /\ pc = "idle" /\ live' = live \ {b} /\ bp' = b /\ p' = freep /\ pc' = "free"
      /\ ptr' = ptr /\ size' = size /\ freep' = freep /\ brk' = brk
      /\ nbytes' = nbytes /\ nunits' = nunits /\ prevp' = prevp
  BY DEF Free, mem
<1>2. PICK F \in SUBSET Addr : Laid(F) /\ Places(F)
  BY DEF HeapSound, Unused
<1>3. InHand' = {b} /\ InHand = {} /\ b \in Heap
  BY <1>1 DEF InHand, Freeing, HeapSound, TypeOK
<1>4. Blocks(F)' = Blocks(F)
  BY <1>1, <1>3 DEF Blocks, BASE
<1>5. Ordered(F)' /\ Joined(F)'
  BY <1>1, <1>2 DEF Laid, Ordered, Joined, BASE
<1>6. Laid(F)'
  BY <1>1, <1>2, <1>3, <1>4, <1>5 DEF Laid, BASE
<1>7. Places(F)'
  BY <1>1, <1>2, <1>3 DEF Places, Freeing, Laid, Ordered, Heap
<1>8. TypeOK'
  BY <1>1, <1>3, Addresses DEF HeapSound, TypeOK, PCs
<1> QED  BY <1>1, <1>6, <1>7, <1>8 DEF HeapSound, KeepsLive, Addr, BASE, Heap

LEMMA FreeScanSound ==
  ASSUME HeapSound, FreeScan PROVE HeapSound' /\ KeepsLive /\ size' = size
<1>1. /\ Freeing /\ p' = ptr[p] /\ UNCHANGED <<mem, brk, live, pc>> /\ bp' = bp
      /\ ptr' = ptr /\ size' = size /\ freep' = freep
      /\ nbytes' = nbytes /\ nunits' = nunits /\ prevp' = prevp
  BY DEF FreeScan, mem
<1>2. PICK F \in SUBSET Addr : Laid(F) /\ Places(F)
  BY <1>1 DEF HeapSound, Unused, Freeing
<1>3. InHand' = InHand
  BY <1>1 DEF InHand, Freeing
<1>4. Laid(F)'
  BY <1>1, <1>2, <1>3, LaidAsBefore
<1>5. ptr[p] \in F
  BY <1>1, <1>2 DEF Laid, Ordered, Follows, Places
<1>6. Places(F)'
  BY <1>1, <1>2, <1>5 DEF Places, Freeing, NUnits, Heap
<1>7. TypeOK'
  BY <1>1, <1>2, <1>5 DEF HeapSound, TypeOK, Addr, PCs, BASE, Heap
<1> QED  BY <1>1, <1>4, <1>6, <1>7 DEF HeapSound, KeepsLive, Addr, BASE, Heap

LEMMA LinkSound ==
  ASSUME HeapSound, FreeLink \/ CoreLink PROVE HeapSound' /\ KeepsLive
<1>1. /\ Freeing /\ (Between \/ AtEnd) /\ Linked /\ brk' = brk /\ live' = live
      /\ FreeLink => pc = "free" /\ Return
      /\ CoreLink => /\ pc = "core" /\ prevp' = p /\ p' = ptr'[p] /\ pc' = "search"
                     /\ bp' = NULL /\ nbytes' = nbytes /\ nunits' = nunits
  BY DEF FreeLink, CoreLink, Freeing
<1>2. PICK F \in SUBSET Addr : Laid(F) /\ Places(F)
  BY <1>1 DEF HeapSound, Unused, Freeing
<1>3. PICK G \in SUBSET Addr :
           /\ p \in G /\ live \cap G = {}
           /\ freep' = p /\ \A a \in G : Follows(G, a, ptr'[a])
           /\ BASE \in G /\ size'[BASE] = 0
           /\ \A a \in G \ {BASE} : a + size'[a] # ptr'[a]
           /\ Parted(live \cup (G \ {BASE}), size', brk)
           /\ ptr' \in [Addr -> Addr \cup {NULL}] /\ size' \in [Addr -> Nat]
           /\ \A b \in live : size'[b] = size[b]
  <2>1. TypeOK
    BY DEF HeapSound
  <2>2. Freeing /\ (Between \/ AtEnd) /\ Linked
    BY <1>1
  <2> QED  BY <1>2, <2>1, <2>2, FreeingKeeps
<1>4. InHand' = {} /\ Freeing' = FALSE
  BY <1>1, ReturnTypes DEF InHand, Freeing
<1>5. Blocks(G)' = live \cup (G \ {BASE})
  BY <1>1, <1>4 DEF Blocks, BASE
<1>6. Ordered(G)' /\ Joined(G)'
  BY <1>3 DEF Ordered, Joined, BASE
<1>7. Parted(Blocks(G)', size', brk')
  BY <1>1, <1>3, <1>5
<1>8. Laid(G)'
  BY <1>1, <1>3, <1>4, <1>6, <1>7 DEF Laid, BASE
<1>9. Places(G)'
  <2>1. CASE FreeLink
    BY <1>1, <1>4, <2>1, ReturnTypes DEF Places
  <2>2. CASE CoreLink
    BY <1>1, <1>2, <1>3, <1>4, <2>2 DEF Places, NUnits
  <2> QED  BY <2>1, <2>2
<1>10. p \in Addr /\ (CoreLink => ptr'[p] \in Addr)
  BY <1>3 DEF Follows
<1>11. TypeOK'
  <2>1. CASE FreeLink
    BY <1>1, <1>3, <1>10, <2>1, ReturnTypes DEF HeapSound, TypeOK, Addr, PCs, BASE, Heap
  <2>2. CASE CoreLink
    BY <1>1, <1>3, <1>10, <2>2 DEF HeapSound, TypeOK, Addr, PCs, BASE, Heap, NULL
  <2> QED  BY <2>1, <2>2
<1> QED  BY <1>3, <1>8, <1>9, <1>11 DEF HeapSound, KeepsLive, Addr, BASE, Heap

LEMMA StepSound == HeapSound /\ [Next]_vars => HeapSound'
<1> SUFFICES ASSUME HeapSound, [Next]_vars PROVE HeapSound'
  OBVIOUS
<1>1. CASE \E n \in Requests : Malloc(n)
  BY <1>1, MallocSound
<1>2. CASE \E b \in live : Free(b)
  BY <1>2, FreeSound
<1>3. CASE Step
  BY <1>3, TakeWholeSound, TakeTailSound, NextBlockSound, MoreCoreSound, NoCoreSound,
     FreeScanSound, LinkSound DEF Step
<1>4. CASE UNCHANGED vars
  BY <1>4 DEF vars, mem, locals, HeapSound, TypeOK, Unused, Laid, Places, Ordered, Joined,
     Follows, Blocks, InHand, Freeing, Addr, Heap, BASE, NULL, PCs, Parted, NUnits
<1> QED  BY <1>1, <1>2, <1>3, <1>4 DEF Next

(* Whatever is asked for and given back, in whatever order, and wherever   *)
(* the kernel refuses: every address of the heap is in one block, and the  *)
(* free ones are a list in the order of addresses.                         *)
THEOREM HeapStaysSound == Spec => []HeapSound
BY InitSound, StepSound, PTL DEF Spec

(* The allocator's fields and local variables hold addresses of the heap,  *)
(* base or nothing, in every loop of tb_malloc and tb_free.                *)
THEOREM TypeCorrect == Spec => []TypeOK
<1>1. HeapSound => TypeOK
  BY DEF HeapSound
<1> QED  BY <1>1, HeapStaysSound, PTL

(* The list that a search from freep goes round is one cycle in the order  *)
(* of addresses, and no two of its blocks touch: what tb_free joined stays *)
(* joined, which the scan for a place and the joining rely on.             *)
THEOREM ListStaysInOrder == Spec => []ListInOrder
<1>1. HeapSound => ListInOrder
  <2> SUFFICES ASSUME HeapSound, freep # NULL PROVE ListInOrder
    BY DEF ListInOrder
  <2>1. PICK F \in SUBSET Addr : Laid(F) /\ Places(F)
    BY DEF HeapSound, Unused
  <2>2. FreeList = F /\ Ordered(F) /\ Joined(F)
    BY <2>1, ListIsOrdered DEF HeapSound, Laid
  <2>3. ASSUME NEW a \in F
        PROVE  IF \E c \in F : a < c
               THEN a < ptr[a] /\ ~ \E c \in F : a < c /\ c < ptr[a]
               ELSE ptr[a] = BASE
    <3>1. Follows(F, a, ptr[a]) /\ ptr[a] \in Nat /\ \A c \in F : c \in Nat
      BY <2>2, Addresses DEF Ordered, Follows
    <3> QED  BY <3>1, Addresses DEF Follows
  <2> QED  BY <2>2, <2>3 DEF ListInOrder, Ordered, Joined
<1> QED  BY <1>1, HeapStaysSound, PTL

(* No unit of the heap belongs to two blocks, the live ones, the free ones *)
(* and the one tb_free or morecore has in hand, and none is lost.          *)
THEOREM HeapStaysPartitioned == Spec => []HeapPartitioned
<1>1. HeapSound => HeapPartitioned
  <2> SUFFICES ASSUME HeapSound PROVE HeapPartitioned
    OBVIOUS
  <2>1. CASE Unused
    <3>1. FreeList = {} /\ InHand = {} /\ live = {} /\ brk = HEAP_START
      BY <2>1 DEF Unused, FreeList, InHand, Freeing
    <3> QED  BY <3>1, UnitsAssumption DEF HeapPartitioned
  <2>2. CASE \E F \in SUBSET Addr : Laid(F) /\ Places(F)
    <3>1. PICK F \in SUBSET Addr : Laid(F) /\ Places(F)
      BY <2>2
    <3>2. FreeList = F
      BY <3>1, ListIsOrdered DEF HeapSound, Laid
    <3>3. PICK B \in SUBSET Addr : B = Blocks(F)
      BY <3>1, BlocksAddresses DEF HeapSound
    <3>4. Parted(B, size, brk) /\ live \cap F = {} /\ InHand \cap (live \cup F) = {}
      BY <3>1, <3>3 DEF Laid
    <3>5. /\ \A b \in B : b \in Nat /\ size[b] \in Nat
          /\ brk \in Nat
      BY Addresses, UnitsAssumption DEF HeapSound, TypeOK
    <3>6. \A a, c \in B : a # c => Area(a) \cap Area(c) = {}
      <4> SUFFICES ASSUME NEW a \in B, NEW c \in B, a # c, NEW u \in Area(a), u \in Area(c)
                   PROVE  FALSE
        OBVIOUS
      <4>1. a <= u /\ u < a + size[a] /\ c <= u /\ u < c + size[c] /\ u \in Int
        BY <3>5 DEF Area
      <4>2. a < c \/ c < a
        BY <3>5
      <4> QED  BY <3>4, <3>5, <4>1, <4>2 DEF Parted
    <3>7. UNION {Area(a) : a \in B} = HEAP_START .. brk - 1
      <4>1. ASSUME NEW a \in B, NEW u \in Area(a) PROVE u \in HEAP_START .. brk - 1
        BY <3>4, <3>5, UnitsAssumption DEF Area, Parted
      <4>2. ASSUME NEW u \in HEAP_START .. brk - 1 PROVE \E a \in B : u \in Area(a)
        <5>1. PICK a \in B : a <= u /\ u < a + size[a]
          BY <3>4 DEF Parted
        <5> QED  BY <3>5, <5>1, UnitsAssumption DEF Area
      <4> QED  BY <4>1, <4>2
    <3>8. B = live \cup (FreeList \ {BASE}) \cup InHand
      BY <3>2, <3>3 DEF Blocks
    <3> QED  BY <3>2, <3>4, <3>6, <3>7, <3>8 DEF HeapPartitioned
  <2> QED  BY <2>1, <2>2 DEF HeapSound
<1> QED  BY <1>1, HeapStaysSound, PTL

----------------------------------------------------------------------------
(* The caller's view.                                                      *)

(* nbytes + sizeof(Header) - 1 stays below 2^64: tb_malloc does not test   *)
(* it, and what it returns for the fifteen greatest sizes is one unit.     *)
NoWrap == \A n \in Requests : n + HEADER_SIZE <= WORD

LEMMA UnitsHold ==
  ASSUME NoWrap, NEW n \in Requests PROVE (NUnits(n) - 1) * HEADER_SIZE >= n
<1> DEFINE x == n + HEADER_SIZE - 1
           y == x \div HEADER_SIZE
<1>1. x \in Nat /\ x < WORD /\ n \in Nat /\ HEADER_SIZE \in Nat \ {0} /\ WORD \in Nat \ {0}
  BY UnitsAssumption DEF NoWrap
<1>2. x % WORD = x
  <2> HIDE DEF x
  <2> QED  BY <1>1, SMT
<1>3. y \in Nat
  BY <1>1, DivMod
<1>4. NUnits(n) - 1 = y
  <2>1. NUnits(n) = ((x % WORD) \div HEADER_SIZE) + 1
    BY DEF NUnits
  <2> HIDE DEF x
  <2> QED  BY <1>2, <1>3, <2>1
<1>5. x < HEADER_SIZE * y + HEADER_SIZE
  <2> HIDE DEF x
  <2> QED  BY <1>1, SMT
<1>6. HEADER_SIZE * y = y * HEADER_SIZE
  <2> HIDE DEF y
  <2> QED  BY <1>1, <1>3, SMT
<1>7. y * HEADER_SIZE \in Nat
  <2> HIDE DEF y
  <2> QED  BY <1>1, <1>3, SMT
<1>8. y * HEADER_SIZE >= n
  <2> HIDE DEF y
  <2> QED  BY <1>1, <1>5, <1>6, <1>7
<1> QED  BY <1>4, <1>8

Owned == {Area(b) : b \in live}
Asked == IF pc \in {"search", "core", "crashed"} THEN nbytes ELSE -1

LEMMA AskedNothing ==
  ASSUME HeapSound
  PROVE  /\ pc \in {"search", "core"} => Asked = nbytes /\ Asked # -1 /\ nbytes \in Requests
         /\ pc \in {"idle", "free"} => Asked = -1
<1>1. pc \in {"search", "core"} => nbytes \in Requests
  BY DEF HeapSound, Unused, Places
<1>2. \A n \in Requests : n # -1
  BY UnitsAssumption
<1> QED  BY <1>1, <1>2 DEF Asked

LEMMA SameAreas ==
  ASSUME KeepsLive PROVE \A b \in live : Area(b)' = Area(b)
BY DEF KeepsLive, Area

(* A step that changes neither what is owned nor what is asked.            *)
LEMMA Unseen ==
  ASSUME KeepsLive, live' = live, Asked' = Asked PROVE UNCHANGED <<Owned, Asked>>
BY SameAreas DEF Owned

LEMMA SameCount == ASSUME NEW S PROVE Abstract!Cardinality(S) = Cardinality(S)
BY DEF Abstract!Cardinality, Cardinality

(* A block handed out is an area of its own, large enough.                 *)
LEMMA Granted ==
  ASSUME NoWrap, HeapSound, HeapSound', KeepsLive, pc = "search", Return,
         NEW t \in Heap \ live, live' = live \cup {t}, size'[t] = nunits
  PROVE  Abstract!Next
<1>1. /\ nunits \in Nat /\ 1 <= nunits /\ nbytes \in Requests /\ nunits = NUnits(nbytes)
      /\ Asked = nbytes /\ Asked # -1
  BY Found, AskedNothing
<1>2. pc' = "idle" /\ Asked' = -1
  BY ReturnTypes DEF Asked
<1>3. /\ TypeOK' /\ t \in Nat /\ brk' \in Nat /\ brk' <= HEAP_END
      /\ \A b \in live' : b \in Nat /\ size'[b] \in Nat
  BY Addresses, UnitsAssumption DEF HeapSound, TypeOK
<1>4. /\ \A b \in live' : HEAP_START <= b /\ b + size'[b] <= brk'
      /\ \A a, b \in live' : a < b => a + size'[a] <= b
  <2>1. ~ Unused'
    BY DEF Unused
  <2>2. PICK F \in SUBSET Addr : Laid(F)' /\ Places(F)'
    BY <2>1 DEF HeapSound, Addr, Heap, BASE
  <2>3. Parted(Blocks(F)', size', brk')
    BY <2>2 DEF Laid
  <2>4. live' \subseteq Blocks(F)'
    BY DEF Blocks
  <2> QED  BY <2>3, <2>4 DEF Parted
<1>5. PICK area : area = t .. t + nunits - 1
  OBVIOUS
<1>6. Owned' = Owned \cup {area}
  <2>1. Area(t)' = area
    BY <1>5 DEF Area
  <2> QED  BY <2>1, SameAreas DEF Owned
<1>7. area \subseteq Heap
  BY <1>1, <1>3, <1>4, <1>5, UnitsAssumption DEF Heap
<1>8. Cardinality(area) = nunits
  <2>1. t \in Int /\ t + nunits - 1 \in Int
    BY <1>1, <1>3
  <2>2. Cardinality(area) = IF t > t + nunits - 1 THEN 0 ELSE (t + nunits - 1) - t + 1
    BY <1>5, <2>1, FS_Interval
  <2> QED  BY <1>1, <1>3, <2>2
<1>9. \E first \in area : area = first .. first + Cardinality(area) - 1
  BY <1>1, <1>3, <1>5, <1>8
<1>10. \A old \in Owned : area \cap old = {}
  <2> SUFFICES ASSUME NEW b \in live, NEW u \in area, u \in Area(b) PROVE FALSE
    BY DEF Owned
  <2>1. /\ b \in live' /\ t \in live' /\ size'[b] = size[b] /\ b # t
    BY DEF KeepsLive
  <2>2. b <= u /\ u < b + size[b] /\ t <= u /\ u < t + nunits
    BY <1>1, <1>3, <1>5, <2>1 DEF Area
  <2>3. b < t \/ t < b
    BY <1>3, <2>1
  <2> QED  BY <1>1, <1>3, <1>4, <1>5, <2>1, <2>2, <2>3
<1>11. (Cardinality(area) - 1) * HEADER_SIZE >= Asked
  BY <1>1, <1>8, UnitsHold
<1>12. Abstract!Grant(area)
  BY <1>1, <1>2, <1>6, <1>7, <1>9, <1>10, <1>11, SameCount
     DEF Abstract!Grant, Abstract!Nothing, Owned, Asked
<1>13. area \in Owned'
  BY <1>6
<1> QED  BY <1>12, <1>13 DEF Abstract!Next, Owned

LEMMA CallerSees ==
  ASSUME NoWrap, HeapSound, [Next]_vars
  PROVE  Abstract!Next \/ UNCHANGED <<Owned, Asked>>
<1>1. HeapSound'
  BY StepSound
<1>2. CASE \E n \in Requests : Malloc(n)
  <2>1. PICK n \in Requests : Malloc(n)
    BY <1>2
  <2>2. /\ pc = "idle" /\ pc' = "search" /\ nbytes' = n /\ live' = live /\ KeepsLive
    BY <2>1, MallocSound DEF Malloc
  <2>3. Asked = -1 /\ Asked' = n /\ Owned' = Owned
    BY <2>2, SameAreas DEF Asked, Owned
  <2>4. Abstract!Ask
    BY <2>3 DEF Abstract!Ask, Abstract!Nothing, Owned, Asked
  <2> QED  BY <2>4 DEF Abstract!Next
<1>3. CASE \E b \in live : Free(b)
  <2>1. PICK b \in live : Free(b)
    BY <1>3
  <2>2. /\ pc = "idle" /\ pc' = "free" /\ live' = live \ {b} /\ size' = size
    BY <2>1, FreeSound DEF Free
  <2>3. Asked = -1 /\ Asked' = -1
    BY <2>2 DEF Asked
  <2>4. \A a, c \in live : Area(a) = Area(c) => a = c
    <3> SUFFICES ASSUME NEW a \in live, NEW c \in live, Area(a) = Area(c) PROVE a = c
      OBVIOUS
    <3>1. PICK F \in SUBSET Addr : Laid(F) /\ Places(F)
      BY DEF HeapSound, Unused
    <3>2. a \in Nat /\ c \in Nat /\ size[a] \in Nat /\ size[c] \in Nat
      BY Addresses DEF HeapSound, TypeOK
    <3>3. size[a] > 0 /\ size[c] > 0
      BY <3>1 DEF Laid, Parted, Blocks
    <3>4. a \in Area(a) /\ c \in Area(c)
      BY <3>2, <3>3 DEF Area
    <3>5. a \in Area(c) /\ c \in Area(a)
      BY <3>4
    <3>6. c <= a /\ a <= c
      BY <3>2, <3>5 DEF Area
    <3> QED  BY <3>2, <3>6
  <2>5. Owned' = Owned \ {Area(b)} /\ Area(b) \in Owned
    BY <2>2, <2>4 DEF Owned, Area
  <2>6. Abstract!GiveBack(Area(b))
    BY <2>3, <2>5 DEF Abstract!GiveBack, Abstract!Nothing, Owned, Asked
  <2> QED  BY <2>5, <2>6 DEF Abstract!Next, Owned
<1>4. CASE TakeWhole
  <2>1. /\ pc = "search" /\ Return /\ KeepsLive /\ live' = live \cup {p} /\ size'[p] = nunits
    BY <1>4, TakeWholeSound DEF TakeWhole, Fits
  <2>2. p \in Heap \ live
    <3>1. PICK F \in SUBSET Addr : Laid(F) /\ p \in F
      BY <2>1, Found
    <3>2. nunits \in Nat /\ 1 <= nunits /\ size[p] = nunits
      BY <1>4, <2>1, Found DEF TakeWhole
    <3> QED  BY <3>1, <3>2, Addresses DEF Laid
  <2> QED  BY <1>1, <2>1, <2>2, Granted
<1>5. CASE TakeTail
  <2>1. PICK t \in Heap \ live : live' = live \cup {t} /\ size'[t] = nunits
    BY <1>5, TakeTailSound
  <2>2. pc = "search" /\ Return /\ KeepsLive
    BY <1>5, TakeTailSound DEF TakeTail, Fits
  <2> QED  BY <1>1, <2>1, <2>2, Granted
<1>6. CASE NextBlock
  BY <1>6, NextBlockSound, Unseen DEF NextBlock, Asked
<1>7. CASE MoreCore
  BY <1>7, MoreCoreSound, Unseen DEF MoreCore, NeedsCore, Asked
<1>8. CASE NoCore
  <2>1. KeepsLive /\ live' = live /\ pc = "search"
    BY <1>8, NoCoreSound DEF NoCore, NeedsCore
  <2>2. CASE Return
    <3>1. Asked' = -1 /\ Asked # -1 /\ Owned' = Owned
      BY <2>1, <2>2, ReturnTypes, AskedNothing, SameAreas DEF Asked, Owned
    <3>2. Abstract!Refuse
      BY <3>1 DEF Abstract!Refuse, Abstract!Nothing, Owned, Asked
    <3> QED  BY <3>2 DEF Abstract!Next
  <2>3. CASE pc' = "crashed" /\ UNCHANGED locals
    BY <2>1, <2>3, Unseen DEF Asked, locals
  <2> QED  BY <1>8, <2>2, <2>3 DEF NoCore
<1>9. CASE FreeScan
  BY <1>9, FreeScanSound, Unseen DEF FreeScan, Asked
<1>10. CASE FreeLink
  BY <1>10, LinkSound, ReturnTypes, Unseen DEF FreeLink, Asked
<1>11. CASE CoreLink
  BY <1>11, LinkSound, Unseen DEF CoreLink, Asked
<1>12. CASE UNCHANGED vars
  BY <1>12 DEF vars, mem, locals, Owned, Asked, Area
<1> QED  BY <1>2, <1>3, <1>4, <1>5, <1>6, <1>7, <1>8, <1>9, <1>10, <1>11, <1>12
   DEF Next, Step

(* The allocator implements Heap: what tb_malloc returns lies in the heap, *)
(* is not shared with any block its callers hold, and has room for the     *)
(* bytes asked for besides its header; no search, cut, joining or growth   *)
(* of the heap touches it until its owner gives it back.  The sizes must   *)
(* not wrap, which tb_malloc leaves to its callers.                        *)
THEOREM KeepsItsPromise == NoWrap => (Spec => ImplementsHeap)
<1> SUFFICES ASSUME NoWrap PROVE Spec => ImplementsHeap
  OBVIOUS
<1>1. Init => Abstract!Init
  BY DEF Init, Abstract!Init, Abstract!Nothing
<1>2. HeapSound /\ [Next]_vars
        => [Abstract!Next]_<<{Area(b) : b \in live},
                            IF pc \in {"search", "core", "crashed"} THEN nbytes ELSE -1>>
  BY CallerSees DEF Owned, Asked
<1> QED  BY <1>1, <1>2, HeapStaysSound, PTL DEF Spec, ImplementsHeap, Abstract!Spec
=============================================================================

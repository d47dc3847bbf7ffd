------------------------------- MODULE Buddy -------------------------------
(***************************************************************************)
(* hal/core/buddy.c: the power-of-two allocator under everything.  A block *)
(* is <<o, k>>: 2^k units of BUDDY_MIN_BLOCK from unit o on.  Every call   *)
(* holds buddy_lock for its whole effect on the free lists; a call that    *)
(* takes the lock more than once (realloc by moving, release_range) is     *)
(* several steps, and other callers run in between.  A list is a set here: *)
(* which of its blocks is the head depends on history, so any may be.      *)
(***************************************************************************)
EXTENDS Integers, FiniteSets

CONSTANTS
  BClients,   \* callers of the allocator
  Units,      \* the arena, in units of the minimal block
  TopOrder,   \* BUDDY_MAX_ORDER
  MaxHold     \* BOUND: blocks a caller holds at once

ASSUME BuddyAssumption ==
  /\ Units \in Nat \ {0} /\ TopOrder \in Nat /\ MaxHold \in Nat
  /\ BClients \cap {"free", "image", "releasing", "lost"} = {}   \* who else a piece belongs to

VARIABLES
  bfree,  \* free_lists: order -> offsets
  hdr,    \* the order word in front of a block, by offset; 0 once a list
          \* link has overwritten it
  own,    \* caller -> offsets of the blocks it holds
  mv,     \* caller -> the blocks it is moving, [o, want]; want = 0 once copied
  res,    \* reserved ranges <<lo, n>>: a linked image's slot
  rel,    \* units of ranges being released, not yet freed
  lost    \* units a failed reserve_range keeps
bvars == <<bfree, hdr, own, mv, res, rel, lost>>

Arena == 0 .. Units - 1
Orders == 0 .. TopOrder
Size[k \in Orders] == IF k = 0 THEN 1 ELSE 2 * Size[k - 1]
Al(u, k) == (u \div Size[k]) * Size[k]
Sib(u, k) == IF (u \div Size[k]) % 2 = 0 THEN Al(u, k) + Size[k] ELSE Al(u, k) - Size[k]
Span(o, k) == o .. o + Size[k] - 1

(* buddy_init: the greedy decomposition into naturally aligned roots. *)
Fits(u, k) == Size[k] <= Units - u /\ u % Size[k] = 0
RootOrder(u) == CHOOSE k \in Orders : Fits(u, k) /\ \A j \in Orders : j > k => ~Fits(u, j)
Seed[u \in 0 .. Units] ==
  IF u = Units THEN {} ELSE {<<u, RootOrder(u)>>} \cup Seed[u + Size[RootOrder(u)]]
MaxOrder == CHOOSE k \in Orders : /\ \E r \in Seed[0] : r[2] = k
                                  /\ \A r \in Seed[0] : r[2] <= k
BInit ==
  /\ bfree = [k \in Orders |-> {r[1] : r \in {s \in Seed[0] : s[2] = k}}]
  /\ hdr = [u \in Arena |-> 0]
  /\ own = [c \in BClients |-> {}]
  /\ mv = [c \in BClients |-> {}]
  /\ res = {} /\ rel = {} /\ lost = {}

(* split_down: block o of order k cut to `want', upper halves to their lists. *)
SplitDown(F, o, k, want) ==
  [j \in Orders |-> IF j = k THEN F[j] \ {o}
                    ELSE IF want <= j /\ j < k THEN F[j] \cup {o + Size[j]} ELSE F[j]]
(* The orders an allocation of `want' may be served from: only the first one is. *)
Serving(want) == {k \in want .. MaxOrder : bfree[k] # {}}
Exhausted(want) == Serving(want) = {}
Alloc(c, want) ==
  \E k \in Serving(want) :
    /\ \A j \in Serving(want) : k <= j
    /\ \E o \in bfree[k] :
         /\ bfree' = SplitDown(bfree, o, k, want)
         /\ hdr' = [hdr EXCEPT ![o] = want]
         /\ own' = [own EXCEPT ![c] = @ \cup {o}]
BuddyAlloc(c) ==
  /\ Cardinality(own[c]) < MaxHold
  /\ \E want \in 0 .. MaxOrder : Alloc(c, want)
  /\ UNCHANGED <<mv, res, rel, lost>>

(* buddy_free_locked: merge while the buddy is free at exactly this order. *)
(* mutant: never merges *)
MergeNever(F, o, k) == k
MergeTo(F, o, k) ==
  CHOOSE j \in k .. MaxOrder :
    /\ \A i \in k .. j - 1 : Sib(o, i) \in F[i]
    /\ j = MaxOrder \/ Sib(o, j) \notin F[j]
FreeLocked(F, o, k) ==
  LET j == MergeTo(F, o, k) IN
  [i \in Orders |-> IF i = j THEN F[i] \cup {Al(o, j)}
                    ELSE IF k <= i /\ i < j THEN F[i] \ {Sib(o, i)} ELSE F[i]]
BuddyFree(c) ==
  \E o \in own[c] :
    /\ \A m \in mv[c] : m.o # o
    /\ bfree' = FreeLocked(bfree, o, hdr[o])
    /\ hdr' = [hdr EXCEPT ![o] = 0]
    /\ own' = [own EXCEPT ![c] = @ \ {o}]
    /\ UNCHANGED <<mv, res, rel, lost>>

(* buddy_realloc, smaller: the upper halves go back, the rest stays. *)
ReallocShrink(c) ==
  \E o \in own[c], want \in Orders :
    /\ want < hdr[o] /\ \A m \in mv[c] : m.o # o
    /\ bfree' = [j \in Orders |-> IF want <= j /\ j < hdr[o]
                                  THEN bfree[j] \cup {o + Size[j]} ELSE bfree[j]]
    /\ hdr' = [hdr EXCEPT ![o] = want]
    /\ UNCHANGED <<own, mv, res, rel, lost>>
(* ... larger: absorb the free buddy above while this is the low half; the *)
(* header records what was reached, a block still too small is moved.      *)
(* mutant: grows over a buddy that is itself split or live *)
GrowOverSplit(o, k, want) ==
  CHOOSE j \in k .. want :
    /\ \A i \in k .. j - 1 : Sib(o, i) = o + Size[i]
    /\ j = want \/ Sib(o, j) # o + Size[j]
GrowTo(o, k, want) ==
  CHOOSE j \in k .. want :
    /\ \A i \in k .. j - 1 : Sib(o, i) = o + Size[i] /\ o + Size[i] \in bfree[i]
    /\ j = want \/ Sib(o, j) # o + Size[j] \/ o + Size[j] \notin bfree[j]
ReallocGrow(c) ==
  \E o \in own[c], want \in Orders :
    /\ hdr[o] < want /\ want <= MaxOrder /\ \A m \in mv[c] : m.o # o
    /\ LET j == GrowTo(o, hdr[o], want) IN
       /\ bfree' = [i \in Orders |-> IF hdr[o] <= i /\ i < j
                                     THEN bfree[i] \ {o + Size[i]} ELSE bfree[i]]
       /\ hdr' = [hdr EXCEPT ![o] = j]
       /\ mv' = IF j = want THEN mv ELSE [mv EXCEPT ![c] = @ \cup {[o |-> o, want |-> want]}]
    /\ UNCHANGED <<own, res, rel, lost>>
ReallocMove(c) ==
  \E m \in mv[c] :
    \/ Alloc(c, m.want) /\ mv' = [mv EXCEPT ![c] = (@ \ {m}) \cup {[o |-> m.o, want |-> 0]}]
       /\ m.want # 0 /\ UNCHANGED <<res, rel, lost>>
    \/ Exhausted(m.want) /\ m.want # 0           \* NULL, the original intact
       /\ mv' = [mv EXCEPT ![c] = @ \ {m}] /\ UNCHANGED <<bfree, hdr, own, res, rel, lost>>
    \/ m.want = 0                                \* copied: free the old block
       /\ bfree' = FreeLocked(bfree, m.o, hdr[m.o])
       /\ hdr' = [hdr EXCEPT ![m.o] = 0]
       /\ own' = [own EXCEPT ![c] = @ \ {m.o}]
       /\ mv' = [mv EXCEPT ![c] = @ \ {m}] /\ UNCHANGED <<res, rel, lost>>

(* take_unit: unlink the free block around unit u, split it towards u. *)
Around(F, u) == {k \in Orders : Al(u, k) \in F[k]}
TakeUnit(F, u) ==
  LET k == CHOOSE k \in Around(F, u) : TRUE IN
  [j \in Orders |-> IF j = k THEN F[j] \ {Al(u, k)}
                    ELSE IF j < k THEN F[j] \cup {Sib(u, j)} ELSE F[j]]
(* The lists after the first i units of a range, and how many are found free. *)
TakenUpTo(lo, n) ==
  LET lists[i \in 0 .. n] == IF i = 0 THEN bfree ELSE TakeUnit(lists[i - 1], lo + i - 1) IN lists
FoundFree(lo, n) ==
  CHOOSE i \in 0 .. n : /\ \A j \in 0 .. i - 1 : Around(bfree, lo + j) # {}
                        /\ i = n \/ Around(bfree, lo + i) = {}
Taken(lo, n) == LET i == FoundFree(lo, n) IN [lists |-> TakenUpTo(lo, n)[i], n |-> i]
ReserveRange ==
  \E lo \in Arena : \E n \in 1 .. Units - lo :
    LET t == Taken(lo, n) IN
    /\ res = {} /\ rel = {}             \* one process slot at a time
    /\ lost = {}                        \* BOUND: one failed reservation
    /\ bfree' = t.lists
    /\ IF t.n = n THEN res' = {<<lo, n>>} /\ UNCHANGED lost
                  ELSE lost' = lo .. lo + t.n - 1 /\ UNCHANGED res
    /\ UNCHANGED <<hdr, own, mv, rel>>
ReleaseRange ==
  \E r \in res : /\ rel' = r[1] .. r[1] + r[2] - 1 /\ res' = {}
                 /\ UNCHANGED <<bfree, hdr, own, mv, lost>>
ReleaseUnit ==
  \E u \in rel : /\ \A w \in rel : u <= w
                 /\ hdr' = [hdr EXCEPT ![u] = 0]
                 /\ bfree' = FreeLocked(bfree, u, 0)
                 /\ rel' = rel \ {u} /\ UNCHANGED <<own, mv, res, lost>>

BNext ==
  \/ \E c \in BClients : \/ BuddyAlloc(c) \/ BuddyFree(c)
                         \/ ReallocShrink(c) \/ ReallocGrow(c) \/ ReallocMove(c)
  \/ ReserveRange \/ ReleaseRange \/ ReleaseUnit
BSpec == BInit /\ [][BNext]_bvars

(* A piece of the arena: <<holder, first unit, number of units>>. *)
Pieces ==
  {<<"free", b[1], Size[b[2]]>> : b \in {x \in Arena \X Orders : x[1] \in bfree[x[2]]}}
  \cup {<<b[1], b[2], Size[hdr[b[2]]]>> : b \in {x \in BClients \X Arena : x[2] \in own[x[1]]}}
  \cup {<<"image", r[1], r[2]>> : r \in res}
  \cup {<<"releasing", u, 1>> : u \in rel} \cup {<<"lost", u, 1>> : u \in lost}
Covers(p, u) == p[2] <= u /\ u < p[2] + p[3]
(* Every unit is covered once. *)
Tiles(P) == \A u \in Arena : \E p \in P : Covers(p, u) /\ \A q \in P : Covers(q, u) => q = p
(* Every unit of the arena belongs to exactly one piece: no call hands out  *)
(* a unit twice or forgets one, whatever it splits, merges, grows or moves. *)
Partition == Tiles(Pieces)
(* No two free blocks that a merge could join: what was split for a small  *)
(* block is whole again when everything in it has been freed.              *)
Coalesced == \A k \in 0 .. MaxOrder - 1, o \in Arena : o \in bfree[k] => Sib(o, k) \notin bfree[k]
(* Through every split, merge, growth in place, move, reservation that      *)
(* fails half-way and release, each unit of the arena is in exactly one     *)
(* piece, and no merge has been missed (buddy.c).                           *)
WellTiled == Partition /\ Coalesced
=============================================================================

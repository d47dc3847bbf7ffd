------------------------------ MODULE ArcTable ------------------------------
(***************************************************************************)
(* hal/core/runtime.c: the ARC table.  Open addressing with tombstones,    *)
(* doubled under arc_lock when live and dead slots pass 70 %; the bigger   *)
(* block is taken before the lock by whoever is about to insert, and may   *)
(* find on its return that another has grown the table meanwhile.          *)
(***************************************************************************)
EXTENDS Integers, FiniteSets

CONSTANTS
  Objects,     \* what is shared
  Hash,        \* object -> Nat: (v >> 4) * 2654435761
  Sharers,     \* actors that promote
  ArcCap0,     \* ARC_CAP0
  MaxDoubles,  \* BOUND: doublings (no block is granted after that)
  MaxShares,   \* BOUND: holders of one object
  Vacant, Tomb \* 0 and ARC_TOMB

TableSizes == /\ ArcCap0 \in Nat \ {0} /\ MaxDoubles \in Nat /\ MaxShares \in Nat
              /\ Hash \in [Objects -> Nat]
              /\ Vacant # Tomb /\ {Vacant, Tomb} \cap Objects = {}

VARIABLES
  arct,    \* slot -> Vacant, Tomb or an object
  cnts,    \* slot -> its cnt
  cap,     \* arc_cap
  used,    \* arc_used: live slots and tombstones
  spare2,  \* arc_spare_cap, 0 without arc_spare
  taking   \* actor -> the cap it saw in arc_reserve, 0 when not in it
tvars == <<arct, cnts, cap, used, spare2, taking>>

TableInit ==
  /\ arct = [i \in 0 .. ArcCap0 - 1 |-> Vacant] /\ cnts = [i \in 0 .. ArcCap0 - 1 |-> 0]
  /\ cap = ArcCap0 /\ used = 0 /\ spare2 = 0 /\ taking = [a \in Sharers |-> 0]

(* arc_probe: the n-th slot looked at; the walk ends on the object or a vacant *)
(* slot, and a miss answers the first tombstone it passed.                     *)
Slot(o, n, c) == (Hash[o] + n) % c
Found(T, o, c) == \E n \in 0 .. c - 1 : /\ T[Slot(o, n, c)] = o
                                        /\ \A m \in 0 .. n - 1 : T[Slot(o, m, c)] # Vacant
Hits(T, o, c) == {n \in 0 .. c - 1 : T[Slot(o, n, c)] = o}
Opens(T, o, c) == {n \in 0 .. c - 1 : T[Slot(o, n, c)] \in {Vacant, Tomb}}
First(S) == CHOOSE n \in S : \A m \in S : n <= m
Probe(T, o, c) == Slot(o, First(IF Found(T, o, c) THEN Hits(T, o, c) ELSE Opens(T, o, c)), c)
CanProbe(T, o, c) == Found(T, o, c) \/ \E i \in DOMAIN T : T[i] \in {Vacant, Tomb}  \* else: panic

Due(u, c) == (u + 1) * 10 > c * 7
(* arc_grow: the live entries into a table twice the size, the tombstones stay behind. *)
LiveIn(T) == {i \in DOMAIN T : T[i] \notin {Vacant, Tomb}}
Blank == [t |-> [i \in 0 .. 2 * cap - 1 |-> Vacant], c |-> [i \in 0 .. 2 * cap - 1 |-> 0]]
Reinsert(r, k) ==
  LET j == Probe(r.t, arct[k], 2 * cap)
  IN IF k \notin LiveIn(arct) THEN r
     ELSE [t |-> [r.t EXCEPT ![j] = arct[k]], c |-> [r.c EXCEPT ![j] = cnts[k]]]
Reinserted[k \in 0 .. cap] == IF k = 0 THEN Blank ELSE Reinsert(Reinserted[k - 1], k - 1)
Rehash == [t |-> Reinserted[cap].t, c |-> Reinserted[cap].c, cap |-> 2 * cap, used |-> Cardinality(LiveIn(arct))]
Kept == [t |-> arct, c |-> cnts, cap |-> cap, used |-> used]
(* What an insert finds: doubled if that is due and a block is there (the spare, *)
(* or one taken directly), as it was when both fail.                             *)
Grown == IF ~Due(used, cap) THEN {Kept}
         ELSE IF spare2 = 2 * cap THEN {Rehash}
         ELSE IF cap < ArcCap0 * 2 ^ MaxDoubles THEN {Rehash, Kept} ELSE {Kept}

(* arc_reserve: look without the lock, get a block (a wait), offer it under the lock. *)
ReserveLook(a) ==
  /\ taking[a] = 0 /\ Due(used, cap) /\ spare2 = 0 /\ cap < ArcCap0 * 2 ^ MaxDoubles
  /\ taking' = [taking EXCEPT ![a] = cap]
  /\ UNCHANGED <<arct, cnts, cap, used, spare2>>
ReserveOffer(a) ==
  /\ taking[a] # 0 /\ taking' = [taking EXCEPT ![a] = 0]
  /\ spare2' = IF spare2 = 0 /\ cap = taking[a] THEN 2 * taking[a] ELSE spare2
  /\ UNCHANGED <<arct, cnts, cap, used>>

(* fpr_arc_incref; fpr_arc_promote_share counts the sharer too on the first time. *)
Insert(g, o, share) ==
  LET i == Probe(g.t, o, g.cap)
      hit == Found(g.t, o, g.cap)
  IN /\ CanProbe(g.t, o, g.cap) /\ (IF hit THEN g.c[i] ELSE share) < MaxShares
     /\ arct' = [g.t EXCEPT ![i] = o]
     /\ cnts' = [g.c EXCEPT ![i] = IF hit THEN @ + 1 ELSE share + 1]
     /\ used' = g.used + (IF g.t[i] = Vacant THEN 1 ELSE 0)
     /\ cap' = g.cap
     /\ spare2' = IF g.cap # cap /\ spare2 = 2 * cap THEN 0 ELSE spare2
ArcIncref(a) ==
  /\ taking[a] = 0 /\ UNCHANGED taking
  /\ \E o \in Objects, g \in Grown, share \in {0, 1} : Insert(g, o, share)
(* mutant: the slot is emptied, the chain through it breaks *)
ClearSlot(i) == Vacant
Buried(i) == Tomb
ArcDecref ==
  \E o \in Objects :
    /\ Found(arct, o, cap)
    /\ LET i == Probe(arct, o, cap) IN
       /\ cnts' = [cnts EXCEPT ![i] = @ - 1]
       /\ arct' = IF cnts[i] = 1 THEN [arct EXCEPT ![i] = Buried(i)] ELSE arct
    /\ UNCHANGED <<cap, used, spare2, taking>>

TableNext == (\E a \in Sharers : ReserveLook(a) \/ ReserveOffer(a) \/ ArcIncref(a)) \/ ArcDecref
TableSpec == TableInit /\ [][TableNext]_tvars

Holders(o) == IF Found(arct, o, cap) THEN cnts[Probe(arct, o, cap)] ELSE 0
AbsCount == [o \in Objects |-> Holders(o)]
AsMap == INSTANCE CountMap WITH Keys <- Objects, count <- AbsCount
(* The table is a map from objects to numbers of holders: neither growth nor  *)
(* tombstones nor a reused slot make it forget, double or revive an entry.    *)
ImplementsCountMap == AsMap!CMSpec
=============================================================================

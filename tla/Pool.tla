-------------------------------- MODULE Pool --------------------------------
(***************************************************************************)
(* hal/core/runtime.c: fpr_alloc, fpr_free, fpr_realloc.  Cells are bumped *)
(* off the pool's current slab; a freed one goes on the pool's list for    *)
(* its size, or on bigfree above the bucket ceiling.  Any hart pushes (the *)
(* last drop of a shared object), only the owner takes: it exchanges the   *)
(* whole list for the empty one, keeps a cell and pushes the rest back.    *)
(* A cell is <<slab, offset>>; its first word is its size while it is in   *)
(* use and the list's link afterwards.                                     *)
(***************************************************************************)
EXTENDS Integers, FiniteSets, Sequences

CONSTANTS
  PoolSlabs,   \* blocks the pool may get
  SlabRoom,    \* what fits into a slab
  Small, Big,  \* cell sizes up to the bucket ceiling, and above it
  Droppers,    \* harts that drop the pool's objects
  Owner, Null,
  Recycles     \* a loaded process without a buddy: grants are recycled (grant_fl)

Cells == PoolSlabs \X (0 .. SlabRoom - 1)
ASSUME PoolAssumption ==
  /\ SlabRoom \in Nat /\ Small \cup Big \subseteq 1 .. SlabRoom
  /\ Small \cap Big = {} /\ Recycles \in BOOLEAN
  /\ Null \notin PoolSlabs /\ Null \notin Cells

Bigfree == 0
Lists == Small \cup {Bigfree}
ListOf(n) == IF n \in Small THEN n ELSE Bigfree
Pushers == Droppers \cup {Owner}

VARIABLES
  cur,    \* pool.cur, Null before the first slab
  hp,     \* its bump offset
  slabs,  \* slabs not handed out yet (by the buddy or the loader)
  spare,  \* grant_fl
  total,  \* cell -> its size word, 0 where no cell begins
  live,   \* cells in use
  head,   \* list -> first cell or Null
  link,   \* cell -> the next one
  chain,  \* what the owner exchanged and has not put back: the first cell
  want,   \* the size the owner is taking, 0 when it is not
  push    \* pusher -> the push under way: <<>>, <<cell>>, or <<cell, head seen>>
pvars == <<cur, hp, slabs, spare, total, live, head, link, chain, want, push>>

PoolInit ==
  /\ cur = Null /\ hp = 0 /\ slabs = PoolSlabs /\ spare = {}
  /\ total = [c \in Cells |-> 0] /\ live = {}
  /\ head = [l \in Lists |-> Null] /\ link = [c \in Cells |-> Null]
  /\ chain = Null /\ want = 0 /\ push = [p \in Pushers |-> <<>>]

Idle == want = 0 /\ push[Owner] = <<>> /\ chain = Null

(* fpr_alloc, the list first: exchange it, ... *)
TakeList(n) ==
  /\ Idle /\ head[ListOf(n)] # Null
  /\ chain' = head[ListOf(n)] /\ head' = [head EXCEPT ![ListOf(n)] = Null]
  /\ want' = n
  /\ UNCHANGED <<cur, hp, slabs, spare, total, live, link, push>>
(* ... keep the first cell of the size wanted, push the others back ... *)
Sort ==
  /\ chain # Null /\ push[Owner] = <<>>
  /\ chain' = link[chain]
  /\ IF want # 0 /\ total[chain] = want
     THEN live' = live \cup {chain} /\ want' = 0 /\ UNCHANGED push
     ELSE push' = [push EXCEPT ![Owner] = <<chain>>] /\ UNCHANGED <<live, want>>
  /\ link' = [link EXCEPT ![chain] = Null]
  /\ UNCHANGED <<cur, hp, slabs, spare, total, head>>
(* ... and with no list or no match bump: off the current slab or a new one. *)
Bump(s, from, n) ==
  /\ cur' = s /\ hp' = from + n
  /\ total' = [total EXCEPT ![<<s, from>>] = n] /\ live' = live \cup {<<s, from>>}
BumpCell(n) ==
  /\ chain = Null /\ push[Owner] = <<>>
  /\ want = n \/ (want = 0 /\ head[ListOf(n)] = Null)
  /\ want' = 0
  /\ \/ cur # Null /\ hp + n <= SlabRoom /\ Bump(cur, hp, n) /\ UNCHANGED <<slabs, spare>>
     \/ /\ cur = Null \/ hp + n > SlabRoom
        /\ \/ \E s \in spare : Bump(s, 0, n) /\ spare' = spare \ {s} /\ UNCHANGED slabs
           \/ /\ spare = {}       \* a miss takes two, one stays warm for the next
              /\ \E s \in slabs : /\ Bump(s, 0, n)
                                  /\ \E w \in SUBSET (slabs \ {s}) :
                                       /\ Cardinality(w) = (IF Recycles /\ slabs # {s} THEN 1 ELSE 0)
                                       /\ slabs' = slabs \ (w \cup {s}) /\ spare' = w
  /\ UNCHANGED <<head, link, chain, push>>

(* fpr_free: by the owner, or by the last dropper under arc_lock. *)
Free(p) ==
  /\ push[p] = <<>> /\ (p = Owner => Idle)
  /\ p \in Droppers => \A d \in Droppers : push[d] = <<>>     \* arc_lock
  /\ \E c \in live : live' = live \ {c} /\ push' = [push EXCEPT ![p] = <<c>>]
  /\ UNCHANGED <<cur, hp, slabs, spare, total, head, link, chain, want>>
PushList(p) == head[ListOf(total[push[p][1]])]
LinkCell(p) ==
  /\ push[p] # <<>> /\ Len(push[p]) = 1
  /\ link' = [link EXCEPT ![push[p][1]] = PushList(p)]
  /\ push' = [push EXCEPT ![p] = Append(@, PushList(p))]
  /\ UNCHANGED <<cur, hp, slabs, spare, total, live, head, chain, want>>
(* mutant: the head is stored without looking whether it is still the one seen *)
PushStore(p) ==
  /\ Len(push[p]) = 2 /\ push' = [push EXCEPT ![p] = <<>>]
  /\ head' = [head EXCEPT ![ListOf(total[push[p][1]])] = push[p][1]]
  /\ UNCHANGED <<cur, hp, slabs, spare, total, live, link, chain, want>>
PushCas(p) ==
  /\ Len(push[p]) = 2
  /\ IF PushList(p) = push[p][2]
     THEN /\ head' = [head EXCEPT ![ListOf(total[push[p][1]])] = push[p][1]]
          /\ push' = [push EXCEPT ![p] = <<>>]
     ELSE push' = [push EXCEPT ![p] = <<@[1]>>] /\ UNCHANGED head
  /\ UNCHANGED <<cur, hp, slabs, spare, total, live, link, chain, want>>

PoolNext == \/ \E n \in Small \cup Big : TakeList(n) \/ BumpCell(n)
            \/ Sort \/ \E p \in Pushers : Free(p) \/ LinkCell(p) \/ PushCas(p)
PoolSpec == PoolInit /\ [][PoolNext]_pvars

(* Every cell ever carved has one referrer: a user, a list's head, the owner's *)
(* chain, a push under way, or the link of one other free cell.  None is       *)
(* handed out twice and none is lost to a push that raced the exchange.        *)
Carved == {c \in Cells : total[c] # 0}
Pushed == {push[p][1] : p \in {x \in Pushers : push[x] # <<>>}}
CellOnce ==
  \A c \in Carved :
    Cardinality({c} \cap live) + Cardinality({c} \cap Pushed) + Cardinality({c} \cap {chain})
    + Cardinality({l \in Lists : head[l] = c}) + Cardinality({d \in Carved \ Pushed : link[d] = c}) = 1
=============================================================================

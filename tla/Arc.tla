-------------------------------- MODULE Arc --------------------------------
(***************************************************************************)
(* hal/core/runtime.c and actors.c: when does a slab go home?  A message   *)
(* is a deep copy packed into its sender's ownerless slab, its root has an *)
(* entry in the ARC table (ArcTable) that counts its holders.  `escaped'   *)
(* counts the counted roots of a slab, `holds' the sender still packing    *)
(* into it and the actors whose borrow window over it is open.  A step is  *)
(* one critical section of arc_lock with the private steps around it.      *)
(***************************************************************************)
EXTENDS Integers, FiniteSets, Sequences

CONSTANTS
  ArcActors, Slabs, Roots, NoSlab, NoOne,
  SlabCap,   \* roots a slab has room for
  DPN,       \* DP_N: borrow windows an actor can have open
  MaxCount,  \* BOUND: holders of one root
  MaxDrops   \* BOUND: last drops of an actor between two receives

ASSUME ArcAssumption ==
  /\ IsFiniteSet(ArcActors) /\ ArcActors # {} /\ NoOne \notin ArcActors
  /\ Slabs # {} /\ NoSlab \notin Slabs
  /\ SlabCap \in Nat \ {0} /\ DPN \in Nat \ {0} /\ MaxCount \in Nat \ {0} /\ MaxDrops \in Nat

VARIABLES
  sl,     \* slab -> its header; kind "home" when the buddy has it
  root,   \* root -> the slab it lies in, NoSlab while the name is free
  cnt,    \* root -> its count in the ARC table, 0 without an entry
  has,    \* actor -> root -> references it holds
  box,    \* actor -> root -> references queued in its mailbox
  snd,    \* actor -> the copy it is about to count and queue, <<>> or <<root>>
  mslab,  \* acb.msg_slab
  dp,     \* acb.dp: the slabs of the windows it has open
  ent,    \* actor -> slab of its entry closure, NoSlab once unpinned
  alive,
  win     \* ghost: slabs whose dropped messages the actor may still read
avars == <<sl, root, cnt, has, box, snd, mslab, dp, ent, alive, win>>

AtHome == [kind |-> "home", owner |-> NoOne, hp |-> 0, escaped |-> 0, holds |-> 0]
Ownerless(s) == sl[s].owner = NoOne
Nothing == [m \in Roots |-> 0]

(* Actor 0 has spawned everybody: their closures fill one message slab. *)
AInit ==
  LET first == CHOOSE s \in Slabs : TRUE IN
    /\ sl = [s \in Slabs |-> IF s # first THEN AtHome ELSE
               [kind |-> "msg", owner |-> NoOne, hp |-> SlabCap,
                escaped |-> Cardinality(ArcActors), holds |-> 0]]
    /\ ent = [a \in ArcActors |-> first]
    /\ root = [m \in Roots |-> NoSlab] /\ cnt = Nothing
    /\ has = [a \in ArcActors |-> Nothing] /\ box = [a \in ArcActors |-> Nothing]
    /\ snd = [a \in ArcActors |-> <<>>] /\ mslab = [a \in ArcActors |-> NoSlab]
    /\ dp = [a \in ArcActors |-> <<>>] /\ win = [a \in ArcActors |-> {}]
    /\ alive = ArcActors

(* mutant: the last hold sends the slab home whatever has escaped *)
UnheldBlind(x, n) == IF n > 0 /\ x.holds = n /\ x.owner = NoOne THEN AtHome ELSE [x EXCEPT !.holds = @ - n]
(* slab_unhold_locked, n times: home with the last hold *)
Unheld(x, n) == IF n > 0 /\ x.holds = n /\ x.escaped = 0 /\ x.owner = NoOne THEN AtHome
                ELSE [x EXCEPT !.holds = @ - n]
Unhold(S, s) == [S EXCEPT ![s] = Unheld(@, 1)]
(* fpr_slabs_unhold: the entries of D, one after another *)
Entries(D, s) == {i \in DOMAIN D : D[i] = s}
UnholdAll(S, D) == [s \in Slabs |-> Unheld(S[s], Cardinality(Entries(D, s)))]
(* the hold of the sender that stops packing *)
Unpacked(S, a) == IF mslab[a] = NoSlab THEN S ELSE Unhold(S, mslab[a])
Escape(S, s, n) == [S EXCEPT ![s].escaped = @ + n]
Ref(f, a, m, n) == [f EXCEPT ![a][m] = @ + n]

(* mutant: the old rule, only the drop that empties the slab holds it *)
ParkOnlyLast(S, a, s) ==
  IF S[s].escaped > 0 THEN [sl |-> S, dp |-> dp]
  ELSE [sl |-> [S EXCEPT ![s].holds = @ + 1], dp |-> [dp EXCEPT ![a] = Append(@, s)]]
(* fpr_drop_park: a window too many retires the oldest one first. *)
DropPark(S, a, s) ==
  LET full == Len(dp[a]) = DPN
      T == IF full THEN Unhold(S, dp[a][1]) ELSE S
  IN [sl |-> [T EXCEPT ![s].holds = @ + 1],
      dp |-> [dp EXCEPT ![a] = Append(IF full THEN Tail(@) ELSE @, s)]]

(* fpr_arc_incref and fpr_arc_promote_share: the first count pins the slab. *)
Count(m, first) ==
  /\ cnt' = [cnt EXCEPT ![m] = IF @ = 0 THEN first ELSE @ + 1]
  /\ sl' = IF cnt[m] = 0 THEN Escape(sl, root[m], 1) ELSE sl
(* fpr_arc_decref by actor a.  The last one empties the entry; in an ownerless *)
(* slab the dropper gets a hold, in a pool the cell is free again.             *)
Decref(a, m) ==
  LET s == root[m]
      out == Escape(sl, s, -1)
  IN IF cnt[m] # 1
     THEN cnt' = [cnt EXCEPT ![m] = IF @ = 0 THEN 0 ELSE @ - 1] /\ UNCHANGED <<sl, root, dp, win>>
     ELSE /\ cnt' = [cnt EXCEPT ![m] = 0] /\ root' = [root EXCEPT ![m] = NoSlab]
          /\ IF Ownerless(s)
             THEN /\ Len(dp[a]) < MaxDrops
                  /\ sl' = DropPark(out, a, s).sl /\ dp' = DropPark(out, a, s).dp
                  /\ win' = [win EXCEPT ![a] = @ \cup {s}]
             ELSE sl' = [out EXCEPT ![s].hp = @ - 1] /\ UNCHANGED <<dp, win>>

(* msg_copy_in: into the packing slab, a fresh one when that is full (the  *)
(* sender's hold on the full one ends), or a slab of its own when too big. *)
Place(S, s, m, holds) ==
  [S EXCEPT ![s] = IF S[s].kind = "home" THEN [AtHome EXCEPT !.kind = "msg", !.hp = 1, !.holds = holds]
                   ELSE [S[s] EXCEPT !.hp = @ + 1]]
MsgCopy(a) ==
  /\ a \in alive /\ snd[a] = <<>>
  /\ \E m \in Roots :
       /\ root[m] = NoSlab /\ cnt[m] = 0
       /\ \E s \in Slabs :
            \/ /\ s = mslab[a] /\ sl[s].hp < SlabCap
               /\ sl' = Place(sl, s, m, 1) /\ UNCHANGED mslab
            \/ /\ sl[s].kind = "home" /\ (mslab[a] # NoSlab => sl[mslab[a]].hp = SlabCap)
               /\ sl' = Place(Unpacked(sl, a), s, m, 1)
               /\ mslab' = [mslab EXCEPT ![a] = s]
            \/ /\ sl[s].kind = "home" /\ mslab[a] = NoSlab
               /\ sl' = Place(sl, s, m, 0) /\ UNCHANGED mslab
            /\ root' = [root EXCEPT ![m] = s] /\ snd' = [snd EXCEPT ![a] = <<m>>]
  /\ UNCHANGED <<cnt, has, box, dp, ent, alive, win>>
SendCount(a) ==
  /\ a \in alive /\ snd[a] # <<>> /\ cnt[snd[a][1]] = 0
  /\ Count(snd[a][1], 1)
  /\ UNCHANGED <<root, has, box, snd, mslab, dp, ent, alive, win>>
SendPush(a) ==
  /\ a \in alive /\ snd[a] # <<>> /\ cnt[snd[a][1]] # 0
  /\ snd' = [snd EXCEPT ![a] = <<>>]
  /\ \/ \E b \in ArcActors : box' = Ref(box, b, snd[a][1], 1) /\ UNCHANGED <<sl, root, cnt, dp, win>>
     \/ Decref(a, snd[a][1]) /\ UNCHANGED box               \* mailbox full
  /\ UNCHANGED <<has, mslab, ent, alive>>

(* sendLinear of a received root: the pointer and its count change hands. *)
SendLinear(a) ==
  /\ a \in alive /\ snd[a] = <<>>
  /\ \E m \in Roots : /\ has[a][m] > 0 /\ cnt[m] > 0 /\ Ownerless(root[m])
                      /\ has' = Ref(has, a, m, -1)
                      /\ \/ \E b \in alive : box' = Ref(box, b, m, 1) /\ UNCHANGED <<sl, root, cnt, dp, win>>
                         \/ Decref(a, m) /\ UNCHANGED box   \* dead or full: consumed
  /\ UNCHANGED <<snd, mslab, ent, alive>>
(* sendArc: the sender's standing share and the receiver's, by pointer. *)
SendArc(a) ==
  /\ a \in alive /\ snd[a] = <<>>
  /\ \E m \in Roots, b \in alive : /\ has[a][m] > 0 /\ cnt[m] < MaxCount
                                   /\ Count(m, 2) /\ box' = Ref(box, b, m, 1)
  /\ UNCHANGED <<root, has, snd, mslab, dp, ent, alive, win>>

(* a_receive: the windows close, then a message from any channel or none. *)
ArcReceive(a) ==
  /\ a \in alive /\ snd[a] = <<>>
  /\ sl' = UnholdAll(sl, dp[a])
  /\ dp' = [dp EXCEPT ![a] = <<>>] /\ win' = [win EXCEPT ![a] = {}]
  /\ \/ UNCHANGED <<has, box>>
     \/ \E m \in Roots : box[a][m] > 0 /\ box' = Ref(box, a, m, -1) /\ has' = Ref(has, a, m, 1)
  /\ UNCHANGED <<root, cnt, snd, mslab, ent, alive>>
Drop(a) ==
  /\ a \in alive /\ snd[a] = <<>>
  /\ \E m \in Roots : has[a][m] > 0 /\ cnt[m] > 0 /\ Decref(a, m) /\ has' = Ref(has, a, m, -1)
  /\ UNCHANGED <<box, snd, mslab, ent, alive>>

(* A value built in the actor's own pool: no entry until it is shared. *)
PoolAlloc(a) ==
  /\ a \in alive /\ snd[a] = <<>>
  /\ \E m \in Roots, s \in Slabs :
       /\ root[m] = NoSlab /\ root' = [root EXCEPT ![m] = s] /\ has' = Ref(has, a, m, 1)
       /\ \/ sl[s].owner = a /\ sl[s].hp < SlabCap /\ sl' = [sl EXCEPT ![s].hp = @ + 1]
          \/ /\ sl[s].kind = "home" /\ \A x \in Slabs : sl[x].owner = a => sl[x].hp = SlabCap
             /\ sl' = [sl EXCEPT ![s] = [AtHome EXCEPT !.kind = "pool", !.owner = a, !.hp = 1]]
  /\ UNCHANGED <<cnt, box, snd, mslab, dp, ent, alive, win>>
(* The walk of fpr_arc_teardown_pool and of poolReset: what nothing escaped  *)
(* from goes home, the rest is orphaned; the pool's uncounted values are gone. *)
Teardown(S, a) ==
  [s \in Slabs |-> IF S[s].owner # a THEN S[s]
                   ELSE IF S[s].escaped = 0 THEN AtHome ELSE [S[s] EXCEPT !.owner = NoOne]]
Locals(a) == {m \in Roots : root[m] # NoSlab /\ sl[root[m]].owner = a /\ cnt[m] = 0}
Forget(a, M) == /\ root' = [m \in Roots |-> IF m \in M THEN NoSlab ELSE root[m]]
                /\ has' = [has EXCEPT ![a] = [m \in Roots |-> IF m \in M THEN 0 ELSE @[m]]]
PoolReset(a) ==
  /\ a \in alive /\ snd[a] = <<>>
  /\ sl' = Teardown(UnholdAll(sl, dp[a]), a)
  /\ dp' = [dp EXCEPT ![a] = <<>>] /\ win' = [win EXCEPT ![a] = {}]
  /\ Forget(a, Locals(a)) /\ UNCHANGED <<cnt, box, snd, mslab, ent, alive>>
(* reap: windows, packing slab, pool, entry closure (dropped without an actor).  *)
(* References it held or had queued stay counted; a copy in a slab of its own,   *)
(* killed before it was counted, keeps that slab.                                *)
UnpinEntry(S, s) ==
  [S EXCEPT ![s] = IF S[s].escaped = 1 /\ S[s].holds = 0 THEN AtHome ELSE [S[s] EXCEPT !.escaped = @ - 1]]
Reaped(a) ==
  /\ a \in alive /\ (snd[a] # <<>> => cnt[snd[a][1]] = 0)
  /\ sl' = UnpinEntry(Teardown(Unpacked(UnholdAll(sl, dp[a]), a), a), ent[a])
  /\ dp' = [dp EXCEPT ![a] = <<>>] /\ win' = [win EXCEPT ![a] = {}]
  /\ mslab' = [mslab EXCEPT ![a] = NoSlab] /\ ent' = [ent EXCEPT ![a] = NoSlab]
  /\ alive' = alive \ {a}
  /\ LET packed == {m \in Roots : snd[a] = <<m>> /\ root[m] = mslab[a]} IN
     /\ Forget(a, Locals(a) \cup packed)
     /\ snd' = IF packed = {} THEN snd ELSE [snd EXCEPT ![a] = <<>>]
  /\ UNCHANGED <<cnt, box>>

ANext == \E a \in ArcActors : \/ MsgCopy(a) \/ SendCount(a) \/ SendPush(a) \/ SendLinear(a) \/ SendArc(a)
                              \/ ArcReceive(a) \/ Drop(a) \/ PoolAlloc(a) \/ PoolReset(a) \/ Reaped(a)
ASpec == AInit /\ [][ANext]_avars

(* Somebody may still touch the slab: its pool's owner, the actor that packs *)
(* into it, a holder of a counted root, a send under way, a child's closure, *)
(* or a dropper whose borrow window is open.                                 *)
InUse(s) ==
  \/ sl[s].owner \in alive
  \/ \E a \in ArcActors : mslab[a] = s \/ ent[a] = s \/ s \in win[a] \/ Entries(dp[a], s) # {}
  \/ \E m \in Roots : root[m] = s
(* A slab goes home exactly when nobody can touch it any more: never under a *)
(* reader, and never later than the last one's last step.                    *)
HomeWhenUnused == \A s \in Slabs : sl[s].kind = "home" <=> ~InUse(s)
(* Nothing is kept of a slab that went home: nobody's hold ends twice.       *)
HomeOnce == \A s \in Slabs : sl[s].kind = "home" => sl[s].holds = 0
=============================================================================

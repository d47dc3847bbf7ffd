------------------------------ MODULE Mailbox ------------------------------
(***************************************************************************)
(* One actor's mailbox in hal/core/actors.c: the SHIDX dedicated per-      *)
(* sender rings, the shared overflow ring, the claim of a slot by          *)
(* chan_for, ring_push with Dynamic growth, the three receives with        *)
(* take_at, and the block/wake handshake on the receiver's status word.    *)
(*                                                                         *)
(* Atomicity.  Every step below makes at most one access that another hart *)
(* can race with (a load or a store of a sender key, of rh, of rt, of rv,  *)
(* of a slot, of the status word); the C that runs between two such        *)
(* accesses is local to the actor and is folded into the step.  A hart     *)
(* runs one actor at a time (`on'): C code is never preempted, so an actor *)
(* gives its hart up only where the code can park -- inside fpr_msg_copy   *)
(* and ring_block (both may wait for the memory actor), at the park in     *)
(* block_unless -- and between operations.                                 *)
(***************************************************************************)
EXTENDS Integers, Sequences, FiniteSets

CONSTANTS
  Senders,   \* the actors that send to this mailbox (chan_t.sender keys)
  Recv,      \* the owning actor
  NoKey,     \* chan_t.sender = 0
  SharedKey, \* SHARED_KEY: the overflow ring
  Idle,      \* nobody: a hart in its loop, a lock not held
  Harts,     \* the machine's harts
  HartOf,    \* [Senders \cup {Recv} -> Harts]
  SHIDX,     \* number of dedicated slots = index of the shared one
  Bound,     \* [0..SHIDX-1 -> Senders \cup {NoKey}]: slots claimed earlier
  Cap0,      \* initial ring capacity (mbcap)
  RingMax,   \* RING_MAX
  Dyn,       \* mbdyn: rings double when full
  CW,        \* the counters rh and rt count modulo CW (2^32 in the code)
  Start,     \* where the counters of an already used ring stand
  Sends,     \* BOUND: sends each sender performs
  Results,   \* the messages <<s, n>> that are T_RESULT values
  Kinds,     \* the receive operations the owner uses
  Mortal     \* the senders that may be killed or exit

MAXSND == SHIDX + 1
Dedicated == 0 .. SHIDX - 1
Channels == 0 .. SHIDX
Parties == Senders \cup {Recv}
Msgs == Senders \X (1 .. Sends)

ASSUME KeysDistinct ==
  /\ Recv \notin Senders /\ NoKey \notin Senders /\ SharedKey \notin Senders
  /\ Idle \notin Senders /\ Idle # Recv /\ NoKey # SharedKey
ASSUME PlacementAssumption == HartOf \in [Parties -> Harts]
ASSUME SizeAssumption ==
  /\ SHIDX \in Nat /\ Sends \in Nat /\ Dyn \in BOOLEAN
  /\ RingMax \in Nat \ {0} /\ Cap0 \in 1 .. RingMax
  /\ CW \in Nat \ {0} /\ Start \in 0 .. CW - 1
  /\ Bound \in [Dedicated -> Senders \cup {NoKey}]
  /\ \A i, j \in Dedicated : Bound[i] = Bound[j] /\ Bound[i] # NoKey => i = j
  /\ Kinds \subseteq {"any", "from", "res"} /\ Mortal \subseteq Senders
  /\ Results \subseteq Msgs

VARIABLES
  key,     \* chan_t.sender
  rh, rt,  \* chan_t.rh, chan_t.rt: free-running head and tail
  rv,      \* chan_t.rv: the ring in force, an index into ring
  ring,    \* per channel, every ring it ever had (the `old' chain)
  lock,    \* acb_t.shlock: who holds it
  status,  \* the owner's status word: READY or BLOCKED
  dead,    \* the senders whose status word is ST_DEAD
  on,      \* fpr_hart_t.current, per hart
  snd,     \* each sender's registers inside fpr_send_as
  nth,     \* how many sends each sender has finished
  rcv,     \* the owner's registers inside receive
  scan,    \* acb_t.scan: the round-robin cursor
  pub,     \* history: the messages whose rt was published
  got      \* history: the messages received, in order

vars == <<key, rh, rt, rv, ring, lock, status, dead, on, snd, nth, rcv, scan,
          pub, got>>
chans == <<key, rh, rt, rv, ring>>
owner == <<status, rcv, scan, got>>

----------------------------------------------------------------------------
Count(i) == (rt[i] - rh[i]) % CW
Ring(i) == ring[i][rv[i]]
Slot(rg, k) == rg.slot[k % rg.cap]

(* The j-th queued message of channel i, j from 0. *)
Queued(i, j) == Slot(Ring(i), (rh[i] + j) % CW)
Contents(i) == [j \in 1 .. Count(i) |-> Queued(i, j - 1)]

NoMsg == <<NoKey, 0>>
Blank(cap) == [cap |-> cap, slot |-> [p \in 0 .. cap - 1 |-> NoMsg]]

(* The offsets from rh of the queued messages in W, and the first one: the *)
(* scan loops of sh_has_from, p_res and receiveRes.                        *)
Hits(i, W) == {j \in 0 .. Count(i) - 1 : Queued(i, j) \in W}
(* mutant: the scan goes on and keeps the last hit *)
LastHit(i, W) == CHOOSE j \in Hits(i, W) : \A x \in Hits(i, W) : j >= x
FirstHit(i, W) == CHOOSE j \in Hits(i, W) : \A x \in Hits(i, W) : j <= x
MsgsOf(s) == {s} \X (1 .. Sends)

NoSlot == -1
SndIdle == [pc |-> "idle", i |-> 0, free |-> NoSlot, expect |-> NoKey,
            c |-> 0, t |-> 0, v |-> 1, ncap |-> Cap0]
RcvIdle == [pc |-> "idle", kind |-> "any", from |-> NoKey, n |-> 0,
            c |-> 0, k |-> 0, m |-> NoMsg]

Init ==
  /\ key = [i \in Channels |-> IF i = SHIDX THEN SharedKey ELSE Bound[i]]
  /\ rh = [i \in Channels |->
             IF i = SHIDX \/ key[i] # NoKey THEN Start ELSE 0]
  /\ rt = rh
  /\ rv = [i \in Channels |-> 1]
  /\ ring = [i \in Channels |-> <<Blank(Cap0)>>]
  /\ lock = Idle
  /\ status = "READY"
  /\ dead = {}
  /\ on = [h \in Harts |-> Idle]
  /\ snd = [s \in Senders |-> SndIdle]
  /\ nth = [s \in Senders |-> 0]
  /\ rcv = RcvIdle
  /\ scan = 0
  /\ pub = {}
  /\ got = <<>>

Running(a) == on[HartOf[a]] = a
HartFree(a) == on[HartOf[a]] = Idle
Enter(a) == HartFree(a) /\ on' = [on EXCEPT ![HartOf[a]] = a]
Leave(a) == on' = [on EXCEPT ![HartOf[a]] = Idle]

----------------------------------------------------------------------------
(* The sender: fpr_send_as, chan_for, ring_push, ring_install, wake.       *)

At(s, pc) == snd[s].pc = pc /\ Running(s)
Goto(s, pc) == snd' = [snd EXCEPT ![s].pc = pc]
ThisMsg(s) == <<s, nth[s] + 1>>
Shared(s) == snd[s].c = SHIDX

SendBegin(s) ==
  /\ snd[s].pc = "idle" /\ s \notin dead /\ nth[s] < Sends
  /\ Enter(s)
  /\ snd' = [snd EXCEPT ![s] = [SndIdle EXCEPT !.pc = "scan"]]
  /\ UNCHANGED <<chans, lock, dead, nth, owner, pub>>

(* chan_for's loop body: one slot's sender key, and for a dead sender's    *)
(* slot whether its ring is drained.                                       *)
(* mutant: a drained slot is taken from a sender that lives *)
ClaimableDrained(i) == key[i] = NoKey \/ rh[i] = rt[i]
Claimable(i) == key[i] = NoKey \/ (key[i] \in dead /\ rh[i] = rt[i])
ScanSlot(s) ==
  LET i == snd[s].i IN
  /\ At(s, "scan") /\ i < SHIDX
  /\ snd' = [snd EXCEPT ![s] =
       IF key[i] = s THEN [@ EXCEPT !.pc = "copy", !.c = i]
       ELSE IF @.free = NoSlot /\ Claimable(i)
            THEN [@ EXCEPT !.i = i + 1, !.free = i, !.expect = key[i]]
            ELSE [@ EXCEPT !.i = i + 1]]
  /\ UNCHANGED <<chans, lock, dead, on, nth, owner, pub>>

(* The dedicated slots are taken: share. *)
ScanShare(s) ==
  /\ At(s, "scan") /\ snd[s].i = SHIDX /\ snd[s].free = NoSlot
  /\ snd' = [snd EXCEPT ![s].pc = "copy", ![s].c = SHIDX]
  /\ UNCHANGED <<chans, lock, dead, on, nth, owner, pub>>

(* A never used slot's counters are reset before the claim is won. *)
ResetSlot(s) ==
  LET f == snd[s].free IN
  /\ At(s, "scan") /\ snd[s].i = SHIDX /\ f # NoSlot
  /\ IF snd[s].expect = NoKey
     THEN rh' = [rh EXCEPT ![f] = 0] /\ rt' = [rt EXCEPT ![f] = 0]
     ELSE UNCHANGED <<rh, rt>>
  /\ Goto(s, "cas")
  /\ UNCHANGED <<key, rv, ring, lock, dead, on, nth, owner, pub>>

CasSlot(s) ==
  LET f == snd[s].free IN
  /\ At(s, "cas")
  /\ IF key[f] = snd[s].expect
     THEN /\ key' = [key EXCEPT ![f] = s]
          /\ snd' = [snd EXCEPT ![s].pc = "copy", ![s].c = f]
     ELSE /\ snd' = [snd EXCEPT ![s] = [SndIdle EXCEPT !.pc = "scan"]]
          /\ UNCHANGED key
  /\ UNCHANGED <<rh, rt, rv, ring, lock, dead, on, nth, owner, pub>>

(* fpr_msg_copy and ring_block may park in the memory actor: the hart runs *)
(* others meanwhile, and a sender killed there is never resumed.           *)
MsgCopy(s) ==
  /\ At(s, "copy") /\ Leave(s) /\ Goto(s, "copied")
  /\ UNCHANGED <<chans, lock, dead, nth, owner, pub>>
Resume(s) ==
  /\ snd[s].pc \in {"copied", "alloced"} /\ s \notin dead
  /\ Enter(s)
  /\ Goto(s, IF snd[s].pc = "copied" THEN "push" ELSE "grow")
  /\ UNCHANGED <<chans, lock, dead, nth, owner, pub>>

(* send answers "mailbox full": the ring is Static, at its ceiling, or the *)
(* memory actor denied the bigger block.                                   *)
Refuse(s) ==
  /\ snd' = [snd EXCEPT ![s] = SndIdle]
  /\ nth' = [nth EXCEPT ![s] = @ + 1]
  /\ Leave(s)
MemDenied(s) ==
  /\ snd[s].pc = "alloced" /\ s \notin dead /\ HartFree(s)
  /\ Refuse(s)
  /\ UNCHANGED <<chans, lock, dead, owner, pub>>

(* ring_push: (the lock of the shared ring and) the room check *)
(* mutant: off by one in the room check *)
FullOffByOne(c) == Count(c) > Ring(c).cap
Full(c) == Count(c) >= Ring(c).cap
CanGrow(c) == Dyn /\ Ring(c).cap < RingMax
(* mutant: the shared ring is pushed without its lock *)
PushUnlocked(s) ==
  LET c == snd[s].c IN
  /\ At(s, "push") /\ ~Full(c)
  /\ snd' = [snd EXCEPT ![s].pc = "write", ![s].t = rt[c], ![s].v = rv[c]]
  /\ UNCHANGED <<chans, lock, dead, on, nth, owner, pub>>
PushRoom(s) ==
  LET c == snd[s].c IN
  /\ At(s, "push") /\ (Shared(s) => lock = Idle) /\ ~Full(c)
  /\ lock' = IF Shared(s) THEN s ELSE lock
  /\ snd' = [snd EXCEPT ![s].pc = "write", ![s].t = rt[c], ![s].v = rv[c]]
  /\ UNCHANGED <<chans, dead, on, nth, owner, pub>>
PushFull(s) ==
  LET c == snd[s].c IN
  /\ At(s, "push") /\ (Shared(s) => lock = Idle) /\ Full(c)
  /\ IF CanGrow(c)
     THEN /\ snd' = [snd EXCEPT ![s].pc = "alloced",
                                ![s].ncap = 2 * Ring(c).cap]
          /\ Leave(s)
          /\ UNCHANGED nth
     ELSE Refuse(s)
  /\ UNCHANGED <<chans, lock, dead, owner, pub>>

(* TAGAT and SLOT of the private position, then the release store of rt    *)
(* (and the unlock of the shared ring, which nothing can separate from it).*)
WriteSlot(s) ==
  LET c == snd[s].c
      cap == ring[c][snd[s].v].cap
  IN /\ At(s, "write")
     /\ ring' = [ring EXCEPT ![c][snd[s].v].slot[snd[s].t % cap] = ThisMsg(s)]
     /\ Goto(s, "publish")
     /\ UNCHANGED <<key, rh, rt, rv, lock, dead, on, nth, owner, pub>>
(* mutant: the lock of the shared ring is not released *)
PublishKeepsLock(s) ==
  /\ At(s, "publish")
  /\ rt' = [rt EXCEPT ![snd[s].c] = (snd[s].t + 1) % CW]
  /\ pub' = pub \cup {ThisMsg(s)}
  /\ Goto(s, "wake")
  /\ UNCHANGED <<key, rh, rv, ring, lock, dead, on, nth, owner>>
PublishRt(s) ==
  /\ At(s, "publish")
  /\ rt' = [rt EXCEPT ![snd[s].c] = (snd[s].t + 1) % CW]
  /\ lock' = IF Shared(s) THEN Idle ELSE lock
  /\ pub' = pub \cup {ThisMsg(s)}
  /\ Goto(s, "wake")
  /\ UNCHANGED <<key, rh, rv, ring, dead, on, nth, owner>>

(* Growth: take the lock, re-check, copy [rh, rt), swap the pointer. *)
(* mutant: a ring is replaced without the lock *)
GrowUnlocked(s) ==
  LET c == snd[s].c IN
  /\ At(s, "grow")
  /\ Goto(s, IF Ring(c).cap >= snd[s].ncap THEN "push" ELSE "install")
  /\ UNCHANGED <<chans, lock, dead, on, nth, owner, pub>>
GrowLock(s) ==
  LET c == snd[s].c IN
  /\ At(s, "grow") /\ lock = Idle
  /\ IF Ring(c).cap >= snd[s].ncap
     THEN Goto(s, "push") /\ UNCHANGED lock
     ELSE Goto(s, "install") /\ lock' = s
  /\ UNCHANGED <<chans, dead, on, nth, owner, pub>>
(* mutant: slots copied by position *)
CopyByPosition(c, cap) ==
  [cap |-> cap, slot |->
     [p \in 0 .. cap - 1 |-> IF p < Ring(c).cap THEN Ring(c).slot[p] ELSE NoMsg]]
RingCopy(c, cap) ==
  [cap |-> cap, slot |->
     [p \in 0 .. cap - 1 |->
        LET js == {j \in 0 .. Count(c) - 1 : ((rh[c] + j) % CW) % cap = p}
        IN IF js = {} THEN NoMsg ELSE Queued(c, CHOOSE j \in js : TRUE)]]
InstallRing(s) ==
  LET c == snd[s].c IN
  /\ At(s, "install")
  /\ ring' = [ring EXCEPT ![c] = Append(@, RingCopy(c, snd[s].ncap))]
  /\ Goto(s, "swap")
  /\ UNCHANGED <<key, rh, rt, rv, lock, dead, on, nth, owner, pub>>
SwapRing(s) ==
  LET c == snd[s].c IN
  /\ At(s, "swap")
  /\ rv' = [rv EXCEPT ![c] = Len(ring[c])]
  /\ lock' = Idle
  /\ Goto(s, "push")
  /\ UNCHANGED <<key, rh, rt, ring, dead, on, nth, owner, pub>>

(* The fence, then wake's CAS(BLOCKED -> READY); send answers Ok. *)
(* mutant: a send that finds the owner BLOCKED does not wake it *)
NoWake(s) ==
  /\ At(s, "wake")
  /\ snd' = [snd EXCEPT ![s] = SndIdle]
  /\ nth' = [nth EXCEPT ![s] = @ + 1]
  /\ Leave(s)
  /\ UNCHANGED <<chans, lock, dead, owner, pub>>
WakeOwner(s) ==
  /\ At(s, "wake")
  /\ status' = IF status = "BLOCKED" THEN "READY" ELSE status
  /\ snd' = [snd EXCEPT ![s] = SndIdle]
  /\ nth' = [nth EXCEPT ![s] = @ + 1]
  /\ Leave(s)
  /\ UNCHANGED <<chans, lock, dead, rcv, scan, got, pub>>

(* kill (or the body's return): the status word only.  Its target runs on  *)
(* to its next safepoint; the killer is on another hart, or the target is  *)
(* not running.                                                            *)
Kill(s) ==
  /\ s \in Mortal \ dead
  /\ Running(s) => \E h \in Harts : h # HartOf[s]
  /\ dead' = dead \cup {s}
  /\ UNCHANGED <<chans, lock, on, snd, nth, owner, pub>>

SenderStep(s) ==
  \/ ScanSlot(s) \/ ScanShare(s) \/ ResetSlot(s) \/ CasSlot(s)
  \/ MsgCopy(s) \/ Resume(s) \/ MemDenied(s)
  \/ PushRoom(s) \/ PushFull(s) \/ WriteSlot(s) \/ PublishRt(s)
  \/ GrowLock(s) \/ InstallRing(s) \/ SwapRing(s) \/ WakeOwner(s)

----------------------------------------------------------------------------
(* The owner: receive, receiveFrom, receiveRes, take_at, block_unless.     *)

RAt(pc) == rcv.pc = pc /\ Running(Recv)
sends == <<key, rt, rv, snd, nth, pub, dead>>

RecvBegin ==
  /\ rcv.pc = "idle" /\ Enter(Recv)
  /\ \E k \in Kinds, s \in Senders :
       rcv' = [RcvIdle EXCEPT !.pc = "scan", !.kind = k,
                              !.from = IF k = "from" THEN s ELSE NoKey]
  /\ UNCHANGED <<sends, rh, ring, lock, status, scan, got>>

Take(c, k) == rcv' = [rcv EXCEPT !.pc = "take", !.c = c, !.k = k]
NextSlot == rcv' = [rcv EXCEPT !.n = @ + 1]
Cursor == (scan + rcv.n) % MAXSND

(* receive: round-robin over the channels, FIFO within one *)
(* mutant: the cursor is not reduced *)
ScanAnyNoWrap ==
  LET i == Cursor IN
  /\ RAt("scan") /\ rcv.kind = "any" /\ rcv.n < MAXSND
  /\ IF key[i] # NoKey /\ Count(i) # 0
     THEN Take(i, rh[i]) /\ scan' = i + 1
     ELSE NextSlot /\ UNCHANGED scan
  /\ UNCHANGED <<sends, rh, ring, lock, status, on, got>>
ScanAny ==
  LET i == Cursor IN
  /\ RAt("scan") /\ rcv.kind = "any" /\ rcv.n < MAXSND
  /\ IF key[i] # NoKey /\ Count(i) # 0
     THEN Take(i, rh[i]) /\ scan' = (i + 1) % MAXSND
     ELSE NextSlot /\ UNCHANGED scan
  /\ UNCHANGED <<sends, rh, ring, lock, status, on, got>>

(* receiveRes: the first T_RESULT of any channel *)
(* mutant: a hit is found, the head is taken *)
ScanResTakesHead ==
  LET i == Cursor IN
  /\ RAt("scan") /\ rcv.kind = "res" /\ rcv.n < MAXSND
  /\ IF key[i] # NoKey /\ Hits(i, Results) # {} THEN Take(i, rh[i]) ELSE NextSlot
  /\ UNCHANGED <<sends, rh, ring, lock, status, on, scan, got>>
ScanRes ==
  LET i == Cursor IN
  /\ RAt("scan") /\ rcv.kind = "res" /\ rcv.n < MAXSND
  /\ IF key[i] # NoKey /\ Hits(i, Results) # {}
     THEN Take(i, (rh[i] + FirstHit(i, Results)) % CW)
     ELSE NextSlot
  /\ UNCHANGED <<sends, rh, ring, lock, status, on, scan, got>>

(* receiveFrom: chan_for without create, the count of what it found, then  *)
(* the sender's tags in the shared ring                                    *)
ScanFrom ==
  /\ RAt("scan") /\ rcv.kind = "from" /\ rcv.n < SHIDX
  /\ IF key[rcv.n] = rcv.from
     THEN rcv' = [rcv EXCEPT !.pc = "count", !.c = rcv.n]
     ELSE NextSlot
  /\ UNCHANGED <<sends, rh, ring, lock, status, on, scan, got>>
CountFrom ==
  /\ RAt("count")
  /\ IF Count(rcv.c) # 0
     THEN Take(rcv.c, rh[rcv.c])
     ELSE rcv' = [rcv EXCEPT !.pc = "scan", !.n = SHIDX]
  /\ UNCHANGED <<sends, rh, ring, lock, status, on, scan, got>>
ScanShared ==
  LET mine == MsgsOf(rcv.from) IN
  /\ RAt("scan") /\ rcv.kind = "from" /\ rcv.n = SHIDX
  /\ IF Hits(SHIDX, mine) # {}
     THEN Take(SHIDX, (rh[SHIDX] + FirstHit(SHIDX, mine)) % CW)
     ELSE rcv' = [rcv EXCEPT !.n = MAXSND]
  /\ UNCHANGED <<sends, rh, ring, lock, status, on, scan, got>>

(* take_at at the head: read the slot, then the release store of rh *)
TakeHead ==
  LET c == rcv.c IN
  /\ RAt("take") /\ rcv.k = rh[c]
  /\ rcv' = [rcv EXCEPT !.pc = "advance", !.m = Slot(Ring(c), rcv.k)]
  /\ UNCHANGED <<sends, rh, ring, lock, status, on, scan, got>>
AdvanceRh ==
  LET c == rcv.c IN
  /\ RAt("advance")
  /\ rh' = [rh EXCEPT ![c] = (@ + 1) % CW]
  /\ got' = Append(got, rcv.m)
  /\ rcv' = RcvIdle
  /\ Leave(Recv)
  /\ UNCHANGED <<sends, ring, lock, status, scan>>

(* take_at past the head: under the lock, `for (j = k; j > rh; j--)' moves *)
(* the head side down one -- the comparison is between two counters modulo *)
(* CW -- and rh advances.                                                  *)
Shifted(rg, lo, k) ==
  [cap |-> rg.cap, slot |->
     [p \in 0 .. rg.cap - 1 |->
        LET js == {j \in lo + 1 .. k : j % rg.cap = p}
        IN IF js = {} THEN rg.slot[p]
           ELSE Slot(rg, (CHOOSE j \in js : TRUE) - 1)]]
(* mutant: taken from the middle, nothing shifted *)
TakeMidNoShift ==
  LET c == rcv.c IN
  /\ RAt("take") /\ rcv.k # rh[c] /\ lock = Idle
  /\ rh' = [rh EXCEPT ![c] = (@ + 1) % CW]
  /\ got' = Append(got, Slot(Ring(c), rcv.k))
  /\ rcv' = RcvIdle
  /\ Leave(Recv)
  /\ UNCHANGED <<sends, ring, lock, status, scan>>
TakeMid ==
  LET c == rcv.c IN
  /\ RAt("take") /\ rcv.k # rh[c] /\ lock = Idle
  /\ ring' = [ring EXCEPT ![c][rv[c]] = Shifted(@, rh[c], rcv.k)]
  /\ rh' = [rh EXCEPT ![c] = (@ + 1) % CW]
  /\ got' = Append(got, Slot(Ring(c), rcv.k))
  /\ rcv' = RcvIdle
  /\ Leave(Recv)
  /\ UNCHANGED <<sends, lock, status, scan>>

(* block_unless: CAS(READY -> BLOCKED), fence, re-scan; a hit flips the    *)
(* word back and the receive starts over, none parks.                      *)
(* mutant: the owner parks without looking again *)
BlockNoRescan ==
  /\ RAt("scan") /\ rcv.n = MAXSND
  /\ status' = "BLOCKED"
  /\ rcv' = [rcv EXCEPT !.pc = "pred"]
  /\ UNCHANGED <<sends, rh, ring, lock, on, scan, got>>
BlockCas ==
  /\ RAt("scan") /\ rcv.n = MAXSND
  /\ status' = "BLOCKED"
  /\ rcv' = [rcv EXCEPT !.pc = "pred", !.n = 0]
  /\ UNCHANGED <<sends, rh, ring, lock, on, scan, got>>
PredHolds(i) ==
  CASE rcv.kind = "any" -> key[i] # NoKey /\ Count(i) # 0
    [] rcv.kind = "res" -> key[i] # NoKey /\ Hits(i, Results) # {}
    [] rcv.kind = "from" ->
         IF i = SHIDX THEN Hits(i, MsgsOf(rcv.from)) # {}
         ELSE key[i] = rcv.from /\ Count(i) # 0
Rescan ==
  /\ RAt("pred") /\ rcv.n < MAXSND
  /\ IF PredHolds(rcv.n)
     THEN /\ status' = "READY"
          /\ rcv' = [rcv EXCEPT !.pc = "scan", !.n = 0]
     ELSE NextSlot /\ UNCHANGED status
  /\ UNCHANGED <<sends, rh, ring, lock, on, scan, got>>
Park ==
  /\ RAt("pred") /\ rcv.n = MAXSND
  /\ rcv' = [rcv EXCEPT !.pc = "parked"]
  /\ Leave(Recv)
  /\ UNCHANGED <<sends, rh, ring, lock, status, scan, got>>
(* shipped by a waker, the owner is run again by its hart *)
Unpark ==
  /\ rcv.pc = "parked" /\ status = "READY" /\ Enter(Recv)
  /\ rcv' = [rcv EXCEPT !.pc = "scan", !.n = 0]
  /\ UNCHANGED <<sends, rh, ring, lock, status, scan, got>>

OwnerStep ==
  \/ ScanAny \/ ScanRes \/ ScanFrom \/ CountFrom \/ ScanShared
  \/ TakeHead \/ AdvanceRh \/ TakeMid
  \/ BlockCas \/ Rescan \/ Park \/ Unpark

Next ==
  \/ \E s \in Senders : SendBegin(s) \/ SenderStep(s) \/ Kill(s)
  \/ RecvBegin \/ OwnerStep

Spec == Init /\ [][Next]_vars

(* A hart never abandons an actor it runs, and runs again an actor that    *)
(* was made ready.                                                         *)
FairSpec ==
  /\ Spec
  /\ \A s \in Senders : SF_vars(SenderStep(s))
  /\ SF_vars(OwnerStep) /\ SF_vars(RecvBegin)

----------------------------------------------------------------------------
SndPcs == {"idle", "scan", "cas", "copy", "copied", "push", "write",
           "publish", "alloced", "grow", "install", "swap", "wake"}
RcvPcs == {"idle", "scan", "count", "take", "advance", "pred", "parked"}

Keys == Senders \cup {NoKey, SharedKey}
AnyMsg == Msgs \cup {NoMsg}
Rings == UNION {[cap : {n}, slot : [0 .. n - 1 -> AnyMsg]] : n \in 1 .. 2 * RingMax}

SndRegs == [pc : SndPcs, i : Channels, free : Dedicated \cup {NoSlot},
            expect : Keys, c : Channels, t : 0 .. CW - 1, v : Nat,
            ncap : 1 .. 2 * RingMax]
RcvRegs == [pc : RcvPcs, kind : {"any", "from", "res"},
            from : Senders \cup {NoKey}, n : 0 .. MAXSND, c : Channels,
            k : 0 .. CW - 1, m : AnyMsg]

ChanTypes ==
  /\ key \in [Channels -> Keys]
  /\ rh \in [Channels -> 0 .. CW - 1] /\ rt \in [Channels -> 0 .. CW - 1]
  /\ ring \in [Channels -> Seq(Rings)]
  /\ rv \in [Channels -> Nat] /\ \A i \in Channels : rv[i] \in DOMAIN ring[i]
SndTypes ==
  /\ snd \in [Senders -> SndRegs]
  /\ nth \in [Senders -> 0 .. Sends]
  /\ \A s \in Senders : /\ snd[s].pc # "idle" => nth[s] < Sends
                        /\ snd[s].pc = "cas" => snd[s].free # NoSlot
RcvTypes ==
  /\ rcv \in RcvRegs /\ scan \in Channels
  /\ status \in {"READY", "BLOCKED"} /\ got \in Seq(AnyMsg)

(* Type invariant of the channel block and of the registers around it. *)
TypeOK ==
  /\ ChanTypes /\ SndTypes /\ RcvTypes
  /\ lock \in Senders \cup {Idle}
  /\ dead \subseteq Mortal
  /\ on \in [Harts -> Parties \cup {Idle}]
  /\ pub \subseteq Msgs

(* "Ok means queued" (docs/MAILBOX.md): every message whose send published *)
(* it is in exactly one place -- queued once, or received once -- and      *)
(* nothing else was received.                                              *)
QueuedAt(m) == {p \in Channels \X (0 .. CW - 1) :
                   p[2] < Count(p[1]) /\ Queued(p[1], p[2]) = m}
ReceivedAt(m) == {j \in DOMAIN got : got[j] = m}
OkMeansQueuedOnce ==
  /\ \A m \in pub : Cardinality(QueuedAt(m)) + Cardinality(ReceivedAt(m)) = 1
  /\ \A j \in DOMAIN got : got[j] \in pub

(* "Every ring in the system still has exactly one writer": from the claim *)
(* of a dedicated slot to the store of its rt nobody else -- alive, or     *)
(* killed and still running -- is between the same two points of the same  *)
(* slot; and on any ring the steps from the room check to the store of rt, *)
(* and from the copy to the swap, exclude each other.                      *)
Claimed(s) ==
  /\ snd[s].pc \in SndPcs \ {"idle", "scan", "cas", "wake"}
  /\ s \notin dead \/ Running(s)
Writing(s) == snd[s].pc \in {"write", "publish", "install", "swap"}
OneWriter ==
  \A s, t \in Senders :
    s # t /\ Claimed(s) /\ Claimed(t) /\ snd[s].c = snd[t].c
      => Shared(s) /\ ~(Writing(s) /\ Writing(t))

(* The block/wake protocol: an owner that is parked and BLOCKED while the  *)
(* message it waits for is queued is about to be woken by a sender that    *)
(* published and has not done its CAS yet.                                 *)
NoLostWakeup ==
  rcv.pc = "parked" /\ status = "BLOCKED"
    /\ (\E i \in Channels : PredHolds(i))
    => \E s \in Senders : snd[s].pc = "wake" /\ Running(s)

(* receiveFrom s answers only with a message of s, receiveRes only with a  *)
(* Result.                                                                 *)
SelectiveTakes ==
  [][got' # got => LET m == got'[Len(got')] IN
       /\ rcv.kind = "from" => m \in MsgsOf(rcv.from)
       /\ rcv.kind = "res" => m \in Results]_vars

(* Per-sender FIFO: what a receive takes is the oldest message of its      *)
(* sender that this receive could have taken.                              *)
PerSenderFifo ==
  [][got' # got =>
       LET m == got'[Len(got')] IN
       \A p \in pub :
         p[1] = m[1] /\ p[2] < m[2] /\ (rcv.kind = "res" => p \in Results)
           => \E j \in DOMAIN got : got[j] = p]_vars

(* Every receive (a_receive, a_receive_from, a_receive_res) takes what it   *)
(* asked for and, of its sender's messages it could have taken, the oldest: *)
(* receiveRes out of the middle of a ring (take_at), and across the         *)
(* dedicated and the shared channel.                                        *)
TakesTheOldest == SelectiveTakes /\ PerSenderFifo

(* The refinement: the rings implement the per-sender queues of FifoBox,   *)
(* where a sender's queue is what of its messages is in any ring.  Every   *)
(* send takes effect at the store of rt and every receive at the store of  *)
(* rh, as one atomic operation on the sender's queue; growing a ring and   *)
(* shifting past a message taken out of the middle change no queue.        *)
Inbox ==
  [s \in Senders |-> {m \in MsgsOf(s) : \E i \in Channels : Hits(i, {m}) # {}}]
Fifo == INSTANCE FifoBox WITH inbox <- Inbox, put <- pub, got <- got
ImplementsFifo == Fifo!FifoSpec

(* Every published message is received once the owner keeps receiving.     *)
Delivered == \A m \in Msgs : m \in pub ~> \E j \in DOMAIN got : got[j] = m

(* A send never waits for the receiver ("a full ring is an answer, not a   *)
(* wait"): whoever starts one finishes it, or is killed.                   *)
SendReturns ==
  \A s \in Senders : snd[s].pc # "idle" ~> snd[s].pc = "idle" \/ s \in dead
=============================================================================

--------------------------- MODULE MailboxProofs ---------------------------
(***************************************************************************)
(* Theorems about Mailbox for every set of senders, every placement, every *)
(* capacity: type correctness, that every ring has one writer, and that    *)
(* no wakeup is lost.                                                      *)
(***************************************************************************)
EXTENDS Mailbox, TLAPS, WellFoundedInduction, SequenceTheorems

USE KeysDistinct, PlacementAssumption, SizeAssumption

(* A remainder lies below the modulus. *)
LEMMA ModRange ==
  ASSUME NEW a \in Int, NEW n \in Nat \ {0}
  PROVE  a % n \in 0 .. n - 1
BY ONLY a \in Int, n \in Nat \ {0}

(* A non-empty set of naturals has a least element. *)
LEMMA LeastOf ==
  ASSUME NEW S \in SUBSET Nat, S # {}
  PROVE  \E x \in S : \A y \in S : x <= y
<1>1. PICK x \in S : \A y \in S : ~(<<y, x>> \in OpToRel(<, Nat))
  BY WFMin, NatLessThanWellFounded
<1>2. ASSUME NEW y \in S PROVE ~(y < x)
  <2>1. ~(<<y, x>> \in OpToRel(<, Nat))
    BY <1>1
  <2>2. ~(<<y, x>> \in {ss \in Nat \X Nat : ss[1] < ss[2]})
    BY ONLY <2>1, Zenon DEF OpToRel
  <2> QED BY <2>2
<1> QED BY <1>2

(* What a ring block is made of, and how to make one. *)
LEMMA RingFields ==
  ASSUME NEW r \in Rings
  PROVE  /\ r.cap \in 1 .. 2 * RingMax
         /\ r.slot \in [0 .. r.cap - 1 -> AnyMsg]
         /\ DOMAIN r.slot = 0 .. r.cap - 1
         /\ r = [cap |-> r.cap, slot |-> r.slot]
BY DEF Rings

LEMMA RingOf ==
  ASSUME NEW n \in 1 .. 2 * RingMax, NEW f \in [0 .. n - 1 -> AnyMsg]
  PROVE  [cap |-> n, slot |-> f] \in Rings
BY DEF Rings

(* Every slot read through the ring in force yields a message or the blank.*)
LEMMA SlotRead ==
  ASSUME NEW r \in Rings, NEW k \in Int
  PROVE  Slot(r, k) \in AnyMsg
<1>1. r.cap \in Nat \ {0} /\ r.slot \in [0 .. r.cap - 1 -> AnyMsg]
  BY RingFields
<1>2. k % r.cap \in 0 .. r.cap - 1
  BY <1>1, ModRange
<1> QED BY <1>1, <1>2 DEF Slot

LEMMA RingInForce ==
  ASSUME TypeOK, NEW i \in Channels
  PROVE  Ring(i) \in Rings /\ rh[i] \in Nat /\ rt[i] \in Nat
           /\ Count(i) \in 0 .. CW - 1
<1>1. ring[i] \in Seq(Rings) /\ rv[i] \in DOMAIN ring[i]
  BY DEF TypeOK, ChanTypes
<1>2. Ring(i) \in Rings
  BY <1>1 DEF Ring
<1>3. rh[i] \in Nat /\ rt[i] \in Nat
  BY DEF TypeOK, ChanTypes
<1>4. rt[i] - rh[i] \in Int /\ CW \in Nat \ {0}
  BY <1>3
<1>5. Count(i) \in 0 .. CW - 1
  BY <1>4, ModRange DEF Count
<1> QED BY <1>2, <1>3, <1>5

LEMMA QueuedRead ==
  ASSUME TypeOK, NEW i \in Channels, NEW j \in Int
  PROVE  Queued(i, j) \in AnyMsg
<1>1. Ring(i) \in Rings /\ rh[i] \in Nat
  BY RingInForce
<1>2. (rh[i] + j) % CW \in Int
  BY <1>1, ModRange
<1> QED BY <1>1, <1>2, SlotRead DEF Queued

(* ring_install's copy and take_at's shift produce ring blocks. *)
LEMMA RingCopyType ==
  ASSUME TypeOK, NEW c \in Channels, NEW n \in 1 .. 2 * RingMax
  PROVE  RingCopy(c, n) \in Rings
<1> DEFINE js(p) == {j \in 0 .. Count(c) - 1 : ((rh[c] + j) % CW) % n = p}
           f == [p \in 0 .. n - 1 |->
                   IF js(p) = {} THEN NoMsg
                   ELSE Queued(c, CHOOSE j \in js(p) : TRUE)]
<1>1. ASSUME NEW p \in 0 .. n - 1, js(p) # {}
      PROVE  Queued(c, CHOOSE j \in js(p) : TRUE) \in AnyMsg
  <2>1. Count(c) \in 0 .. CW - 1
    BY RingInForce
  <2>2. (CHOOSE j \in js(p) : TRUE) \in Int
    BY <1>1, <2>1
  <2> QED BY <2>2, QueuedRead
<1>2. NoMsg \in AnyMsg
  BY DEF AnyMsg
<1>3. f \in [0 .. n - 1 -> AnyMsg]
  BY <1>1, <1>2
<1>4. RingCopy(c, n) = [cap |-> n, slot |-> f]
  BY DEF RingCopy
<1> QED BY <1>3, <1>4, RingOf

LEMMA ShiftedType ==
  ASSUME NEW r \in Rings, NEW lo \in Nat, NEW k \in Nat
  PROVE  Shifted(r, lo, k) \in Rings
<1> DEFINE js(p) == {j \in lo + 1 .. k : j % r.cap = p}
           f == [p \in 0 .. r.cap - 1 |->
                   IF js(p) = {} THEN r.slot[p]
                   ELSE Slot(r, (CHOOSE j \in js(p) : TRUE) - 1)]
<1>1. r.cap \in 1 .. 2 * RingMax /\ r.slot \in [0 .. r.cap - 1 -> AnyMsg]
  BY RingFields
<1>2. ASSUME NEW p \in 0 .. r.cap - 1, js(p) # {}
      PROVE  Slot(r, (CHOOSE j \in js(p) : TRUE) - 1) \in AnyMsg
  <2>1. (CHOOSE j \in js(p) : TRUE) - 1 \in Int
    BY <1>2
  <2> QED BY <2>1, SlotRead
<1>3. f \in [0 .. r.cap - 1 -> AnyMsg]
  BY <1>1, <1>2
<1>4. Shifted(r, lo, k) = [cap |-> r.cap, slot |-> f]
  BY DEF Shifted
<1> HIDE DEF f
<1> QED BY <1>1, <1>3, <1>4, RingOf

(* The first message a scan loop finds is one of the queued ones. *)
LEMMA HitOffset ==
  ASSUME TypeOK, NEW i \in Channels, NEW W, Hits(i, W) # {}
  PROVE  (rh[i] + FirstHit(i, W)) % CW \in 0 .. CW - 1
<1>1. Count(i) \in Nat /\ rh[i] \in Nat
  BY RingInForce
<1>2. Hits(i, W) \in SUBSET Nat
  BY <1>1 DEF Hits
<1>3. \E j \in Hits(i, W) : \A x \in Hits(i, W) : j <= x
  BY <1>2, LeastOf
<1>4. FirstHit(i, W) \in Hits(i, W)
  BY ONLY <1>3, Zenon DEF FirstHit
<1>5. rh[i] + FirstHit(i, W) \in Int /\ CW \in Nat \ {0}
  BY <1>1, <1>2, <1>4
<1> QED BY <1>5, ModRange

(* The initial state has the types. *)
LEMMA InitType == Init => TypeOK
<1> SUFFICES ASSUME Init PROVE TypeOK
  OBVIOUS
<1> USE DEF Init
<1>1. key \in [Channels -> Keys]
  BY DEF Keys, Channels, Dedicated
<1>2. rh \in [Channels -> 0 .. CW - 1] /\ rt \in [Channels -> 0 .. CW - 1]
  OBVIOUS
<1>3. Blank(Cap0) \in Rings
  <2> DEFINE f == [p \in 0 .. Cap0 - 1 |-> NoMsg]
  <2>1. f \in [0 .. Cap0 - 1 -> AnyMsg] /\ Cap0 \in 1 .. 2 * RingMax
    BY DEF AnyMsg
  <2>2. Blank(Cap0) = [cap |-> Cap0, slot |-> f]
    BY DEF Blank
  <2> HIDE DEF f
  <2> QED BY <2>1, <2>2, RingOf
<1>4. ring \in [Channels -> Seq(Rings)] /\ \A i \in Channels : rv[i] \in DOMAIN ring[i]
  BY <1>3
<1>5. on \in [Harts -> Parties \cup {Idle}]
  OBVIOUS
<1>6. 0 \in Channels /\ NoSlot \in Dedicated \cup {NoSlot} /\ 0 \in 0 .. CW - 1
  BY DEF Channels
<1>7. SndIdle \in SndRegs
  BY <1>6 DEF SndIdle, SndRegs, SndPcs, Keys
<1>8. snd \in [Senders -> SndRegs]
  BY <1>7
<1>9. rcv \in RcvRegs
  BY <1>6 DEF RcvIdle, RcvPcs, RcvRegs, MAXSND, AnyMsg
<1>10. scan \in Channels /\ got \in Seq(AnyMsg)
  BY <1>6
<1>11. \A s \in Senders : nth[s] \in 0 .. Sends /\ snd[s].pc = "idle"
  BY DEF SndIdle
<1> QED
  BY <1>1, <1>2, <1>4, <1>5, <1>8, <1>9, <1>10, <1>11
     DEF TypeOK, ChanTypes, SndTypes, RcvTypes

(* Each register may be replaced by any value of its type. *)
LEMMA SndUpdate ==
  ASSUME NEW r \in SndRegs
  PROVE  /\ \A x \in SndPcs : [r EXCEPT !.pc = x] \in SndRegs
         /\ \A x \in Channels : [r EXCEPT !.i = x] \in SndRegs
         /\ \A x \in Channels : [r EXCEPT !.c = x] \in SndRegs
         /\ \A x \in Dedicated : [r EXCEPT !.free = x] \in SndRegs
         /\ \A x \in Keys : [r EXCEPT !.expect = x] \in SndRegs
         /\ \A x \in 0 .. CW - 1 : [r EXCEPT !.t = x] \in SndRegs
         /\ \A x \in Nat : [r EXCEPT !.v = x] \in SndRegs
         /\ \A x \in 1 .. 2 * RingMax : [r EXCEPT !.ncap = x] \in SndRegs
BY DEF SndRegs

(* A sender's step that replaces its registers by r of the right type keeps*)
(* SndTypes, whether or not it ends the send.                              *)
LEMMA NewRegs ==
  ASSUME SndTypes, NEW s \in Senders, NEW r \in SndRegs,
         snd' = [snd EXCEPT ![s] = r],
         r.pc = "cas" => r.free # NoSlot,
         \/ nth' = nth /\ nth[s] < Sends
         \/ nth' = [nth EXCEPT ![s] = @ + 1] /\ nth[s] < Sends /\ r.pc = "idle"
  PROVE  SndTypes'
BY DEF SndTypes

LEMMA FunUpdate ==
  ASSUME NEW A, NEW B, NEW f \in [A -> B], NEW a, NEW b \in B
  PROVE  [f EXCEPT ![a] = b] \in [A -> B]
OBVIOUS

LEMMA SeqUpdate ==
  ASSUME NEW q \in Seq(Rings), NEW i \in DOMAIN q, NEW r \in Rings
  PROVE  [q EXCEPT ![i] = r] \in Seq(Rings) /\ DOMAIN [q EXCEPT ![i] = r] = DOMAIN q
<1>1. i \in 1 .. Len(q)
  OBVIOUS
<1>2. [q EXCEPT ![i] = r] \in Seq(Rings)
  BY ONLY <1>1, q \in Seq(Rings), r \in Rings, ExceptSeq
<1> QED BY <1>2

(* What every case below starts from. *)
LEMMA SndFacts ==
  ASSUME TypeOK, NEW s \in Senders
  PROVE  /\ SndTypes /\ snd[s] \in SndRegs /\ snd \in [Senders -> SndRegs]
         /\ s \in Parties /\ HartOf[s] \in Harts
         /\ SHIDX \in Channels /\ Dedicated \subseteq Channels
         /\ snd[s].i \in Channels /\ snd[s].c \in Channels
         /\ snd[s].free \in Dedicated \cup {NoSlot} /\ NoSlot \notin Dedicated
         /\ snd[s].ncap \in 1 .. 2 * RingMax /\ snd[s].t \in 0 .. CW - 1
         /\ snd[s].expect \in Keys
         /\ snd[s].pc # "idle" => nth[s] < Sends
         /\ snd[s].pc = "cas" => snd[s].free # NoSlot
<1>1. /\ SndTypes /\ snd[s] \in SndRegs /\ snd \in [Senders -> SndRegs]
      /\ snd[s].pc # "idle" => nth[s] < Sends
      /\ snd[s].pc = "cas" => snd[s].free # NoSlot
  BY DEF TypeOK, SndTypes
<1>2. /\ s \in Parties /\ HartOf[s] \in Harts
      /\ SHIDX \in Channels /\ Dedicated \subseteq Channels /\ NoSlot \notin Dedicated
  BY DEF Channels, Dedicated, NoSlot, Parties
<1>3. /\ snd[s].i \in Channels /\ snd[s].c \in Channels
      /\ snd[s].free \in Dedicated \cup {NoSlot}
      /\ snd[s].ncap \in 1 .. 2 * RingMax /\ snd[s].t \in 0 .. CW - 1
      /\ snd[s].expect \in Keys
  BY <1>1 DEF SndRegs
<1> QED BY <1>1, <1>2, <1>3

LEMMA SndIdleType ==
  SndIdle \in SndRegs /\ [SndIdle EXCEPT !.pc = "scan"] \in SndRegs
<1>1. 0 \in Channels /\ NoSlot \in Dedicated \cup {NoSlot} /\ 0 \in 0 .. CW - 1
  BY DEF Channels
<1> QED BY <1>1 DEF SndIdle, SndRegs, SndPcs, Keys

LEMMA OnTypes ==
  ASSUME TypeOK, NEW a \in Parties, Enter(a) \/ Leave(a) \/ UNCHANGED on
  PROVE  on' \in [Harts -> Parties \cup {Idle}]
BY DEF TypeOK, Enter, Leave, Parties

LEMMA ChansKept == ASSUME ChanTypes, UNCHANGED chans PROVE ChanTypes'
BY DEF ChanTypes, chans

LEMMA OwnerKept == ASSUME RcvTypes, UNCHANGED owner PROVE RcvTypes'
BY DEF RcvTypes, owner

(* The new message a sender publishes is one of Msgs. *)
LEMMA ThisMsgType ==
  ASSUME TypeOK, NEW s \in Senders, snd[s].pc # "idle"
  PROVE  ThisMsg(s) \in Msgs /\ ThisMsg(s) \in AnyMsg
<1>1. nth[s] \in 0 .. Sends /\ nth[s] < Sends
  BY DEF TypeOK, SndTypes
<1> QED BY <1>1 DEF ThisMsg, Msgs, AnyMsg

(* One lemma per kind of effect: the steps that touch no ring. *)
LEMMA ControlTypes ==
  ASSUME TypeOK, NEW s \in Senders,
         \/ SendBegin(s) \/ ScanSlot(s) \/ ScanShare(s) \/ MsgCopy(s)
         \/ Resume(s) \/ MemDenied(s) \/ PushRoom(s) \/ PushFull(s)
         \/ GrowLock(s) \/ WakeOwner(s) \/ Kill(s)
  PROVE  TypeOK'
<1> USE SndFacts, SndIdleType
<1>1. ASSUME UNCHANGED chans, UNCHANGED owner, UNCHANGED pub,
             lock' \in Senders \cup {Idle}, UNCHANGED dead,
             Enter(s) \/ Leave(s) \/ UNCHANGED on, SndTypes'
      PROVE  TypeOK'
  <2>1. ChanTypes' /\ RcvTypes' /\ on' \in [Harts -> Parties \cup {Idle}]
    BY <1>1, ChansKept, OwnerKept, OnTypes DEF TypeOK
  <2> QED BY <1>1, <2>1 DEF TypeOK
<1>2. lock \in Senders \cup {Idle}
  BY DEF TypeOK
<1>3. \A x \in SndPcs : [snd[s] EXCEPT !.pc = x] \in SndRegs
                          /\ [snd[s] EXCEPT !.pc = x].pc = x
  BY SndUpdate DEF SndRegs
<1>4. SndIdle.pc = "idle" /\ [SndIdle EXCEPT !.pc = "scan"].pc = "scan"
  BY DEF SndIdle
<1>SendBegin. CASE SendBegin(s)
  <2>1. SndTypes'
    BY <1>4, <1>SendBegin, NewRegs DEF SendBegin
  <2> QED BY <1>1, <1>2, <2>1, <1>SendBegin DEF SendBegin
<1>ScanSlot. CASE ScanSlot(s)
  <2> DEFINE i == snd[s].i
             r1 == [snd[s] EXCEPT !.pc = "copy", !.c = i]
             r2 == [snd[s] EXCEPT !.i = i + 1, !.free = i, !.expect = key[i]]
             r3 == [snd[s] EXCEPT !.i = i + 1]
  <2>1. i \in Channels /\ i < SHIDX
    BY <1>ScanSlot DEF ScanSlot
  <2>2. i \in Dedicated /\ i + 1 \in Channels /\ key[i] \in Keys
    <3>1. key \in [Channels -> Keys]
      BY DEF TypeOK, ChanTypes
    <3> HIDE DEF i
    <3> QED BY <2>1, <3>1 DEF Channels, Dedicated
  <2>3. [snd[s] EXCEPT !.pc = "copy"] \in SndRegs
    BY <1>3 DEF SndPcs
  <2>4. r1 \in SndRegs /\ r1.pc = "copy"
    BY <2>2, <2>3, SndUpdate DEF SndRegs
  <2>5. r3 \in SndRegs /\ r3.pc = snd[s].pc
    BY <2>2, SndUpdate DEF SndRegs
  <2>6. [snd[s] EXCEPT !.i = i + 1, !.free = i] \in SndRegs
    BY <2>2, <2>5, SndUpdate
  <2>7. r2 \in SndRegs /\ r2.pc = snd[s].pc
    BY <2>2, <2>6, SndUpdate DEF SndRegs
  <2>8. snd[s].pc = "scan" /\ nth' = nth /\ nth[s] < Sends
    BY <1>ScanSlot DEF ScanSlot, At
  <2>9. \E r \in {r1, r2, r3} : snd' = [snd EXCEPT ![s] = r]
    BY <1>ScanSlot DEF ScanSlot
  <2> HIDE DEF r1, r2, r3, i
  <2>10. SndTypes'
    <3>1. PICK r \in {r1, r2, r3} : snd' = [snd EXCEPT ![s] = r]
      BY <2>9
    <3>2. r \in SndRegs /\ r.pc # "cas"
      BY <2>4, <2>5, <2>7, <2>8
    <3> QED BY <2>8, <3>1, <3>2, NewRegs
  <2> QED BY <1>1, <1>2, <2>10, <1>ScanSlot DEF ScanSlot
<1>ScanShare. CASE ScanShare(s)
  <2> DEFINE r == [snd[s] EXCEPT !.pc = "copy", !.c = SHIDX]
  <2>1. [snd[s] EXCEPT !.pc = "copy"] \in SndRegs
    BY <1>3 DEF SndPcs
  <2>2. r \in SndRegs /\ r.pc = "copy"
    BY <2>1, SndUpdate DEF SndRegs
  <2>3. snd' = [snd EXCEPT ![s] = r] /\ nth' = nth /\ nth[s] < Sends
    BY <1>ScanShare DEF ScanShare, At
  <2> HIDE DEF r
  <2>4. SndTypes'
    BY <2>2, <2>3, NewRegs
  <2> QED BY <1>1, <1>2, <2>4, <1>ScanShare DEF ScanShare
<1>Goto. ASSUME NEW x \in SndPcs \ {"idle", "cas"}, Goto(s, x), nth' = nth,
                snd[s].pc # "idle"
         PROVE  SndTypes'
  <2>1. snd' = [snd EXCEPT ![s] = [snd[s] EXCEPT !.pc = x]]
    BY <1>Goto DEF Goto
  <2> QED BY <1>3, <1>Goto, <2>1, NewRegs
<1>MsgCopy. CASE MsgCopy(s)
  <2>1. SndTypes'
    BY <1>Goto, <1>MsgCopy DEF MsgCopy, At, SndPcs
  <2> QED BY <1>1, <1>2, <2>1, <1>MsgCopy DEF MsgCopy
<1>Resume. CASE Resume(s)
  <2>1. SndTypes'
    BY <1>Goto, <1>Resume DEF Resume, SndPcs
  <2> QED BY <1>1, <1>2, <2>1, <1>Resume DEF Resume
<1>Refuse. ASSUME Refuse(s), snd[s].pc # "idle" PROVE SndTypes'
  BY <1>4, <1>Refuse, NewRegs DEF Refuse
<1>MemDenied. CASE MemDenied(s)
  <2>1. SndTypes'
    BY <1>Refuse, <1>MemDenied DEF MemDenied
  <2> QED BY <1>1, <1>2, <2>1, <1>MemDenied DEF MemDenied, Refuse
<1>PushRoom. CASE PushRoom(s)
  <2> DEFINE c == snd[s].c
             r == [snd[s] EXCEPT !.pc = "write", !.t = rt[c], !.v = rv[c]]
  <2>1. rt[c] \in 0 .. CW - 1 /\ rv[c] \in Nat
    <3>1. rt[c] \in 0 .. CW - 1 /\ ring[c] \in Seq(Rings) /\ rv[c] \in DOMAIN ring[c]
      BY DEF TypeOK, ChanTypes
    <3>2. DOMAIN ring[c] \subseteq Nat
      <4> HIDE DEF c
      <4> QED BY <3>1
    <3> QED BY <3>1, <3>2
  <2>2. [snd[s] EXCEPT !.pc = "write"] \in SndRegs
    BY <1>3 DEF SndPcs
  <2>3. [snd[s] EXCEPT !.pc = "write", !.t = rt[c]] \in SndRegs
    BY <2>1, <2>2, SndUpdate
  <2>4. r \in SndRegs /\ r.pc = "write"
    BY <2>1, <2>3, SndUpdate DEF SndRegs
  <2>5. snd' = [snd EXCEPT ![s] = r] /\ nth' = nth /\ nth[s] < Sends
    BY <1>PushRoom DEF PushRoom, At
  <2> HIDE DEF r
  <2>6. SndTypes'
    BY <2>4, <2>5, NewRegs
  <2> QED BY <1>1, <1>2, <2>6, <1>PushRoom DEF PushRoom
<1>PushFull. CASE PushFull(s)
  <2> DEFINE c == snd[s].c
             r == [snd[s] EXCEPT !.pc = "alloced", !.ncap = 2 * Ring(c).cap]
  <2>1. CASE CanGrow(c)
    <3>1. Ring(c).cap \in 1 .. 2 * RingMax
      BY RingInForce, RingFields
    <3>2. 2 * Ring(c).cap \in 1 .. 2 * RingMax
      BY <2>1, <3>1 DEF CanGrow
    <3>3. [snd[s] EXCEPT !.pc = "alloced"] \in SndRegs
      BY <1>3 DEF SndPcs
    <3>4. r \in SndRegs /\ r.pc = "alloced"
      BY <3>2, <3>3, SndUpdate DEF SndRegs
    <3>5. /\ snd' = [snd EXCEPT ![s] = r] /\ nth' = nth /\ nth[s] < Sends
          /\ Leave(s)
      BY <2>1, <1>PushFull DEF PushFull, At
    <3> HIDE DEF r
    <3>6. SndTypes'
      BY <3>4, <3>5, NewRegs
    <3> QED BY <1>1, <1>2, <3>5, <3>6, <1>PushFull DEF PushFull
  <2>2. CASE ~CanGrow(c)
    <3>1. Refuse(s) /\ snd[s].pc # "idle"
      BY <2>2, <1>PushFull DEF PushFull, At
    <3>2. SndTypes' /\ Leave(s)
      BY <3>1, <1>Refuse DEF Refuse
    <3> QED BY <1>1, <1>2, <3>2, <1>PushFull DEF PushFull
  <2> QED BY <2>1, <2>2
<1>GrowLock. CASE GrowLock(s)
  <2>1. SndTypes' /\ lock' \in Senders \cup {Idle}
    BY <1>2, <1>Goto, <1>GrowLock DEF GrowLock, At, SndPcs
  <2> QED BY <1>1, <2>1, <1>GrowLock DEF GrowLock
<1>WakeOwner. CASE WakeOwner(s)
  <2>1. SndTypes'
    BY <1>4, <1>WakeOwner, NewRegs DEF WakeOwner, At
  <2>2. ChanTypes' /\ RcvTypes' /\ on' \in [Harts -> Parties \cup {Idle}]
    BY <1>WakeOwner, ChansKept, OnTypes DEF TypeOK, RcvTypes, WakeOwner
  <2> QED BY <2>1, <2>2, <1>WakeOwner DEF WakeOwner, TypeOK
<1>Kill. CASE Kill(s)
  <2>1. SndTypes' /\ ChanTypes' /\ RcvTypes'
    BY <1>Kill, ChansKept, OwnerKept DEF Kill, TypeOK, SndTypes
  <2> QED BY <2>1, <1>Kill DEF Kill, TypeOK
<1> QED
  BY <1>SendBegin, <1>ScanSlot, <1>ScanShare, <1>MsgCopy, <1>Resume,
     <1>MemDenied, <1>PushRoom, <1>PushFull, <1>GrowLock, <1>WakeOwner, <1>Kill

(* The steps that write the channel block. *)
LEMMA RingTypes ==
  ASSUME TypeOK, NEW s \in Senders,
         \/ ResetSlot(s) \/ CasSlot(s) \/ WriteSlot(s) \/ PublishRt(s)
         \/ InstallRing(s) \/ SwapRing(s)
  PROVE  TypeOK'
<1> USE SndFacts
<1>1. ASSUME ChanTypes', SndTypes', UNCHANGED <<dead, on>>, UNCHANGED owner,
             lock' \in Senders \cup {Idle}, pub' \subseteq Msgs
      PROVE  TypeOK'
  BY <1>1, OwnerKept DEF TypeOK
<1>2. lock \in Senders \cup {Idle} /\ pub \subseteq Msgs
  BY DEF TypeOK
<1>3. \A x \in SndPcs : [snd[s] EXCEPT !.pc = x] \in SndRegs
        /\ [snd[s] EXCEPT !.pc = x].pc = x
        /\ [snd[s] EXCEPT !.pc = x].free = snd[s].free
  BY SndUpdate DEF SndRegs
<1>4. /\ key \in [Channels -> Keys] /\ ring \in [Channels -> Seq(Rings)]
      /\ rh \in [Channels -> 0 .. CW - 1] /\ rt \in [Channels -> 0 .. CW - 1]
      /\ rv \in [Channels -> Nat] /\ \A i \in Channels : rv[i] \in DOMAIN ring[i]
  BY DEF TypeOK, ChanTypes
<1>Goto. ASSUME NEW x \in SndPcs \ {"idle"}, Goto(s, x), nth' = nth,
                snd[s].pc # "idle", x = "cas" => snd[s].free # NoSlot
         PROVE  SndTypes'
  <2>1. snd' = [snd EXCEPT ![s] = [snd[s] EXCEPT !.pc = x]]
    BY <1>Goto DEF Goto
  <2> QED BY <1>3, <1>Goto, <2>1, NewRegs
<1>ResetSlot. CASE ResetSlot(s)
  <2>1. SndTypes'
    BY <1>Goto, <1>ResetSlot DEF ResetSlot, At, SndPcs
  <2>2. 0 \in 0 .. CW - 1
    OBVIOUS
  <2>3. rh' \in [Channels -> 0 .. CW - 1] /\ rt' \in [Channels -> 0 .. CW - 1]
    <3>1. \/ rh' = [rh EXCEPT ![snd[s].free] = 0] /\ rt' = [rt EXCEPT ![snd[s].free] = 0]
          \/ rh' = rh /\ rt' = rt
      BY <1>ResetSlot DEF ResetSlot
    <3> QED BY <1>4, <2>2, <3>1, FunUpdate
  <2>4. UNCHANGED <<key, rv, ring>>
    BY <1>ResetSlot DEF ResetSlot
  <2>5. ChanTypes'
    BY <1>4, <2>3, <2>4 DEF ChanTypes
  <2> QED BY <1>1, <1>2, <2>1, <2>5, <1>ResetSlot DEF ResetSlot
<1>CasSlot. CASE CasSlot(s)
  <2> DEFINE f == snd[s].free
             r == [snd[s] EXCEPT !.pc = "copy", !.c = f]
             r0 == [SndIdle EXCEPT !.pc = "scan"]
  <2>1. f \in Channels /\ nth' = nth /\ nth[s] < Sends
    BY <1>CasSlot DEF CasSlot, At
  <2>2. [snd[s] EXCEPT !.pc = "copy"] \in SndRegs
    BY <1>3 DEF SndPcs
  <2>3. r \in SndRegs /\ r.pc = "copy"
    BY <2>1, <2>2, SndUpdate DEF SndRegs
  <2>4. r0 \in SndRegs /\ r0.pc = "scan"
    BY SndIdleType DEF SndIdle
  <2>5. snd' = [snd EXCEPT ![s] = r] \/ snd' = [snd EXCEPT ![s] = r0]
    BY <1>CasSlot DEF CasSlot
  <2>6. ChanTypes'
    <3>1. s \in Keys
      BY DEF Keys
    <3>2. key' = [key EXCEPT ![f] = s] \/ key' = key
      BY <1>CasSlot DEF CasSlot
    <3>3. key' \in [Channels -> Keys]
      BY <1>4, <3>1, <3>2, FunUpdate
    <3>4. UNCHANGED <<rh, rt, rv, ring>>
      BY <1>CasSlot DEF CasSlot
    <3> QED BY <1>4, <3>3, <3>4 DEF ChanTypes
  <2> HIDE DEF r, r0
  <2>7. SndTypes'
    BY <2>1, <2>3, <2>4, <2>5, NewRegs
  <2> QED BY <1>1, <1>2, <2>6, <2>7, <1>CasSlot DEF CasSlot
<1>WriteSlot. CASE WriteSlot(s)
  <2> DEFINE c == snd[s].c
             v == snd[s].v
             p == snd[s].t % ring[c][v].cap
             m == ThisMsg(s)
  <2>1. SndTypes'
    BY <1>Goto, <1>WriteSlot DEF WriteSlot, At, SndPcs
  <2>2. m \in AnyMsg
    BY <1>WriteSlot, ThisMsgType DEF WriteSlot, At
  <2>3. ring' = [ring EXCEPT ![c] = [ring[c] EXCEPT ![v] =
                   [ring[c][v] EXCEPT !.slot = [ring[c][v].slot EXCEPT ![p] = m]]]]
    BY <1>WriteSlot DEF WriteSlot
  <2>4. ASSUME NEW r \in Rings
        PROVE  [r EXCEPT !.slot = [r.slot EXCEPT ![p] = m]] \in Rings
    <3> DEFINE g == [r.slot EXCEPT ![p] = m]
    <3>1. r.cap \in 1 .. 2 * RingMax /\ g \in [0 .. r.cap - 1 -> AnyMsg]
            /\ r = [cap |-> r.cap, slot |-> r.slot]
      BY <2>2, RingFields
    <3> HIDE DEF g
    <3>2. [r EXCEPT !.slot = g] \in Rings
      BY <3>1 DEF Rings
    <3> QED BY <3>2 DEF g
  <2> HIDE DEF p, m
  <2>5. ring[c] \in Seq(Rings) /\ c \in Channels
    BY <1>4
  <2>6. /\ [ring[c] EXCEPT ![v] = [ring[c][v] EXCEPT !.slot =
                  [ring[c][v].slot EXCEPT ![p] = m]]] \in Seq(Rings)
        /\ DOMAIN [ring[c] EXCEPT ![v] = [ring[c][v] EXCEPT !.slot =
                  [ring[c][v].slot EXCEPT ![p] = m]]] = DOMAIN ring[c]
    <3> DEFINE w == [ring[c][v] EXCEPT !.slot = [ring[c][v].slot EXCEPT ![p] = m]]
    <3>1. v \in DOMAIN ring[c] => w \in Rings
      BY <2>4, <2>5
    <3>2. v \in DOMAIN ring[c] => [ring[c] EXCEPT ![v] = w] \in Seq(Rings)
                /\ DOMAIN [ring[c] EXCEPT ![v] = w] = DOMAIN ring[c]
      BY <2>5, <3>1, SeqUpdate
    <3> HIDE DEF w, v, c
    <3>3. v \notin DOMAIN ring[c] => [ring[c] EXCEPT ![v] = w] = ring[c]
      <4>1. ring[c] \in [1 .. Len(ring[c]) -> Rings]
        BY <2>5
      <4> QED BY ONLY <4>1
    <3>4. DOMAIN [ring[c] EXCEPT ![v] = w] = DOMAIN ring[c]
      OBVIOUS
    <3> QED BY <2>5, <3>2, <3>3, <3>4 DEF w, v, c
  <2>7. ring' \in [Channels -> Seq(Rings)]
          /\ \A i \in Channels : DOMAIN ring'[i] = DOMAIN ring[i]
    BY <1>4, <2>3, <2>5, <2>6
  <2>8. ChanTypes'
    BY <1>4, <2>7, <1>WriteSlot DEF WriteSlot, ChanTypes
  <2> QED BY <1>1, <1>2, <2>1, <2>8, <1>WriteSlot DEF WriteSlot
<1>PublishRt. CASE PublishRt(s)
  <2>1. SndTypes'
    BY <1>Goto, <1>PublishRt DEF PublishRt, At, SndPcs
  <2>2. ThisMsg(s) \in Msgs
    BY <1>PublishRt, ThisMsgType DEF PublishRt, At
  <2>3. (snd[s].t + 1) % CW \in 0 .. CW - 1
    <3>1. snd[s].t + 1 \in Int /\ CW \in Nat \ {0}
      OBVIOUS
    <3> HIDE SizeAssumption
    <3> QED BY <3>1, ModRange
  <2>4. ChanTypes'
    BY <1>4, <2>3, <1>PublishRt DEF PublishRt, ChanTypes
  <2> QED BY <1>1, <1>2, <2>1, <2>2, <2>4, <1>PublishRt DEF PublishRt
<1>InstallRing. CASE InstallRing(s)
  <2> DEFINE c == snd[s].c
             r == RingCopy(c, snd[s].ncap)
  <2>1. SndTypes'
    BY <1>Goto, <1>InstallRing DEF InstallRing, At, SndPcs
  <2>2. r \in Rings
    BY RingCopyType
  <2>3. ring' = [ring EXCEPT ![c] = Append(ring[c], r)]
    BY <1>InstallRing DEF InstallRing
  <2> HIDE DEF r
  <2>4. Append(ring[c], r) \in Seq(Rings)
          /\ DOMAIN ring[c] \subseteq DOMAIN Append(ring[c], r)
    <3>1. ring[c] \in Seq(Rings)
      BY <1>4
    <3> QED BY <2>2, <3>1
  <2>5. ring' \in [Channels -> Seq(Rings)]
          /\ \A i \in Channels : DOMAIN ring[i] \subseteq DOMAIN ring'[i]
    BY <1>4, <2>3, <2>4
  <2>6. ChanTypes'
    BY <1>4, <2>5, <1>InstallRing DEF InstallRing, ChanTypes
  <2> QED BY <1>1, <1>2, <2>1, <2>6, <1>InstallRing DEF InstallRing
<1>SwapRing. CASE SwapRing(s)
  <2> DEFINE c == snd[s].c
  <2>1. SndTypes'
    BY <1>Goto, <1>SwapRing DEF SwapRing, At, SndPcs
  <2>2. Len(ring[c]) \in DOMAIN ring[c]
    <3>1. ring[c] \in Seq(Rings) /\ rv[c] \in DOMAIN ring[c]
      BY <1>4
    <3> QED BY <3>1
  <2>3. \A i \in Channels : rv'[i] \in DOMAIN ring[i]
    <3>1. rv' = [rv EXCEPT ![c] = Len(ring[c])]
      BY <1>SwapRing DEF SwapRing
    <3> QED BY <1>4, <2>2, <3>1
  <2>5. rv' \in [Channels -> Nat]
    <3>1. Len(ring[c]) \in Nat
      BY <1>4
    <3> QED BY <1>4, <1>SwapRing, <3>1, FunUpdate DEF SwapRing
  <2>4. ChanTypes'
    BY <1>4, <2>3, <2>5, <1>SwapRing DEF SwapRing, ChanTypes
  <2> QED BY <1>1, <1>2, <2>1, <2>4, <1>SwapRing DEF SwapRing
<1> QED
  BY <1>ResetSlot, <1>CasSlot, <1>WriteSlot, <1>PublishRt, <1>InstallRing, <1>SwapRing

(* The owner's registers, one at a time. *)
LEMMA RcvUpdate ==
  ASSUME NEW r \in RcvRegs
  PROVE  /\ \A x \in RcvPcs : [r EXCEPT !.pc = x] \in RcvRegs
         /\ \A x \in {"any", "from", "res"} : [r EXCEPT !.kind = x] \in RcvRegs
         /\ \A x \in Senders \cup {NoKey} : [r EXCEPT !.from = x] \in RcvRegs
         /\ \A x \in 0 .. MAXSND : [r EXCEPT !.n = x] \in RcvRegs
         /\ \A x \in Channels : [r EXCEPT !.c = x] \in RcvRegs
         /\ \A x \in 0 .. CW - 1 : [r EXCEPT !.k = x] \in RcvRegs
         /\ \A x \in AnyMsg : [r EXCEPT !.m = x] \in RcvRegs
BY DEF RcvRegs

LEMMA RcvIdleType == RcvIdle \in RcvRegs
<1>1. 0 \in Channels /\ 0 \in 0 .. CW - 1 /\ 0 \in 0 .. MAXSND
  BY DEF Channels, MAXSND
<1> QED BY <1>1 DEF RcvIdle, RcvPcs, RcvRegs, AnyMsg

(* The steps of the owner. *)
LEMMA OwnerTypes ==
  ASSUME TypeOK, RecvBegin \/ OwnerStep
  PROVE  TypeOK'
<1> USE RcvIdleType
<1>1. /\ rcv \in RcvRegs /\ scan \in Channels /\ got \in Seq(AnyMsg)
      /\ status \in {"READY", "BLOCKED"}
      /\ rcv.c \in Channels /\ rcv.k \in 0 .. CW - 1 /\ rcv.n \in 0 .. MAXSND
      /\ rcv.m \in AnyMsg
  BY DEF TypeOK, RcvTypes, RcvRegs
<1>2. /\ rh \in [Channels -> 0 .. CW - 1] /\ ring \in [Channels -> Seq(Rings)]
      /\ \A i \in Channels : rv[i] \in DOMAIN ring[i]
  BY DEF TypeOK, ChanTypes
<1>3. SHIDX \in Channels /\ Recv \in Parties /\ 0 \in 0 .. MAXSND
        /\ \A i \in Dedicated : i \in Channels
        /\ MAXSND \in 0 .. MAXSND
  BY DEF Channels, Dedicated, Parties, MAXSND
<1>Cursor. Cursor \in Channels /\ \A i \in Channels : (i + 1) % MAXSND \in Channels
  <2>1. scan + rcv.n \in Int /\ MAXSND \in Nat \ {0}
          /\ \A i \in Channels : i + 1 \in Int
    BY <1>1 DEF Channels, MAXSND
  <2>2. 0 .. MAXSND - 1 = Channels
    BY DEF Channels, MAXSND
  <2> HIDE SizeAssumption
  <2> QED BY <2>1, <2>2, ModRange DEF Cursor
<1>Quiet. ASSUME UNCHANGED <<sends, lock, rh, ring>>, RcvTypes',
                 Enter(Recv) \/ Leave(Recv) \/ UNCHANGED on
          PROVE  TypeOK'
  <2>1. on' \in [Harts -> Parties \cup {Idle}]
    BY <1>3, <1>Quiet, OnTypes
  <2>2. ChanTypes' /\ SndTypes'
    BY <1>Quiet DEF TypeOK, ChanTypes, SndTypes, sends
  <2> QED BY <1>Quiet, <2>1, <2>2 DEF TypeOK, sends
<1>Regs. ASSUME rcv' \in RcvRegs, scan' \in Channels, UNCHANGED got,
                status' \in {"READY", "BLOCKED"}
         PROVE  RcvTypes'
  BY <1>1, <1>Regs DEF RcvTypes
<1>Pc. ASSUME NEW x \in RcvPcs
       PROVE  /\ [rcv EXCEPT !.pc = x] \in RcvRegs
              /\ \A n \in 0 .. MAXSND : [rcv EXCEPT !.pc = x, !.n = n] \in RcvRegs
  <2>1. [rcv EXCEPT !.pc = x] \in RcvRegs
    BY <1>1, RcvUpdate
  <2> QED BY <2>1, RcvUpdate
<1>Take. ASSUME NEW c \in Channels, NEW k \in 0 .. CW - 1, Take(c, k)
         PROVE  rcv' \in RcvRegs
  <2>1. [rcv EXCEPT !.pc = "take"] \in RcvRegs
    BY <1>Pc DEF RcvPcs
  <2>2. [rcv EXCEPT !.pc = "take", !.c = c] \in RcvRegs
    BY <2>1, RcvUpdate
  <2>3. [rcv EXCEPT !.pc = "take", !.c = c, !.k = k] \in RcvRegs
    BY <2>2, RcvUpdate
  <2> QED BY <1>Take, <2>3 DEF Take
<1>Next. ASSUME NextSlot, rcv.n < MAXSND PROVE rcv' \in RcvRegs
  <2>1. rcv.n + 1 \in 0 .. MAXSND
    BY <1>1, <1>Next DEF MAXSND
  <2> QED BY <1>1, <1>Next, <2>1, RcvUpdate DEF NextSlot
<1>RecvBegin. CASE RecvBegin
  <2>1. PICK k \in Kinds, s \in Senders :
          rcv' = [RcvIdle EXCEPT !.pc = "scan", !.kind = k,
                                 !.from = IF k = "from" THEN s ELSE NoKey]
    BY <1>RecvBegin DEF RecvBegin
  <2>2. [RcvIdle EXCEPT !.pc = "scan"] \in RcvRegs
    BY RcvUpdate DEF RcvPcs
  <2>3. [RcvIdle EXCEPT !.pc = "scan", !.kind = k] \in RcvRegs
    BY <2>2, RcvUpdate
  <2>4. rcv' \in RcvRegs
    BY <2>1, <2>3, RcvUpdate
  <2> QED BY <1>1, <1>Quiet, <1>Regs, <2>4, <1>RecvBegin DEF RecvBegin
<1>ScanAny. CASE ScanAny
  <2>1. rh[Cursor] \in 0 .. CW - 1
    BY <1>2, <1>Cursor
  <2>2. rcv' \in RcvRegs /\ scan' \in Channels
    BY <1>1, <1>Cursor, <1>Take, <1>Next, <2>1, <1>ScanAny DEF ScanAny
  <2> QED BY <1>1, <1>Quiet, <1>Regs, <2>2, <1>ScanAny DEF ScanAny
<1>ScanRes. CASE ScanRes
  <2>1. Hits(Cursor, Results) # {}
          => (rh[Cursor] + FirstHit(Cursor, Results)) % CW \in 0 .. CW - 1
    BY <1>Cursor, HitOffset
  <2>2. rcv' \in RcvRegs
    BY <1>1, <1>Cursor, <1>Take, <1>Next, <2>1, <1>ScanRes DEF ScanRes
  <2> QED BY <1>1, <1>Quiet, <1>Regs, <2>2, <1>ScanRes DEF ScanRes
<1>ScanFrom. CASE ScanFrom
  <2>1. rcv.n \in Channels /\ rcv.n < MAXSND
    BY <1>1, <1>ScanFrom DEF ScanFrom, MAXSND, Channels
  <2>2. [rcv EXCEPT !.pc = "count"] \in RcvRegs
    BY <1>3, <1>Pc DEF RcvPcs
  <2>3. [rcv EXCEPT !.pc = "count", !.c = rcv.n] \in RcvRegs
    BY <2>1, <2>2, RcvUpdate
  <2>4. rcv' \in RcvRegs
    BY <1>Next, <2>1, <2>3, <1>ScanFrom DEF ScanFrom
  <2> QED BY <1>1, <1>Quiet, <1>Regs, <2>4, <1>ScanFrom DEF ScanFrom
<1>CountFrom. CASE CountFrom
  <2>1. rh[rcv.c] \in 0 .. CW - 1
    BY <1>1, <1>2
  <2>2. [rcv EXCEPT !.pc = "scan", !.n = SHIDX] \in RcvRegs
    <3>1. SHIDX \in 0 .. MAXSND /\ "scan" \in RcvPcs
      BY DEF MAXSND, RcvPcs
    <3> QED BY <1>Pc, <3>1
  <2>3. rcv' \in RcvRegs
    BY <1>1, <1>Take, <2>1, <2>2, <1>CountFrom DEF CountFrom
  <2> QED BY <1>1, <1>Quiet, <1>Regs, <2>3, <1>CountFrom DEF CountFrom
<1>ScanShared. CASE ScanShared
  <2> DEFINE W == MsgsOf(rcv.from)
  <2>1. Hits(SHIDX, W) # {}
          => (rh[SHIDX] + FirstHit(SHIDX, W)) % CW \in 0 .. CW - 1
    BY <1>3, HitOffset
  <2>2. [rcv EXCEPT !.n = MAXSND] \in RcvRegs
    <3>1. \A n \in 0 .. MAXSND : [rcv EXCEPT !.n = n] \in RcvRegs
      BY <1>1, RcvUpdate
    <3>2. MAXSND \in 0 .. MAXSND
      BY DEF MAXSND
    <3> QED BY ONLY <3>1, <3>2, Zenon
  <2>3. \/ Take(SHIDX, (rh[SHIDX] + FirstHit(SHIDX, W)) % CW) /\ Hits(SHIDX, W) # {}
        \/ rcv' = [rcv EXCEPT !.n = MAXSND]
    BY <1>ScanShared DEF ScanShared
  <2> HIDE DEF W
  <2>4. rcv' \in RcvRegs
    BY <1>3, <1>Take, <2>1, <2>2, <2>3
  <2> QED BY <1>1, <1>Quiet, <1>Regs, <2>4, <1>ScanShared DEF ScanShared
<1>Slot. \A k \in 0 .. CW - 1 : Slot(Ring(rcv.c), k) \in AnyMsg
  BY <1>1, RingInForce, SlotRead
<1>TakeHead. CASE TakeHead
  <2> DEFINE m == Slot(Ring(rcv.c), rcv.k)
  <2>1. [rcv EXCEPT !.pc = "advance"] \in RcvRegs
    BY <1>3, <1>Pc DEF RcvPcs
  <2>2. m \in AnyMsg
    BY <1>1, <1>Slot
  <2>3. rcv' = [rcv EXCEPT !.pc = "advance", !.m = m]
    BY <1>TakeHead DEF TakeHead
  <2> HIDE DEF m
  <2>4. rcv' \in RcvRegs
    BY <2>1, <2>2, <2>3, RcvUpdate
  <2> QED BY <1>1, <1>Quiet, <1>Regs, <2>4, <1>TakeHead DEF TakeHead
<1>Advance. ASSUME rh' = [rh EXCEPT ![rcv.c] = (@ + 1) % CW],
                   NEW m \in AnyMsg, got' = Append(got, m), rcv' = RcvIdle,
                   UNCHANGED <<sends, lock, status, scan>>, Leave(Recv),
                   ring' \in [Channels -> Seq(Rings)],
                   \A i \in Channels : DOMAIN ring'[i] = DOMAIN ring[i]
            PROVE  TypeOK'
  <2>1. (rh[rcv.c] + 1) % CW \in 0 .. CW - 1
    <3>1. rh[rcv.c] + 1 \in Int /\ CW \in Nat \ {0}
      BY <1>1, <1>2
    <3> HIDE SizeAssumption
    <3> QED BY <3>1, ModRange
  <2>2. rh' \in [Channels -> 0 .. CW - 1]
    BY <1>2, <2>1, <1>Advance
  <2>3. ChanTypes'
    BY <1>2, <2>2, <1>Advance DEF TypeOK, ChanTypes, sends
  <2>4. got' \in Seq(AnyMsg)
    BY <1>1, <1>Advance
  <2>5. RcvTypes'
    BY <1>1, <2>4, <1>Advance DEF RcvTypes
  <2>6. on' \in [Harts -> Parties \cup {Idle}]
    BY <1>3, <1>Advance, OnTypes
  <2>7. SndTypes'
    BY <1>Advance DEF TypeOK, SndTypes, sends
  <2> QED BY <1>Advance, <2>3, <2>5, <2>6, <2>7 DEF TypeOK, sends
<1>AdvanceRh. CASE AdvanceRh
  BY <1>1, <1>2, <1>Advance, <1>AdvanceRh DEF AdvanceRh
<1>TakeMid. CASE TakeMid
  <2> DEFINE c == rcv.c
             r == Shifted(ring[c][rv[c]], rh[c], rcv.k)
  <2>1. c \in Channels /\ ring[c] \in Seq(Rings) /\ rv[c] \in DOMAIN ring[c]
          /\ rh[c] \in Nat /\ rcv.k \in Nat
    BY <1>1, <1>2
  <2>2. r \in Rings
    BY <2>1, ShiftedType
  <2>3. ring' = [ring EXCEPT ![c] = [ring[c] EXCEPT ![rv[c]] = r]]
    BY <1>TakeMid DEF TakeMid
  <2> HIDE DEF r
  <2>4. [ring[c] EXCEPT ![rv[c]] = r] \in Seq(Rings)
          /\ DOMAIN [ring[c] EXCEPT ![rv[c]] = r] = DOMAIN ring[c]
    BY <2>1, <2>2, SeqUpdate
  <2>5. ring' \in [Channels -> Seq(Rings)]
          /\ \A i \in Channels : DOMAIN ring'[i] = DOMAIN ring[i]
    BY <1>2, <2>1, <2>3, <2>4
  <2>6. Slot(Ring(c), rcv.k) \in AnyMsg
    BY <1>1, <1>Slot
  <2> QED BY <1>Advance, <2>5, <2>6, <1>TakeMid DEF TakeMid
<1>Again. [rcv EXCEPT !.pc = "scan", !.n = 0] \in RcvRegs
            /\ [rcv EXCEPT !.pc = "pred", !.n = 0] \in RcvRegs
            /\ [rcv EXCEPT !.pc = "parked"] \in RcvRegs
  BY <1>3, <1>Pc DEF RcvPcs
<1>BlockCas. CASE BlockCas
  BY <1>1, <1>Quiet, <1>Regs, <1>Again, <1>BlockCas DEF BlockCas
<1>Rescan. CASE Rescan
  <2>1. rcv' \in RcvRegs /\ status' \in {"READY", "BLOCKED"}
    BY <1>1, <1>Next, <1>Again, <1>Rescan DEF Rescan
  <2> QED BY <1>1, <1>Quiet, <1>Regs, <2>1, <1>Rescan DEF Rescan
<1>Park. CASE Park
  BY <1>1, <1>Quiet, <1>Regs, <1>Again, <1>Park DEF Park
<1>Unpark. CASE Unpark
  BY <1>1, <1>Quiet, <1>Regs, <1>Again, <1>Unpark DEF Unpark
<1> QED
  BY <1>RecvBegin, <1>ScanAny, <1>ScanRes, <1>ScanFrom, <1>CountFrom,
     <1>ScanShared, <1>TakeHead, <1>AdvanceRh, <1>TakeMid, <1>BlockCas,
     <1>Rescan, <1>Park, <1>Unpark DEF OwnerStep

(* The registers and the channel block always have their types: every slot *)
(* read lies inside its ring, and the ring in force is one that was        *)
(* installed.                                                              *)
THEOREM TypeCorrect == Spec => []TypeOK
<1>1. TypeOK /\ UNCHANGED vars => TypeOK'
  BY DEF TypeOK, ChanTypes, SndTypes, RcvTypes, vars
<1>2. TypeOK /\ [Next]_vars => TypeOK'
  BY <1>1, ControlTypes, RingTypes, OwnerTypes DEF Next, SenderStep
<1> QED BY InitType, <1>2, PTL DEF Spec

----------------------------------------------------------------------------
(* One writer.  As long as a sender that is killed cannot run beside another *)
(* sender (all senders share a hart, or none is ever killed), every ring has *)
(* one writer at a time.  Without that condition the code does not have the  *)
(* property (README, section 5, entry 4).                                    *)

HIDE SizeAssumption

(* The condition: a killed sender is never running while another one runs. *)
KillIsLocal ==
  \/ \A s, t \in Senders : HartOf[s] = HartOf[t]
  \/ Mortal = {}

(* The inductive invariant.  A slot's key names whoever is between its     *)
(* claim and its publication; the lock names whoever is between taking and *)
(* releasing it; and a slot is only ever stolen from the dead.             *)
SlotHeld ==
  \A s \in Senders : Claimed(s) /\ snd[s].c \in Dedicated => key[snd[s].c] = s
Locking(s) ==
  \/ snd[s].pc \in {"install", "swap"}
  \/ snd[s].pc \in {"write", "publish"} /\ Shared(s)
LockHeld == \A s \in Senders : Locking(s) => lock = s
StealsDead == \A s \in Senders : snd[s].expect = NoKey \/ snd[s].expect \in dead

WriterInv == TypeOK /\ SlotHeld /\ LockHeld /\ StealsDead

(* Two writers of one ring would both be named by its key, or by the lock. *)
LEMMA WriterInvImplies == WriterInv => OneWriter
<1> SUFFICES ASSUME WriterInv, NEW s \in Senders, NEW t \in Senders,
                    s # t, Claimed(s), Claimed(t), snd[s].c = snd[t].c
             PROVE  Shared(s) /\ ~(Writing(s) /\ Writing(t))
  BY DEF OneWriter
<1>1. snd[s].c \in Channels
  BY SndFacts DEF WriterInv
<1>2. snd[s].c \notin Dedicated
  BY DEF WriterInv, SlotHeld
<1>3. Shared(s) /\ Shared(t)
  <2>1. \A x \in Channels : x \in Dedicated \/ x = SHIDX
    BY SizeAssumption DEF Channels, Dedicated
  <2> QED BY <1>1, <1>2, <2>1 DEF Shared
<1>4. ~(Writing(s) /\ Writing(t))
  BY <1>3 DEF WriterInv, LockHeld, Locking, Writing
<1> QED BY <1>3, <1>4

LEMMA WriterInit == Init => WriterInv
<1> SUFFICES ASSUME Init PROVE WriterInv
  OBVIOUS
<1>1. TypeOK
  BY InitType
<1>2. \A s \in Senders : snd[s].pc = "idle" /\ snd[s].expect = NoKey
  BY DEF Init, SndIdle
<1> QED
  BY <1>1, <1>2 DEF WriterInv, SlotHeld, LockHeld, Locking, StealsDead, Claimed

(* A hart runs one actor: entering and leaving it makes nobody else run.   *)
LEMMA OthersRun ==
  ASSUME TypeOK, NEW a \in Parties, NEW t \in Senders, t # a,
         Enter(a) \/ Leave(a) \/ UNCHANGED on
  PROVE  Running(t)' => Running(t)
<1>1. t # Idle /\ HartOf[t] \in Harts /\ on \in [Harts -> Parties \cup {Idle}]
  BY DEF TypeOK, Parties
<1> QED BY <1>1 DEF Enter, Leave, Running

(* A step that leaves a sender's registers alone does not make it claim.   *)
LEMMA ClaimKept ==
  ASSUME NEW t \in Senders, snd'[t] = snd[t], Running(t)' => Running(t),
         dead \subseteq dead', Claimed(t)'
  PROVE  Claimed(t)
BY DEF Claimed

(* Two of the senders that are dead or running cannot both be on a hart.   *)
LEMMA DeadRunsAlone ==
  ASSUME TypeOK, KillIsLocal, NEW s \in Senders, NEW t \in Senders,
         Running(s), Running(t), t \in dead
  PROVE  s = t
BY DEF TypeOK, KillIsLocal, Running

(* What every step of a sender leaves alone. *)
LEMMA SenderFrame ==
  ASSUME TypeOK, NEW s \in Senders, SendBegin(s) \/ SenderStep(s) \/ Kill(s)
  PROVE  /\ \A t \in Senders : t # s => snd'[t] = snd[t]
         /\ dead \subseteq dead'
         /\ \A t \in Senders : t # s => (Running(t)' => Running(t))
<1>1. snd \in [Senders -> SndRegs]
  BY SndFacts
<1>2. \A t \in Senders : t # s => snd'[t] = snd[t]
  BY <1>1 DEF SenderStep, SendBegin, ScanSlot, ScanShare, ResetSlot, CasSlot,
     MsgCopy, Resume, MemDenied, PushRoom, PushFull, WriteSlot, PublishRt,
     GrowLock, InstallRing, SwapRing, WakeOwner, Kill, Goto, Refuse
<1>3. dead \subseteq dead'
  BY DEF SenderStep, SendBegin, ScanSlot, ScanShare, ResetSlot, CasSlot,
     MsgCopy, Resume, MemDenied, PushRoom, PushFull, WriteSlot, PublishRt,
     GrowLock, InstallRing, SwapRing, WakeOwner, Kill
<1>4. Enter(s) \/ Leave(s) \/ UNCHANGED on
  BY DEF SenderStep, SendBegin, ScanSlot, ScanShare, ResetSlot, CasSlot,
     MsgCopy, Resume, MemDenied, PushRoom, PushFull, WriteSlot, PublishRt,
     GrowLock, InstallRing, SwapRing, WakeOwner, Kill, Refuse
<1>5. \A t \in Senders : t # s => (Running(t)' => Running(t))
  BY <1>4, OthersRun DEF Parties
<1> QED BY <1>2, <1>3, <1>5

LEMMA OwnerFrame ==
  ASSUME TypeOK, RecvBegin \/ OwnerStep
  PROVE  /\ UNCHANGED <<snd, key, dead, lock>>
         /\ \A t \in Senders : Running(t)' => Running(t)
<1>1. UNCHANGED <<snd, key, dead, lock>>
  BY DEF OwnerStep, RecvBegin, ScanAny, ScanRes, ScanFrom, CountFrom,
     ScanShared, TakeHead, AdvanceRh, TakeMid, BlockCas, Rescan, Park, Unpark,
     sends
<1>2. Enter(Recv) \/ Leave(Recv) \/ UNCHANGED on
  BY DEF OwnerStep, RecvBegin, ScanAny, ScanRes, ScanFrom, CountFrom,
     ScanShared, TakeHead, AdvanceRh, TakeMid, BlockCas, Rescan, Park, Unpark
<1> QED BY <1>1, <1>2, OthersRun DEF Parties

(* A dedicated slot's key names its claimer in every step: chan_for's CAS  *)
(* wins only against a free slot or a dead sender's.                       *)
LEMMA SlotHeldStep ==
  ASSUME WriterInv, KillIsLocal, NEW s \in Senders,
         SendBegin(s) \/ SenderStep(s) \/ Kill(s)
  PROVE  SlotHeld'
<1> SUFFICES ASSUME NEW t \in Senders, Claimed(t)', snd'[t].c \in Dedicated
             PROVE  key'[snd'[t].c] = t
  BY DEF SlotHeld, Dedicated
<1>0. TypeOK /\ snd \in [Senders -> SndRegs] /\ key \in [Channels -> Keys]
        /\ Dedicated \subseteq Channels
  BY SndFacts DEF WriterInv, TypeOK, ChanTypes
<1>1. CASE CasSlot(s)
  <2> DEFINE f == snd[s].free
  <2>1. s \in Senders /\ Running(s) /\ f \in Dedicated
    BY <1>0, <1>1, SndFacts DEF CasSlot, At
  <2>2. CASE key[f] = snd[s].expect
    <3>1. key' = [key EXCEPT ![f] = s] /\ snd'[s].c = f
      BY <1>0, <1>1, <2>2 DEF CasSlot, SndRegs
    <3>2. CASE t = s
      BY <1>0, <2>1, <3>1, <3>2
    <3>3. CASE t # s
      <4>1. Claimed(t) /\ snd'[t] = snd[t]
        BY <1>0, <1>1, <3>3, SenderFrame, ClaimKept DEF SenderStep
      <4>2. key[snd[t].c] = t
        BY <4>1 DEF WriterInv, SlotHeld
      <4>3. CASE snd[t].c = f
        <5>1. t = snd[s].expect /\ t # NoKey
          BY <2>2, <4>2, <4>3
        <5>2. t \in dead
          BY <5>1 DEF WriterInv, StealsDead
        <5>3. Running(t)
          BY <4>1, <5>2 DEF Claimed
        <5> QED BY <1>0, <2>1, <3>3, <5>2, <5>3, DeadRunsAlone
      <4>4. CASE snd[t].c # f
        BY <1>0, <3>1, <4>1, <4>2, <4>4
      <4> QED BY <4>3, <4>4
    <3> QED BY <3>2, <3>3
  <2>3. CASE key[f] # snd[s].expect
    <3>1. key' = key /\ snd'[s].pc = "scan"
      BY <1>0, <1>1, <2>3, SndIdleType DEF CasSlot, SndRegs, SndIdle
    <3>2. t # s
      BY <3>1 DEF Claimed
    <3>3. Claimed(t) /\ snd'[t] = snd[t]
      BY <1>0, <1>1, <3>2, SenderFrame, ClaimKept DEF SenderStep
    <3> QED BY <3>1, <3>3 DEF WriterInv, SlotHeld
  <2> QED BY <2>2, <2>3
<1>2. CASE ~CasSlot(s)
  <2>1. key' = key
    BY <1>2 DEF SenderStep, SendBegin, ScanSlot, ScanShare, ResetSlot,
       MsgCopy, Resume, MemDenied, PushRoom, PushFull, WriteSlot, PublishRt,
       GrowLock, InstallRing, SwapRing, WakeOwner, Kill, chans
  <2>2. CASE t # s
    <3>1. Claimed(t) /\ snd'[t] = snd[t]
      BY <1>0, <2>2, SenderFrame, ClaimKept
    <3> QED BY <2>1, <3>1 DEF WriterInv, SlotHeld
  <2>3. CASE t = s
    <3>1. CASE ScanSlot(s)
      <4>1. snd[s].pc = "scan"
        BY <3>1 DEF ScanSlot, At
      <4>2. snd'[s].pc \in SndPcs \ {"idle", "scan", "cas", "wake"}
        BY <2>3 DEF Claimed
      <4>3. key[snd[s].i] = s /\ snd'[s].c = snd[s].i
        BY <1>0, <3>1, <4>1, <4>2 DEF ScanSlot, SndRegs
      <4> QED BY <2>1, <2>3, <4>3
    <3>2. CASE ScanShare(s)
      <4>1. snd'[s].c = SHIDX
        BY <1>0, <3>2 DEF ScanShare, SndRegs
      <4> QED BY <2>3, <4>1 DEF Dedicated
    <3>3. CASE SendBegin(s) \/ ResetSlot(s) \/ MemDenied(s) \/ WakeOwner(s) \/ Refuse(s)
      <4>1. snd'[s].pc \in {"idle", "scan", "cas"}
        BY <1>0, <3>3, SndIdleType DEF SendBegin, ResetSlot, MemDenied,
           WakeOwner, Refuse, Goto, SndIdle, SndRegs
      <4> QED BY <2>3, <4>1 DEF Claimed
    <3>4. CASE snd'[s].c = snd[s].c /\ Claimed(s)
      BY <2>1, <2>3, <3>4 DEF WriterInv, SlotHeld
    <3>5. CASE MsgCopy(s)
      <4>1. snd[s].pc = "copy" /\ snd'[s].c = snd[s].c /\ Running(s)
        BY <1>0, <3>5 DEF MsgCopy, At, Goto, SndRegs
      <4> QED BY <3>4, <4>1 DEF Claimed, SndPcs
    <3>6. CASE Resume(s)
      <4>1. snd[s].pc \in {"copied", "alloced"} /\ snd'[s].c = snd[s].c /\ s \notin dead
        BY <1>0, <3>6 DEF Resume, Goto, SndRegs
      <4> QED BY <3>4, <4>1 DEF Claimed, SndPcs
    <3>7. CASE PushRoom(s) \/ WriteSlot(s) \/ PublishRt(s) \/ GrowLock(s)
                 \/ InstallRing(s) \/ SwapRing(s)
      <4>1. snd[s].pc \in {"push", "write", "publish", "grow", "install", "swap"}
              /\ Running(s)
        BY <3>7 DEF PushRoom, WriteSlot, PublishRt, GrowLock, InstallRing,
           SwapRing, At
      <4>2. snd'[s].c = snd[s].c
        <5>1. CASE PushRoom(s)
          BY <1>0, <5>1 DEF PushRoom, SndRegs
        <5>2. CASE ~PushRoom(s)
          <6>1. \E x \in SndPcs : Goto(s, x)
            BY <3>7, <5>2 DEF WriteSlot, PublishRt, GrowLock, InstallRing,
               SwapRing, SndPcs
          <6> QED BY <1>0, <6>1 DEF Goto, SndRegs
        <5> QED BY <5>1, <5>2
      <4> QED BY <3>4, <4>1, <4>2 DEF Claimed, SndPcs
    <3>8. CASE PushFull(s)
      <4>1. CASE Refuse(s)
        BY <3>3, <4>1
      <4>2. CASE ~Refuse(s)
        <5>1. snd[s].pc = "push" /\ Running(s) /\ snd'[s].c = snd[s].c
          BY <1>0, <3>8, <4>2 DEF PushFull, At, SndRegs
        <5> QED BY <3>4, <5>1 DEF Claimed, SndPcs
      <4> QED BY <4>1, <4>2
    <3>9. CASE Kill(s)
      <4>1. snd' = snd /\ on' = on /\ dead \subseteq dead'
        BY <3>9 DEF Kill
      <4>2. Claimed(s)
        BY <2>3, <4>1 DEF Claimed, Running
      <4> QED BY <3>4, <4>1, <4>2
    <3> QED
      BY <1>2, <3>1, <3>2, <3>3, <3>5, <3>6, <3>7, <3>8, <3>9 DEF SenderStep
  <2> QED BY <2>2, <2>3
<1> QED BY <1>1, <1>2

(* The lock names its holder: ring_push and its growth release what they   *)
(* took, and take it only when it is free.                                 *)
LEMMA LockHeldStep ==
  ASSUME WriterInv, NEW s \in Senders, SendBegin(s) \/ SenderStep(s) \/ Kill(s)
  PROVE  LockHeld'
<1> SUFFICES ASSUME NEW t \in Senders, Locking(t)'
             PROVE  lock' = t
  BY DEF LockHeld
<1>0. TypeOK /\ snd \in [Senders -> SndRegs]
  BY SndFacts DEF WriterInv
<1>1. t # s => snd'[t] = snd[t] /\ lock = t
  <2>1. t # s => snd'[t] = snd[t]
    BY <1>0, SenderFrame
  <2> QED BY <2>1 DEF WriterInv, LockHeld, Locking, Shared
<1>2. t # Idle /\ s # Idle
  OBVIOUS
<1>3. CASE PushRoom(s)
  <2>1. snd'[s].pc = "write" /\ snd'[s].c = snd[s].c
    BY <1>0, <1>3 DEF PushRoom, SndRegs
  <2> QED BY <1>1, <1>2, <1>3, <2>1 DEF PushRoom, Locking, Shared
<1>4. CASE WriteSlot(s)
  <2>1. snd[s].pc = "write" /\ snd'[s].pc = "publish" /\ snd'[s].c = snd[s].c
    BY <1>0, <1>4 DEF WriteSlot, Goto, At, SndRegs
  <2>2. lock' = lock
    BY <1>4 DEF WriteSlot
  <2> QED BY <1>1, <2>1, <2>2 DEF Locking, Shared, WriterInv, LockHeld
<1>5. CASE PublishRt(s)
  <2>1. snd[s].pc = "publish" /\ snd'[s].pc = "wake"
    BY <1>0, <1>5 DEF PublishRt, Goto, At, SndRegs
  <2>2. Shared(s) => lock = s
    BY <2>1 DEF WriterInv, LockHeld, Locking
  <2> QED BY <1>1, <1>5, <2>1, <2>2 DEF PublishRt, Locking
<1>6. CASE GrowLock(s)
  <2>1. snd'[s].pc \in {"push", "install"} /\ lock = Idle
          /\ (snd'[s].pc = "install" => lock' = s)
    BY <1>0, <1>6 DEF GrowLock, Goto, SndRegs
  <2> QED BY <1>1, <1>2, <2>1 DEF Locking
<1>7. CASE InstallRing(s)
  <2>1. snd[s].pc = "install" /\ snd'[s].pc = "swap" /\ lock' = lock
    BY <1>0, <1>7 DEF InstallRing, Goto, At, SndRegs
  <2> QED BY <1>1, <2>1 DEF Locking, WriterInv, LockHeld
<1>8. CASE SwapRing(s)
  <2>1. snd[s].pc = "swap" /\ snd'[s].pc = "push"
    BY <1>0, <1>8 DEF SwapRing, Goto, At, SndRegs
  <2>2. lock = s
    BY <2>1 DEF WriterInv, LockHeld, Locking
  <2> QED BY <1>1, <2>1, <2>2 DEF Locking
<1>9. CASE SendBegin(s) \/ ScanSlot(s) \/ ScanShare(s) \/ ResetSlot(s)
             \/ CasSlot(s) \/ MsgCopy(s) \/ Resume(s) \/ MemDenied(s)
             \/ PushFull(s) \/ WakeOwner(s)
  <2>1. snd'[s].pc \in {"idle", "scan", "cas", "copy", "copied", "push",
                        "grow", "alloced"}
    <3>1. CASE SendBegin(s) \/ CasSlot(s) \/ MemDenied(s) \/ WakeOwner(s)
                 \/ PushFull(s)
      BY <1>0, <3>1, SndIdleType DEF SendBegin, CasSlot, MemDenied, WakeOwner,
         PushFull, Refuse, SndIdle, SndRegs
    <3>2. CASE ScanSlot(s)
      <4>1. snd[s].pc = "scan"
        BY <3>2 DEF ScanSlot, At
      <4> QED BY <1>0, <3>2, <4>1 DEF ScanSlot, SndRegs
    <3>3. CASE ScanShare(s) \/ ResetSlot(s) \/ MsgCopy(s) \/ Resume(s)
      BY <1>0, <3>3 DEF ScanShare, ResetSlot, MsgCopy, Resume, Goto, SndRegs
    <3> QED BY <1>9, <3>1, <3>2, <3>3
  <2>2. lock' = lock
    BY <1>9 DEF SendBegin, ScanSlot, ScanShare, ResetSlot, CasSlot, MsgCopy,
       Resume, MemDenied, PushFull, WakeOwner
  <2> QED BY <1>1, <2>1, <2>2 DEF Locking
<1>10. CASE Kill(s)
  <2>1. snd' = snd /\ lock' = lock
    BY <1>10 DEF Kill
  <2> QED BY <2>1 DEF Locking, Shared, WriterInv, LockHeld
<1> QED
  BY <1>3, <1>4, <1>5, <1>6, <1>7, <1>8, <1>9, <1>10 DEF SenderStep

(* What chan_for expects to replace is a free slot or a dead sender.       *)
LEMMA StealsDeadStep ==
  ASSUME WriterInv, NEW s \in Senders, SendBegin(s) \/ SenderStep(s) \/ Kill(s)
  PROVE  StealsDead'
<1> SUFFICES ASSUME NEW t \in Senders
             PROVE  snd'[t].expect = NoKey \/ snd'[t].expect \in dead'
  BY DEF StealsDead
<1>0. TypeOK /\ snd \in [Senders -> SndRegs] /\ dead \subseteq dead'
  BY SndFacts, SenderFrame DEF WriterInv
<1>1. snd[t].expect = NoKey \/ snd[t].expect \in dead
  BY DEF WriterInv, StealsDead
<1>2. CASE t # s
  BY <1>0, <1>1, <1>2, SenderFrame
<1>3. CASE t = s
  <2>1. CASE ScanSlot(s)
    <3>1. snd'[s].expect \in {snd[s].expect, key[snd[s].i]}
            /\ (snd'[s].expect # snd[s].expect => Claimable(snd[s].i)
                 /\ snd'[s].expect = key[snd[s].i])
      BY <1>0, <2>1 DEF ScanSlot, SndRegs
    <3> QED BY <1>0, <1>1, <1>3, <3>1 DEF Claimable
  <2>2. CASE ~ScanSlot(s)
    <3>1. snd'[s].expect \in {snd[s].expect, NoKey}
      <4>1. CASE ScanShare(s) \/ PushRoom(s)
        BY <1>0, <4>1 DEF ScanShare, PushRoom, SndRegs
      <4>2. CASE SendBegin(s) \/ CasSlot(s)
        BY <1>0, <4>2 DEF SendBegin, CasSlot, SndIdle, SndRegs
      <4>3. ASSUME Refuse(s) PROVE snd'[s].expect = NoKey
        BY <1>0, <4>3 DEF Refuse, SndIdle
      <4>4. CASE MemDenied(s) \/ WakeOwner(s)
        BY <1>0, <4>3, <4>4 DEF MemDenied, WakeOwner, SndIdle
      <4>5. CASE PushFull(s)
        BY <1>0, <4>3, <4>5 DEF PushFull, SndRegs
      <4>6. CASE Kill(s)
        BY <4>6 DEF Kill
      <4>7. ASSUME NEW x, Goto(s, x) PROVE snd'[s].expect = snd[s].expect
        BY <1>0, <4>7 DEF Goto, SndRegs
      <4>8. CASE ResetSlot(s) \/ MsgCopy(s) \/ Resume(s) \/ WriteSlot(s)
                   \/ PublishRt(s) \/ GrowLock(s) \/ InstallRing(s) \/ SwapRing(s)
        BY <4>7, <4>8 DEF ResetSlot, MsgCopy, Resume, WriteSlot, PublishRt,
           GrowLock, InstallRing, SwapRing
      <4> QED BY <2>2, <4>1, <4>2, <4>4, <4>5, <4>6, <4>8 DEF SenderStep
    <3> QED BY <1>0, <1>1, <1>3, <3>1
  <2> QED BY <2>1, <2>2
<1> QED BY <1>2, <1>3

(* Type correctness, step by step, for the invariants below. *)
LEMMA TypeStep ==
  ASSUME TypeOK, Next
  PROVE  TypeOK'
BY ControlTypes, RingTypes, OwnerTypes DEF Next, SenderStep

(* What a sender's step leaves of the single-writer invariant, and what    *)
(* the owner's leaves of it.                                               *)
LEMMA WriterStep ==
  ASSUME KillIsLocal, WriterInv, [Next]_vars
  PROVE  WriterInv'
<1>1. TypeOK'
  <2>1. UNCHANGED vars => TypeOK'
    BY DEF WriterInv, TypeOK, ChanTypes, SndTypes, RcvTypes, vars
  <2> QED BY <2>1, TypeStep DEF WriterInv
<1>2. CASE \E s \in Senders : SendBegin(s) \/ SenderStep(s) \/ Kill(s)
  BY <1>1, <1>2, SlotHeldStep, LockHeldStep, StealsDeadStep DEF WriterInv
<1>3. CASE RecvBegin \/ OwnerStep
  <2>1. UNCHANGED <<snd, key, dead, lock>>
          /\ \A t \in Senders : Running(t)' => Running(t)
    BY <1>3, OwnerFrame DEF WriterInv
  <2>2. SlotHeld'
    BY <2>1, ClaimKept DEF WriterInv, SlotHeld
  <2>3. LockHeld' /\ StealsDead'
    BY <2>1 DEF WriterInv, LockHeld, Locking, Shared, StealsDead
  <2> QED BY <1>1, <2>2, <2>3 DEF WriterInv
<1>4. CASE UNCHANGED vars
  BY <1>1, <1>4 DEF vars, WriterInv, SlotHeld, LockHeld, Locking,
     Shared, StealsDead, Claimed, Running
<1> QED BY <1>2, <1>3, <1>4 DEF Next

(* Every ring has one writer, whatever the interleaving of the senders with*)
(* each other and with the owner.                                          *)
THEOREM RingsHaveOneWriter == KillIsLocal => (Spec => []OneWriter)
<1> SUFFICES ASSUME KillIsLocal PROVE Spec => []OneWriter
  OBVIOUS
<1>1. WriterInv /\ [Next]_vars => WriterInv'
  BY WriterStep
<1> QED BY WriterInit, WriterInvImplies, <1>1, PTL DEF Spec

----------------------------------------------------------------------------
(* Arithmetic of the counters, which run modulo CW and are reduced modulo  *)
(* a capacity.                                                             *)

(* Euclidean division, and its uniqueness.                                 *)
LEMMA DivMod ==
  ASSUME NEW a \in Int, NEW n \in Nat \ {0}
  PROVE a \div n \in Int /\ a % n \in 0 .. n-1 /\ a = n * (a \div n) + (a % n)
BY ONLY a \in Int, n \in Nat \ {0}

(* ... and no other remainder.                                             *)
LEMMA DivModU ==
  ASSUME NEW n \in Nat \ {0}, NEW q \in Int, NEW r \in 0 .. n-1
  PROVE (n * q + r) % n = r
BY ONLY q \in Int, n \in Nat \ {0}, r \in 0 .. n-1

(* A multiple of the modulus does not change the remainder.                *)
LEMMA ModShift ==
  ASSUME NEW n \in Nat \ {0}, NEW q \in Int, NEW a \in Int
  PROVE (n * q + a) % n = a % n
<1>1. PICK p \in Int, r \in 0 .. n - 1 : a = n * p + r /\ a % n = r
  BY DivMod
<1>2. n * q + a = n * (q + p) + r
  BY <1>1
<1>3. (n * (q + p) + r) % n = r
  BY <1>1, DivModU
<1> QED BY <1>1, <1>2, <1>3

(* A divisor of the modulus sees the same remainder.                       *)
LEMMA ModMod ==
  ASSUME NEW a \in Int, NEW m \in Nat \ {0}, NEW n \in Nat \ {0}, m % n = 0
  PROVE (a % m) % n = a % n
<1>1. PICK p \in Int, r \in 0 .. m - 1 : a = m * p + r /\ a % m = r
  BY DivMod
<1>2. PICK q \in Int : m = n * q
  <2>1. m \in Int /\ m \div n \in Int /\ m = n * (m \div n) + (m % n)
    BY DivMod
  <2>2. m = n * (m \div n)
    BY <2>1
  <2> QED BY <2>1, <2>2
<1>3. n * (q * p) + r = a
  BY <1>1, <1>2
<1>4. (n * (q * p) + r) % n = r % n
  <2>1. q * p \in Int /\ r \in Int
    BY <1>1, <1>2
  <2> QED BY ONLY <2>1, ModShift, n \in Nat \ {0}
<1> QED BY <1>1, <1>3, <1>4

(* Numbers less than the modulus apart have different remainders.          *)
LEMMA ModApart ==
  ASSUME NEW a \in Int, NEW b \in Int, NEW n \in Nat \ {0}, a < b, b < a + n
  PROVE a % n # b % n
<1> SUFFICES ASSUME a % n = b % n PROVE FALSE
  OBVIOUS
<1>1. PICK p \in Int, r \in 0 .. n - 1 : a = n * p + r /\ a % n = r
  BY DivMod
<1>2. PICK q \in Int, s \in 0 .. n - 1 : b = n * q + s /\ b % n = s
  BY DivMod
<1>3. b - a = n * (q - p)
  BY <1>1, <1>2
<1>4. CASE q - p <= 0
  <2>1. n * (q - p) <= 0
    BY <1>4
  <2> QED BY <2>1, <1>3
<1>5. CASE q - p >= 1
  <2>1. n * (q - p) >= n
    BY <1>5
  <2> QED BY <2>1, <1>3
<1> QED BY <1>4, <1>5

(* The remainder may be taken before an addition.                          *)
LEMMA ModPlus ==
  ASSUME NEW a \in Int, NEW b \in Int, NEW n \in Nat \ {0}
  PROVE ((a % n) + b) % n = (a + b) % n
<1>1. PICK p \in Int, r \in 0 .. n - 1 : a = n * p + r /\ a % n = r
  BY DivMod
<1>2. n * p + (r + b) = a + b
  BY <1>1
<1>3. (n * p + (r + b)) % n = (r + b) % n
  <2>1. r + b \in Int
    BY <1>1
  <2> QED BY <2>1, <1>1, ModShift
<1> QED BY <1>1, <1>2, <1>3
----------------------------------------------------------------------------
(* No lost wakeup.                                                         *)

(* What every step of a sender does to its registers. *)
LEMMA Moves ==
  ASSUME TypeOK, NEW s \in Senders
  PROVE
  /\ SendBegin(s) => snd'[s].pc = "scan" /\ snd'[s].free = NoSlot
  /\ ScanSlot(s) => /\ snd[s].pc = "scan" /\ snd'[s].pc \in {"scan", "copy"}
                    /\ snd'[s].pc = "copy" => /\ snd'[s].c = snd[s].i
                                              /\ key[snd[s].i] = s
                    /\ \/ snd'[s].free = snd[s].free /\ snd'[s].expect = snd[s].expect
                       \/ /\ snd[s].i \in Dedicated /\ Claimable(snd[s].i)
                          /\ snd'[s].free = snd[s].i /\ snd'[s].expect = key[snd[s].i]
  /\ ScanShare(s) => snd[s].pc = "scan" /\ snd'[s].pc = "copy" /\ snd'[s].c = SHIDX
  /\ ResetSlot(s) => /\ snd[s].pc = "scan" /\ snd'[s].pc = "cas" /\ snd[s].free \in Dedicated
                     /\ snd'[s].free = snd[s].free /\ snd'[s].expect = snd[s].expect
  /\ CasSlot(s) => /\ snd[s].pc = "cas" /\ snd[s].free \in Dedicated
                   /\ IF key[snd[s].free] = snd[s].expect
                      THEN snd'[s].pc = "copy" /\ snd'[s].c = snd[s].free
                      ELSE snd'[s].pc = "scan" /\ snd'[s].free = NoSlot
  /\ MsgCopy(s) => snd[s].pc = "copy" /\ snd'[s].pc = "copied" /\ snd'[s].c = snd[s].c
  /\ Resume(s) => /\ \/ snd[s].pc = "copied" /\ snd'[s].pc = "push"
                     \/ snd[s].pc = "alloced" /\ snd'[s].pc = "grow"
                  /\ snd'[s].c = snd[s].c /\ snd'[s].ncap = snd[s].ncap
  /\ MemDenied(s) => snd'[s].pc = "idle"
  /\ PushRoom(s) => /\ snd[s].pc = "push" /\ snd'[s].pc = "write" /\ snd'[s].c = snd[s].c
                    /\ snd'[s].t = rt[snd[s].c] /\ snd'[s].v = rv[snd[s].c]
  /\ PushFull(s) => /\ snd[s].pc = "push"
                    /\ \/ snd'[s].pc = "idle"
                       \/ /\ snd'[s].pc = "alloced" /\ snd'[s].c = snd[s].c
                          /\ CanGrow(snd[s].c) /\ snd'[s].ncap = 2 * Ring(snd[s].c).cap
  /\ WriteSlot(s) => /\ snd[s].pc = "write" /\ snd'[s].pc = "publish"
                     /\ snd'[s].c = snd[s].c /\ snd'[s].t = snd[s].t /\ snd'[s].v = snd[s].v
  /\ PublishRt(s) => snd[s].pc = "publish" /\ snd'[s].pc = "wake"
  /\ GrowLock(s) => /\ snd[s].pc = "grow" /\ snd'[s].c = snd[s].c
                    /\ snd'[s].ncap = snd[s].ncap
                    /\ \/ snd'[s].pc = "push"
                       \/ snd'[s].pc = "install" /\ ~(Ring(snd[s].c).cap >= snd[s].ncap)
  /\ InstallRing(s) => snd[s].pc = "install" /\ snd'[s].pc = "swap" /\ snd'[s].c = snd[s].c
  /\ SwapRing(s) => snd[s].pc = "swap" /\ snd'[s].pc = "push" /\ snd'[s].c = snd[s].c
  /\ WakeOwner(s) => snd[s].pc = "wake" /\ snd'[s].pc = "idle"
  /\ Kill(s) => snd' = snd
<1>0. snd \in [Senders -> SndRegs] /\ snd[s] \in SndRegs
  BY SndFacts
<1>1. ASSUME NEW x, Goto(s, x)
      PROVE  /\ snd'[s].pc = x /\ snd'[s].c = snd[s].c /\ snd'[s].ncap = snd[s].ncap
             /\ snd'[s].t = snd[s].t /\ snd'[s].v = snd[s].v
             /\ snd'[s].free = snd[s].free /\ snd'[s].expect = snd[s].expect
  BY <1>0, <1>1 DEF Goto, SndRegs
<1>2. ASSUME Refuse(s) PROVE snd'[s].pc = "idle"
  BY <1>0, <1>2 DEF Refuse, SndIdle
<1>3. SendBegin(s) => snd'[s].pc = "scan" /\ snd'[s].free = NoSlot
  BY <1>0 DEF SendBegin, SndIdle
<1>4. ASSUME ScanSlot(s)
      PROVE  /\ snd[s].pc = "scan" /\ snd'[s].pc \in {"scan", "copy"}
             /\ snd'[s].pc = "copy" => snd'[s].c = snd[s].i /\ key[snd[s].i] = s
             /\ \/ snd'[s].free = snd[s].free /\ snd'[s].expect = snd[s].expect
                \/ /\ snd[s].i \in Dedicated /\ Claimable(snd[s].i)
                   /\ snd'[s].free = snd[s].i /\ snd'[s].expect = key[snd[s].i]
  <2>1. snd[s].pc = "scan" /\ snd[s].i \in Dedicated
    BY <1>0, <1>4, SizeAssumption DEF ScanSlot, At, SndRegs, Channels, Dedicated
  <2> QED BY <1>0, <1>4, <2>1 DEF ScanSlot, SndRegs
<1>5. ScanShare(s) => snd[s].pc = "scan" /\ snd'[s].pc = "copy" /\ snd'[s].c = SHIDX
  BY <1>0 DEF ScanShare, At, SndRegs
<1>6. ASSUME ResetSlot(s)
      PROVE  /\ snd[s].pc = "scan" /\ snd'[s].pc = "cas" /\ snd[s].free \in Dedicated
             /\ snd'[s].free = snd[s].free /\ snd'[s].expect = snd[s].expect
  BY <1>0, <1>1, <1>6 DEF ResetSlot, At, SndRegs
<1>7. ASSUME CasSlot(s)
      PROVE  /\ snd[s].pc = "cas" /\ snd[s].free \in Dedicated
             /\ IF key[snd[s].free] = snd[s].expect
                THEN snd'[s].pc = "copy" /\ snd'[s].c = snd[s].free
                ELSE snd'[s].pc = "scan" /\ snd'[s].free = NoSlot
  <2>1. snd[s].pc = "cas" /\ snd[s].free \in Dedicated
    BY <1>0, <1>7 DEF CasSlot, At, SndRegs, TypeOK, SndTypes
  <2> QED BY <1>0, <1>7, <2>1 DEF CasSlot, SndRegs, SndIdle
<1>8. MsgCopy(s) => snd[s].pc = "copy" /\ snd'[s].pc = "copied" /\ snd'[s].c = snd[s].c
  BY <1>1 DEF MsgCopy, At
<1>9. ASSUME Resume(s)
      PROVE  /\ \/ snd[s].pc = "copied" /\ snd'[s].pc = "push"
                \/ snd[s].pc = "alloced" /\ snd'[s].pc = "grow"
             /\ snd'[s].c = snd[s].c /\ snd'[s].ncap = snd[s].ncap
  <2>1. CASE snd[s].pc = "copied"
    BY <1>0, <1>9, <2>1 DEF Resume, Goto, SndRegs
  <2>2. CASE snd[s].pc = "alloced"
    BY <1>0, <1>9, <2>2 DEF Resume, Goto, SndRegs
  <2> QED BY <1>9, <2>1, <2>2 DEF Resume
<1>10. MemDenied(s) => snd'[s].pc = "idle"
  BY <1>2 DEF MemDenied
<1>11. PushRoom(s) => /\ snd[s].pc = "push" /\ snd'[s].pc = "write" /\ snd'[s].c = snd[s].c
                      /\ snd'[s].t = rt[snd[s].c] /\ snd'[s].v = rv[snd[s].c]
  BY <1>0 DEF PushRoom, At, SndRegs
<1>12. ASSUME PushFull(s)
       PROVE  /\ snd[s].pc = "push"
              /\ \/ snd'[s].pc = "idle"
                 \/ /\ snd'[s].pc = "alloced" /\ snd'[s].c = snd[s].c
                    /\ CanGrow(snd[s].c) /\ snd'[s].ncap = 2 * Ring(snd[s].c).cap
  <2>1. snd[s].pc = "push"
    BY <1>12 DEF PushFull, At
  <2>2. CASE CanGrow(snd[s].c)
    BY <1>0, <1>12, <2>1, <2>2 DEF PushFull, SndRegs
  <2>3. CASE ~CanGrow(snd[s].c)
    BY <1>2, <1>12, <2>1, <2>3 DEF PushFull
  <2> QED BY <2>2, <2>3
<1>13. WriteSlot(s) => /\ snd[s].pc = "write" /\ snd'[s].pc = "publish"
                       /\ snd'[s].c = snd[s].c /\ snd'[s].t = snd[s].t /\ snd'[s].v = snd[s].v
  BY <1>1 DEF WriteSlot, At
<1>14. PublishRt(s) => snd[s].pc = "publish" /\ snd'[s].pc = "wake"
  BY <1>1 DEF PublishRt, At
<1>15. ASSUME GrowLock(s)
       PROVE  /\ snd[s].pc = "grow" /\ snd'[s].c = snd[s].c
              /\ snd'[s].ncap = snd[s].ncap
              /\ \/ snd'[s].pc = "push"
                 \/ snd'[s].pc = "install" /\ ~(Ring(snd[s].c).cap >= snd[s].ncap)
  BY <1>1, <1>15 DEF GrowLock, At
<1>16. InstallRing(s) => snd[s].pc = "install" /\ snd'[s].pc = "swap" /\ snd'[s].c = snd[s].c
  BY <1>1 DEF InstallRing, At
<1>17. SwapRing(s) => snd[s].pc = "swap" /\ snd'[s].pc = "push" /\ snd'[s].c = snd[s].c
  BY <1>1 DEF SwapRing, At
<1>18. ASSUME WakeOwner(s) PROVE snd[s].pc = "wake" /\ snd'[s].pc = "idle"
  BY <1>0, <1>18 DEF WakeOwner, At, SndIdle
<1>19. Kill(s) => snd' = snd
  BY DEF Kill
<1> QED
  BY <1>3, <1>4, <1>5, <1>6, <1>7, <1>8, <1>9, <1>10, <1>11, <1>12, <1>13, <1>14, <1>15,
     <1>16, <1>17, <1>18, <1>19

(* The steps that touch the rings are the six that the code has: the reset *)
(* and the claim of a slot, the store into it, of rt, of the grown ring.   *)
LEMMA SenderTouches ==
  ASSUME NEW s \in Senders, SendBegin(s) \/ SenderStep(s) \/ Kill(s)
  PROVE  /\ UNCHANGED rcv
         /\ UNCHANGED status \/ WakeOwner(s)
         /\ UNCHANGED key \/ CasSlot(s)
         /\ UNCHANGED <<rh, rt>> \/ ResetSlot(s) \/ PublishRt(s)
         /\ UNCHANGED rh \/ ResetSlot(s)
         /\ UNCHANGED ring \/ WriteSlot(s) \/ InstallRing(s)
         /\ UNCHANGED rv \/ SwapRing(s)
<1>1. CASE ResetSlot(s) \/ CasSlot(s) \/ WriteSlot(s) \/ PublishRt(s) \/ InstallRing(s)
             \/ SwapRing(s) \/ WakeOwner(s)
  BY <1>1 DEF ResetSlot, CasSlot, WriteSlot, PublishRt, InstallRing, SwapRing, WakeOwner,
     owner, chans
<1>2. CASE SendBegin(s) \/ ScanSlot(s) \/ ScanShare(s) \/ MsgCopy(s) \/ Resume(s)
             \/ MemDenied(s) \/ PushRoom(s) \/ PushFull(s) \/ GrowLock(s) \/ Kill(s)
  BY <1>2 DEF SendBegin, ScanSlot, ScanShare, MsgCopy, Resume, MemDenied, PushRoom, PushFull,
     GrowLock, Kill, owner, chans
<1> QED BY <1>1, <1>2 DEF SenderStep

(* Of the channel block the owner's steps write rh, and take_at a slot.    *)
LEMMA OwnerTouches ==
  ASSUME RecvBegin \/ OwnerStep
  PROVE  /\ UNCHANGED <<key, rt, rv, snd, dead>>
         /\ UNCHANGED rh \/ AdvanceRh \/ TakeMid
         /\ UNCHANGED ring \/ TakeMid
BY DEF OwnerStep, RecvBegin, ScanAny, ScanRes, ScanFrom, CountFrom, ScanShared, TakeHead,
   AdvanceRh, TakeMid, BlockCas, Rescan, Park, Unpark, sends

(* Who runs goes on running until it leaves its hart itself.               *)
LEMMA StillRuns ==
  ASSUME TypeOK, NEW a \in Parties, NEW t \in Senders, t # a,
         Enter(a) \/ (Leave(a) /\ (Running(a) \/ HartFree(a))) \/ UNCHANGED on,
         Running(t)
  PROVE  Running(t)'
<1>1. t # Idle /\ HartOf[t] \in Harts /\ HartOf[a] \in Harts
        /\ on \in [Harts -> Parties \cup {Idle}]
  BY DEF TypeOK, Parties
<1>2. CASE HartOf[a] = HartOf[t]
  BY <1>1, <1>2 DEF Enter, Leave, Running, HartFree
<1>3. CASE HartOf[a] # HartOf[t]
  BY <1>1, <1>3 DEF Enter, Leave, Running
<1> QED BY <1>2, <1>3

(* A step of one sender takes no other off its hart,                       *)
LEMMA OthersStay ==
  ASSUME TypeOK, NEW s \in Senders, SendBegin(s) \/ SenderStep(s) \/ Kill(s),
         NEW t \in Senders, t # s, Running(t)
  PROVE  Running(t)'
<1>1. Enter(s) \/ (Leave(s) /\ (Running(s) \/ HartFree(s))) \/ UNCHANGED on
  BY DEF SenderStep, SendBegin, ScanSlot, ScanShare, ResetSlot, CasSlot,
     MsgCopy, Resume, MemDenied, PushRoom, PushFull, WriteSlot, PublishRt,
     GrowLock, InstallRing, SwapRing, WakeOwner, Kill, Refuse, At
<1> QED BY <1>1, StillRuns DEF Parties

(* and neither does a step of the owner.                                   *)
LEMMA SendersStay ==
  ASSUME TypeOK, RecvBegin \/ OwnerStep, NEW t \in Senders, Running(t)
  PROVE  Running(t)'
<1>1. Enter(Recv) \/ (Leave(Recv) /\ (Running(Recv) \/ HartFree(Recv))) \/ UNCHANGED on
  BY DEF OwnerStep, RecvBegin, ScanAny, ScanRes, ScanFrom, CountFrom,
     ScanShared, TakeHead, AdvanceRh, TakeMid, BlockCas, Rescan, Park, Unpark, RAt
<1> QED BY <1>1, StillRuns DEF Parties

(* A sender is on its hart except where the memory actor may let it wait.  *)
Onstage == SndPcs \ {"idle", "copied", "alloced"}
OnHart == \A s \in Senders : snd[s].pc \in Onstage => Running(s)

(* Leaving the hart is the last thing a step does.                         *)
LEMMA OnHartStep ==
  ASSUME TypeOK, OnHart, Next
  PROVE  OnHart'
<1> SUFFICES ASSUME NEW t \in Senders, snd'[t].pc \in Onstage PROVE Running(t)'
  BY DEF OnHart, Onstage, SndPcs
<1>1. ASSUME NEW s \in Senders, SendBegin(s) \/ SenderStep(s) \/ Kill(s) PROVE Running(t)'
  <2>1. CASE t # s
    <3>1. snd'[t] = snd[t]
      BY <1>1, <2>1, SenderFrame
    <3> QED BY <1>1, <2>1, <3>1, OthersStay DEF OnHart
  <2>2. CASE t = s
    <3>1. CASE SendBegin(s) \/ Resume(s)
      <4>1. HartOf[s] \in Harts /\ on \in [Harts -> Parties \cup {Idle}]
        BY DEF TypeOK, Parties
      <4> QED BY <2>2, <3>1, <4>1 DEF SendBegin, Resume, Enter, Running
    <3>2. CASE MsgCopy(s) \/ MemDenied(s) \/ PushFull(s) \/ WakeOwner(s)
      BY <2>2, <3>2, Moves DEF Onstage
    <3>3. CASE Kill(s)
      BY <2>2, <3>3 DEF Kill, OnHart, Running
    <3>4. CASE ScanSlot(s) \/ ScanShare(s) \/ ResetSlot(s) \/ CasSlot(s) \/ PushRoom(s)
                 \/ WriteSlot(s) \/ PublishRt(s) \/ GrowLock(s) \/ InstallRing(s) \/ SwapRing(s)
      <4>1. Running(s) /\ UNCHANGED on
        BY <3>4 DEF ScanSlot, ScanShare, ResetSlot, CasSlot, PushRoom,
           WriteSlot, PublishRt, GrowLock, InstallRing, SwapRing, At
      <4> QED BY <2>2, <4>1 DEF Running
    <3> QED BY <1>1, <3>1, <3>2, <3>3, <3>4 DEF SenderStep
  <2> QED BY <2>1, <2>2
<1>2. CASE RecvBegin \/ OwnerStep
  BY <1>2, OwnerTouches, SendersStay DEF OnHart
<1> QED BY <1>1, <1>2 DEF Next

(* The dedicated slots and the shared ring.                                *)
LEMMA ChannelSets ==
  /\ Dedicated \subseteq Channels /\ SHIDX \in Channels \ Dedicated
  /\ Channels = Dedicated \cup {SHIDX}
BY SizeAssumption DEF Dedicated, Channels

(* A slot without a key is empty, and whoever works on a channel works on  *)
(* one that has a key.                                                     *)
Fresh == \A i \in Dedicated : key[i] = NoKey => rh[i] = rt[i]
Named ==
  /\ key[SHIDX] # NoKey
  /\ \A s \in Senders :
       snd[s].pc \notin {"idle", "scan", "cas", "wake"} => key[snd[s].c] # NoKey
Asked ==
  /\ rcv.kind \in Kinds \cup {"any"}
  /\ rcv.kind = "from" => rcv.from \in Senders
  /\ rcv.pc \in {"count", "take", "advance"} => key[rcv.c] # NoKey
  /\ rcv.pc = "parked" => rcv.n = MAXSND
KeyInv == TypeOK /\ OnHart /\ Fresh /\ Named /\ Asked

(* A key is never taken off a slot, only replaced. *)
LEMMA KeysStay ==
  ASSUME TypeOK, Next, NEW i \in Channels, key[i] # NoKey
  PROVE  key'[i] # NoKey
<1>1. ASSUME NEW s \in Senders, SendBegin(s) \/ SenderStep(s) \/ Kill(s) PROVE key'[i] # NoKey
  <2>1. key \in [Channels -> Keys]
    BY DEF TypeOK, ChanTypes
  <2>2. CASE CasSlot(s)
    BY <2>1, <2>2 DEF CasSlot
  <2> QED BY <1>1, <2>2, SenderTouches
<1>2. CASE RecvBegin \/ OwnerStep
  BY <1>2, OwnerTouches
<1> QED BY <1>1, <1>2 DEF Next

(* A slot gets messages only once it has a key.                            *)
LEMMA FreshStep ==
  ASSUME KeyInv, Next
  PROVE  Fresh'
<1> SUFFICES ASSUME NEW i \in Dedicated, key'[i] = NoKey PROVE rh'[i] = rt'[i]
  BY DEF Fresh, Dedicated
<1>0. TypeOK /\ Dedicated \subseteq Channels /\ rh \in [Channels -> 0 .. CW - 1]
        /\ rt \in [Channels -> 0 .. CW - 1]
  BY ChannelSets DEF KeyInv, TypeOK, ChanTypes
<1>1. i \in Channels /\ key[i] = NoKey /\ rh[i] = rt[i]
  BY <1>0, KeysStay DEF KeyInv, Fresh
<1>2. ASSUME NEW s \in Senders, SendBegin(s) \/ SenderStep(s) \/ Kill(s)
      PROVE  rh'[i] = rt'[i]
  <2>1. CASE ResetSlot(s)
    BY <1>0, <1>1, <2>1 DEF ResetSlot
  <2>2. CASE PublishRt(s)
    <3>1. key[snd[s].c] # NoKey
      BY <2>2 DEF PublishRt, At, KeyInv, Named
    <3> QED BY <1>0, <1>1, <2>2, <3>1 DEF PublishRt
  <2> QED BY <1>1, <1>2, <2>1, <2>2, SenderTouches
<1>3. CASE RecvBegin \/ OwnerStep
  <2>1. CASE AdvanceRh \/ TakeMid
    <3>1. key[rcv.c] # NoKey
      BY <2>1 DEF AdvanceRh, TakeMid, RAt, KeyInv, Asked
    <3> QED BY <1>0, <1>1, <2>1, <3>1 DEF AdvanceRh, TakeMid, sends
  <2> QED BY <1>1, <1>3, <2>1, OwnerTouches
<1> QED BY <1>2, <1>3 DEF Next

(* Senders work on slots they claimed, found, or share.                    *)
LEMMA NamedStep ==
  ASSUME KeyInv, Next
  PROVE  Named'
<1>0. TypeOK /\ key \in [Channels -> Keys] /\ SHIDX \in Channels /\ Dedicated \subseteq Channels
  BY ChannelSets DEF KeyInv, TypeOK, ChanTypes
<1>1. key'[SHIDX] # NoKey
  BY <1>0, KeysStay DEF KeyInv, Named
<1>2. ASSUME NEW t \in Senders, snd'[t].pc \notin {"idle", "scan", "cas", "wake"}
      PROVE  key'[snd'[t].c] # NoKey
  <2>1. CASE snd'[t].c = snd[t].c /\ snd[t].pc \notin {"idle", "scan", "cas", "wake"}
    <3>1. snd[t].c \in Channels /\ key[snd[t].c] # NoKey
      BY <1>0, <2>1, SndFacts DEF KeyInv, Named
    <3> QED BY <1>0, <2>1, <3>1, KeysStay
  <2>2. ASSUME NEW s \in Senders, SendBegin(s) \/ SenderStep(s) \/ Kill(s)
        PROVE  key'[snd'[t].c] # NoKey
    <3>1. CASE t # s
      BY <1>0, <1>2, <2>1, <2>2, <3>1, SenderFrame
    <3>2. CASE t = s
      <4>1. CASE ScanSlot(s)
        <5>1. snd[s].i \in Channels
          BY <1>0, SndFacts
        <5>2. snd'[s].c = snd[s].i /\ key[snd[s].i] = s
          BY <1>0, <1>2, <3>2, <4>1, Moves
        <5> QED BY <1>0, <3>2, <5>1, <5>2, KeysStay
      <4>2. CASE ScanShare(s)
        BY <1>0, <1>1, <3>2, <4>2, Moves
      <4>3. CASE CasSlot(s)
        <5>1. snd'[s].c = snd[s].free /\ key[snd[s].free] = snd[s].expect
                /\ snd[s].free \in Dedicated
          BY <1>0, <1>2, <3>2, <4>3, Moves
        <5> QED BY <1>0, <3>2, <4>3, <5>1 DEF CasSlot
      <4>4. CASE ~(ScanSlot(s) \/ ScanShare(s) \/ CasSlot(s))
        <5>1. snd'[s].c = snd[s].c /\ snd[s].pc \notin {"idle", "scan", "cas", "wake"}
          BY <1>0, <1>2, <2>2, <3>2, <4>4, Moves DEF SenderStep
        <5> QED BY <2>1, <3>2, <5>1
      <4> QED BY <4>1, <4>2, <4>3, <4>4
    <3> QED BY <3>1, <3>2
  <2>3. CASE RecvBegin \/ OwnerStep
    BY <1>2, <2>1, <2>3, OwnerTouches
  <2> QED BY <2>2, <2>3 DEF Next
<1> QED BY <1>1, <1>2 DEF Named

(* What the owner's registers become. *)
LEMMA OwnerMoves ==
  ASSUME TypeOK, RecvBegin \/ OwnerStep
  PROVE
  /\ RecvBegin => rcv'.pc = "scan" /\ rcv'.kind \in Kinds
                    /\ (rcv'.kind = "from" => rcv'.from \in Senders)
  /\ ~RecvBegin => \/ rcv'.kind = rcv.kind /\ rcv'.from = rcv.from
                   \/ rcv' = RcvIdle
  /\ rcv'.pc \in {"count", "take", "advance"} =>
       \/ rcv'.c = rcv.c /\ rcv.pc \in {"count", "take"}
       \/ rcv'.c \in Channels /\ key[rcv'.c] # NoKey
       \/ rcv'.c \in Channels /\ key[rcv'.c] = rcv.from /\ rcv.kind = "from"
       \/ rcv'.c = SHIDX
  /\ rcv'.pc = "parked" => rcv'.n = MAXSND
<1>0. rcv \in RcvRegs
  BY DEF TypeOK, RcvTypes
<1>c. Cursor \in Channels
  <2>1. MAXSND \in Nat \ {0} /\ rcv.n \in Nat /\ scan \in Nat /\ Channels = 0 .. MAXSND - 1
    BY <1>0, SizeAssumption DEF TypeOK, RcvTypes, RcvRegs, Channels, MAXSND
  <2>2. scan + rcv.n \in Int
    BY <2>1
  <2>3. (scan + rcv.n) % MAXSND \in 0 .. MAXSND - 1
    BY ONLY <2>1, <2>2, ModRange
  <2> QED BY <2>1, <2>3 DEF Cursor
<1>1. CASE RecvBegin
  BY <1>1 DEF RecvBegin, RcvIdle
<1>2. CASE ScanAny \/ ScanRes
  BY <1>0, <1>c, <1>2 DEF ScanAny, ScanRes, Take, NextSlot, RAt, RcvRegs, RecvBegin
<1>3. CASE ScanFrom \/ CountFrom \/ ScanShared
  <2>1. rcv.n \in Channels \/ ~ScanFrom
    BY <1>0, SizeAssumption DEF ScanFrom, RcvRegs, Channels, MAXSND
  <2> QED BY <1>0, <1>3, <2>1 DEF ScanFrom, CountFrom, ScanShared, Take, NextSlot, RAt, RcvRegs, RecvBegin
<1>4. CASE TakeHead
  <2>1. rcv.pc = "take" /\ rcv'.pc = "advance" /\ rcv'.c = rcv.c
          /\ rcv'.kind = rcv.kind /\ rcv'.from = rcv.from
    BY <1>0, <1>4 DEF TakeHead, RAt, RcvRegs
  <2> QED BY <2>1 DEF RecvBegin
<1>6. CASE AdvanceRh \/ TakeMid
  <2>1. rcv.pc \in {"take", "advance"} /\ rcv' = RcvIdle
    BY <1>6 DEF AdvanceRh, TakeMid, RAt
  <2>2. rcv'.pc = "idle"
    BY <2>1 DEF RcvIdle
  <2> QED BY <2>1, <2>2 DEF RecvBegin
<1>5. CASE BlockCas \/ Rescan \/ Park \/ Unpark
  BY <1>0, <1>5 DEF BlockCas, Rescan, Park, Unpark, NextSlot, RAt, RcvRegs, RecvBegin
<1> QED BY <1>1, <1>2, <1>3, <1>4, <1>5, <1>6 DEF OwnerStep

(* The owner works on slots that have a key.                               *)
LEMMA AskedStep ==
  ASSUME KeyInv, Next
  PROVE  Asked'
<1>0. TypeOK /\ key[SHIDX] # NoKey /\ rcv \in RcvRegs
  BY DEF KeyInv, Named, TypeOK, RcvTypes
<1>1. ASSUME NEW s \in Senders, SendBegin(s) \/ SenderStep(s) \/ Kill(s) PROVE Asked'
  <2>1. UNCHANGED rcv
    BY <1>1, SenderTouches
  <2>2. rcv.pc \in {"count", "take", "advance"} => key'[rcv.c] # NoKey
    BY <1>0, KeysStay DEF KeyInv, Asked, RcvRegs
  <2> QED BY <2>1, <2>2 DEF KeyInv, Asked
<1>2. CASE RecvBegin \/ OwnerStep
  <2>1. UNCHANGED key
    BY <1>2, OwnerTouches
  <2>2. rcv'.kind \in Kinds \cup {"any"} /\ (rcv'.kind = "from" => rcv'.from \in Senders)
          /\ (rcv'.pc = "parked" => rcv'.n = MAXSND)
    BY <1>0, <1>2, OwnerMoves DEF KeyInv, Asked, RcvIdle
  <2>3. ASSUME rcv'.pc \in {"count", "take", "advance"} PROVE key[rcv'.c] # NoKey
    BY <1>0, <1>2, <2>3, OwnerMoves DEF KeyInv, Asked
  <2> QED BY <2>1, <2>2, <2>3 DEF Asked
<1> QED BY <1>1, <1>2 DEF Next

(* All of it holds at the start,                                           *)
LEMMA KeyInit == Init => KeyInv
<1> SUFFICES ASSUME Init PROVE KeyInv
  OBVIOUS
<1>1. \A s \in Senders : snd[s].pc = "idle"
  BY DEF Init, SndIdle
<1>2. rcv = RcvIdle
  BY DEF Init
<1>3. key[SHIDX] # NoKey /\ \A i \in Dedicated : rh[i] = rt[i]
  BY ChannelSets DEF Init
<1> QED BY <1>1, <1>2, <1>3, InitType
        DEF KeyInv, OnHart, Onstage, Fresh, Named, Asked, RcvIdle

(* and every step keeps it.                                                *)
LEMMA KeyInvStep ==
  ASSUME KeyInv, Next
  PROVE  KeyInv'
BY TypeStep, OnHartStep, FreshStep, NamedStep, AskedStep DEF KeyInv

----------------------------------------------------------------------------
(* The rings.  Every capacity is one that Cap0 grows to by doubling, and   *)
(* divides the width of the counters: mbcap and RING_MAX are powers of two *)
(* (fpr_actors_init), CW is 2^32.                                          *)
Divisors == {n \in 1 .. 2 * RingMax : n < CW /\ CW % n = 0}
RingsDivide == Cap0 \in Divisors /\ \A n \in Divisors : n < RingMax => 2 * n \in Divisors

(* What a capacity is good for: positions may be reduced twice.            *)
LEMMA DivisorFacts ==
  ASSUME NEW n \in Divisors
  PROVE  /\ n \in Nat \ {0} /\ n < CW /\ CW \in Nat \ {0} /\ n \in 1 .. 2 * RingMax
         /\ \A a \in Int : (a % CW) % n = a % n
<1>1. n \in Nat \ {0} /\ n < CW /\ CW \in Nat \ {0} /\ n \in 1 .. 2 * RingMax /\ CW % n = 0
  BY SizeAssumption DEF Divisors
<1>2. ASSUME NEW a \in Int PROVE (a % CW) % n = a % n
  BY ONLY <1>1, ModMod
<1> QED BY <1>1, <1>2

(* The ranges of the counters.                                             *)
LEMMA Indices ==
  ASSUME TypeOK, NEW i \in Channels
  PROVE  /\ CW \in Nat \ {0} /\ rh[i] \in 0 .. CW - 1 /\ rt[i] \in 0 .. CW - 1
         /\ Count(i) \in 0 .. CW - 1
<1>1. CW \in Nat \ {0} /\ rh[i] \in 0 .. CW - 1 /\ rt[i] \in 0 .. CW - 1
  BY SizeAssumption DEF TypeOK, ChanTypes
<1>2. rt[i] - rh[i] \in Int
  BY <1>1
<1>3. (rt[i] - rh[i]) % CW \in 0 .. CW - 1
  BY ONLY <1>1, <1>2, ModRange
<1> QED BY <1>1, <1>3 DEF Count

(* rt is Count past rh. *)
LEMMA TailAt ==
  ASSUME TypeOK, NEW i \in Channels
  PROVE  rt[i] = (rh[i] + Count(i)) % CW
<1>1. CW \in Nat \ {0} /\ rh[i] \in 0 .. CW - 1 /\ rt[i] \in 0 .. CW - 1
  BY Indices
<1>2. (((rt[i] - rh[i]) % CW) + rh[i]) % CW = ((rt[i] - rh[i]) + rh[i]) % CW
  <2>1. rt[i] - rh[i] \in Int /\ rh[i] \in Int
    BY <1>1
  <2> QED BY ONLY <1>1, <2>1, ModPlus
<1>3. (rt[i] - rh[i]) + rh[i] = rt[i]
  BY <1>1
<1>4. rt[i] % CW = rt[i]
  <2>1. CW * 0 + rt[i] = rt[i]
    BY <1>1
  <2>2. (CW * 0 + rt[i]) % CW = rt[i]
    BY ONLY <1>1, DivModU
  <2> QED BY <2>1, <2>2
<1>5. Count(i) + rh[i] = rh[i] + Count(i)
  BY <1>1, Indices
<1> QED BY <1>2, <1>3, <1>4, <1>5 DEF Count

(* The queued messages lie in different slots, and not in the one at rt.   *)
LEMMA PlacesApart ==
  ASSUME TypeOK, NEW i \in Channels, NEW n \in Divisors, NEW j \in Nat, NEW k \in Nat,
         j < k, k - j < n
  PROVE  ((rh[i] + j) % CW) % n # ((rh[i] + k) % CW) % n
<1>1. n \in Nat \ {0} /\ rh[i] + j \in Int /\ rh[i] + k \in Int
  BY Indices, DivisorFacts
<1>2. rh[i] + j < rh[i] + k /\ rh[i] + k < rh[i] + j + n
  BY <1>1, Indices
<1>3. (rh[i] + j) % n # (rh[i] + k) % n
  BY ONLY <1>1, <1>2, ModApart
<1> QED BY <1>1, <1>3, DivisorFacts

(* The slot at rt is free while there is room.                             *)
LEMMA TailFree ==
  ASSUME TypeOK, NEW i \in Channels, NEW n \in Divisors, NEW j \in 0 .. Count(i) - 1,
         Count(i) < n
  PROVE  ((rh[i] + j) % CW) % n # rt[i] % n
<1>1. Count(i) \in Nat /\ n \in Nat /\ j \in Nat
  BY Indices, DivisorFacts
<1>2. j < Count(i) /\ Count(i) - j < n
  BY <1>1
<1>3. ((rh[i] + j) % CW) % n # ((rh[i] + Count(i)) % CW) % n
  BY <1>1, <1>2, PlacesApart
<1> QED BY <1>3, TailAt

(* What the growth copies is what is queued. *)
LEMMA CopyKeeps ==
  ASSUME TypeOK, NEW i \in Channels, NEW n \in Divisors, Count(i) <= n,
         NEW j \in 0 .. Count(i) - 1
  PROVE  Slot(RingCopy(i, n), (rh[i] + j) % CW) = Queued(i, j)
<1> DEFINE p == ((rh[i] + j) % CW) % n
           js == {x \in 0 .. Count(i) - 1 : ((rh[i] + x) % CW) % n = p}
<1>1. Count(i) \in Nat /\ n \in Nat \ {0} /\ rh[i] + j \in Int /\ CW \in Nat \ {0}
  BY Indices, DivisorFacts
<1>2. p \in 0 .. n - 1
  <2>1. (rh[i] + j) % CW \in Int
    <3>1. (rh[i] + j) % CW \in 0 .. CW - 1
      BY ONLY <1>1, ModRange
    <3> QED BY <1>1, <3>1
  <2> QED BY ONLY <1>1, <2>1, ModRange
<1>3. js = {j}
  <2>1. ASSUME NEW x \in js PROVE x = j
    <3>1. x \in Nat /\ j \in Nat /\ x < Count(i) /\ j < Count(i)
      BY <1>1
    <3>2. CASE x < j
      <4>1. j - x < n
        BY <1>1, <3>1
      <4> QED BY <3>1, <3>2, <4>1, PlacesApart
    <3>3. CASE j < x
      <4>1. x - j < n
        BY <1>1, <3>1
      <4> QED BY <3>1, <3>3, <4>1, PlacesApart
    <3> QED BY <3>1, <3>2, <3>3
  <2> QED BY <2>1
<1>4. (CHOOSE x \in js : TRUE) = j
  BY <1>3
<1>5. RingCopy(i, n).cap = n /\ RingCopy(i, n).slot[p] = Queued(i, CHOOSE x \in js : TRUE)
  BY <1>2, <1>3 DEF RingCopy
<1> QED BY <1>4, <1>5 DEF Slot

(* What is queued on channel i stays queued where it is. *)
Kept(i) ==
  /\ Count(i)' = Count(i)
  /\ \A j \in 0 .. Count(i) - 1 : Queued(i, j)' = Queued(i, j)

(* What is not touched is kept.                                            *)
LEMMA SameRing ==
  ASSUME NEW i, UNCHANGED <<rh[i], rt[i], rv[i], ring[i]>>
  PROVE  Kept(i) /\ Ring(i)' = Ring(i)
BY DEF Kept, Count, Queued, Ring, Slot

(* The condition.  Receives that look into the rings, or at one sender's   *)
(* key, need the slots to be claimed one at a time: the senders share a    *)
(* hart, or every slot has its sender and keeps it (README, section 5,     *)
(* entry 1 is what happens otherwise).                                     *)
Together == \A s, t \in Senders : HartOf[s] = HartOf[t]
Settled == Mortal = {} /\ \A i \in Dedicated : Bound[i] # NoKey
Calm == (Together \/ Settled) /\ RingsDivide

Claims == Together \/ (Mortal = {} /\ \A i \in Dedicated : key[i] # NoKey)
(* What chan_for saw of the slot it is about to claim is still so. *)
Seen ==
  \A s \in Senders : snd[s].pc \in {"scan", "cas"} /\ snd[s].free # NoSlot =>
    Together /\ key[snd[s].free] = snd[s].expect /\ rh[snd[s].free] = rt[snd[s].free]
(* No ring holds more than it has room for. *)
AllFit ==
  \A i \in Channels : /\ \A v \in DOMAIN ring[i] : ring[i][v].cap \in Divisors
                      /\ Count(i) <= Ring(i).cap
(* Between the room check and the store of rt, the private copies of rt and *)
(* rv are the words themselves, and there is room.                         *)
Loaded ==
  \A s \in Senders : snd[s].pc \in {"write", "publish"} =>
    LET c == snd[s].c IN snd[s].t = rt[c] /\ snd[s].v = rv[c] /\ Count(c) < Ring(c).cap
(* The ring that is about to be installed is bigger. *)
Growing ==
  \A s \in Senders :
    /\ snd[s].pc \in {"alloced", "grow", "install"} => snd[s].ncap \in Divisors
    /\ snd[s].pc = "install" => Ring(snd[s].c).cap < snd[s].ncap
(* The installed ring holds what is queued. *)
Holds(new, c) ==
  /\ Count(c) <= new.cap
  /\ \A j \in 0 .. Count(c) - 1 : Slot(new, (rh[c] + j) % CW) = Queued(c, j)
Copied ==
  \A s \in Senders : snd[s].pc = "swap" =>
    Holds(ring[snd[s].c][Len(ring[snd[s].c])], snd[s].c)
(* What the owner is about to take is there. *)
Taking == rcv.pc \in {"take", "advance"} => Count(rcv.c) # 0

Orderly ==
  /\ KeyInv /\ WriterInv
  /\ Claims /\ Seen /\ AllFit /\ Loaded /\ Growing /\ Copied /\ Taking

(* Such a system has one writer per ring.                                  *)
LEMMA CalmKills == Calm => KillIsLocal
BY DEF Calm, Together, Settled, KillIsLocal

(* The ring in force of an orderly system.                                 *)
LEMMA RingHere ==
  ASSUME Orderly, NEW i \in Channels
  PROVE  /\ ring[i] \in Seq(Rings) /\ rv[i] \in DOMAIN ring[i] /\ Ring(i) \in Rings
         /\ Ring(i).cap \in Divisors /\ Ring(i).cap \in Nat \ {0}
         /\ Count(i) \in Nat /\ Count(i) <= Ring(i).cap
<1>1. TypeOK /\ ring[i] \in Seq(Rings) /\ rv[i] \in DOMAIN ring[i]
  BY DEF Orderly, KeyInv, TypeOK, ChanTypes
<1>2. Ring(i) \in Rings /\ Count(i) \in Nat
  BY <1>1, RingInForce
<1>3. Ring(i).cap \in Divisors /\ Count(i) <= Ring(i).cap
  BY <1>1 DEF Orderly, AllFit, Ring
<1> QED BY <1>1, <1>2, <1>3, DivisorFacts

(* Two senders are never writing one ring. *)
LEMMA WritersApart ==
  ASSUME Orderly, NEW s \in Senders, NEW t \in Senders, s # t, Writing(s), Writing(t)
  PROVE  snd[s].c # snd[t].c
<1>1. Running(s) /\ Running(t)
  BY DEF Orderly, KeyInv, OnHart, Onstage, Writing, SndPcs
<1>2. Claimed(s) /\ Claimed(t)
  BY <1>1 DEF Claimed, Writing, SndPcs
<1> QED BY <1>2, WriterInvImplies DEF Orderly, OneWriter

(* A sender's slot is not another's to reset. *)
LEMMA ResetElsewhere ==
  ASSUME Orderly, NEW s \in Senders, ResetSlot(s), NEW i \in Channels
  PROVE  \/ rh'[i] = rh[i] /\ rt'[i] = rt[i]
         \/ key[i] = NoKey /\ rh[i] = rt[i] /\ rh'[i] = rt'[i] /\ i = snd[s].free
<1>1. snd[s].free \in Dedicated /\ snd[s].pc = "scan" /\ snd[s].free # NoSlot
  <2>1. snd[s].free \in Dedicated /\ snd[s].pc = "scan"
    BY Moves DEF Orderly, KeyInv
  <2> QED BY <2>1 DEF ResetSlot
<1>2. key[snd[s].free] = snd[s].expect /\ rh[snd[s].free] = rt[snd[s].free]
  BY <1>1 DEF Orderly, Seen
<1>3. rh \in [Channels -> 0 .. CW - 1] /\ rt \in [Channels -> 0 .. CW - 1]
  BY DEF Orderly, KeyInv, TypeOK, ChanTypes
<1> QED BY <1>1, <1>2, <1>3 DEF ResetSlot

(* What one sender writes, no other touches. *)
LEMMA Untouched ==
  ASSUME Orderly, NEW s \in Senders, SendBegin(s) \/ SenderStep(s) \/ Kill(s),
         NEW t \in Senders, t # s, Writing(t), NEW c \in Channels, c = snd[t].c
  PROVE  UNCHANGED <<rh[c], rt[c], rv[c], ring[c]>>
<1>0. TypeOK /\ rt \in [Channels -> 0 .. CW - 1] /\ ring \in [Channels -> Seq(Rings)]
  BY DEF Orderly, KeyInv, TypeOK, ChanTypes
<1>1. CASE ResetSlot(s)
  <2>1. key[c] # NoKey
    BY DEF Orderly, KeyInv, Named, Writing
  <2>2. rh'[c] = rh[c] /\ rt'[c] = rt[c]
    BY <1>1, <2>1, ResetElsewhere
  <2> QED BY <1>1, <2>2 DEF ResetSlot
<1>2. CASE WriteSlot(s) \/ PublishRt(s) \/ InstallRing(s) \/ SwapRing(s)
  <2>1. Writing(s)
    BY <1>2 DEF WriteSlot, PublishRt, InstallRing, SwapRing, At, Writing
  <2>2. snd[s].c # c
    BY <2>1, WritersApart
  <2>3. CASE WriteSlot(s)
    BY <1>0, <2>2, <2>3 DEF WriteSlot
  <2>4. CASE PublishRt(s)
    BY <1>0, <2>2, <2>4 DEF PublishRt
  <2>5. CASE InstallRing(s)
    BY <1>0, <2>2, <2>5 DEF InstallRing
  <2>6. CASE SwapRing(s)
    BY <1>0, <2>2, <2>6 DEF SwapRing
  <2> QED BY <1>2, <2>3, <2>4, <2>5, <2>6
<1>3. CASE ~(ResetSlot(s) \/ WriteSlot(s) \/ PublishRt(s) \/ InstallRing(s) \/ SwapRing(s))
  BY <1>3, SenderTouches
<1> QED BY <1>1, <1>2, <1>3

(* Equal counters mean an empty ring: it never holds CW messages.          *)
LEMMA EmptyWhenEqual ==
  ASSUME TypeOK, NEW i \in Channels
  PROVE  rh[i] = rt[i] <=> Count(i) = 0
<1>1. rh[i] = rt[i] => Count(i) = 0
  <2>1. CW \in Nat \ {0} /\ CW * 0 + 0 = 0 /\ rh[i] - rh[i] = 0
    BY Indices
  <2>2. (CW * 0 + 0) % CW = 0
    BY ONLY <2>1, DivModU
  <2> QED BY <2>1, <2>2 DEF Count
<1>2. Count(i) = 0 => rh[i] = rt[i]
  <2> SUFFICES ASSUME Count(i) = 0 PROVE rh[i] = rt[i]
    OBVIOUS
  <2>1. rh[i] \in 0 .. CW - 1 /\ CW \in Nat \ {0}
    BY Indices
  <2>2. (CW * 0 + rh[i]) % CW = rh[i] /\ rh[i] + 0 = rh[i] /\ CW * 0 + rh[i] = rh[i]
    BY <2>1, DivModU
  <2> QED BY <2>2, TailAt
<1> QED BY <1>1, <1>2

(* Resetting a slot loses nothing, where nobody else claims it.            *)
LEMMA ResetKeeps ==
  ASSUME Orderly, NEW s \in Senders, ResetSlot(s), NEW i \in Channels
  PROVE  Kept(i) /\ Ring(i)' = Ring(i)
<1>1. CASE rh'[i] = rh[i] /\ rt'[i] = rt[i]
  <2>1. UNCHANGED <<rh[i], rt[i], rv[i], ring[i]>>
    BY <1>1 DEF ResetSlot
  <2> QED BY <2>1, SameRing
<1>2. CASE rh[i] = rt[i] /\ rh'[i] = rt'[i]
  <2>1. TypeOK /\ TypeOK'
    BY RingTypes DEF Orderly, KeyInv
  <2>2. Count(i) = 0 /\ Count(i)' = 0
    <3>1. Count(i) = 0
      BY <1>2, <2>1, EmptyWhenEqual
    <3>2. (rt'[i] - rh'[i]) % CW = (rt[i] - rh[i]) % CW
      <4>1. rt'[i] - rh'[i] = 0 /\ rt[i] - rh[i] = 0
        BY <1>2, <2>1 DEF TypeOK, ChanTypes
      <4> QED BY <4>1
    <3> QED BY <3>1, <3>2 DEF Count
  <2>3. Ring(i)' = Ring(i)
    BY DEF ResetSlot, Ring
  <2> QED BY <2>2, <2>3 DEF Kept
<1> QED BY <1>1, <1>2, ResetElsewhere

(* The store goes past what is queued. *)
LEMMA WriteKeeps ==
  ASSUME Orderly, NEW s \in Senders, WriteSlot(s), NEW i \in Channels
  PROVE  /\ Kept(i) /\ Ring(i)'.cap = Ring(i).cap
         /\ DOMAIN ring'[i] = DOMAIN ring[i]
         /\ \A v \in DOMAIN ring[i] : ring'[i][v].cap = ring[i][v].cap
<1>c. PICK c \in Channels : c = snd[s].c
  BY SndFacts DEF Orderly, KeyInv
<1>r. PICK r \in Rings : r = Ring(c)
  BY RingHere
<1> DEFINE p == rt[c] % r.cap
<1>1. TypeOK /\ ring \in [Channels -> Seq(Rings)]
  BY DEF Orderly, KeyInv, TypeOK, ChanTypes
<1>2. snd[s].t = rt[c] /\ snd[s].v = rv[c] /\ Count(c) < r.cap
  BY <1>c, <1>r DEF Orderly, Loaded, WriteSlot, At
<1>3. UNCHANGED <<rh, rt, rv>>
  BY DEF WriteSlot
<1>4. ring' = [ring EXCEPT ![c] = [ring[c] EXCEPT ![rv[c]] =
                 [r EXCEPT !.slot = [r.slot EXCEPT ![p] = ThisMsg(s)]]]]
  BY <1>c, <1>r, <1>1, <1>2 DEF WriteSlot, Ring
<1>5. CASE i # c
  <2>1. ring'[i] = ring[i]
    BY <1>1, <1>4, <1>5
  <2> QED BY <1>3, <2>1, SameRing
<1>6. CASE i = c
  <2>1. ring[c] \in Seq(Rings) /\ rv[c] \in DOMAIN ring[c] /\ r \in Rings
          /\ r.cap \in Divisors
    BY <1>r, RingHere
  <2>q. PICK q : q = [r EXCEPT !.slot = [r.slot EXCEPT ![p] = ThisMsg(s)]]
    OBVIOUS
  <2>2. ring'[c] = [ring[c] EXCEPT ![rv[c]] = q]
    BY <1>1, <1>4, <2>q
  <2>3. /\ DOMAIN ring'[c] = DOMAIN ring[c] /\ ring'[c][rv[c]] = q
        /\ \A v \in DOMAIN ring[c] : v # rv[c] => ring'[c][v] = ring[c][v]
    BY ONLY <2>1, <2>2
  <2>4. q.cap = r.cap /\ \A x \in 0 .. r.cap - 1 : x # p => q.slot[x] = r.slot[x]
    BY <2>1, <2>q, RingFields
  <2>5. Ring(c)' = q
    BY <1>3, <2>3 DEF Ring
  <2>6. ASSUME NEW j \in 0 .. Count(c) - 1 PROVE Queued(c, j)' = Queued(c, j)
    <3>1. ((rh[c] + j) % CW) % r.cap # p
      BY <1>1, <1>2, <2>1, TailFree
    <3>2. ((rh[c] + j) % CW) % r.cap \in 0 .. r.cap - 1
      <4>1. rh[c] + j \in Int /\ CW \in Nat \ {0} /\ r.cap \in Nat \ {0}
        <5>1. CW \in Nat \ {0} /\ rh[c] \in 0 .. CW - 1 /\ Count(c) \in 0 .. CW - 1
          BY <1>1, Indices
        <5>2. r.cap \in Nat \ {0}
          BY <2>1, DivisorFacts
        <5>3. j \in Int /\ rh[c] \in Int
          BY <5>1
        <5> QED BY <5>1, <5>2, <5>3
      <4>2. (rh[c] + j) % CW \in 0 .. CW - 1
        BY ONLY <4>1, ModRange
      <4>3. (rh[c] + j) % CW \in Int
        BY <4>1, <4>2
      <4> QED BY ONLY <4>1, <4>3, ModRange
    <3>3. Queued(c, j)' = q.slot[((rh[c] + j) % CW) % q.cap]
      BY <1>3, <2>5 DEF Queued, Slot
    <3> QED BY <1>r, <2>4, <3>1, <3>2, <3>3 DEF Queued, Slot
  <2>7. Count(c)' = Count(c)
    BY <1>3 DEF Count
  <2>8. \A v \in DOMAIN ring[c] : ring'[c][v].cap = ring[c][v].cap
    BY <1>r, <2>3, <2>4 DEF Ring
  <2> QED BY <1>6, <1>r, <2>3, <2>4, <2>5, <2>6, <2>7, <2>8 DEF Kept
<1> QED BY <1>5, <1>6

(* The new ring is appended to the chain; the ring in force stays. *)
LEMMA InstallKeeps ==
  ASSUME Orderly, NEW s \in Senders, InstallRing(s), NEW i \in Channels
  PROVE  /\ Kept(i) /\ Ring(i)' = Ring(i)
         /\ i # snd[s].c => ring'[i] = ring[i]
         /\ i = snd[s].c =>
              /\ DOMAIN ring'[i] = DOMAIN ring[i] \cup {Len(ring[i]) + 1}
              /\ Len(ring'[i]) = Len(ring[i]) + 1
              /\ \A v \in DOMAIN ring[i] : ring'[i][v] = ring[i][v]
              /\ ring'[i][Len(ring[i]) + 1] = RingCopy(i, snd[s].ncap)
<1>c. PICK c \in Channels : c = snd[s].c
  BY SndFacts DEF Orderly, KeyInv
<1>1. TypeOK /\ ring \in [Channels -> Seq(Rings)]
  BY DEF Orderly, KeyInv, TypeOK, ChanTypes
<1>2. UNCHANGED <<rh, rt, rv>> /\ ring' = [ring EXCEPT ![c] = Append(ring[c], RingCopy(c, snd[s].ncap))]
  BY <1>c DEF InstallRing
<1>3. CASE i # c
  <2>1. ring'[i] = ring[i]
    BY <1>1, <1>2, <1>3
  <2> QED BY <1>c, <1>2, <1>3, <2>1, SameRing
<1>4. CASE i = c
  <2>1. ring[c] \in Seq(Rings) /\ rv[c] \in DOMAIN ring[c]
    BY <1>1, RingHere
  <2>2. ring'[c] = Append(ring[c], RingCopy(c, snd[s].ncap))
    BY <1>1, <1>2
  <2>3. /\ DOMAIN ring'[c] = DOMAIN ring[c] \cup {Len(ring[c]) + 1}
        /\ Len(ring'[c]) = Len(ring[c]) + 1
        /\ \A v \in DOMAIN ring[c] : ring'[c][v] = ring[c][v]
        /\ ring'[c][Len(ring[c]) + 1] = RingCopy(c, snd[s].ncap)
    <3>1. DOMAIN ring[c] = 1 .. Len(ring[c]) /\ Len(ring[c]) \in Nat
      BY <2>1
    <3>2. /\ DOMAIN ring'[c] = 1 .. Len(ring[c]) + 1
          /\ Len(ring'[c]) = Len(ring[c]) + 1
      BY ONLY <2>1, <2>2
    <3>3. \A v \in 1 .. Len(ring[c]) : ring'[c][v] = ring[c][v]
      BY ONLY <2>1, <2>2
    <3>4. ring'[c][Len(ring[c]) + 1] = RingCopy(c, snd[s].ncap)
      BY ONLY <2>1, <2>2
    <3> QED BY <3>1, <3>2, <3>3, <3>4
  <2>4. Ring(c)' = Ring(c)
    BY <1>2, <2>1, <2>3 DEF Ring
  <2>5. Kept(c)
    BY <1>2, <2>4 DEF Kept, Count, Queued
  <2> QED BY <1>c, <1>4, <2>3, <2>4, <2>5
<1> QED BY <1>c, <1>3, <1>4

(* The grown ring shows what the old one did.                              *)
LEMMA SwapKeeps ==
  ASSUME Orderly, NEW s \in Senders, SwapRing(s), NEW i \in Channels
  PROVE  /\ Kept(i)
         /\ Ring(i)' = IF i = snd[s].c THEN ring[i][Len(ring[i])] ELSE Ring(i)
<1>c. PICK c \in Channels : c = snd[s].c
  BY SndFacts DEF Orderly, KeyInv
<1>1. TypeOK /\ rv \in [Channels -> Nat]
  BY DEF Orderly, KeyInv, TypeOK, ChanTypes
<1>2. UNCHANGED <<rh, rt, ring>> /\ rv' = [rv EXCEPT ![c] = Len(ring[c])] /\ snd[s].pc = "swap"
  BY <1>c DEF SwapRing, At
<1>3. CASE i # c
  <2>1. rv'[i] = rv[i]
    BY <1>2, <1>3
  <2> QED BY <1>c, <1>2, <1>3, <2>1, SameRing
<1>4. CASE i = c
  <2>1. Ring(c)' = ring[c][Len(ring[c])]
    BY <1>1, <1>2 DEF Ring
  <2>2. Count(c)' = Count(c)
    BY <1>2 DEF Count
  <2>3. ASSUME NEW j \in 0 .. Count(c) - 1 PROVE Queued(c, j)' = Queued(c, j)
    <3>1. Queued(c, j)' = Slot(ring[c][Len(ring[c])], (rh[c] + j) % CW)
      BY <1>2, <2>1 DEF Queued, Slot
    <3> QED BY <1>c, <1>2, <3>1 DEF Orderly, Copied, Holds
  <2> QED BY <1>c, <1>4, <2>1, <2>2, <2>3 DEF Kept
<1> QED BY <1>c, <1>3, <1>4

(* The store of rt adds one message at the end. *)
LEMMA PublishAdds ==
  ASSUME Orderly, NEW s \in Senders, PublishRt(s), NEW i \in Channels
  PROVE  /\ Ring(i)' = Ring(i)
         /\ i # snd[s].c => Kept(i)
         /\ i = snd[s].c => /\ Count(i)' = Count(i) + 1 /\ Count(i)' <= Ring(i).cap
                            /\ \A j \in 0 .. Count(i) - 1 : Queued(i, j)' = Queued(i, j)
<1>c. PICK c \in Channels : c = snd[s].c
  BY SndFacts DEF Orderly, KeyInv
<1>1. TypeOK /\ rt \in [Channels -> 0 .. CW - 1]
  BY DEF Orderly, KeyInv, TypeOK, ChanTypes
<1>2. UNCHANGED <<rh, rv, ring>> /\ rt' = [rt EXCEPT ![c] = (snd[s].t + 1) % CW]
  BY <1>c DEF PublishRt
<1>3. snd[s].t = rt[c] /\ Count(c) < Ring(c).cap
  BY <1>c DEF Orderly, Loaded, PublishRt, At
<1>4. CASE i # c
  <2>1. rt'[i] = rt[i]
    BY <1>1, <1>2, <1>4
  <2> QED BY <1>c, <1>2, <1>4, <2>1, SameRing
<1>5. CASE i = c
  <2>1. rt'[c] = (rt[c] + 1) % CW
    BY <1>1, <1>2, <1>3
  <2>2. Ring(c)' = Ring(c) /\ \A j \in 0 .. Count(c) - 1 : Queued(c, j)' = Queued(c, j)
    BY <1>2 DEF Ring, Queued, Slot
  <2>3. Count(c)' = Count(c) + 1
    <3>1. CW \in Nat \ {0} /\ rh[c] \in Int /\ rt[c] \in Int /\ Count(c) \in Nat
            /\ Count(c) + 1 < CW
      <4>1. Ring(c).cap \in Nat /\ Ring(c).cap < CW
        BY <1>1, RingHere, DivisorFacts
      <4> QED BY <1>1, <1>3, <4>1, Indices
    <3>2. (((rt[c] + 1) % CW) - rh[c]) % CW = (rt[c] + 1 - rh[c]) % CW
      <4>1. (((rt[c] + 1) % CW) + (-rh[c])) % CW = ((rt[c] + 1) + (-rh[c])) % CW
        <5>1. rt[c] + 1 \in Int /\ -rh[c] \in Int
          BY <3>1
        <5> QED BY ONLY <3>1, <5>1, ModPlus
      <4>2. (rt[c] + 1) % CW \in Int
        <5>1. rt[c] + 1 \in Int
          BY <3>1
        <5>2. (rt[c] + 1) % CW \in 0 .. CW - 1
          BY ONLY <3>1, <5>1, ModRange
        <5> QED BY <3>1, <5>2
      <4> QED BY <3>1, <4>1, <4>2
    <3>3. (Count(c) + 1) % CW = ((rt[c] - rh[c]) + 1) % CW
      <4>1. rt[c] - rh[c] \in Int
        BY <3>1
      <4> QED BY <3>1, <4>1, ModPlus DEF Count
    <3>4. (Count(c) + 1) % CW = Count(c) + 1
      <4>1. CW * 0 + (Count(c) + 1) = Count(c) + 1 /\ Count(c) + 1 \in 0 .. CW - 1
        BY <3>1
      <4>2. (CW * 0 + (Count(c) + 1)) % CW = Count(c) + 1
        BY ONLY <3>1, <4>1, DivModU
      <4> QED BY <4>1, <4>2
    <3>5. rt[c] + 1 - rh[c] = (rt[c] - rh[c]) + 1
      BY <3>1
    <3>6. Count(c)' = (((rt[c] + 1) % CW) - rh[c]) % CW
      BY <1>2, <2>1 DEF Count
    <3> QED BY <3>2, <3>3, <3>4, <3>5, <3>6
  <2>4. Count(c) + 1 <= Ring(c).cap
    BY <1>1, <1>3, RingHere
  <2> QED BY <1>c, <1>5, <2>2, <2>3, <2>4
<1> QED BY <1>c, <1>4, <1>5

----------------------------------------------------------------------------
(* With all senders on one hart, a sender that is on it is alone there.    *)
LEMMA AloneOnHart ==
  ASSUME Orderly, Together, NEW s \in Senders, NEW t \in Senders, s # t,
         snd[t].pc \in Onstage, SendBegin(s) \/ SenderStep(s)
  PROVE  FALSE
<1>1. Running(t) /\ HartOf[s] = HartOf[t] /\ t # Idle
  BY DEF Orderly, KeyInv, OnHart, Together
<1>2. ~HartFree(s) /\ ~Running(s)
  BY <1>1 DEF HartFree, Running
<1> QED
  BY <1>2 DEF SenderStep, SendBegin, ScanSlot, ScanShare, ResetSlot, CasSlot, MsgCopy, Resume,
     MemDenied, PushRoom, PushFull, WriteSlot, PublishRt, GrowLock, InstallRing, SwapRing,
     WakeOwner, At, Enter

(* The owner only takes messages off, from a channel that has some. *)
LEMMA TakesOne ==
  ASSUME Orderly, RecvBegin \/ OwnerStep, NEW i \in Channels
  PROVE  /\ Ring(i)'.cap = Ring(i).cap /\ DOMAIN ring'[i] = DOMAIN ring[i]
         /\ \A v \in DOMAIN ring[i] : ring'[i][v].cap = ring[i][v].cap
         /\ \/ UNCHANGED <<rh[i], rt[i], rv[i], ring[i]>>
            \/ /\ AdvanceRh \/ TakeMid
               /\ i = rcv.c /\ Count(i) # 0 /\ Count(i)' = Count(i) - 1
               /\ rh'[i] = (rh[i] + 1) % CW /\ UNCHANGED <<rt[i], rv[i]>>
               /\ UNCHANGED ring[i] \/ TakeMid
<1>0. TypeOK /\ rh \in [Channels -> 0 .. CW - 1] /\ ring \in [Channels -> Seq(Rings)]
  BY DEF Orderly, KeyInv, TypeOK, ChanTypes
<1>1. CASE ~(AdvanceRh \/ TakeMid)
  <2>1. UNCHANGED <<rh[i], rt[i], rv[i], ring[i]>>
    BY <1>1, OwnerTouches
  <2> QED BY <2>1, SameRing
<1>2. CASE AdvanceRh \/ TakeMid
  <2>1. UNCHANGED <<rt, rv>>
    BY OwnerTouches
  <2>2. rh' = [rh EXCEPT ![rcv.c] = (rh[rcv.c] + 1) % CW] /\ rcv.pc \in {"take", "advance"}
    BY <1>2 DEF AdvanceRh, TakeMid, RAt
  <2>3. /\ Ring(i)'.cap = Ring(i).cap /\ DOMAIN ring'[i] = DOMAIN ring[i]
        /\ \A v \in DOMAIN ring[i] : ring'[i][v].cap = ring[i][v].cap
        /\ i # rcv.c \/ ~TakeMid => ring'[i] = ring[i]
    <3>1. CASE AdvanceRh
      <4>1. ring' = ring /\ rcv.pc = "advance"
        BY <3>1 DEF AdvanceRh, RAt
      <4>2. ~TakeMid
        BY <4>1 DEF TakeMid, RAt
      <4> QED BY <2>1, <4>1, <4>2 DEF Ring
    <3>2. CASE TakeMid
      <4>1. PICK c \in Channels : c = rcv.c
        BY <1>0 DEF TypeOK, RcvTypes, RcvRegs
      <4>2. ring' = [ring EXCEPT ![c] = [ring[c] EXCEPT ![rv[c]] =
                       Shifted(ring[c][rv[c]], rh[c], rcv.k)]]
        BY <3>2, <4>1 DEF TakeMid
      <4>3. Shifted(ring[c][rv[c]], rh[c], rcv.k).cap = ring[c][rv[c]].cap
        BY DEF Shifted
      <4>4. i # c => ring'[i] = ring[i]
        BY <1>0, <4>2
      <4>5. i = c => /\ DOMAIN ring'[i] = DOMAIN ring[i]
                     /\ \A v \in DOMAIN ring[i] : ring'[i][v].cap = ring[i][v].cap
        <5>1. ring'[c] = [ring[c] EXCEPT ![rv[c]] = Shifted(ring[c][rv[c]], rh[c], rcv.k)]
          BY <1>0, <4>2
        <5> QED BY <4>3, <5>1
      <4>6. rv[i] \in DOMAIN ring[i]
        BY RingHere
      <4> QED BY <2>1, <3>2, <4>1, <4>4, <4>5, <4>6 DEF Ring
    <3> QED BY <1>2, <3>1, <3>2
  <2>4. CASE i # rcv.c
    <3>1. UNCHANGED <<rh[i], rt[i], rv[i], ring[i]>>
      BY <1>0, <2>1, <2>2, <2>3, <2>4
    <3> QED BY <2>3, <3>1
  <2>5. CASE i = rcv.c
    <3>1. Count(i) # 0 /\ rh'[i] = (rh[i] + 1) % CW
      BY <1>0, <2>2, <2>5 DEF Orderly, Taking
    <3>2. Count(i)' = Count(i) - 1
      <4>1. CW \in Nat \ {0} /\ rh[i] \in 0 .. CW - 1 /\ rt[i] \in 0 .. CW - 1
              /\ Count(i) \in 0 .. CW - 1
        BY <1>0, Indices
      <4>2. rt[i] - (rh[i] + 1) \in Int /\ rh[i] + 1 \in Int /\ rt[i] - rh[i] \in Int
              /\ rt[i] - (rh[i] + 1) = (rt[i] - rh[i]) + (-1) /\ -1 \in Int
        BY <4>1
      <4>3. PICK q \in Int, r \in 0 .. CW - 1 :
               rh[i] + 1 = CW * q + r /\ (rh[i] + 1) % CW = r
        BY ONLY <4>1, <4>2, DivMod
      <4>4. CW * q + (rt[i] - (rh[i] + 1)) = rt[i] - r
        BY <4>1, <4>3
      <4>5. (rt[i] - r) % CW = (rt[i] - (rh[i] + 1)) % CW
        <5>1. (CW * q + (rt[i] - (rh[i] + 1))) % CW = (rt[i] - (rh[i] + 1)) % CW
          BY ONLY <4>1, <4>2, <4>3, ModShift
        <5> QED BY <4>4, <5>1
      <4>6. (((rt[i] - rh[i]) % CW) + (-1)) % CW = ((rt[i] - rh[i]) + (-1)) % CW
        BY ONLY <4>1, <4>2, ModPlus
      <4>7. (Count(i) + (-1)) % CW = Count(i) - 1
        <5>1. CW * 0 + (Count(i) - 1) = Count(i) - 1 /\ Count(i) - 1 \in 0 .. CW - 1
                /\ Count(i) + (-1) = Count(i) - 1
          BY <3>1, <4>1
        <5>2. (CW * 0 + (Count(i) - 1)) % CW = Count(i) - 1
          BY ONLY <4>1, <5>1, DivModU
        <5> QED BY <5>1, <5>2
      <4>8. Count(i)' = (rt[i] - r) % CW
        BY <2>1, <3>1, <4>3 DEF Count
      <4> QED BY <4>2, <4>5, <4>6, <4>7, <4>8 DEF Count
    <3> QED BY <1>2, <2>1, <2>3, <2>5, <3>1, <3>2
  <2> QED BY <2>4, <2>5
<1> QED BY <1>1, <1>2

(* A key is never taken back.                                              *)
LEMMA ClaimsStep ==
  ASSUME Orderly, Next
  PROVE  Claims'
<1>1. CASE Together
  BY <1>1 DEF Claims
<1>2. CASE ~Together
  <2>1. Mortal = {} /\ \A i \in Dedicated : i \in Channels /\ key[i] # NoKey
    BY <1>2, ChannelSets DEF Orderly, Claims
  <2>2. TypeOK
    BY DEF Orderly, KeyInv
  <2> QED BY <2>1, <2>2, KeysStay DEF Claims, Dedicated
<1> QED BY <1>1, <1>2

(* Nothing happens to a slot between the look of chan_for and its CAS.     *)
LEMMA SeenStep ==
  ASSUME Orderly, Next
  PROVE  Seen'
<1> SUFFICES ASSUME NEW t \in Senders, snd'[t].pc \in {"scan", "cas"}, snd'[t].free # NoSlot
             PROVE  /\ Together /\ key'[snd'[t].free] = snd'[t].expect
                    /\ rh'[snd'[t].free] = rt'[snd'[t].free]
  BY DEF Seen
<1>0. TypeOK /\ snd[t].free \in Dedicated \cup {NoSlot} /\ Dedicated \subseteq Channels
  BY SndFacts, ChannelSets DEF Orderly, KeyInv, SndRegs
<1>1. ASSUME snd[t].pc \in {"scan", "cas"}, snd'[t].free = snd[t].free,
             snd'[t].expect = snd[t].expect, UNCHANGED key,
             UNCHANGED <<rh, rt>> \/ ResetSlot(t)
      PROVE  /\ Together /\ key'[snd'[t].free] = snd'[t].expect
             /\ rh'[snd'[t].free] = rt'[snd'[t].free]
  <2>1. /\ Together /\ key[snd[t].free] = snd[t].expect
        /\ rh[snd[t].free] = rt[snd[t].free] /\ snd[t].free \in Dedicated
    BY <1>0, <1>1 DEF Orderly, Seen
  <2>2. CASE ResetSlot(t)
    <3>1. snd[t].free \in Channels
      BY <1>0, <2>1
    <3>2. rh'[snd[t].free] = rt'[snd[t].free]
      BY <2>1, <2>2, <3>1, ResetElsewhere
    <3> QED BY <1>1, <2>1, <3>2
  <2> QED BY <1>1, <2>1, <2>2
<1>2. ASSUME NEW s \in Senders, SendBegin(s) \/ SenderStep(s) \/ Kill(s), t # s
      PROVE  /\ Together /\ key'[snd'[t].free] = snd'[t].expect
             /\ rh'[snd'[t].free] = rt'[snd'[t].free]
  <2>1. snd'[t] = snd[t]
    BY <1>0, <1>2, SenderFrame
  <2>2. Together
    BY <2>1 DEF Orderly, Seen
  <2>3. Kill(s)
    BY <1>2, <2>1, <2>2, AloneOnHart DEF Onstage, SndPcs
  <2>4. UNCHANGED <<key, rh, rt>>
    BY <2>3 DEF Kill, chans
  <2> QED BY <1>1, <2>1, <2>4
<1>3. CASE SendBegin(t) \/ SenderStep(t) \/ Kill(t)
  <2>1. CASE ScanSlot(t)
    <3>1. UNCHANGED <<key, rh, rt>> /\ snd[t].pc = "scan"
      BY <2>1 DEF ScanSlot, At, chans
    <3>2. CASE snd'[t].free = snd[t].free /\ snd'[t].expect = snd[t].expect
      BY <1>1, <3>1, <3>2
    <3>3. CASE /\ snd[t].i \in Dedicated /\ Claimable(snd[t].i)
               /\ snd'[t].free = snd[t].i /\ snd'[t].expect = key[snd[t].i]
      <4>1. rh[snd[t].i] = rt[snd[t].i]
        BY <3>3 DEF Claimable, Orderly, KeyInv, Fresh
      <4>2. Together
        <5>1. dead \subseteq Mortal
          BY <1>0 DEF TypeOK
        <5> QED BY <3>3, <5>1 DEF Claimable, Orderly, Claims
      <4> QED BY <3>1, <3>3, <4>1, <4>2
    <3> QED BY <1>0, <2>1, <3>2, <3>3, Moves
  <2>2. CASE ResetSlot(t)
    BY <1>0, <1>1, <2>2, Moves DEF ResetSlot
  <2>3. CASE Kill(t)
    BY <1>1, <2>3 DEF Kill, chans
  <2>4. CASE ~(ScanSlot(t) \/ ResetSlot(t) \/ Kill(t))
    <3>1. snd'[t].pc \notin {"scan", "cas"} \/ snd'[t].free = NoSlot
      BY <1>0, <1>3, <2>4, Moves DEF SenderStep
    <3> QED BY <3>1
  <2> QED BY <2>1, <2>2, <2>3, <2>4
<1>4. CASE RecvBegin \/ OwnerStep
  <2>1. UNCHANGED <<snd, key, rt>>
    BY <1>4, OwnerTouches
  <2>2. snd[t].free \in Channels /\ rh[snd[t].free] = rt[snd[t].free] /\ Together
          /\ key[snd[t].free] = snd[t].expect
    BY <1>0, <2>1 DEF Orderly, Seen
  <2>3. rh'[snd[t].free] = rh[snd[t].free]
    BY <1>0, <1>4, <2>2, TakesOne, EmptyWhenEqual
  <2> QED BY <2>1, <2>2, <2>3
<1> QED BY <1>2, <1>3, <1>4 DEF Next

(* No ring overflows.                                                      *)
LEMMA AllFitStep ==
  ASSUME Orderly, Next, NEW i \in Channels
  PROVE  /\ \A v \in DOMAIN ring'[i] : ring'[i][v].cap \in Divisors
         /\ Count(i)' <= Ring(i)'.cap
<1>0. TypeOK /\ ring[i] \in Seq(Rings)
  BY RingHere DEF Orderly, KeyInv
<1>1. (\A v \in DOMAIN ring[i] : ring[i][v].cap \in Divisors)
        /\ Count(i) <= Ring(i).cap /\ Count(i) \in Nat /\ Ring(i).cap \in Nat
  BY RingHere DEF Orderly, AllFit
<1>2. ASSUME NEW s \in Senders, SendBegin(s) \/ SenderStep(s) \/ Kill(s)
      PROVE  /\ \A v \in DOMAIN ring'[i] : ring'[i][v].cap \in Divisors
             /\ Count(i)' <= Ring(i)'.cap
  <2>1. CASE WriteSlot(s)
    <3>1. /\ Kept(i) /\ Ring(i)'.cap = Ring(i).cap
          /\ DOMAIN ring'[i] = DOMAIN ring[i]
          /\ \A v \in DOMAIN ring[i] : ring'[i][v].cap = ring[i][v].cap
      BY <2>1, WriteKeeps
    <3> QED BY <1>1, <3>1 DEF Kept
  <2>2. CASE InstallRing(s)
    <3>1. Count(i)' <= Ring(i)'.cap
      BY <1>1, <2>2, InstallKeeps DEF Kept
    <3>2. CASE i # snd[s].c
      BY <1>1, <2>2, <3>1, <3>2, InstallKeeps
    <3>3. CASE i = snd[s].c
      <4>1. RingCopy(i, snd[s].ncap).cap \in Divisors
        <5>1. snd[s].ncap \in Divisors
          BY <2>2 DEF InstallRing, At, Orderly, Growing
        <5> QED BY <5>1 DEF RingCopy
      <4>2. /\ DOMAIN ring'[i] = DOMAIN ring[i] \cup {Len(ring[i]) + 1}
            /\ \A v \in DOMAIN ring[i] : ring'[i][v] = ring[i][v]
            /\ ring'[i][Len(ring[i]) + 1] = RingCopy(i, snd[s].ncap)
        BY <2>2, <3>3, InstallKeeps
      <4> QED BY <1>1, <3>1, <4>1, <4>2
    <3> QED BY <3>2, <3>3
  <2>3. CASE SwapRing(s)
    <3>1. ring' = ring /\ snd[s].pc = "swap"
      BY <2>3 DEF SwapRing, At
    <3>2. Count(i)' = Count(i)
            /\ Ring(i)' = IF i = snd[s].c THEN ring[i][Len(ring[i])] ELSE Ring(i)
      BY <2>3, SwapKeeps DEF Kept
    <3>3. i = snd[s].c => Count(i) <= ring[i][Len(ring[i])].cap
      BY <3>1 DEF Orderly, Copied, Holds
    <3> QED BY <1>1, <3>1, <3>2, <3>3
  <2>4. CASE PublishRt(s)
    <3>1. ring' = ring
      BY <2>4 DEF PublishRt
    <3>2. Ring(i)' = Ring(i) /\ Count(i)' <= Ring(i).cap
      BY <1>1, <2>4, PublishAdds DEF Kept
    <3> QED BY <1>1, <3>1, <3>2
  <2>5. CASE ResetSlot(s)
    <3>1. ring' = ring
      BY <2>5 DEF ResetSlot
    <3> QED BY <1>1, <2>5, <3>1, ResetKeeps DEF Kept
  <2>6. CASE ~(WriteSlot(s) \/ InstallRing(s) \/ SwapRing(s) \/ PublishRt(s) \/ ResetSlot(s))
    <3>1. UNCHANGED <<rh, rt, rv, ring>>
      BY <1>2, <2>6, SenderTouches
    <3>2. Kept(i) /\ Ring(i)' = Ring(i)
      BY <3>1, SameRing
    <3> QED BY <1>1, <3>1, <3>2 DEF Kept
  <2> QED BY <2>1, <2>2, <2>3, <2>4, <2>5, <2>6
<1>3. CASE RecvBegin \/ OwnerStep
  <2>1. /\ Ring(i)'.cap = Ring(i).cap /\ DOMAIN ring'[i] = DOMAIN ring[i]
        /\ \A v \in DOMAIN ring[i] : ring'[i][v].cap = ring[i][v].cap
    BY <1>3, TakesOne
  <2>2. Count(i)' = Count(i) \/ Count(i)' = Count(i) - 1
    BY <1>3, TakesOne, SameRing DEF Kept
  <2> QED BY <1>1, <2>1, <2>2
<1> QED BY <1>2, <1>3 DEF Next

(* The owner's progress on a ring somebody writes. *)
LEMMA LoadedStep ==
  ASSUME Orderly, Next
  PROVE  Loaded'
<1> SUFFICES ASSUME NEW t \in Senders, snd'[t].pc \in {"write", "publish"},
                    NEW c, c = snd'[t].c
             PROVE  snd'[t].t = rt'[c] /\ snd'[t].v = rv'[c] /\ Count(c)' < Ring(c)'.cap
  BY DEF Loaded, Shared
<1>0. TypeOK
  BY DEF Orderly, KeyInv
<1>1. ASSUME snd'[t] = snd[t]
      PROVE  /\ c \in Channels /\ Writing(t) /\ c = snd[t].c
             /\ snd[t].t = rt[c] /\ snd[t].v = rv[c] /\ Count(c) < Ring(c).cap
  BY <1>0, <1>1, SndFacts DEF Orderly, Loaded, Writing
<1>2. ASSUME NEW s \in Senders, SendBegin(s) \/ SenderStep(s) \/ Kill(s), t # s
      PROVE  snd'[t].t = rt'[c] /\ snd'[t].v = rv'[c] /\ Count(c)' < Ring(c)'.cap
  <2>1. snd'[t] = snd[t]
    BY <1>0, <1>2, SenderFrame
  <2>2. UNCHANGED <<rh[c], rt[c], rv[c], ring[c]>>
    BY <1>1, <1>2, <2>1, Untouched
  <2>3. Count(c)' = Count(c) /\ Ring(c)' = Ring(c)
    BY <2>2, SameRing DEF Kept
  <2> QED BY <1>1, <2>1, <2>2, <2>3
<1>3. CASE SendBegin(t) \/ SenderStep(t) \/ Kill(t)
  <2>1. CASE PushRoom(t)
    <3>1. UNCHANGED <<rh, rt, rv, ring>> /\ ~Full(snd[t].c)
      BY <2>1 DEF PushRoom, chans
    <3>2. snd'[t].t = rt[c] /\ snd'[t].v = rv[c] /\ c = snd[t].c
      BY <1>0, <2>1, Moves
    <3>3. c \in Channels
      BY <1>0, <3>2, SndFacts
    <3>4. Count(c) < Ring(c).cap
      <4>1. Count(c) \in Nat /\ Ring(c).cap \in Nat
        BY <3>3, RingHere
      <4> QED BY <3>1, <3>2, <4>1 DEF Full
    <3>5. Count(c)' = Count(c) /\ Ring(c)' = Ring(c)
      BY <3>1, SameRing DEF Kept
    <3> QED BY <3>1, <3>2, <3>4, <3>5
  <2>2. CASE WriteSlot(t)
    <3>1. UNCHANGED <<rt, rv>> /\ snd[t].pc = "write"
      BY <2>2 DEF WriteSlot, At
    <3>2. snd'[t].t = snd[t].t /\ snd'[t].v = snd[t].v /\ c = snd[t].c
      BY <1>0, <2>2, Moves
    <3>3. c \in Channels
      BY <1>0, <3>2, SndFacts
    <3>4. Count(c)' = Count(c) /\ Ring(c)'.cap = Ring(c).cap
      BY <2>2, <3>3, WriteKeeps DEF Kept
    <3> QED BY <3>1, <3>2, <3>4 DEF Orderly, Loaded
  <2>3. CASE Kill(t)
    <3>1. UNCHANGED <<snd, rh, rt, rv, ring>>
      BY <2>3 DEF Kill, chans
    <3>2. Count(c)' = Count(c) /\ Ring(c)' = Ring(c)
      BY <3>1, SameRing DEF Kept
    <3> QED BY <1>1, <3>1, <3>2
  <2>4. CASE ~(PushRoom(t) \/ WriteSlot(t) \/ Kill(t))
    BY <1>0, <1>3, <2>4, Moves DEF SenderStep
  <2> QED BY <2>1, <2>2, <2>3, <2>4
<1>4. CASE RecvBegin \/ OwnerStep
  <2>1. UNCHANGED <<snd, rt, rv>>
    BY <1>4, OwnerTouches
  <2>2. c \in Channels /\ Count(c) < Ring(c).cap
    BY <1>1, <2>1
  <2>3. Ring(c)'.cap = Ring(c).cap /\ (Count(c)' = Count(c) \/ Count(c)' = Count(c) - 1)
    BY <1>4, <2>2, TakesOne, SameRing DEF Kept
  <2>4. Count(c) \in Nat /\ Ring(c).cap \in Nat
    BY <2>2, RingHere
  <2> QED BY <1>1, <2>1, <2>2, <2>3, <2>4
<1> QED BY <1>2, <1>3, <1>4 DEF Next

(* Growth is by doubling, and re-checked under the lock.                   *)
LEMMA GrowingStep ==
  ASSUME Orderly, RingsDivide, Next
  PROVE  Growing'
<1> SUFFICES ASSUME NEW t \in Senders
             PROVE  /\ snd'[t].pc \in {"alloced", "grow", "install"} => snd'[t].ncap \in Divisors
                    /\ snd'[t].pc = "install" => \A c \in Channels : c = snd'[t].c =>
                         Ring(c)'.cap < snd'[t].ncap
  <2>1. TypeOK'
    BY TypeStep DEF Orderly, KeyInv
  <2>2. \A t \in Senders : snd'[t].c \in Channels
    BY <2>1 DEF TypeOK, SndTypes, SndRegs
  <2> QED BY <2>2 DEF Growing
<1>0. TypeOK /\ snd[t].c \in Channels
  BY SndFacts DEF Orderly, KeyInv
<1>2. ASSUME NEW s \in Senders, SendBegin(s) \/ SenderStep(s) \/ Kill(s), t # s
      PROVE  /\ snd'[t].pc \in {"alloced", "grow", "install"} => snd'[t].ncap \in Divisors
             /\ snd'[t].pc = "install" => \A c \in Channels : c = snd'[t].c =>
                  Ring(c)'.cap < snd'[t].ncap
  <2>1. snd'[t] = snd[t]
    BY <1>0, <1>2, SenderFrame
  <2>2. ASSUME snd[t].pc = "install", NEW c \in Channels, c = snd[t].c
        PROVE  Ring(c)' = Ring(c)
    <3>1. Writing(t)
      BY <2>2 DEF Writing
    <3>2. UNCHANGED <<rh[c], rt[c], rv[c], ring[c]>>
      BY <1>2, <2>2, <3>1, Untouched
    <3> QED BY <3>2, SameRing
  <2> QED BY <2>1, <2>2 DEF Orderly, Growing
<1>3. CASE SendBegin(t) \/ SenderStep(t) \/ Kill(t)
  <2>1. CASE PushFull(t)
    <3>1. CASE snd'[t].pc = "idle"
      BY <3>1
    <3>2. CASE /\ snd'[t].pc = "alloced" /\ snd'[t].c = snd[t].c
               /\ CanGrow(snd[t].c) /\ snd'[t].ncap = 2 * Ring(snd[t].c).cap
      <4>1. Ring(snd[t].c).cap \in Divisors
        BY <1>0, RingHere
      <4> QED BY <3>2, <4>1 DEF CanGrow, RingsDivide
    <3> QED BY <1>0, <2>1, <3>1, <3>2, Moves
  <2>2. CASE Resume(t)
    <3>1. \/ snd'[t].pc = "push"
          \/ snd[t].pc = "alloced" /\ snd'[t].pc = "grow" /\ snd'[t].ncap = snd[t].ncap
      BY <1>0, <2>2, Moves
    <3> QED BY <3>1 DEF Orderly, Growing
  <2>3. CASE GrowLock(t)
    <3>1. /\ snd[t].pc = "grow" /\ snd'[t].c = snd[t].c /\ snd'[t].ncap = snd[t].ncap
          /\ \/ snd'[t].pc = "push"
             \/ snd'[t].pc = "install" /\ ~(Ring(snd[t].c).cap >= snd[t].ncap)
      BY <1>0, <2>3, Moves
    <3>2. snd[t].ncap \in Divisors /\ Ring(snd[t].c).cap \in Nat
      BY <1>0, <3>1, RingHere DEF Orderly, Growing
    <3>3. \A c \in Channels : Ring(c)' = Ring(c)
      BY <2>3 DEF GrowLock, chans, Ring
    <3>4. snd[t].ncap \in Nat
      BY <3>2, DivisorFacts
    <3> QED BY <3>1, <3>2, <3>3, <3>4
  <2>4. CASE Kill(t)
    <3>1. \A c \in Channels : Ring(c)' = Ring(c)
      BY <2>4 DEF Kill, chans, Ring
    <3> QED BY <2>4, <3>1 DEF Kill, Orderly, Growing
  <2>5. CASE ~(PushFull(t) \/ Resume(t) \/ GrowLock(t) \/ Kill(t))
    <3>1. snd'[t].pc \notin {"alloced", "grow", "install"}
      BY <1>0, <1>3, <2>5, Moves DEF SenderStep
    <3> QED BY <3>1
  <2> QED BY <2>1, <2>2, <2>3, <2>4, <2>5
<1>4. CASE RecvBegin \/ OwnerStep
  BY <1>4, OwnerTouches, TakesOne DEF Orderly, Growing
<1> QED BY <1>2, <1>3, <1>4 DEF Next

(* Between the copy and the swap the owner may take, nobody may add.       *)
LEMMA CopiedStep ==
  ASSUME Orderly, Next
  PROVE  Copied'
<1> SUFFICES ASSUME NEW t \in Senders, snd'[t].pc = "swap", NEW c \in Channels, c = snd'[t].c
             PROVE  Holds(ring[c][Len(ring[c])], c)'
  <2>1. TypeOK'
    BY TypeStep DEF Orderly, KeyInv
  <2>2. \A t \in Senders : snd'[t].c \in Channels
    BY <2>1 DEF TypeOK, SndTypes, SndRegs
  <2> QED BY <2>2 DEF Copied
<1>0. TypeOK
  BY DEF Orderly, KeyInv
<1>1. ASSUME snd'[t] = snd[t], UNCHANGED <<rh[c], rt[c], rv[c], ring[c]>>
      PROVE  Holds(ring[c][Len(ring[c])], c)'
  <2>1. Holds(ring[c][Len(ring[c])], c)
    BY <1>1 DEF Orderly, Copied
  <2>2. Kept(c)
    BY <1>1, SameRing
  <2> QED BY <1>1, <2>1, <2>2 DEF Holds, Kept, Slot
<1>2. ASSUME NEW s \in Senders, SendBegin(s) \/ SenderStep(s) \/ Kill(s), t # s
      PROVE  Holds(ring[c][Len(ring[c])], c)'
  <2>1. snd'[t] = snd[t]
    BY <1>0, <1>2, SenderFrame
  <2>2. Writing(t)
    BY <2>1 DEF Writing
  <2> QED BY <1>1, <1>2, <2>1, <2>2, Untouched
<1>3. CASE SendBegin(t) \/ SenderStep(t) \/ Kill(t)
  <2>1. CASE InstallRing(t)
    <3>1. c = snd[t].c /\ snd[t].pc = "install"
      BY <1>0, <2>1, Moves
    <3>2. snd[t].ncap \in Divisors /\ Ring(c).cap < snd[t].ncap
      BY <3>1 DEF Orderly, Growing
    <3>3. Count(c) <= snd[t].ncap
      <4>1. Count(c) \in Nat /\ Ring(c).cap \in Nat /\ Count(c) <= Ring(c).cap
        BY RingHere
      <4> QED BY <3>2, <4>1, DivisorFacts
    <3>4. /\ Len(ring'[c]) = Len(ring[c]) + 1
          /\ ring'[c][Len(ring[c]) + 1] = RingCopy(c, snd[t].ncap) /\ Kept(c)
      BY <2>1, <3>1, InstallKeeps
    <3>5. RingCopy(c, snd[t].ncap).cap = snd[t].ncap
      BY DEF RingCopy
    <3>6. rh'[c] = rh[c]
      BY <2>1 DEF InstallRing
    <3>7. \A j \in 0 .. Count(c) - 1 :
            Slot(RingCopy(c, snd[t].ncap), (rh[c] + j) % CW) = Queued(c, j)
      BY <1>0, <3>2, <3>3, CopyKeeps
    <3>8. PICK new : new = RingCopy(c, snd[t].ncap)
      OBVIOUS
    <3>9. (ring[c][Len(ring[c])])' = new
      BY <3>4, <3>8
    <3>10. Holds(new, c)'
      BY <3>3, <3>4, <3>5, <3>6, <3>7, <3>8 DEF Holds, Kept, Slot
    <3> QED BY <3>9, <3>10 DEF Holds, Slot
  <2>2. CASE Kill(t)
    BY <1>1, <2>2 DEF Kill, chans
  <2>3. CASE ~(InstallRing(t) \/ Kill(t))
    BY <1>0, <1>3, <2>3, Moves DEF SenderStep
  <2> QED BY <2>1, <2>2, <2>3
<1>4. CASE RecvBegin \/ OwnerStep
  <2>1. snd'[t] = snd[t] /\ c = snd[t].c
    BY <1>4, OwnerTouches
  <2>2. ~TakeMid
    <3>1. lock = t /\ t # Idle
      BY <2>1 DEF Orderly, WriterInv, LockHeld, Locking
    <3> QED BY <3>1 DEF TakeMid
  <2>3. CASE UNCHANGED <<rh[c], rt[c], rv[c], ring[c]>>
    BY <1>1, <2>1, <2>3
  <2>4. CASE /\ Count(c) # 0 /\ Count(c)' = Count(c) - 1
             /\ rh'[c] = (rh[c] + 1) % CW /\ UNCHANGED <<rt[c], rv[c], ring[c]>>
    <3>1. PICK new : new = ring[c][Len(ring[c])] /\ new = ring'[c][Len(ring'[c])]
      BY <2>4
    <3>2. Holds(new, c)
      BY <2>1, <3>1 DEF Orderly, Copied
    <3>3. Count(c) \in Nat /\ CW \in Nat \ {0} /\ rh[c] \in 0 .. CW - 1 /\ Count(c) \in 0 .. CW - 1
      BY <1>0, Indices
    <3>4. ASSUME NEW j \in 0 .. Count(c)' - 1
          PROVE  Slot(new, (rh'[c] + j) % CW) = Queued(c, j)'
      <4>1. (((rh[c] + 1) % CW) + j) % CW = (rh[c] + (j + 1)) % CW
        <5>1. rh[c] + 1 \in Int /\ j \in Int /\ (rh[c] + 1) + j = rh[c] + (j + 1)
          BY <2>4, <3>3
        <5>2. (((rh[c] + 1) % CW) + j) % CW = ((rh[c] + 1) + j) % CW
          BY ONLY <3>3, <5>1, ModPlus
        <5> QED BY <5>1, <5>2
      <4>2. j + 1 \in 0 .. Count(c) - 1
        BY <2>4, <3>3
      <4>3. Slot(new, (rh[c] + (j + 1)) % CW) = Queued(c, j + 1)
        BY <3>2, <4>2 DEF Holds
      <4>4. Queued(c, j)' = Queued(c, j + 1)
        BY <2>4, <4>1 DEF Queued, Ring, Slot
      <4> QED BY <2>4, <4>1, <4>3, <4>4
    <3>5. new.cap \in Nat
      <4>1. ring[c] \in Seq(Rings) /\ rv[c] \in DOMAIN ring[c]
        BY RingHere
      <4>2. Len(ring[c]) \in DOMAIN ring[c]
        BY <4>1
      <4>3. ring[c][Len(ring[c])] \in Rings
        BY ONLY <4>1, <4>2
      <4>4. new \in Rings
        BY <3>1, <4>3
      <4> QED BY <4>4, RingFields
    <3>6. Count(c)' <= new.cap
      BY <2>4, <3>2, <3>3, <3>5 DEF Holds
    <3>7. Holds(new, c)'
      BY <3>4, <3>6 DEF Holds, Slot
    <3> QED BY <3>1, <3>7 DEF Holds, Slot
  <2> QED BY <1>4, <2>2, <2>3, <2>4, TakesOne
<1> QED BY <1>2, <1>3, <1>4 DEF Next

(* Only the owner takes messages off.                                      *)
LEMMA TakingStep ==
  ASSUME Orderly, Next
  PROVE  Taking'
<1>0. TypeOK /\ rcv \in RcvRegs /\ rcv.c \in Channels
  BY DEF Orderly, KeyInv, TypeOK, RcvTypes, RcvRegs
<1>1. ASSUME NEW s \in Senders, SendBegin(s) \/ SenderStep(s) \/ Kill(s) PROVE Taking'
  <2>1. UNCHANGED rcv
    BY <1>1, SenderTouches
  <2>2. ASSUME NEW c \in Channels, Count(c) # 0 PROVE Count(c)' # 0
    <3>1. CASE PublishRt(s)
      <4>1. Count(c) \in Nat
        BY RingHere
      <4> QED BY <2>2, <3>1, <4>1, PublishAdds DEF Kept
    <3>2. CASE ResetSlot(s)
      BY <2>2, <3>2, ResetKeeps DEF Kept
    <3>3. CASE ~(PublishRt(s) \/ ResetSlot(s))
      <4>1. UNCHANGED <<rh, rt>>
        BY <1>1, <3>3, SenderTouches
      <4> QED BY <2>2, <4>1 DEF Count
    <3> QED BY <3>1, <3>2, <3>3
  <2>3. ASSUME NEW c \in Channels, c = rcv.c, rcv.pc \in {"take", "advance"} PROVE Count(c)' # 0
    BY <2>2, <2>3 DEF Orderly, Taking
  <2> QED BY <1>0, <2>1, <2>3 DEF Taking
<1>2. CASE RecvBegin \/ OwnerStep
  <2> SUFFICES ASSUME rcv'.pc \in {"take", "advance"}, NEW c \in Channels, c = rcv'.c
               PROVE  Count(c)' # 0
    <3>1. rcv'.c \in Channels
      <4>1. TypeOK'
        BY <1>0, <1>2, TypeStep DEF Next
      <4> QED BY <4>1 DEF TypeOK, RcvTypes, RcvRegs
    <3> QED BY <3>1 DEF Taking
  <2>1. UNCHANGED <<rh, rt>>
    <3>1. ~(AdvanceRh \/ TakeMid)
      <4>1. AdvanceRh \/ TakeMid => rcv' = RcvIdle
        BY DEF AdvanceRh, TakeMid
      <4>2. RcvIdle.pc = "idle"
        BY DEF RcvIdle
      <4> QED BY <4>1, <4>2
    <3> QED BY <1>2, <3>1, OwnerTouches
  <2>2. Count(c) # 0
    <3>1. Count(c) \in Nat /\ \A W : Hits(c, W) # {} => Count(c) # 0
      <4>1. Count(c) \in Nat
        BY RingHere
      <4> QED BY <4>1 DEF Hits
    <3>2. CASE ScanAny
      <4>1. c = Cursor /\ Count(Cursor) # 0
        BY <1>0, <3>2 DEF ScanAny, Take, NextSlot, RAt, RcvRegs
      <4> QED BY <4>1
    <3>3. CASE ScanRes
      <4>1. c = Cursor /\ Hits(Cursor, Results) # {}
        BY <1>0, <3>3 DEF ScanRes, Take, NextSlot, RAt, RcvRegs
      <4> QED BY <3>1, <4>1
    <3>4. CASE CountFrom
      <4>1. c = rcv.c /\ Count(rcv.c) # 0
        BY <1>0, <3>4 DEF CountFrom, Take, RAt, RcvRegs
      <4> QED BY <4>1
    <3>5. CASE ScanShared
      <4>1. c = SHIDX /\ Hits(SHIDX, MsgsOf(rcv.from)) # {}
        BY <1>0, <3>5 DEF ScanShared, Take, RAt, RcvRegs
      <4> QED BY <3>1, <4>1
    <3>6. CASE TakeHead
      <4>1. c = rcv.c /\ rcv.pc = "take"
        BY <1>0, <3>6 DEF TakeHead, RAt, RcvRegs
      <4> QED BY <4>1 DEF Orderly, Taking
    <3>7. CASE RecvBegin \/ AdvanceRh \/ TakeMid
      <4>1. RecvBegin => rcv'.pc = "scan"
        BY <1>0, OwnerMoves
      <4>2. AdvanceRh \/ TakeMid => rcv' = RcvIdle
        BY DEF AdvanceRh, TakeMid
      <4>3. RcvIdle.pc = "idle"
        BY DEF RcvIdle
      <4> QED BY <3>7, <4>1, <4>2, <4>3
    <3>8. CASE ScanFrom \/ BlockCas \/ Rescan \/ Park \/ Unpark
      BY <1>0, <3>8 DEF ScanFrom, BlockCas, Rescan, Park, Unpark, NextSlot, RAt, RcvRegs
    <3> QED BY <1>2, <3>2, <3>3, <3>4, <3>5, <3>6, <3>7, <3>8 DEF OwnerStep
  <2> QED BY <2>1, <2>2 DEF Count
<1> QED BY <1>1, <1>2 DEF Next

(* The initial state is orderly. *)
LEMMA OrderlyInit == Calm /\ Init => Orderly
<1> SUFFICES ASSUME Calm, Init PROVE Orderly
  OBVIOUS
<1>1. KeyInv /\ WriterInv /\ TypeOK
  BY KeyInit, WriterInit DEF KeyInv
<1>2. \A s \in Senders : snd[s].pc = "idle"
  BY DEF Init, SndIdle
<1>3. rcv.pc = "idle"
  BY DEF Init, RcvIdle
<1>4. Seen /\ Loaded /\ Growing /\ Copied /\ Taking
  BY <1>2, <1>3 DEF Seen, Loaded, Growing, Copied, Taking
<1>5. Claims
  <2>1. CASE Together
    BY <2>1 DEF Claims
  <2>2. CASE Settled
    BY <2>2, ChannelSets DEF Claims, Settled, Init
  <2> QED BY <2>1, <2>2 DEF Calm
<1>6. ASSUME NEW i \in Channels
      PROVE  (\A v \in DOMAIN ring[i] : ring[i][v].cap \in Divisors) /\ Count(i) <= Ring(i).cap
  <2>1. rv[i] = 1 /\ ring[i] = <<Blank(Cap0)>> /\ rh[i] = rt[i]
    BY DEF Init
  <2>2. Count(i) = 0
    BY <1>1, <2>1, EmptyWhenEqual
  <2>3. Blank(Cap0).cap = Cap0 /\ Cap0 \in Divisors
    BY DEF Blank, Calm, RingsDivide
  <2>4. Cap0 \in Nat
    BY <2>3, DivisorFacts
  <2>5. Ring(i) = Blank(Cap0) /\ \A v \in DOMAIN ring[i] : ring[i][v] = Blank(Cap0)
    BY <2>1 DEF Ring
  <2> QED BY <2>2, <2>3, <2>4, <2>5
<1>7. AllFit
  BY <1>6 DEF AllFit
<1> QED BY <1>1, <1>4, <1>5, <1>7 DEF Orderly

(* Every step keeps it so. *)
LEMMA OrderlyStep ==
  ASSUME Calm, Orderly, [Next]_vars
  PROVE  Orderly'
<1>1. KillIsLocal /\ RingsDivide
  BY CalmKills DEF Calm
<1>2. WriterInv'
  BY <1>1, WriterStep DEF Orderly
<1>3. CASE Next
  <2>1. KeyInv'
    BY <1>3, KeyInvStep DEF Orderly
  <2>2. AllFit'
    BY <1>3, AllFitStep DEF AllFit
  <2> QED
    BY <1>1, <1>2, <1>3, <2>1, <2>2, ClaimsStep, SeenStep, LoadedStep, GrowingStep,
       CopiedStep, TakingStep DEF Orderly
<1>4. CASE UNCHANGED vars
  <2>1. UNCHANGED <<key, rh, rt, rv, ring, snd, rcv, on>>
    BY <1>4 DEF vars
  <2>2. \A i : Count(i)' = Count(i) /\ Ring(i)' = Ring(i)
    BY <2>1 DEF Count, Ring
  <2>3. KeyInv'
    <3>1. TypeOK'
      BY <1>2 DEF WriterInv
    <3> QED
      BY <2>1, <3>1 DEF Orderly, KeyInv, OnHart, Running, Fresh, Named, Asked
  <2>4. AllFit' /\ Loaded' /\ Growing' /\ Taking'
    BY <2>1, <2>2 DEF Orderly, AllFit, Loaded, Growing, Taking
  <2>5. Claims' /\ Seen'
    BY <2>1 DEF Orderly, Claims, Seen
  <2>6. Copied'
    BY <2>1 DEF Orderly, Copied, Holds, Count, Queued, Ring, Slot
  <2> QED BY <1>2, <2>3, <2>4, <2>5, <2>6 DEF Orderly
<1> QED BY <1>3, <1>4

----------------------------------------------------------------------------
(* The handshake.  What the owner's look at the channels passed over, while *)
(* its status word says BLOCKED, is about to be answered with a wake.      *)
Waking == \E s \in Senders : snd[s].pc = "wake" /\ Running(s)
Noticed ==
  status = "BLOCKED" /\ rcv.pc \in {"pred", "parked"} =>
    \A i \in Channels : i < rcv.n /\ PredHolds(i) => Waking

(* A queue that keeps its messages keeps its hits. *)
LEMMA KeptHits ==
  ASSUME NEW i, Kept(i), NEW W
  PROVE  Hits(i, W)' = Hits(i, W)
BY DEF Kept, Hits

(* A hit is a message.                                                     *)
LEMMA HitsCount ==
  ASSUME TypeOK, NEW i \in Channels, NEW W, Hits(i, W) # {}
  PROVE  Count(i) # 0
<1>1. Count(i) \in Nat
  BY Indices
<1> QED BY <1>1 DEF Hits

(* A channel with messages on it has a key. *)
LEMMA QueuedNamed ==
  ASSUME KeyInv, NEW i \in Channels, Count(i) # 0
  PROVE  key[i] # NoKey
<1>1. rh[i] # rt[i]
  BY EmptyWhenEqual DEF KeyInv
<1> QED BY <1>1, ChannelSets DEF KeyInv, Fresh, Named

(* What the wake is about is made true by the store of rt and by no other  *)
(* step of a sender: plain receive ...                                     *)
LEMMA OnlyPublishAny ==
  ASSUME KeyInv, rcv.kind = "any",
         NEW s \in Senders, SendBegin(s) \/ SenderStep(s) \/ Kill(s), ~PublishRt(s),
         NEW i \in Channels, PredHolds(i)'
  PROVE  PredHolds(i)
<1>1. TypeOK /\ UNCHANGED rcv /\ key'[i] # NoKey /\ Count(i)' # 0
  BY SenderTouches DEF KeyInv, PredHolds
<1>2. UNCHANGED <<rh[i], rt[i]>>
  <2>1. CASE ResetSlot(s)
    <3>1. snd[s].free \in Dedicated
      BY <1>1, <2>1, Moves
    <3>2. rh \in [Channels -> 0 .. CW - 1] /\ rt \in [Channels -> 0 .. CW - 1]
      BY <1>1 DEF TypeOK, ChanTypes
    <3>3. ASSUME rh'[i] = 0, rt'[i] = 0 PROVE FALSE
      <4>1. rt'[i] - rh'[i] = 0 /\ CW \in Nat \ {0} /\ CW * 0 + 0 = 0
        BY <1>1, <3>3, Indices
      <4>2. (CW * 0 + 0) % CW = 0
        BY ONLY <4>1, DivModU
      <4>3. Count(i)' = 0
        BY <4>1, <4>2 DEF Count
      <4> QED BY <1>1, <4>3
    <3> QED BY <2>1, <3>2, <3>3 DEF ResetSlot
  <2> QED BY <2>1, SenderTouches
<1>3. Count(i) # 0
  BY <1>1, <1>2 DEF Count
<1> QED BY <1>3, QueuedNamed DEF PredHolds

(* ... and, where it is orderly, the receives that look further.           *)
LEMMA OnlyPublish ==
  ASSUME Orderly,
         NEW s \in Senders, SendBegin(s) \/ SenderStep(s) \/ Kill(s), ~PublishRt(s),
         NEW i \in Channels, PredHolds(i)'
  PROVE  PredHolds(i)
<1>1. TypeOK /\ KeyInv /\ UNCHANGED rcv
  BY SenderTouches DEF Orderly, KeyInv
<1>2. Kept(i)
  <2>1. CASE ResetSlot(s) \/ WriteSlot(s) \/ InstallRing(s) \/ SwapRing(s)
    BY <2>1, ResetKeeps, WriteKeeps, InstallKeeps, SwapKeeps
  <2>2. CASE ~(ResetSlot(s) \/ WriteSlot(s) \/ InstallRing(s) \/ SwapRing(s))
    <3>1. UNCHANGED <<rh, rt, rv, ring>>
      BY <2>2, SenderTouches
    <3> QED BY <3>1, SameRing
  <2> QED BY <2>1, <2>2
<1>3. Count(i)' = Count(i) /\ \A W : Hits(i, W)' = Hits(i, W)
  BY <1>2, KeptHits DEF Kept
<1>4. Hits(i, Results)' = Hits(i, Results)
        /\ Hits(i, MsgsOf(rcv.from))' = Hits(i, MsgsOf(rcv.from))
  <2>1. MsgsOf(rcv.from)' = MsgsOf(rcv.from)
    BY <1>1 DEF MsgsOf
  <2> QED BY <1>3, <2>1
<1>5. Count(i) # 0 => key[i] # NoKey
  BY <1>1, QueuedNamed
<1>6. Count(i) # 0 => key'[i] = key[i]
  <2>1. CASE CasSlot(s)
    <3>1. snd[s].pc = "cas" /\ snd[s].free \in Dedicated /\ snd[s].free # NoSlot
      <4>1. snd[s].pc = "cas" /\ snd[s].free \in Dedicated
        BY <1>1, <2>1, Moves
      <4> QED BY <1>1, <4>1 DEF TypeOK, SndTypes
    <3>2. rh[snd[s].free] = rt[snd[s].free]
      BY <3>1 DEF Orderly, Seen
    <3>3. Count(i) # 0 => i # snd[s].free
      BY <1>1, <3>2, EmptyWhenEqual
    <3>4. key \in [Channels -> Keys]
      BY <1>1 DEF TypeOK, ChanTypes
    <3> QED BY <2>1, <3>3, <3>4 DEF CasSlot
  <2> QED BY <2>1, SenderTouches
<1>7. \A W : Hits(i, W) # {} => Count(i) # 0
  BY <1>1, HitsCount
<1>8. rcv.kind \in {"any", "res", "from"}
  BY <1>1 DEF TypeOK, RcvTypes, RcvRegs
<1>9. CASE rcv.kind = "any"
  BY <1>1, <1>3, <1>5, <1>9 DEF PredHolds
<1>10. CASE rcv.kind = "res"
  BY <1>1, <1>4, <1>5, <1>7, <1>10 DEF PredHolds
<1>11. CASE rcv.kind = "from"
  <2>1. CASE i = SHIDX
    BY <1>1, <1>4, <1>11, <2>1 DEF PredHolds
  <2>2. CASE i # SHIDX
    BY <1>1, <1>3, <1>6, <1>11, <2>2 DEF PredHolds
  <2> QED BY <2>1, <2>2
<1> QED BY <1>8, <1>9, <1>10, <1>11

(* Whoever is about to wake goes on being about to, until it does.         *)
LEMMA WakingStays ==
  ASSUME TypeOK, Waking,
         \/ RecvBegin \/ OwnerStep
         \/ \E s \in Senders : (SendBegin(s) \/ SenderStep(s) \/ Kill(s)) /\ ~WakeOwner(s)
  PROVE  Waking'
<1>1. PICK t \in Senders : snd[t].pc = "wake" /\ Running(t)
  BY DEF Waking
<1>2. CASE RecvBegin \/ OwnerStep
  BY <1>1, <1>2, OwnerTouches, SendersStay DEF Waking
<1>3. ASSUME NEW s \in Senders, SendBegin(s) \/ SenderStep(s) \/ Kill(s), ~WakeOwner(s)
      PROVE  Waking'
  <2>1. CASE s # t
    <3>1. snd'[t] = snd[t]
      BY <1>3, <2>1, SenderFrame
    <3>2. Running(t)'
      BY <1>1, <1>3, <2>1, OthersStay
    <3> QED BY <1>1, <3>1, <3>2 DEF Waking
  <2>2. CASE Kill(s)
    BY <1>1, <2>2 DEF Kill, Waking, Running
  <2>3. CASE s = t /\ ~Kill(s)
    <3>1. ~SendBegin(s) /\ ~MemDenied(s)
      BY <1>1, <2>3 DEF SendBegin, MemDenied
    <3> QED BY <1>1, <1>3, <2>3, <3>1, Moves DEF SenderStep
  <2> QED BY <2>1, <2>2, <2>3
<1> QED BY <1>2, <1>3

(* No step hides from the owner what it waits for.                         *)
LEMMA NoticedStep ==
  ASSUME KeyInv, Noticed, rcv.kind = "any" \/ Orderly, Next
  PROVE  Noticed'
<1> SUFFICES ASSUME status' = "BLOCKED", rcv'.pc \in {"pred", "parked"},
                    NEW i \in Channels, i < rcv'.n, PredHolds(i)'
             PROVE  Waking'
  BY DEF Noticed
<1>0. TypeOK /\ rcv \in RcvRegs
  BY DEF KeyInv, TypeOK, RcvTypes
<1>1. ASSUME NEW s \in Senders, SendBegin(s) \/ SenderStep(s) \/ Kill(s) PROVE Waking'
  <2>1. CASE PublishRt(s)
    <3>1. snd'[s].pc = "wake"
      BY <1>0, <2>1, Moves
    <3>2. Running(s)'
      BY <2>1 DEF PublishRt, At, Running
    <3> QED BY <3>1, <3>2 DEF Waking
  <2>2. CASE WakeOwner(s)
    BY <1>0, <2>2 DEF WakeOwner
  <2>3. CASE ~PublishRt(s) /\ ~WakeOwner(s)
    <3>1. UNCHANGED <<rcv, status>>
      BY <1>1, <2>3, SenderTouches
    <3>2. PredHolds(i)
      BY <1>1, <2>3, OnlyPublish, OnlyPublishAny
    <3>3. Waking
      BY <3>1, <3>2 DEF Noticed
    <3> QED BY <1>0, <1>1, <2>3, <3>3, WakingStays
  <2> QED BY <2>1, <2>2, <2>3
<1>2. CASE RecvBegin \/ OwnerStep
  <2>1. CASE BlockCas
    <3>1. rcv'.n = 0
      BY <1>0, <2>1 DEF BlockCas, RcvRegs
    <3> QED BY <3>1 DEF Channels
  <2>2. CASE Rescan
    <3>1. ~PredHolds(rcv.n) /\ rcv' = [rcv EXCEPT !.n = @ + 1] /\ UNCHANGED <<status, key, rh, rt, rv, ring>>
      BY <2>2 DEF Rescan, NextSlot, sends
    <3>2. rcv'.n = rcv.n + 1 /\ rcv.kind = rcv'.kind /\ rcv.from = rcv'.from
            /\ rcv.pc = rcv'.pc /\ rcv.n \in Nat
      BY <1>0, <3>1 DEF RcvRegs, MAXSND
    <3>3. PredHolds(i)
      BY <3>1, <3>2 DEF PredHolds, Count, Hits, Queued, Ring, Slot
    <3>4. i < rcv.n
      BY <3>1, <3>2, <3>3 DEF Channels
    <3>5. Waking
      BY <3>1, <3>2, <3>3, <3>4 DEF Noticed
    <3> QED BY <1>0, <1>2, <3>5, WakingStays
  <2>3. CASE Park
    <3>1. rcv' = [rcv EXCEPT !.pc = "parked"] /\ UNCHANGED <<status, key, rh, rt, rv, ring>>
            /\ rcv.pc = "pred"
      BY <2>3 DEF Park, sends, RAt
    <3>2. rcv'.n = rcv.n /\ rcv.kind = rcv'.kind /\ rcv.from = rcv'.from
      BY <1>0, <3>1 DEF RcvRegs
    <3>3. PredHolds(i)
      BY <3>1, <3>2 DEF PredHolds, Count, Hits, Queued, Ring, Slot
    <3>5. Waking
      BY <3>1, <3>2, <3>3 DEF Noticed
    <3> QED BY <1>0, <1>2, <3>5, WakingStays
  <2>4. CASE AdvanceRh \/ TakeMid
    <3>1. rcv' = RcvIdle
      BY <2>4 DEF AdvanceRh, TakeMid
    <3> QED BY <3>1 DEF RcvIdle
  <2>5. CASE RecvBegin \/ ScanAny \/ ScanRes \/ ScanFrom \/ CountFrom \/ ScanShared
               \/ TakeHead \/ Unpark
    BY <1>0, <2>5 DEF RecvBegin, ScanAny, ScanRes, ScanFrom, CountFrom, ScanShared,
       TakeHead, Unpark, Take, NextSlot, RAt, RcvRegs, RcvIdle
  <2> QED BY <1>2, <2>1, <2>2, <2>3, <2>4, <2>5 DEF OwnerStep
<1> QED BY <1>1, <1>2 DEF Next

(* No wakeup is lost: an owner that parked while what it waits for is      *)
(* queued is about to be woken (block_unless against wake).  For plain     *)
(* receive, whatever the senders are and wherever they run; for            *)
(* receiveFrom and receiveRes when the senders share a hart, or every      *)
(* slot has its sender and keeps it, and the capacities divide the         *)
(* counters' width.                                                        *)
THEOREM NoWakeupLost == Kinds \subseteq {"any"} \/ Calm => (Spec => []NoLostWakeup)
<1> SUFFICES ASSUME Kinds \subseteq {"any"} \/ Calm PROVE Spec => []NoLostWakeup
  OBVIOUS
<1> DEFINE WakeInv == KeyInv /\ (Calm => Orderly) /\ Noticed
<1>1. Init => WakeInv
  <2>1. Init => Noticed
    BY DEF Init, Noticed
  <2> QED BY <2>1, KeyInit, OrderlyInit
<1>2. WakeInv /\ [Next]_vars => WakeInv'
  <2> SUFFICES ASSUME WakeInv, [Next]_vars PROVE WakeInv'
    OBVIOUS
  <2>1. (Calm => Orderly)'
    BY OrderlyStep DEF Calm, Together, Settled, RingsDivide, Divisors
  <2>2. CASE Next
    <3>1. rcv.kind = "any" \/ Orderly
      BY DEF KeyInv, Asked
    <3> QED BY <2>1, <2>2, <3>1, KeyInvStep, NoticedStep
  <2>3. CASE UNCHANGED vars
    <3>1. KeyInv'
      <4>1. UNCHANGED <<key, rh, rt, snd, rcv, on>>
        BY <2>3 DEF vars
      <4>2. TypeOK'
        BY <2>3 DEF KeyInv, TypeOK, ChanTypes, SndTypes, RcvTypes, vars
      <4> QED BY <4>1, <4>2 DEF KeyInv, OnHart, Running, Fresh, Named, Asked
    <3>2. Noticed'
      BY <2>3 DEF vars, Noticed, Waking, Running, PredHolds, Count, Hits, Queued, Ring, Slot
    <3> QED BY <2>1, <3>1, <3>2
  <2> QED BY <2>2, <2>3
<1>3. WakeInv => NoLostWakeup
  <2> SUFFICES ASSUME WakeInv, rcv.pc = "parked", status = "BLOCKED",
                      NEW i \in Channels, PredHolds(i)
               PROVE  Waking
    BY DEF NoLostWakeup, Waking
  <2>1. rcv.n = MAXSND
    BY DEF KeyInv, Asked
  <2>2. i < MAXSND
    BY SizeAssumption DEF Channels, MAXSND
  <2> QED BY <2>1, <2>2 DEF Noticed
<1> QED BY <1>1, <1>2, <1>3, PTL DEF Spec
=============================================================================

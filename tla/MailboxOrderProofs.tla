------------------------- MODULE MailboxOrderProofs -------------------------
(***************************************************************************)
(* The contents of the rings, on the invariants of MailboxProofs: what is  *)
(* published is queued once or received once, and what a receive takes is  *)
(* what it asked for, the oldest of its sender.                            *)
(*                                                                         *)
(* Both need take_at to do what it says, which it does as long as the      *)
(* counters of a ring do not wrap between its head and the message that is *)
(* taken (Unwrapped; README, section 5, entry 7); a plain receive takes    *)
(* the head, and needs nothing.                                            *)
(***************************************************************************)
EXTENDS MailboxProofs, FiniteSetTheorems

USE KeysDistinct, PlacementAssumption

(* The positions of what is queued, from the head. *)
In(i) == 0 .. Count(i) - 1
Unwrapped == Kinds \subseteq {"any"} \/ \A i \in Channels : rh[i] <= rt[i]

(* What is queued was published; a sender's messages are in order in every *)
(* channel, and no message is in two places; what was received is queued   *)
(* no more, and nothing that was published is in neither place.            *)
Published == \A i \in Channels : \A j \in In(i) : Queued(i, j) \in pub
Sorted ==
  \A i \in Channels : \A j, k \in In(i) :
    j < k /\ Queued(i, j)[1] = Queued(i, k)[1] => Queued(i, j)[2] < Queued(i, k)[2]
Apart ==
  \A i, k \in Channels : i # k =>
    \A x \in In(i), y \in In(k) : Queued(i, x) # Queued(k, y)
GotOnce == \A a, b \in DOMAIN got : got[a] = got[b] => a = b
GotGone ==
  \A a \in DOMAIN got :
    got[a] \in pub /\ \A i \in Channels : \A j \in In(i) : got[a] # Queued(i, j)
NoneLost ==
  \A m \in pub : \/ \E a \in DOMAIN got : got[a] = m
                 \/ \E i \in Channels : \E j \in In(i) : Queued(i, j) = m
Stock == Published /\ Sorted /\ Apart /\ GotOnce /\ GotGone /\ NoneLost

(* A sender's messages are numbered in the order it publishes them.        *)
Numbered ==
  \A m \in pub : m[2] <= nth[m[1]] \/ (m[2] = nth[m[1]] + 1 /\ snd[m[1]].pc = "wake")
(* Between the store into the slot and the store of rt the message waits   *)
(* at rt.                                                                  *)
Written ==
  \A s \in Senders : snd[s].pc = "publish" =>
    Slot(Ring(snd[s].c), rt[snd[s].c]) = ThisMsg(s)
Off == (rcv.k - rh[rcv.c]) % CW
Chosen ==
  /\ rcv.pc = "take" => Off < Count(rcv.c) /\ (rcv.kind = "any" => Off = 0)
  /\ rcv.pc = "advance" => rcv.m = Queued(rcv.c, 0)
Stocked == Stock /\ Numbered /\ Written /\ Chosen

Owned == \A i \in Dedicated : \A j \in In(i) : Queued(i, j)[1] = key[i]
OwnKeys ==
  \A s \in Senders :
    /\ \A i, k \in Dedicated : key[i] = s /\ key[k] = s => i = k
    /\ snd[s].pc = "scan" =>
         \A i \in Dedicated : i < snd[s].i =>
           key[i] # s /\ (snd[s].free = NoSlot => key[i] # NoKey)
    /\ snd[s].pc = "cas" => \A i \in Dedicated : key[i] # s
Sharing(s) ==
  \/ snd[s].pc \in SndPcs \ {"idle", "scan", "cas", "wake"} /\ Shared(s)
  \/ \E j \in In(SHIDX) : Queued(SHIDX, j)[1] = s
Homes == \A s \in Senders : Sharing(s) => \A i \in Dedicated : key[i] \notin {NoKey, s}
(* What the owner picked: the first that it asked for.                     *)
Pick(c, x) ==
  /\ rcv.kind = "res" => /\ Queued(c, x) \in Results
                         /\ \A j \in 0 .. x - 1 : Queued(c, j) \notin Results
  /\ rcv.kind = "from" => /\ Queued(c, x)[1] = rcv.from
                          /\ \A j \in 0 .. x - 1 : Queued(c, j)[1] # rcv.from
Picked ==
  /\ rcv.pc = "count" => rcv.kind = "from" /\ rcv.c \in Dedicated /\ key[rcv.c] = rcv.from
  /\ rcv.pc = "take" => Pick(rcv.c, Off)
  /\ rcv.pc = "advance" => Pick(rcv.c, 0)

----------------------------------------------------------------------------
(* How far past rh a position lies. *)
LEMMA OffsetBack ==
  ASSUME NEW n \in Nat \ {0}, NEW a \in 0 .. n - 1, NEW x \in 0 .. n - 1
  PROVE  (((a + x) % n) - a) % n = x
<1>1. a + x \in Int /\ a \in Int /\ x \in Int
  OBVIOUS
<1>2. PICK q \in Int, r \in 0 .. n - 1 : a + x = n * q + r /\ (a + x) % n = r
  BY <1>1, DivMod
<1>3. -q \in Int /\ n * (-q) + x = r - a
  BY <1>1, <1>2
<1>4. (n * (-q) + x) % n = x
  BY ONLY n \in Nat \ {0}, x \in 0 .. n - 1, <1>3, DivModU
<1> QED BY <1>2, <1>3, <1>4

(* ... and back. *)
LEMMA OffsetForth ==
  ASSUME NEW n \in Nat \ {0}, NEW a \in 0 .. n - 1, NEW k \in 0 .. n - 1
  PROVE  (a + ((k - a) % n)) % n = k /\ (k - a) % n \in 0 .. n - 1
<1>1. k - a \in Int /\ a \in Int /\ k \in Int
  OBVIOUS
<1>2. PICK q \in Int, r \in 0 .. n - 1 : k - a = n * q + r /\ (k - a) % n = r
  BY <1>1, DivMod
<1>3. -q \in Int /\ n * (-q) + k = a + r
  BY <1>1, <1>2
<1>4. (n * (-q) + k) % n = k
  BY ONLY n \in Nat \ {0}, k \in 0 .. n - 1, <1>3, DivModU
<1> QED BY <1>2, <1>3, <1>4

(* The offset of what the owner is about to take. *)
LEMMA OffFacts ==
  ASSUME TypeOK
  PROVE  /\ rcv.c \in Channels /\ Off \in 0 .. CW - 1
         /\ (rh[rcv.c] + Off) % CW = rcv.k
<1>1. rcv.c \in Channels /\ rcv.k \in 0 .. CW - 1
  BY DEF TypeOK, RcvTypes, RcvRegs
<1>2. CW \in Nat \ {0} /\ rh[rcv.c] \in 0 .. CW - 1
  BY <1>1, Indices
<1>3. (rh[rcv.c] + ((rcv.k - rh[rcv.c]) % CW)) % CW = rcv.k
        /\ (rcv.k - rh[rcv.c]) % CW \in 0 .. CW - 1
  BY ONLY <1>1, <1>2, OffsetForth
<1> QED BY <1>1, <1>3 DEF Off

(* Without a wrap in the part in use, counters are plain numbers. *)
LEMMA Plain ==
  ASSUME TypeOK, NEW i \in Channels, rh[i] <= rt[i]
  PROVE  /\ Count(i) = rt[i] - rh[i]
         /\ \A j \in 0 .. Count(i) - 1 : rh[i] + j < CW /\ (rh[i] + j) % CW = rh[i] + j
<1>1. CW \in Nat \ {0} /\ rh[i] \in 0 .. CW - 1 /\ rt[i] \in 0 .. CW - 1
  BY Indices
<1>2. \A x \in 0 .. CW - 1 : x % CW = x
  <2> SUFFICES ASSUME NEW x \in 0 .. CW - 1 PROVE x % CW = x
    OBVIOUS
  <2>1. (CW * 0 + x) % CW = x
    <3>1. 0 \in Int
      OBVIOUS
    <3> QED BY ONLY <1>1, <3>1, x \in 0 .. CW - 1, DivModU
  <2>2. CW * 0 + x = x
    BY <1>1
  <2> QED BY <2>1, <2>2
<1>3. Count(i) = rt[i] - rh[i]
  <2>1. rt[i] - rh[i] \in 0 .. CW - 1
    BY <1>1
  <2> QED BY <1>2, <2>1 DEF Count
<1>4. ASSUME NEW j \in 0 .. Count(i) - 1
      PROVE  rh[i] + j < CW /\ (rh[i] + j) % CW = rh[i] + j
  <2>1. rh[i] + j \in 0 .. CW - 1
    BY <1>1, <1>3
  <2> QED BY <1>1, <1>2, <2>1
<1> QED BY <1>3, <1>4

(* take_at's shift of the head side, where the counters do not wrap: the   *)
(* message at x is gone and the others keep their order.                   *)
LEMMA ShiftRemoves ==
  ASSUME Orderly, NEW c \in Channels, rh[c] <= rt[c], NEW x \in In(c),
         NEW rg, rg = Shifted(Ring(c), rh[c], rh[c] + x),
         NEW j \in 0 .. Count(c) - 2
  PROVE  Slot(rg, rh[c] + 1 + j) = Queued(c, IF j < x THEN j ELSE j + 1)
<1> DEFINE h == rh[c]
           cap == Ring(c).cap
           p == (h + 1 + j) % cap
           js == {y \in h + 1 .. h + x : y % cap = p}
<1>1. TypeOK /\ Count(c) \in Nat /\ cap \in Nat \ {0} /\ Count(c) <= cap /\ h \in Nat
  <2>1. TypeOK
    BY DEF Orderly, KeyInv
  <2> QED BY <2>1, RingHere, Indices
<1>2. x \in 0 .. Count(c) - 1 /\ h + 1 + j \in Nat /\ j \in Nat /\ x \in Nat
  BY <1>1 DEF In
<1>3. p \in 0 .. cap - 1
  <2>1. h + 1 + j \in Int
    BY <1>2
  <2> QED BY ONLY <1>1, <2>1, ModRange
<1>4. rg.cap = cap /\ rg.slot[p] = IF js = {} THEN Ring(c).slot[p]
                                   ELSE Slot(Ring(c), (CHOOSE y \in js : TRUE) - 1)
  BY <1>3 DEF Shifted
<1>5. ASSUME NEW y \in h + 1 .. h + x, y # h + 1 + j PROVE y % cap # p
  <2>1. y \in Int /\ h + 1 + j \in Int /\ y < h + 1 + j + cap /\ h + 1 + j < y + cap
    BY <1>1, <1>2
  <2>2. CASE y < h + 1 + j
    BY ONLY <1>1, <2>1, <2>2, ModApart
  <2>3. CASE h + 1 + j < y
    BY ONLY <1>1, <2>1, <2>3, ModApart
  <2> QED BY <1>5, <2>1, <2>2, <2>3
<1>6. CASE j < x
  <2>1. h + 1 + j \in h + 1 .. h + x
    BY <1>1, <1>2, <1>6
  <2>2. js = {h + 1 + j}
    BY <1>5, <2>1
  <2>3. (CHOOSE y \in js : TRUE) = h + 1 + j
    BY <2>2
  <2>4. (h + 1 + j) - 1 = h + j /\ j \in 0 .. Count(c) - 1
    BY <1>1, <1>2
  <2>5. Slot(rg, h + 1 + j) = Slot(Ring(c), h + j)
    BY <1>4, <2>2, <2>3, <2>4 DEF Slot
  <2>6. (h + j) % CW = h + j
    BY <1>1, <2>4, Plain
  <2> QED BY <1>6, <2>5, <2>6 DEF Queued
<1>7. CASE ~(j < x)
  <2>1. h + 1 + j \notin h + 1 .. h + x
    BY <1>1, <1>2, <1>7
  <2>2. js = {}
    BY <1>5, <2>1
  <2>3. Slot(rg, h + 1 + j) = Slot(Ring(c), h + 1 + j)
    BY <1>4, <2>2 DEF Slot
  <2>4. j + 1 \in 0 .. Count(c) - 1 /\ h + 1 + j = h + (j + 1)
    BY <1>1, <1>2
  <2>5. (h + (j + 1)) % CW = h + (j + 1)
    BY <1>1, <2>4, Plain
  <2> QED BY <1>7, <2>3, <2>4, <2>5 DEF Queued
<1> QED BY <1>6, <1>7

(* Where in its channel the message lies that a receive takes off. *)
Spot == IF rcv.pc = "advance" THEN 0 ELSE Off

(* A receive takes one message off one channel and leaves the others of it *)
(* in their order, and the other channels as they are.                     *)
LEMMA TakeEffect ==
  ASSUME Orderly, Chosen, Unwrapped, AdvanceRh \/ TakeMid,
         NEW c \in Channels, c = rcv.c
  PROVE  /\ Spot \in In(c) /\ got' = Append(got, Queued(c, Spot))
         /\ Count(c) # 0 /\ Count(c)' = Count(c) - 1
         /\ \A j \in 0 .. Count(c) - 2 :
              Queued(c, j)' = Queued(c, IF j < Spot THEN j ELSE j + 1)
         /\ \A i \in Channels : i # c => Kept(i)
         /\ UNCHANGED <<pub, key, snd, nth, rt, rv>>
<1>0. TypeOK /\ Count(c) \in Nat /\ CW \in Nat \ {0} /\ rh[c] \in 0 .. CW - 1
  <2>1. TypeOK
    BY DEF Orderly, KeyInv
  <2> QED BY <2>1, Indices
<1>1. UNCHANGED <<pub, key, snd, nth, rt, rv>>
  BY DEF AdvanceRh, TakeMid, sends
<1>2. /\ Count(c) # 0 /\ Count(c)' = Count(c) - 1 /\ rh'[c] = (rh[c] + 1) % CW
      /\ UNCHANGED ring[c] \/ TakeMid
  <2>1. rcv.pc \in {"take", "advance"}
    BY DEF AdvanceRh, TakeMid, RAt
  <2>2. Count(c) # 0
    BY <2>1 DEF Orderly, Taking
  <2>3. ~UNCHANGED <<rh[c], rt[c], rv[c], ring[c]>>
    <3>1. ASSUME UNCHANGED <<rh[c], rt[c], rv[c], ring[c]>> PROVE FALSE
      <4>1. rh'[c] = (rh[c] + 1) % CW
        BY <1>0 DEF AdvanceRh, TakeMid, TypeOK, ChanTypes
      <4>2. CW > 1
        <5>1. Ring(c).cap \in Divisors /\ Ring(c).cap \in Nat \ {0}
          BY RingHere
        <5>2. Ring(c).cap < CW
          BY <5>1, DivisorFacts
        <5> QED BY <1>0, <5>1, <5>2
      <4>3. rh[c] \in Int /\ rh[c] + 1 \in Int /\ rh[c] < rh[c] + 1 /\ rh[c] + 1 < rh[c] + CW
        BY <1>0, <4>2
      <4>4. rh[c] % CW # (rh[c] + 1) % CW
        BY ONLY <1>0, <4>3, ModApart
      <4>5. rh[c] % CW = rh[c]
        <5>1. CW * 0 + rh[c] = rh[c] /\ 0 \in Int
          BY <1>0
        <5>2. (CW * 0 + rh[c]) % CW = rh[c]
          BY ONLY <1>0, <5>1, DivModU
        <5> QED BY <5>1, <5>2
      <4> QED BY <3>1, <4>1, <4>4, <4>5
    <3> QED BY <3>1
  <2> QED BY <2>2, <2>3, TakesOne DEF OwnerStep
<1>3. \A i \in Channels : i # c => Kept(i)
  <2> SUFFICES ASSUME NEW i \in Channels, i # c PROVE Kept(i)
    OBVIOUS
  <2>1. UNCHANGED <<rh[i], rt[i], rv[i], ring[i]>>
    BY TakesOne DEF OwnerStep
  <2> QED BY <2>1, SameRing
<1>4. CASE AdvanceRh
  <2>1. rcv.pc = "advance" /\ ring' = ring /\ got' = Append(got, rcv.m)
    BY <1>4 DEF AdvanceRh, RAt
  <2>2. Spot = 0 /\ rcv.m = Queued(c, 0) /\ 0 \in In(c)
    BY <1>0, <1>2, <2>1 DEF Spot, Chosen, In
  <2>3. ASSUME NEW j \in 0 .. Count(c) - 2 PROVE Queued(c, j)' = Queued(c, j + 1)
    <3>1. (((rh[c] + 1) % CW) + j) % CW = (rh[c] + (j + 1)) % CW
      <4>1. rh[c] + 1 \in Int /\ j \in Int /\ (rh[c] + 1) + j = rh[c] + (j + 1)
        BY <1>0
      <4>2. (((rh[c] + 1) % CW) + j) % CW = ((rh[c] + 1) + j) % CW
        BY ONLY <1>0, <4>1, ModPlus
      <4> QED BY <4>1, <4>2
    <3> QED BY <1>1, <1>2, <2>1, <3>1 DEF Queued, Ring, Slot
  <2>4. \A j \in 0 .. Count(c) - 2 : ~(j < 0)
    OBVIOUS
  <2> QED BY <1>1, <1>2, <1>3, <2>1, <2>2, <2>3, <2>4
<1>5. CASE TakeMid
  <2>1. /\ rcv.pc = "take" /\ rcv.k # rh[c]
        /\ got' = Append(got, Slot(Ring(c), rcv.k))
        /\ ring' = [ring EXCEPT ![c] = [ring[c] EXCEPT ![rv[c]] =
                      Shifted(ring[c][rv[c]], rh[c], rcv.k)]]
    BY <1>5 DEF TakeMid, RAt
  <2>2. Spot = Off /\ Off \in In(c) /\ (rh[c] + Off) % CW = rcv.k
    <3>1. Spot = Off /\ Off < Count(c)
      BY <2>1 DEF Spot, Chosen
    <3>2. Off \in 0 .. CW - 1 /\ (rh[c] + Off) % CW = rcv.k
      BY <1>0, OffFacts
    <3>3. Off \in In(c)
      BY <1>0, <3>1, <3>2 DEF In
    <3> QED BY <3>1, <3>2, <3>3
  <2>3. got' = Append(got, Queued(c, Spot))
    BY <2>1, <2>2 DEF Queued
  <2>4. rh[c] <= rt[c]
    <3>1. CASE Kinds \subseteq {"any"}
      <4>1. rcv.kind = "any"
        BY <3>1 DEF Orderly, KeyInv, Asked
      <4>2. Off = 0
        BY <2>1, <4>1 DEF Chosen
      <4>3. (rh[c] + 0) % CW = rh[c]
        <5>1. CW * 0 + rh[c] = rh[c] + 0 /\ 0 \in Int
          BY <1>0
        <5>2. (CW * 0 + rh[c]) % CW = rh[c]
          BY ONLY <1>0, <5>1, DivModU
        <5> QED BY <5>1, <5>2
      <4> QED BY <2>1, <2>2, <4>2, <4>3
    <3>2. CASE \A i \in Channels : rh[i] <= rt[i]
      BY <3>2
    <3> QED BY <3>1, <3>2 DEF Unwrapped
  <2>5. rcv.k = rh[c] + Off /\ Count(c) = rt[c] - rh[c]
    BY <1>0, <2>2, <2>4, Plain DEF In
  <2>r. PICK rg : rg = Shifted(Ring(c), rh[c], rh[c] + Off)
    OBVIOUS
  <2>6. Ring(c)' = rg
    <3>1. ring[c] \in Seq(Rings) /\ rv[c] \in DOMAIN ring[c] /\ ring \in [Channels -> Seq(Rings)]
      BY <1>0, RingHere DEF TypeOK, ChanTypes
    <3>2. ring'[c] = [ring[c] EXCEPT ![rv[c]] = rg]
      BY <2>1, <2>5, <2>r, <3>1 DEF Ring
    <3>3. ring'[c][rv[c]] = rg
      BY ONLY <3>1, <3>2
    <3> QED BY <1>1, <3>3 DEF Ring
  <2>7. ASSUME NEW j \in 0 .. Count(c) - 2
        PROVE  Queued(c, j)' = Queued(c, IF j < Off THEN j ELSE j + 1)
    <3>1. (rh'[c] + j) % CW = rh[c] + 1 + j
      <4>1. (((rh[c] + 1) % CW) + j) % CW = (rh[c] + (j + 1)) % CW
        <5>1. rh[c] + 1 \in Int /\ j \in Int /\ (rh[c] + 1) + j = rh[c] + (j + 1)
          BY <1>0
        <5>2. (((rh[c] + 1) % CW) + j) % CW = ((rh[c] + 1) + j) % CW
          BY ONLY <1>0, <5>1, ModPlus
        <5> QED BY <5>1, <5>2
      <4>2. j + 1 \in 0 .. Count(c) - 1
        BY <1>0
      <4>3. (rh[c] + (j + 1)) % CW = rh[c] + (j + 1)
        BY <1>0, <2>4, <4>2, Plain
      <4>4. rh[c] + (j + 1) = rh[c] + 1 + j
        BY <1>0
      <4> QED BY <1>2, <4>1, <4>3, <4>4
    <3>2. Queued(c, j)' = Slot(rg, rh[c] + 1 + j)
      BY <2>6, <3>1 DEF Queued, Slot
    <3>3. Slot(rg, rh[c] + 1 + j) = Queued(c, IF j < Off THEN j ELSE j + 1)
      BY <2>2, <2>4, <2>r, ShiftRemoves
    <3> QED BY <3>2, <3>3
  <2> QED BY <1>1, <1>2, <1>3, <2>2, <2>3, <2>7
<1> QED BY <1>4, <1>5

----------------------------------------------------------------------------
(* What is published is somewhere, once. *)

(* Two messages of one channel differ. *)
LEMMA Distinct ==
  ASSUME TypeOK, Published, Sorted, NEW i \in Channels, NEW j \in In(i), NEW k \in In(i), j # k
  PROVE  Queued(i, j) # Queued(i, k)
<1> SUFFICES ASSUME Queued(i, j) = Queued(i, k) PROVE FALSE
  OBVIOUS
<1>1. Queued(i, j) \in Msgs
  BY DEF Published, TypeOK
<1>2. Queued(i, j)[2] \in Int
  BY <1>1 DEF Msgs
<1>3. Count(i) \in Nat
  BY Indices
<1>4. j < k \/ k < j
  BY <1>3 DEF In
<1> QED BY <1>2, <1>4 DEF Sorted

(* Steps that change no queue. *)
LEMMA StockKept ==
  ASSUME Stock, \A i \in Channels : Kept(i), UNCHANGED <<pub, got>>
  PROVE  Stock'
<1>1. ASSUME NEW i \in Channels
      PROVE  In(i)' = In(i) /\ \A j \in In(i) : Queued(i, j)' = Queued(i, j)
  BY DEF Kept, In
<1>2. Published' /\ Sorted' /\ Apart'
  BY <1>1 DEF Stock, Published, Sorted, Apart
<1>3. GotOnce' /\ GotGone' /\ NoneLost'
  BY <1>1 DEF Stock, GotOnce, GotGone, NoneLost
<1> QED BY <1>2, <1>3 DEF Stock

(* The store of rt adds a message that was nowhere. *)
LEMMA StockAdd ==
  ASSUME TypeOK, Stock, NEW c \in Channels, NEW m \in Msgs, m \notin pub,
         \A p \in pub : p[1] = m[1] => p[2] < m[2],
         \A i \in Channels : i # c => Kept(i),
         Count(c)' = Count(c) + 1, \A j \in In(c) : Queued(c, j)' = Queued(c, j),
         NEW n \in Nat, n = Count(c), Queued(c, n)' = m, pub' = pub \cup {m}, UNCHANGED got
  PROVE  Stock'
<1>0. Count(c) \in Nat
  BY Indices
<1>1. ASSUME NEW i \in Channels
      PROVE  /\ i # c => In(i)' = In(i) /\ \A j \in In(i) : Queued(i, j)' = Queued(i, j)
             /\ In(c)' = In(c) \cup {Count(c)} /\ Count(c) \notin In(c)
             /\ \A j \in In(c) : j < Count(c)
  BY <1>0 DEF Kept, In
<1>q. ASSUME NEW i \in Channels, NEW j \in In(i)'
      PROVE  \/ j \in In(i) /\ Queued(i, j)' = Queued(i, j) /\ Queued(i, j) \in pub
             \/ i = c /\ j = n /\ Queued(i, j)' = m
  <2>1. CASE i # c
    BY <1>1, <2>1 DEF Stock, Published
  <2>2. CASE i = c /\ j \in In(c)
    BY <2>2 DEF Stock, Published
  <2>3. CASE i = c /\ j = n
    BY <2>3
  <2> QED BY <1>1, <2>1, <2>2, <2>3
<1>r. \A j \in In(c) : j < n
  BY <1>1
<1>2. Published'
  BY <1>q DEF Published
<1>3. Sorted'
  <2> SUFFICES ASSUME NEW i \in Channels, NEW j \in In(i)', NEW k \in In(i)', j < k,
                      Queued(i, j)'[1] = Queued(i, k)'[1]
               PROVE  Queued(i, j)'[2] < Queued(i, k)'[2]
    BY DEF Sorted
  <2>1. CASE j \in In(i) /\ k \in In(i)
          /\ Queued(i, j)' = Queued(i, j) /\ Queued(i, k)' = Queued(i, k)
    BY <2>1 DEF Stock, Sorted
  <2>2. CASE j \in In(i) /\ Queued(i, j)' = Queued(i, j) /\ Queued(i, j) \in pub
          /\ Queued(i, k)' = m
    BY <2>2
  <2>3. CASE i = c /\ j = n
    <3>1. k \in In(c) \/ k = n
      BY <1>q, <2>3
    <3>2. n \in Nat /\ (k \in In(c) => k < n /\ k \in Int)
      BY <1>0, <1>r DEF In
    <3> QED BY <2>3, <3>1, <3>2
  <2> QED BY <1>q, <2>1, <2>2, <2>3
<1>4. Apart'
  <2> SUFFICES ASSUME NEW i \in Channels, NEW k \in Channels, i # k,
                      NEW x \in In(i)', NEW y \in In(k)'
               PROVE  Queued(i, x)' # Queued(k, y)'
    BY DEF Apart
  <2> QED BY <1>q DEF Stock, Apart
<1>5. GotOnce'
  BY DEF Stock, GotOnce
<1>6. GotGone'
  <2> SUFFICES ASSUME NEW a \in DOMAIN got
               PROVE  got[a] \in pub' /\ \A i \in Channels : \A j \in In(i)' : got[a] # Queued(i, j)'
    BY DEF GotGone
  <2>1. got[a] \in pub /\ got[a] # m
    BY DEF Stock, GotGone
  <2> QED BY <1>q, <2>1 DEF Stock, GotGone
<1>7. NoneLost'
  <2> SUFFICES ASSUME NEW p \in pub'
               PROVE  \/ \E a \in DOMAIN got : got[a] = p
                      \/ \E i \in Channels : \E j \in In(i)' : Queued(i, j)' = p
    BY DEF NoneLost
  <2>1. CASE p = m
    <3>2. n \in In(c)' /\ n \notin In(c)
      BY <1>1
    <3>3. Queued(c, n)' = m
      BY <1>q, <3>2
    <3> QED BY <2>1, <3>2, <3>3
  <2>2. CASE \E i \in Channels : \E j \in In(i) : Queued(i, j) = p
    <3>1. PICK i \in Channels : \E j \in In(i) : Queued(i, j) = p
      BY <2>2
    <3>0. PICK j \in In(i) : Queued(i, j) = p
      BY <3>1
    <3>2. j \in In(i)' /\ Queued(i, j)' = Queued(i, j)
      BY <1>1
    <3> QED BY <3>0, <3>2
  <2>3. CASE \E a \in DOMAIN got : got[a] = p
    BY <2>3
  <2> QED BY <2>1, <2>2, <2>3 DEF Stock, NoneLost
<1> QED BY <1>2, <1>3, <1>4, <1>5, <1>6, <1>7 DEF Stock

(* A receive takes the message at x off channel c. *)
LEMMA StockTake ==
  ASSUME TypeOK, Stock, NEW c \in Channels, NEW x \in In(c),
         got' = Append(got, Queued(c, x)),
         Count(c)' = Count(c) - 1,
         \A j \in 0 .. Count(c) - 2 : Queued(c, j)' = Queued(c, IF j < x THEN j ELSE j + 1),
         \A i \in Channels : i # c => Kept(i), UNCHANGED pub
  PROVE  Stock'
<1> DEFINE o(j) == IF j < x THEN j ELSE j + 1
<1>0. Count(c) \in Nat /\ x \in Nat /\ x < Count(c)
  <2>1. Count(c) \in Nat
    BY Indices
  <2> QED BY <2>1 DEF In
<1>1. In(c)' = 0 .. Count(c) - 2
  BY <1>0 DEF In
<1>2. \A j \in In(c)' : o(j) \in In(c) /\ o(j) # x /\ Queued(c, j)' = Queued(c, o(j))
  BY <1>0, <1>1 DEF In
<1>3. \A j, k \in In(c)' : j < k => o(j) < o(k)
  BY <1>0, <1>1
<1>4. ASSUME NEW i \in Channels, i # c
      PROVE  In(i)' = In(i) /\ \A j \in In(i) : Queued(i, j)' = Queued(i, j)
  BY <1>4 DEF Kept, In
<1>5. ASSUME NEW i \in Channels, NEW j \in In(i)'
      PROVE  \E k \in In(i) : Queued(i, j)' = Queued(i, k) /\ (i = c => k # x)
  BY <1>2, <1>4
<1>6. \A i \in Channels : \A j \in In(i)' : Queued(i, j)' # Queued(c, x)
  <2> SUFFICES ASSUME NEW i \in Channels, NEW j \in In(i)' PROVE Queued(i, j)' # Queued(c, x)
    OBVIOUS
  <2>1. PICK k \in In(i) : Queued(i, j)' = Queued(i, k) /\ (i = c => k # x)
    BY <1>5
  <2>2. CASE i = c
    BY <2>1, <2>2, Distinct DEF Stock
  <2>3. CASE i # c
    BY <2>1, <2>3 DEF Stock, Apart
  <2> QED BY <2>2, <2>3
<1>7. Published'
  BY <1>5 DEF Stock, Published
<1>8. Sorted'
  <2> SUFFICES ASSUME NEW i \in Channels, NEW j \in In(i)', NEW k \in In(i)', j < k,
                      Queued(i, j)'[1] = Queued(i, k)'[1]
               PROVE  Queued(i, j)'[2] < Queued(i, k)'[2]
    BY DEF Sorted
  <2>1. CASE i = c
    <3>1. o(j) \in In(c) /\ o(k) \in In(c) /\ o(j) < o(k)
            /\ Queued(c, j)' = Queued(c, o(j)) /\ Queued(c, k)' = Queued(c, o(k))
      BY <1>2, <1>3, <2>1
    <3> HIDE DEF o
    <3> QED BY <2>1, <3>1 DEF Stock, Sorted
  <2>2. CASE i # c
    BY <1>4, <2>2 DEF Stock, Sorted
  <2> QED BY <2>1, <2>2
<1>9. Apart'
  <2> SUFFICES ASSUME NEW i \in Channels, NEW k \in Channels, i # k,
                      NEW a \in In(i)', NEW b \in In(k)'
               PROVE  Queued(i, a)' # Queued(k, b)'
    BY DEF Apart
  <2>1. (\E y \in In(i) : Queued(i, a)' = Queued(i, y))
          /\ \E y \in In(k) : Queued(k, b)' = Queued(k, y)
    BY <1>5
  <2> QED BY <2>1 DEF Stock, Apart
<1>g. /\ DOMAIN got' = DOMAIN got \cup {Len(got) + 1} /\ Len(got) + 1 \notin DOMAIN got
      /\ \A a \in DOMAIN got : got'[a] = got[a]
      /\ got'[Len(got) + 1] = Queued(c, x)
  <2>1. got \in Seq(AnyMsg)
    BY DEF TypeOK, RcvTypes
  <2>2. DOMAIN got = 1 .. Len(got) /\ Len(got) \in Nat /\ DOMAIN got' = 1 .. Len(got) + 1
    BY <2>1
  <2>3. \A a \in 1 .. Len(got) : got'[a] = got[a]
    BY <2>1
  <2>4. got'[Len(got) + 1] = Queued(c, x)
    BY <2>1
  <2> QED BY <2>2, <2>3, <2>4
<1>10. GotOnce'
  <2> SUFFICES ASSUME NEW a \in DOMAIN got', NEW b \in DOMAIN got', got'[a] = got'[b]
               PROVE  a = b
    BY DEF GotOnce
  <2>1. \A y \in DOMAIN got : got[y] # Queued(c, x)
    BY DEF Stock, GotGone
  <2> QED BY <1>g, <2>1 DEF Stock, GotOnce
<1>11. GotGone'
  <2> SUFFICES ASSUME NEW a \in DOMAIN got'
               PROVE  got'[a] \in pub /\ \A i \in Channels : \A j \in In(i)' : got'[a] # Queued(i, j)'
    BY DEF GotGone
  <2>1. CASE a \in DOMAIN got
    <3>1. got'[a] = got[a] /\ got[a] \in pub
      BY <1>g, <2>1 DEF Stock, GotGone
    <3>2. \A i \in Channels : \A j \in In(i) : got[a] # Queued(i, j)
      BY <2>1 DEF Stock, GotGone
    <3> QED BY <1>5, <3>1, <3>2
  <2>2. CASE a = Len(got) + 1
    BY <1>6, <1>g, <2>2 DEF Stock, Published
  <2> QED BY <1>g, <2>1, <2>2
<1>12. NoneLost'
  <2> SUFFICES ASSUME NEW p \in pub
               PROVE  \/ \E a \in DOMAIN got' : got'[a] = p
                      \/ \E i \in Channels : \E j \in In(i)' : Queued(i, j)' = p
    BY DEF NoneLost
  <2>1. CASE \E a \in DOMAIN got : got[a] = p
    <3>1. PICK a \in DOMAIN got : got[a] = p
      BY <2>1
    <3> QED BY <1>g, <3>1
  <2>2. CASE \E i \in Channels : \E j \in In(i) : Queued(i, j) = p
    <3>1. PICK i \in Channels : \E j \in In(i) : Queued(i, j) = p
      BY <2>2
    <3>0. PICK j \in In(i) : Queued(i, j) = p
      BY <3>1
    <3>2. CASE i # c
      BY <1>4, <3>0, <3>2
    <3>3. CASE i = c /\ j = x
      BY <1>g, <3>0, <3>3
    <3>4. CASE i = c /\ j < x
      <4>1. j \in In(c)' /\ o(j) = j
        BY <1>0, <1>1, <3>4 DEF In
      <4> QED BY <1>2, <3>0, <3>4, <4>1
    <3>5. CASE i = c /\ j > x
      <4>1. j - 1 \in In(c)' /\ o(j - 1) = j
        BY <1>0, <1>1, <3>5 DEF In
      <4> QED BY <1>2, <3>0, <3>5, <4>1
    <3>6. j < x \/ j = x \/ j > x
      BY <1>0 DEF In
    <3> QED BY <3>2, <3>3, <3>4, <3>5, <3>6
  <2> QED BY <2>1, <2>2 DEF Stock, NoneLost
<1> QED BY <1>7, <1>8, <1>9, <1>10, <1>11, <1>12 DEF Stock

----------------------------------------------------------------------------
(* The steps of a sender keep every queue, but for the one it publishes to. *)
LEMMA SenderKeeps ==
  ASSUME Orderly, NEW s \in Senders, SendBegin(s) \/ SenderStep(s) \/ Kill(s),
         NEW i \in Channels
  PROVE  /\ Count(i) # 0 => rh'[i] = rh[i]
         /\ ~PublishRt(s) => Kept(i)
         /\ PublishRt(s) =>
              /\ i # snd[s].c => Kept(i)
              /\ i = snd[s].c => Count(i)' = Count(i) + 1
         /\ \A j \in In(i) : j \in In(i)' /\ Queued(i, j)' = Queued(i, j)
<1>1. Count(i) # 0 => rh'[i] = rh[i]
  <2>1. CASE ResetSlot(s)
    <3>1. TypeOK
      BY DEF Orderly, KeyInv
    <3> QED BY <2>1, <3>1, ResetElsewhere, EmptyWhenEqual
  <2> QED BY <2>1, SenderTouches
<1>2. ~PublishRt(s) => Kept(i)
  <2>1. CASE ResetSlot(s) \/ WriteSlot(s) \/ InstallRing(s) \/ SwapRing(s)
    BY <2>1, ResetKeeps, WriteKeeps, InstallKeeps, SwapKeeps
  <2>2. CASE ~(ResetSlot(s) \/ WriteSlot(s) \/ InstallRing(s) \/ SwapRing(s) \/ PublishRt(s))
    <3>1. UNCHANGED <<rh, rt, rv, ring>>
      BY <2>2, SenderTouches
    <3> QED BY <3>1, SameRing
  <2> QED BY <2>1, <2>2
<1>3. PublishRt(s) => /\ i # snd[s].c => Kept(i)
                      /\ i = snd[s].c => Count(i)' = Count(i) + 1
  BY PublishAdds
<1>4. ASSUME NEW j \in In(i) PROVE j \in In(i)' /\ Queued(i, j)' = Queued(i, j)
  <2>1. CASE Kept(i)
    BY <2>1 DEF Kept, In
  <2>2. CASE PublishRt(s) /\ i = snd[s].c
    <3>1. Count(i) \in Nat /\ Count(i)' = Count(i) + 1
      BY <2>2, PublishAdds, RingHere
    <3>2. j \in In(i)'
      BY <3>1 DEF In
    <3> QED BY <2>2, <3>2, PublishAdds DEF In
  <2> QED BY <1>2, <1>3, <2>1, <2>2
<1> QED BY <1>1, <1>2, <1>3, <1>4

(* Who counts the sends. *)
LEMMA SendsCount ==
  ASSUME TypeOK, NEW s \in Senders, SendBegin(s) \/ SenderStep(s) \/ Kill(s)
  PROVE  /\ \A t \in Senders : t # s => nth'[t] = nth[t]
         /\ nth'[s] \in {nth[s], nth[s] + 1} /\ nth[s] \in Nat
         /\ snd'[s].pc \notin {"idle"} => nth'[s] = nth[s]
         /\ WakeOwner(s) => nth'[s] = nth[s] + 1
         /\ UNCHANGED pub \/ PublishRt(s)
<1>1. nth \in [Senders -> 0 .. Sends] /\ Sends \in Nat
  BY SizeAssumption DEF TypeOK, SndTypes
<1>2. nth[s] \in Nat
  BY <1>1
<1>3. CASE MemDenied(s) \/ WakeOwner(s)
  <2>1. nth' = [nth EXCEPT ![s] = @ + 1] /\ snd' = [snd EXCEPT ![s] = SndIdle] /\ UNCHANGED pub
    BY <1>3 DEF MemDenied, WakeOwner, Refuse
  <2>2. snd'[s].pc = "idle"
    BY <2>1, SndFacts DEF SndIdle
  <2> QED BY <1>1, <1>2, <2>1, <2>2
<1>4. CASE PushFull(s)
  <2>1. CASE CanGrow(snd[s].c)
    <3>1. UNCHANGED <<nth, pub>>
      BY <1>4, <2>1 DEF PushFull
    <3>2. ~WakeOwner(s)
      BY <1>4 DEF PushFull, WakeOwner, At
    <3> QED BY <1>2, <3>1, <3>2
  <2>2. CASE ~CanGrow(snd[s].c)
    <3>1. nth' = [nth EXCEPT ![s] = @ + 1] /\ snd' = [snd EXCEPT ![s] = SndIdle] /\ UNCHANGED pub
      BY <1>4, <2>2 DEF PushFull, Refuse
    <3>2. snd'[s].pc = "idle"
      BY <3>1, SndFacts DEF SndIdle
    <3> QED BY <1>1, <1>2, <3>1, <3>2
  <2> QED BY <2>1, <2>2
<1>5. CASE ~(MemDenied(s) \/ WakeOwner(s) \/ PushFull(s))
  <2>1. UNCHANGED nth /\ (UNCHANGED pub \/ PublishRt(s))
    BY <1>5 DEF SenderStep, SendBegin, ScanSlot, ScanShare, ResetSlot, CasSlot, MsgCopy,
       Resume, PushRoom, WriteSlot, PublishRt, GrowLock, InstallRing, SwapRing, Kill
  <2> QED BY <1>2, <1>5, <2>1
<1> QED BY <1>3, <1>4, <1>5

(* Sends are numbered in the order in which they take effect. *)
LEMMA NumberedStep ==
  ASSUME TypeOK, Numbered, Next
  PROVE  Numbered'
<1> SUFFICES ASSUME NEW p \in pub'
             PROVE  p[2] <= nth'[p[1]] \/ (p[2] = nth'[p[1]] + 1 /\ snd'[p[1]].pc = "wake")
  BY DEF Numbered
<1>0. pub \subseteq Msgs /\ nth \in [Senders -> 0 .. Sends] /\ Sends \in Nat
  BY SizeAssumption DEF TypeOK, SndTypes
<1>1. CASE RecvBegin \/ OwnerStep
  <2>1. UNCHANGED <<nth, pub, snd>>
    BY <1>1 DEF OwnerStep, RecvBegin, ScanAny, ScanRes, ScanFrom, CountFrom, ScanShared,
       TakeHead, AdvanceRh, TakeMid, BlockCas, Rescan, Park, Unpark, sends
  <2> QED BY <2>1 DEF Numbered
<1>2. ASSUME NEW s \in Senders, SendBegin(s) \/ SenderStep(s) \/ Kill(s)
      PROVE  p[2] <= nth'[p[1]] \/ (p[2] = nth'[p[1]] + 1 /\ snd'[p[1]].pc = "wake")
  <2>1. CASE p \notin pub
    <3>1. PublishRt(s) /\ p = ThisMsg(s)
      BY <1>2, <2>1, SendsCount DEF PublishRt
    <3>2. p[1] = s /\ p[2] = nth[s] + 1 /\ UNCHANGED nth /\ snd'[s].pc = "wake"
      BY <3>1, Moves DEF ThisMsg, PublishRt
    <3> QED BY <3>2
  <2>2. CASE p \in pub
    <3>1. PICK t \in Senders : t = p[1]
      BY <1>0, <2>2 DEF Msgs
    <3>2. p[2] \in Nat /\ nth[t] \in Nat
      BY <1>0, <2>2, <3>1 DEF Msgs
    <3>3. p[2] <= nth[t] \/ (p[2] = nth[t] + 1 /\ snd[t].pc = "wake")
      BY <2>2, <3>1 DEF Numbered
    <3>4. CASE t # s
      BY <1>2, <3>1, <3>3, <3>4, SendsCount, SenderFrame
    <3>5. CASE t = s /\ p[2] <= nth[t]
      BY <1>2, <3>1, <3>2, <3>5, SendsCount
    <3>6. CASE t = s /\ p[2] = nth[t] + 1 /\ snd[t].pc = "wake"
      <4>1. CASE WakeOwner(s)
        BY <1>2, <3>1, <3>2, <3>6, <4>1, SendsCount
      <4>2. CASE Kill(s)
        BY <3>1, <3>6, <4>2 DEF Kill
      <4>3. WakeOwner(s) \/ Kill(s)
        <5>1. ~SendBegin(s) /\ ~MemDenied(s)
          BY <3>6 DEF SendBegin, MemDenied
        <5> QED BY <1>2, <3>6, <5>1, Moves DEF SenderStep
      <4> QED BY <4>1, <4>2, <4>3
    <3> QED BY <3>3, <3>4, <3>5, <3>6
  <2> QED BY <2>1, <2>2
<1> QED BY <1>1, <1>2 DEF Next

(* The first hit of a scan. *)
LEMMA FirstHitIs ==
  ASSUME TypeOK, NEW i \in Channels, NEW W, Hits(i, W) # {}
  PROVE  /\ FirstHit(i, W) \in In(i) /\ Queued(i, FirstHit(i, W)) \in W
         /\ \A j \in 0 .. FirstHit(i, W) - 1 : Queued(i, j) \notin W
<1>1. Count(i) \in Nat
  BY Indices
<1>2. Hits(i, W) \in SUBSET Nat
  BY <1>1 DEF Hits
<1>3. \E j \in Hits(i, W) : \A x \in Hits(i, W) : j <= x
  BY <1>2, LeastOf
<1>4. FirstHit(i, W) \in Hits(i, W) /\ \A x \in Hits(i, W) : FirstHit(i, W) <= x
  BY ONLY <1>3, Zenon DEF FirstHit
<1>5. FirstHit(i, W) \in In(i) /\ Queued(i, FirstHit(i, W)) \in W
  BY <1>4 DEF Hits, In
<1>6. ASSUME NEW j \in 0 .. FirstHit(i, W) - 1, Queued(i, j) \in W PROVE FALSE
  <2>1. j \in 0 .. Count(i) - 1 /\ j < FirstHit(i, W)
    BY <1>1, <1>5 DEF In
  <2>2. j \in Hits(i, W)
    BY <1>6, <2>1 DEF Hits
  <2> QED BY <1>1, <1>4, <1>5, <2>1, <2>2 DEF In
<1> QED BY <1>5, <1>6

(* What the owner decides to take, and why. *)
LEMMA ScanTakes ==
  ASSUME Orderly, RecvBegin \/ OwnerStep, rcv'.pc = "take", NEW c \in Channels, c = rcv'.c
  PROVE  /\ UNCHANGED <<key, rh, rt, rv, ring, got>>
         /\ rcv'.kind = rcv.kind /\ rcv'.from = rcv.from
         /\ Off' \in In(c)
         /\ rcv.kind = "any" => Off' = 0
         /\ \/ rcv.kind = "any"
            \/ /\ rcv.kind = "res" /\ Queued(c, Off') \in Results
               /\ \A j \in 0 .. Off' - 1 : Queued(c, j) \notin Results
            \/ rcv.pc = "count" /\ c = rcv.c /\ Off' = 0
            \/ /\ rcv.kind = "from" /\ Queued(c, Off') \in MsgsOf(rcv.from)
               /\ \A j \in 0 .. Off' - 1 : Queued(c, j) \notin MsgsOf(rcv.from)
<1>0. TypeOK /\ rcv \in RcvRegs /\ Count(c) \in Nat /\ CW \in Nat \ {0} /\ rh[c] \in 0 .. CW - 1
        /\ Count(c) \in 0 .. CW - 1
  <2>1. TypeOK
    BY DEF Orderly, KeyInv
  <2> QED BY <2>1, Indices DEF TypeOK, RcvTypes
<1>1. ScanAny \/ ScanRes \/ CountFrom \/ ScanShared
  <2>1. ~RecvBegin
    BY DEF RecvBegin, RcvIdle
  <2>2. ~(AdvanceRh \/ TakeMid)
    <3>1. AdvanceRh \/ TakeMid => rcv' = RcvIdle
      BY DEF AdvanceRh, TakeMid
    <3>2. RcvIdle.pc = "idle"
      BY DEF RcvIdle
    <3> QED BY <3>1, <3>2
  <2>3. ~(ScanFrom \/ TakeHead \/ BlockCas \/ Rescan \/ Park \/ Unpark)
    BY <1>0 DEF ScanFrom, TakeHead, BlockCas, Rescan, Park, Unpark, NextSlot, RAt, RcvRegs
  <2> QED BY <2>1, <2>2, <2>3 DEF OwnerStep
<1>2. UNCHANGED <<key, rh, rt, rv, ring, got>>
  BY <1>1 DEF ScanAny, ScanRes, CountFrom, ScanShared, sends
<1>3. Off' = (rcv'.k - rh[c]) % CW
  BY <1>2 DEF Off
<1>4. ASSUME NEW x \in In(c), rcv'.k = (rh[c] + x) % CW PROVE Off' = x
  <2>1. x \in 0 .. CW - 1
    BY <1>0 DEF In
  <2>2. (((rh[c] + x) % CW) - rh[c]) % CW = x
    BY ONLY <1>0, <2>1, OffsetBack
  <2> QED BY <1>3, <1>4, <2>2
<1>5. ASSUME rcv'.k = rh[c], Count(c) # 0 PROVE Off' = 0 /\ 0 \in In(c)
  <2>1. 0 \in In(c) /\ rh[c] - rh[c] = 0 /\ CW * 0 + 0 = 0 /\ 0 \in 0 .. CW - 1
    BY <1>0, <1>5 DEF In
  <2>2. (CW * 0 + 0) % CW = 0
    BY ONLY <1>0, <2>1, DivModU
  <2> QED BY <1>3, <1>5, <2>1, <2>2
<1>6. CASE ScanAny
  <2>1. /\ rcv' = [rcv EXCEPT !.pc = "take", !.c = Cursor, !.k = rh[Cursor]]
        /\ rcv.kind = "any" /\ Count(Cursor) # 0
    BY <1>0, <1>6 DEF ScanAny, Take, NextSlot, RAt, RcvRegs
  <2>2. c = Cursor /\ rcv'.k = rh[c] /\ rcv'.kind = rcv.kind /\ rcv'.from = rcv.from
    BY <1>0, <2>1 DEF RcvRegs
  <2> QED BY <1>2, <1>5, <2>1, <2>2
<1>7. CASE ScanRes
  <2>1. /\ rcv' = [rcv EXCEPT !.pc = "take", !.c = Cursor,
                              !.k = (rh[Cursor] + FirstHit(Cursor, Results)) % CW]
        /\ rcv.kind = "res" /\ Hits(Cursor, Results) # {}
    BY <1>0, <1>7 DEF ScanRes, Take, NextSlot, RAt, RcvRegs
  <2>2. c = Cursor /\ rcv'.k = (rh[c] + FirstHit(c, Results)) % CW
          /\ rcv'.kind = rcv.kind /\ rcv'.from = rcv.from /\ Hits(c, Results) # {}
    BY <1>0, <2>1 DEF RcvRegs
  <2>3. FirstHit(c, Results) \in In(c) /\ Queued(c, FirstHit(c, Results)) \in Results
          /\ \A j \in 0 .. FirstHit(c, Results) - 1 : Queued(c, j) \notin Results
    BY <1>0, <2>2, FirstHitIs
  <2>4. Off' = FirstHit(c, Results)
    BY <1>4, <2>2, <2>3
  <2> QED BY <1>2, <2>1, <2>2, <2>3, <2>4
<1>8. CASE CountFrom
  <2>1. /\ rcv' = [rcv EXCEPT !.pc = "take", !.c = rcv.c, !.k = rh[rcv.c]]
        /\ rcv.pc = "count" /\ Count(rcv.c) # 0
    BY <1>0, <1>8 DEF CountFrom, Take, RAt, RcvRegs
  <2>2. c = rcv.c /\ rcv'.k = rh[c] /\ rcv'.kind = rcv.kind /\ rcv'.from = rcv.from
    BY <1>0, <2>1 DEF RcvRegs
  <2> QED BY <1>2, <1>5, <2>1, <2>2
<1>9. CASE ScanShared
  <2>1. PICK W : W = MsgsOf(rcv.from)
    OBVIOUS
  <2>2. /\ rcv' = [rcv EXCEPT !.pc = "take", !.c = SHIDX,
                              !.k = (rh[SHIDX] + FirstHit(SHIDX, W)) % CW]
        /\ rcv.kind = "from" /\ Hits(SHIDX, W) # {}
    BY <1>0, <1>9, <2>1 DEF ScanShared, Take, RAt, RcvRegs
  <2>3. c = SHIDX /\ rcv'.k = (rh[c] + FirstHit(c, W)) % CW
          /\ rcv'.kind = rcv.kind /\ rcv'.from = rcv.from /\ Hits(c, W) # {}
    BY <1>0, <2>2 DEF RcvRegs
  <2>4. FirstHit(c, W) \in In(c) /\ Queued(c, FirstHit(c, W)) \in W
          /\ \A j \in 0 .. FirstHit(c, W) - 1 : Queued(c, j) \notin W
    BY <1>0, <2>3, FirstHitIs
  <2>5. Off' = FirstHit(c, W)
    BY <1>4, <2>3, <2>4
  <2> QED BY <1>2, <2>1, <2>2, <2>3, <2>4, <2>5
<1> QED BY <1>1, <1>6, <1>7, <1>8, <1>9

(* Between the store into a slot and the store of rt the slot at rt holds  *)
(* the message: take_at's shift stops short of it.                         *)
LEMMA WrittenStep ==
  ASSUME Orderly, Written, Chosen, Unwrapped, Next
  PROVE  Written'
<1> SUFFICES ASSUME NEW t \in Senders, snd'[t].pc = "publish", NEW c \in Channels, c = snd'[t].c
             PROVE  Slot(Ring(c), rt[c])' = ThisMsg(t)'
  <2>1. TypeOK'
    BY TypeStep DEF Orderly, KeyInv
  <2>2. \A t \in Senders : snd'[t].c \in Channels
    BY <2>1 DEF TypeOK, SndTypes, SndRegs
  <2> QED BY <2>2 DEF Written
<1>0. TypeOK
  BY DEF Orderly, KeyInv
<1>1. ASSUME snd'[t] = snd[t], nth'[t] = nth[t], UNCHANGED <<rt[c], rv[c], ring[c]>>
      PROVE  Slot(Ring(c), rt[c])' = ThisMsg(t)'
  <2>1. Slot(Ring(c), rt[c]) = ThisMsg(t)
    BY <1>1 DEF Written
  <2> QED BY <1>1, <2>1 DEF Slot, Ring, ThisMsg
<1>2. ASSUME NEW s \in Senders, SendBegin(s) \/ SenderStep(s) \/ Kill(s), t # s
      PROVE  Slot(Ring(c), rt[c])' = ThisMsg(t)'
  <2>1. snd'[t] = snd[t] /\ nth'[t] = nth[t]
    BY <1>0, <1>2, SenderFrame, SendsCount
  <2>2. Writing(t)
    BY <2>1 DEF Writing
  <2> QED BY <1>1, <1>2, <2>1, <2>2, Untouched
<1>3. CASE SendBegin(t) \/ SenderStep(t) \/ Kill(t)
  <2>1. CASE WriteSlot(t)
    <3>1. UNCHANGED <<rt, rv, nth>> /\ snd[t].pc = "write" /\ snd'[t].c = snd[t].c
      BY <1>0, <2>1, Moves DEF WriteSlot, At
    <3>2. snd[t].t = rt[c] /\ snd[t].v = rv[c]
      BY <3>1 DEF Orderly, Loaded
    <3>r. PICK r \in Rings : r = Ring(c) /\ r.cap \in Nat \ {0}
      BY RingHere
    <3>p. PICK p : p = rt[c] % r.cap
      OBVIOUS
    <3>3. p \in 0 .. r.cap - 1
      <4>1. rt[c] \in Int
        BY <1>0, Indices
      <4> QED BY ONLY <3>r, <3>p, <4>1, ModRange
    <3>q. PICK q : q = [r EXCEPT !.slot = [r.slot EXCEPT ![p] = ThisMsg(t)]]
      OBVIOUS
    <3>4. ring[c] \in Seq(Rings) /\ rv[c] \in DOMAIN ring[c] /\ ring \in [Channels -> Seq(Rings)]
      BY <1>0, RingHere DEF TypeOK, ChanTypes
    <3>5. ring' = [ring EXCEPT ![c] = [ring[c] EXCEPT ![rv[c]] = q]]
      BY <2>1, <3>1, <3>2, <3>r, <3>p, <3>q DEF WriteSlot, Ring
    <3>6. ring'[c] = [ring[c] EXCEPT ![rv[c]] = q]
      BY <3>4, <3>5
    <3>7. ring'[c][rv[c]] = q
      BY ONLY <3>4, <3>6
    <3>8. q.cap = r.cap /\ q.slot[p] = ThisMsg(t)
      BY <3>3, <3>r, <3>q, RingFields
    <3> QED BY <3>1, <3>p, <3>7, <3>8 DEF Slot, Ring, ThisMsg
  <2>2. CASE Kill(t)
    BY <1>1, <2>2 DEF Kill, chans
  <2>3. CASE ~(WriteSlot(t) \/ Kill(t))
    BY <1>0, <1>3, <2>3, Moves DEF SenderStep
  <2> QED BY <2>1, <2>2, <2>3
<1>4. CASE RecvBegin \/ OwnerStep
  <2>1. UNCHANGED <<snd, rt, rv>> /\ (UNCHANGED ring \/ TakeMid)
    BY <1>4, OwnerTouches
  <2>2. UNCHANGED nth
    BY <1>4 DEF OwnerStep, RecvBegin, ScanAny, ScanRes, ScanFrom, CountFrom, ScanShared,
       TakeHead, AdvanceRh, TakeMid, BlockCas, Rescan, Park, Unpark, sends
  <2>3. CASE UNCHANGED ring
    BY <1>1, <2>1, <2>2, <2>3
  <2>4. CASE TakeMid
    <3>1. PICK d \in Channels : d = rcv.c
      BY <1>0 DEF TypeOK, RcvTypes, RcvRegs
    <3>2. ring' = [ring EXCEPT ![d] = [ring[d] EXCEPT ![rv[d]] =
                     Shifted(ring[d][rv[d]], rh[d], rcv.k)]]
            /\ rcv.pc = "take" /\ rcv.k # rh[d]
      BY <2>4, <3>1 DEF TakeMid, RAt
    <3>3. ring[c] \in Seq(Rings) /\ rv[c] \in DOMAIN ring[c] /\ ring \in [Channels -> Seq(Rings)]
      BY <1>0, RingHere DEF TypeOK, ChanTypes
    <3>4. CASE c # d
      <4>1. ring'[c] = ring[c]
        BY <3>2, <3>3, <3>4
      <4> QED BY <1>1, <2>1, <2>2, <4>1
    <3>5. CASE c = d
      <4> DEFINE cap == Ring(c).cap
                 p == rt[c] % cap
                 js == {y \in rh[c] + 1 .. rcv.k : y % cap = p}
      <4>1. /\ CW \in Nat \ {0} /\ rh[c] \in 0 .. CW - 1 /\ rt[c] \in 0 .. CW - 1
            /\ cap \in Nat \ {0} /\ Count(c) \in Nat /\ Off \in 0 .. CW - 1
            /\ (rh[c] + Off) % CW = rcv.k
        BY <1>0, <3>1, <3>5, Indices, RingHere, OffFacts
      <4>2. Off < Count(c) /\ (rcv.kind = "any" => Off = 0)
        BY <3>1, <3>2, <3>5 DEF Chosen
      <4>3. rh[c] <= rt[c]
        <5>1. CASE Kinds \subseteq {"any"}
          <6>1. rcv.kind = "any"
            BY <5>1 DEF Orderly, KeyInv, Asked
          <6>2. (rh[c] + 0) % CW = rh[c]
            <7>1. CW * 0 + rh[c] = rh[c] + 0 /\ 0 \in Int
              BY <4>1
            <7>2. (CW * 0 + rh[c]) % CW = rh[c]
              BY ONLY <4>1, <7>1, DivModU
            <7> QED BY <7>1, <7>2
          <6> QED BY <3>2, <3>5, <4>1, <4>2, <6>1, <6>2
        <5>2. CASE \A i \in Channels : rh[i] <= rt[i]
          BY <5>2
        <5> QED BY <5>1, <5>2 DEF Unwrapped
      <4>4. Count(c) = rt[c] - rh[c] /\ rcv.k = rh[c] + Off
        <5>1. Off \in 0 .. Count(c) - 1
          BY <4>1, <4>2
        <5> QED BY <1>0, <4>1, <4>3, <5>1, Plain
      <4>5. Count(c) < cap
        BY <2>1 DEF Orderly, Loaded
      <4>6. js = {}
        <5>1. ASSUME NEW y \in rh[c] + 1 .. rcv.k PROVE y % cap # p
          <6>1. y \in Int /\ rt[c] \in Int /\ y < rt[c] /\ rt[c] < y + cap
            BY <4>1, <4>2, <4>4, <4>5
          <6> QED BY ONLY <4>1, <6>1, ModApart
        <5> QED BY <5>1
      <4>7. p \in 0 .. cap - 1
        <5>1. rt[c] \in Int
          BY <4>1
        <5> QED BY ONLY <4>1, <5>1, ModRange
      <4>g. PICK rg : rg = Shifted(Ring(c), rh[c], rcv.k)
        OBVIOUS
      <4>8. rg.cap = cap /\ rg.slot[p] = Ring(c).slot[p]
        BY <4>6, <4>7, <4>g DEF Shifted
      <4>9. ring'[c][rv[c]] = rg
        <5>1. ring'[c] = [ring[c] EXCEPT ![rv[c]] = rg]
          BY <3>2, <3>3, <3>5, <4>g DEF Ring
        <5> QED BY ONLY <3>3, <5>1
      <4>10. Slot(Ring(c), rt[c]) = ThisMsg(t)
        BY <2>1 DEF Written
      <4>11. Ring(c)' = rg
        BY <2>1, <4>9 DEF Ring
      <4>12. Slot(Ring(c), rt[c])' = rg.slot[p]
        BY <2>1, <4>8, <4>11 DEF Slot
      <4> QED BY <2>1, <2>2, <4>8, <4>10, <4>12 DEF Slot, ThisMsg
    <3> QED BY <3>4, <3>5
  <2> QED BY <2>1, <2>3, <2>4
<1> QED BY <1>2, <1>3, <1>4 DEF Next

(* What the owner chose stays where it chose it. *)
LEMMA ChosenStep ==
  ASSUME Orderly, Chosen, Next
  PROVE  Chosen'
<1>0. TypeOK /\ rcv \in RcvRegs /\ rcv.c \in Channels
  BY DEF Orderly, KeyInv, TypeOK, RcvTypes, RcvRegs
<1>1. ASSUME NEW s \in Senders, SendBegin(s) \/ SenderStep(s) \/ Kill(s) PROVE Chosen'
  <2>1. UNCHANGED rcv
    BY <1>1, SenderTouches
  <2>2. PICK c \in Channels : c = rcv.c
    BY <1>0
  <2>3. CASE rcv.pc \notin {"take", "advance"}
    BY <2>1, <2>3 DEF Chosen
  <2>4. CASE rcv.pc \in {"take", "advance"}
    <3>1. Count(c) # 0 /\ Count(c) \in Nat
      BY <2>2, <2>4, RingHere DEF Orderly, Taking
    <3>2. rh'[c] = rh[c] /\ (\A j \in In(c) : j \in In(c)' /\ Queued(c, j)' = Queued(c, j))
      BY <1>1, <3>1, SenderKeeps
    <3>3. Off' = Off
      BY <2>1, <2>2, <3>2 DEF Off
    <3>4. rcv.pc = "take" => Off < Count(c)'
      <4>1. ASSUME rcv.pc = "take" PROVE Off < Count(c)'
        <5>1. Off \in In(c)
          BY <1>0, <2>2, <3>1, <4>1, OffFacts DEF Chosen, In
        <5>2. Off \in In(c)'
          BY <3>2, <5>1
        <5>3. Count(c)' \in Nat
          <6>1. Kept(c) \/ Count(c)' = Count(c) + 1
            BY <1>1, SenderKeeps
          <6> QED BY <3>1, <6>1 DEF Kept
        <5> QED BY <3>1, <5>1, <5>2, <5>3 DEF In
      <4> QED BY <4>1
    <3>5. 0 \in In(c)
      BY <3>1 DEF In
    <3>6. Queued(c, 0)' = Queued(c, 0)
      BY <3>2, <3>5
    <3> QED BY <2>1, <2>2, <3>3, <3>4, <3>6 DEF Chosen
  <2> QED BY <2>3, <2>4
<1>2. CASE RecvBegin \/ OwnerStep
  <2>c. PICK c \in Channels : c = rcv'.c
    <3>1. TypeOK'
      BY <1>0, <1>2, TypeStep DEF Next
    <3> QED BY <3>1 DEF TypeOK, RcvTypes, RcvRegs
  <2>1. CASE rcv'.pc = "take"
    <3>1. /\ UNCHANGED <<key, rh, rt, rv, ring, got>> /\ rcv'.kind = rcv.kind
          /\ Off' \in In(c) /\ (rcv.kind = "any" => Off' = 0)
      BY <1>2, <2>c, <2>1, ScanTakes
    <3>2. Count(c)' = Count(c) /\ Count(c) \in Nat
      BY <3>1, RingHere DEF Count
    <3>3. Off' < Count(c)
      BY <3>1, <3>2 DEF In
    <3> QED BY <2>c, <2>1, <3>1, <3>2, <3>3 DEF Chosen
  <2>2. CASE rcv'.pc = "advance"
    <3>1. TakeHead
      <4>1. ~RecvBegin
        BY <2>2 DEF RecvBegin, RcvIdle
      <4>2. AdvanceRh \/ TakeMid => rcv' = RcvIdle
        BY DEF AdvanceRh, TakeMid
      <4>3. RcvIdle.pc = "idle"
        BY DEF RcvIdle
      <4>4. ~(ScanAny \/ ScanRes \/ ScanFrom \/ CountFrom \/ ScanShared \/ BlockCas
                \/ Rescan \/ Park \/ Unpark)
        BY <1>0, <2>2 DEF ScanAny, ScanRes, ScanFrom, CountFrom, ScanShared, BlockCas, Rescan,
           Park, Unpark, Take, NextSlot, RAt, RcvRegs
      <4> QED BY <1>2, <2>2, <4>1, <4>2, <4>3, <4>4 DEF OwnerStep
    <3>2. rcv' = [rcv EXCEPT !.pc = "advance", !.m = Slot(Ring(rcv.c), rcv.k)]
            /\ rcv.k = rh[rcv.c] /\ UNCHANGED <<rh, rt, rv, ring>>
      BY <3>1 DEF TakeHead, sends
    <3>3. c = rcv.c /\ rcv'.m = Slot(Ring(c), rh[c])
      BY <1>0, <2>c, <3>2 DEF RcvRegs
    <3>4. (rh[c] + 0) % CW = rh[c]
      <4>1. rh[c] \in 0 .. CW - 1 /\ CW \in Nat \ {0} /\ 0 \in Int /\ CW * 0 + rh[c] = rh[c] + 0
        BY <1>0, Indices
      <4>2. (CW * 0 + rh[c]) % CW = rh[c]
        BY ONLY <4>1, DivModU
      <4> QED BY <4>1, <4>2
    <3>5. rcv'.m = Queued(c, 0) /\ Queued(c, 0)' = Queued(c, 0)
      BY <3>2, <3>3, <3>4 DEF Queued, Ring, Slot
    <3> QED BY <2>c, <2>2, <3>5 DEF Chosen
  <2>3. CASE rcv'.pc \notin {"take", "advance"}
    BY <2>3 DEF Chosen
  <2> QED BY <2>1, <2>2, <2>3
<1> QED BY <1>1, <1>2 DEF Next

(* At the start nothing is queued, published or received. *)
LEMMA StockedInit == Orderly /\ Init => Stocked
<1> SUFFICES ASSUME Orderly, Init PROVE Stocked
  OBVIOUS
<1>1. TypeOK /\ pub = {} /\ got = <<>>
  BY DEF Orderly, KeyInv, Init
<1>2. \A i \in Channels : In(i) = {}
  <2> SUFFICES ASSUME NEW i \in Channels PROVE In(i) = {}
    OBVIOUS
  <2>1. rh[i] = rt[i]
    BY DEF Init
  <2>2. Count(i) = 0
    BY <1>1, <2>1, EmptyWhenEqual
  <2> QED BY <2>2 DEF In
<1>3. DOMAIN got = {}
  BY <1>1
<1>4. Stock /\ Numbered
  BY <1>1, <1>2, <1>3 DEF Stock, Published, Sorted, Apart, GotOnce, GotGone, NoneLost, Numbered
<1>5. Written
  BY DEF Init, SndIdle, Written
<1>6. rcv.pc = "idle"
  BY DEF Init, RcvIdle
<1>7. Chosen
  BY <1>6 DEF Chosen
<1> QED BY <1>4, <1>5, <1>7 DEF Stocked

(* The store of rt puts this send's message behind the others. *)
LEMMA PublishPuts ==
  ASSUME Orderly, Written, NEW s \in Senders, PublishRt(s),
         NEW c \in Channels, c = snd[s].c, NEW n \in Nat, n = Count(c)
  PROVE  Queued(c, n)' = ThisMsg(s)
<1>0. TypeOK
  BY DEF Orderly, KeyInv
<1>1. rt[c] = (rh[c] + n) % CW
  BY <1>0, TailAt
<1>2. rh' = rh /\ snd[s].pc = "publish"
  BY DEF PublishRt, At
<1>3. Slot(Ring(c), rt[c]) = ThisMsg(s)
  BY <1>2 DEF Written
<1>4. Ring(c)' = Ring(c)
  BY PublishAdds
<1>5. Slot(Ring(c)', rt[c]) = ThisMsg(s)
  BY <1>3, <1>4
<1>6. Queued(c, n)' = Slot(Ring(c)', (rh[c] + n) % CW)
  BY <1>2 DEF Queued, Slot
<1> QED BY <1>1, <1>5, <1>6

(* It was nowhere before. *)
LEMMA PublishStocks ==
  ASSUME Orderly, Stocked, NEW s \in Senders, PublishRt(s)
  PROVE  Stock'
<1>0. TypeOK /\ pub \subseteq Msgs
  BY DEF Orderly, KeyInv, TypeOK
<1>1. PICK c \in Channels : c = snd[s].c
  BY <1>0, SndFacts
<1>2. snd[s].pc = "publish" /\ pub' = pub \cup {ThisMsg(s)}
  BY DEF PublishRt, At
<1>3. PICK m \in Msgs : m = ThisMsg(s)
  BY <1>0, <1>2, ThisMsgType
<1>4. \A p \in pub : p[1] = m[1] => p[2] < m[2]
  <2> SUFFICES ASSUME NEW p \in pub, p[1] = m[1] PROVE p[2] < m[2]
    OBVIOUS
  <2>1. m[1] = s /\ m[2] = nth[s] + 1
    BY <1>3 DEF ThisMsg
  <2>2. p[2] <= nth[s]
    BY <1>2, <2>1 DEF Stocked, Numbered
  <2>3. p[2] \in Nat /\ nth[s] \in Nat
    BY <1>0, SizeAssumption DEF Msgs, TypeOK, SndTypes
  <2> QED BY <2>1, <2>2, <2>3
<1>5. m \notin pub
  <2>1. m[2] \in Nat
    BY <1>3 DEF Msgs
  <2> QED BY <1>4, <2>1
<1>6. PICK n \in Nat : n = Count(c)
  BY RingHere
<1>7. /\ \A i \in Channels : i # c => Kept(i)
      /\ Ring(c)' = Ring(c) /\ Count(c)' = Count(c) + 1
      /\ \A j \in In(c) : Queued(c, j)' = Queued(c, j)
  BY <1>1, PublishAdds DEF In
<1>8. Queued(c, n)' = m
  BY <1>1, <1>3, <1>6, PublishPuts DEF Stocked
<1>9. pub' = pub \cup {m} /\ UNCHANGED got
  BY <1>2, <1>3 DEF PublishRt, owner
<1> QED BY <1>0, <1>4, <1>5, <1>6, <1>7, <1>8, <1>9, StockAdd DEF Stocked

(* Every step keeps all of it: a sender's leave every queue as it is but    *)
(* for the store of rt, the owner's but for the receive.                    *)
LEMMA StockedStep ==
  ASSUME Orderly, Stocked, Unwrapped, [Next]_vars
  PROVE  Stocked'
<1>0. TypeOK
  BY DEF Orderly, KeyInv
<1>1. CASE UNCHANGED vars
  <2>1. UNCHANGED <<rh, rt, rv, ring, pub, got, nth, snd, rcv>>
    BY <1>1 DEF vars
  <2>2. \A i \in Channels : Kept(i)
    BY <2>1, SameRing
  <2>3. Stock'
    BY <2>1, <2>2, StockKept DEF Stocked
  <2>4. Numbered' /\ Written'
    BY <2>1 DEF Stocked, Numbered, Written, Ring, Slot, ThisMsg
  <2>5. Chosen'
    BY <2>1 DEF Stocked, Chosen, Off, Count, Queued, Ring, Slot
  <2> QED BY <2>3, <2>4, <2>5 DEF Stocked
<1>2. CASE Next
  <2>1. Numbered' /\ Written' /\ Chosen'
    BY <1>0, <1>2, NumberedStep, WrittenStep, ChosenStep DEF Stocked
  <2>2. Stock'
    <3>1. ASSUME NEW s \in Senders, SendBegin(s) \/ SenderStep(s) \/ Kill(s) PROVE Stock'
      <4>1. CASE PublishRt(s)
        BY <4>1, PublishStocks
      <4>2. CASE ~PublishRt(s)
        <5>1. \A i \in Channels : Kept(i)
          BY <3>1, <4>2, SenderKeeps
        <5>2. UNCHANGED pub
          BY <1>0, <3>1, <4>2, SendsCount
        <5>3. UNCHANGED got
          BY <3>1 DEF SenderStep, SendBegin, ScanSlot, ScanShare, ResetSlot, CasSlot, MsgCopy,
             Resume, MemDenied, PushRoom, PushFull, WriteSlot, PublishRt, GrowLock,
             InstallRing, SwapRing, WakeOwner, Kill, owner
        <5> QED BY <5>1, <5>2, <5>3, StockKept DEF Stocked
      <4> QED BY <4>1, <4>2
    <3>2. CASE AdvanceRh \/ TakeMid
      <4>1. PICK c \in Channels : c = rcv.c
        BY <1>0 DEF TypeOK, RcvTypes, RcvRegs
      <4>2. PICK x : x = Spot
        OBVIOUS
      <4>3. /\ x \in In(c) /\ got' = Append(got, Queued(c, x))
            /\ Count(c) # 0 /\ Count(c)' = Count(c) - 1
            /\ \A j \in 0 .. Count(c) - 2 :
                 Queued(c, j)' = Queued(c, IF j < x THEN j ELSE j + 1)
            /\ \A i \in Channels : i # c => Kept(i)
            /\ UNCHANGED pub
        BY <3>2, <4>1, <4>2, TakeEffect DEF Stocked
      <4> QED BY <1>0, <4>3, StockTake DEF Stocked
    <3>3. CASE (RecvBegin \/ OwnerStep) /\ ~(AdvanceRh \/ TakeMid)
      <4>1. UNCHANGED <<rh, rt, rv, ring>>
        BY <3>3, OwnerTouches
      <4>2. \A i \in Channels : Kept(i)
        BY <4>1, SameRing
      <4>3. UNCHANGED <<pub, got>>
        BY <3>3 DEF OwnerStep, RecvBegin, ScanAny, ScanRes, ScanFrom, CountFrom, ScanShared,
           TakeHead, BlockCas, Rescan, Park, Unpark, sends
      <4> QED BY <4>2, <4>3, StockKept DEF Stocked
    <3> QED BY <1>2, <3>1, <3>2, <3>3 DEF Next
  <2> QED BY <2>1, <2>2 DEF Stocked
<1> QED BY <1>1, <1>2

(* One set of one element, and one empty one. *)
LEMMA SizeOne ==
  ASSUME NEW A, NEW B, NEW x, (A = {x} /\ B = {}) \/ (A = {} /\ B = {x})
  PROVE  Cardinality(A) + Cardinality(B) = 1
<1>1. Cardinality({x}) = 1
  BY ONLY FS_Singleton
<1>2. Cardinality({}) = 0
  BY ONLY FS_EmptySet
<1> QED BY ONLY <1>1, <1>2, (A = {x} /\ B = {}) \/ (A = {} /\ B = {x})

(* What the invariant says of the two histories. *)
LEMMA StockedOnce == Orderly /\ Stock => OkMeansQueuedOnce
<1> SUFFICES ASSUME Orderly, Stock PROVE OkMeansQueuedOnce
  OBVIOUS
<1>0. TypeOK
  BY DEF Orderly, KeyInv
<1>1. \A j \in DOMAIN got : got[j] \in pub
  BY DEF Stock, GotGone
<1>2. ASSUME NEW m \in pub
      PROVE  Cardinality(QueuedAt(m)) + Cardinality(ReceivedAt(m)) = 1
  <2>1. ASSUME NEW i \in Channels, NEW j
        PROVE  j \in In(i) <=> j \in 0 .. CW - 1 /\ j < Count(i)
    <3>1. Count(i) \in 0 .. CW - 1 /\ CW \in Nat
      BY <1>0, Indices
    <3> QED BY <3>1 DEF In
  <2>2. \A p : p \in QueuedAt(m) <=> /\ p \in Channels \X (0 .. CW - 1)
                                     /\ p[2] \in In(p[1]) /\ Queued(p[1], p[2]) = m
    BY <2>1 DEF QueuedAt
  <2>3. CASE \E a \in DOMAIN got : got[a] = m
    <3>1. PICK a \in DOMAIN got : got[a] = m
      BY <2>3
    <3>2. ReceivedAt(m) = {a}
      BY <3>1 DEF ReceivedAt, Stock, GotOnce
    <3>3. QueuedAt(m) = {}
      BY <2>2, <3>1 DEF Stock, GotGone
    <3> QED BY ONLY <3>2, <3>3, SizeOne
  <2>4. CASE ~ \E a \in DOMAIN got : got[a] = m
    <3>1. ReceivedAt(m) = {}
      BY <2>4 DEF ReceivedAt
    <3>2. \E i \in Channels : \E j \in In(i) : Queued(i, j) = m
      BY <2>4 DEF Stock, NoneLost
    <3>3. PICK i \in Channels : \E j \in In(i) : Queued(i, j) = m
      BY <3>2
    <3>4. PICK j \in In(i) : Queued(i, j) = m
      BY <3>3
    <3>5. <<i, j>> \in QueuedAt(m)
      BY <2>1, <3>4 DEF QueuedAt
    <3>6. ASSUME NEW p \in QueuedAt(m) PROVE p = <<i, j>>
      <4>1. PICK k \in Channels, y \in 0 .. CW - 1 : p = <<k, y>>
        BY DEF QueuedAt
      <4>2. y \in In(k) /\ Queued(k, y) = m
        BY <2>2, <4>1
      <4>3. k = i
        BY <3>4, <4>2 DEF Stock, Apart
      <4>4. y = j
        BY <1>0, <3>4, <4>2, <4>3, Distinct DEF Stock
      <4> QED BY <4>1, <4>3, <4>4
    <3>q. PICK q : q = <<i, j>>
      OBVIOUS
    <3>7. QueuedAt(m) = {q}
      BY <3>5, <3>6, <3>q
    <3> QED BY ONLY <3>1, <3>7, SizeOne
  <2> QED BY <2>3, <2>4
<1> QED BY <1>1, <1>2 DEF OkMeansQueuedOnce

(* "Ok means queued": no message is lost and none is doubled, through the   *)
(* claim and reset of slots, ring_push and its growth, the shared ring,    *)
(* take_at and the death of senders; for any number of senders, slots,     *)
(* sends and capacities.                                                   *)
THEOREM OkMeansQueued == Calm => (Spec /\ []Unwrapped => []OkMeansQueuedOnce)
<1> SUFFICES ASSUME Calm PROVE Spec /\ []Unwrapped => []OkMeansQueuedOnce
  OBVIOUS
<1>1. Init => Orderly /\ Stocked
  BY OrderlyInit, StockedInit
<1>2. Orderly /\ Stocked /\ Unwrapped /\ [Next]_vars => Orderly' /\ Stocked'
  BY OrderlyStep, StockedStep
<1>3. Orderly /\ Stocked => OkMeansQueuedOnce
  BY StockedOnce DEF Stocked
<1> QED BY <1>1, <1>2, <1>3, PTL DEF Spec

----------------------------------------------------------------------------
(* Which channel, which message.  Where nobody dies a slot keeps its key.  *)
LEMMA KeysFixed ==
  ASSUME Orderly, Mortal = {}, NEW s \in Senders, CasSlot(s)
  PROVE  \/ UNCHANGED key /\ snd'[s].pc = "scan" /\ snd'[s].i = 0
         \/ /\ snd[s].free \in Dedicated /\ key[snd[s].free] = NoKey
            /\ key' = [key EXCEPT ![snd[s].free] = s]
            /\ snd'[s].pc = "copy" /\ snd'[s].c = snd[s].free
<1>0. TypeOK /\ dead = {} /\ snd \in [Senders -> SndRegs]
  BY SndFacts DEF Orderly, KeyInv, TypeOK
<1>1. CASE key[snd[s].free] = snd[s].expect
  <2>1. snd[s].expect = NoKey
    BY <1>0 DEF Orderly, WriterInv, StealsDead
  <2> QED BY <1>0, <1>1, <2>1, Moves DEF CasSlot
<1>2. CASE key[snd[s].free] # snd[s].expect
  BY <1>0, <1>2 DEF CasSlot, SndIdle
<1> QED BY <1>1, <1>2

(* Nor does any other step take a key off a slot. *)
LEMMA KeyFixed ==
  ASSUME Orderly, Mortal = {}, Next, NEW i \in Channels, key[i] # NoKey
  PROVE  key'[i] = key[i]
<1>0. key \in [Channels -> Keys]
  BY DEF Orderly, KeyInv, TypeOK, ChanTypes
<1>1. ASSUME NEW s \in Senders, SendBegin(s) \/ SenderStep(s) \/ Kill(s) PROVE key'[i] = key[i]
  <2>1. CASE CasSlot(s)
    BY <1>0, <2>1, KeysFixed
  <2> QED BY <1>1, <2>1, SenderTouches
<1>2. CASE RecvBegin \/ OwnerStep
  BY <1>2, OwnerTouches
<1> QED BY <1>1, <1>2 DEF Next

(* A message in a queue was there before, or is being published. *)
LEMMA Remains ==
  ASSUME Orderly, Stocked, Unwrapped, Next, NEW i \in Channels, NEW j \in In(i)'
  PROVE  \/ \E k \in In(i) : Queued(i, j)' = Queued(i, k)
         \/ \E s \in Senders : PublishRt(s) /\ snd[s].c = i /\ Queued(i, j)' = ThisMsg(s)
<1>0. TypeOK
  BY DEF Orderly, KeyInv
<1>1. ASSUME Kept(i) PROVE \E k \in In(i) : Queued(i, j)' = Queued(i, k)
  <2>1. j \in In(i) /\ Queued(i, j)' = Queued(i, j)
    BY <1>1 DEF Kept, In
  <2> QED BY <2>1
<1>2. ASSUME NEW s \in Senders, SendBegin(s) \/ SenderStep(s) \/ Kill(s), ~Kept(i)
      PROVE  PublishRt(s) /\ snd[s].c = i
               /\ (Queued(i, j)' = ThisMsg(s) \/ \E k \in In(i) : Queued(i, j)' = Queued(i, k))
  <2>1. PublishRt(s) /\ snd[s].c = i
    BY <1>2, SenderKeeps
  <2>2. PICK n \in Nat : n = Count(i)
    BY RingHere
  <2>3. Count(i)' = n + 1
    BY <2>1, <2>2, PublishAdds
  <2>4. j \in In(i) \/ j = n
    BY <2>2, <2>3 DEF In
  <2>5. CASE j \in In(i)
    BY <2>1, <2>5, PublishAdds DEF In
  <2>6. CASE j = n
    BY <2>1, <2>2, <2>6, PublishPuts DEF Stocked
  <2> QED BY <2>1, <2>4, <2>5, <2>6
<1>3. CASE AdvanceRh \/ TakeMid
  <2>1. PICK c \in Channels : c = rcv.c
    BY <1>0 DEF TypeOK, RcvTypes, RcvRegs
  <2>2. PICK x : x = Spot
    OBVIOUS
  <2>3. /\ Count(c)' = Count(c) - 1 /\ x \in In(c)
        /\ \A y \in 0 .. Count(c) - 2 :
             Queued(c, y)' = Queued(c, IF y < x THEN y ELSE y + 1)
        /\ \A k \in Channels : k # c => Kept(k)
    BY <1>3, <2>1, <2>2, TakeEffect DEF Stocked
  <2>4. CASE i # c
    BY <1>1, <2>3, <2>4
  <2>5. CASE i = c
    <3>1. Count(c) \in Nat
      BY RingHere
    <3>2. j \in 0 .. Count(c) - 2
      BY <2>3, <2>5, <3>1 DEF In
    <3>3. PICK y : y = IF j < x THEN j ELSE j + 1
      OBVIOUS
    <3>4. y \in In(c)
      BY <3>1, <3>2, <3>3 DEF In
    <3>5. Queued(c, j)' = Queued(c, y)
      BY <2>3, <3>2, <3>3
    <3> QED BY <2>5, <3>4, <3>5
  <2> QED BY <2>4, <2>5
<1>4. CASE (RecvBegin \/ OwnerStep) /\ ~(AdvanceRh \/ TakeMid)
  <2>1. UNCHANGED <<rh, rt, rv, ring>>
    BY <1>4, OwnerTouches
  <2>2. Kept(i)
    BY <2>1, SameRing
  <2> QED BY <1>1, <2>2
<1> QED BY <1>1, <1>2, <1>3, <1>4 DEF Next

(* A dedicated ring holds messages of the sender it is named after. *)
LEMMA OwnedStep ==
  ASSUME Orderly, Stocked, Unwrapped, Mortal = {}, Owned, Next
  PROVE  Owned'
<1> SUFFICES ASSUME NEW i \in Dedicated, NEW j \in In(i)' PROVE Queued(i, j)'[1] = key'[i]
  BY DEF Owned, Dedicated
<1>0. TypeOK /\ i \in Channels /\ dead = {} /\ pub \subseteq Msgs
  BY ChannelSets DEF Orderly, KeyInv, TypeOK
<1>1. ASSUME NEW k \in In(i), Queued(i, j)' = Queued(i, k) PROVE Queued(i, j)'[1] = key'[i]
  <2>1. Queued(i, k)[1] = key[i] /\ Queued(i, k) \in Msgs
    BY <1>0 DEF Owned, Stocked, Stock, Published
  <2>2. key[i] # NoKey
    BY <2>1, KeysDistinct DEF Msgs
  <2> QED BY <1>0, <1>1, <2>1, <2>2, KeyFixed
<1>2. ASSUME NEW s \in Senders, PublishRt(s), snd[s].c = i, Queued(i, j)' = ThisMsg(s)
      PROVE  Queued(i, j)'[1] = key'[i]
  <2>1. snd[s].pc = "publish" /\ UNCHANGED key
    BY <1>2 DEF PublishRt, At
  <2>2. Claimed(s) /\ ~Shared(s)
    BY <1>0, <1>2, <2>1, ChannelSets DEF Claimed, Shared, SndPcs
  <2>3. key[i] = s
    BY <1>2, <2>2 DEF Orderly, WriterInv, SlotHeld
  <2> QED BY <1>2, <2>1, <2>3 DEF ThisMsg
<1> QED BY <1>0, <1>1, <1>2, Remains

(* A sender has at most one slot, and shares only where no slot is left:   *)
(* none comes free again.                                                  *)
LEMMA OwnKeysStep ==
  ASSUME Orderly, Mortal = {}, OwnKeys, Next
  PROVE  OwnKeys'
<1>0. TypeOK /\ dead = {} /\ snd \in [Senders -> SndRegs] /\ Dedicated \subseteq Channels
        /\ key \in [Channels -> Keys]
  <2>1. TypeOK
    BY DEF Orderly, KeyInv
  <2>2. dead = {} /\ key \in [Channels -> Keys]
    BY <2>1 DEF TypeOK, ChanTypes
  <2>3. snd \in [Senders -> SndRegs]
    BY <2>1 DEF TypeOK, SndTypes
  <2>4. Dedicated \subseteq Channels
    BY ChannelSets
  <2> QED BY <2>1, <2>2, <2>3, <2>4
<1>k. ASSUME NEW t \in Senders, NEW i \in Dedicated, key'[i] # key[i]
      PROVE  \E s \in Senders :
               /\ CasSlot(s) /\ key'[i] = s /\ snd'[s].pc = "copy" /\ snd[s].pc = "cas"
               /\ \A k \in Dedicated : k # i => key'[k] = key[k]
  <2>1. PICK s \in Senders : CasSlot(s)
    BY <1>k, SenderTouches, OwnerTouches DEF Next
  <2>2. i = snd[s].free /\ key' = [key EXCEPT ![i] = s] /\ snd'[s].pc = "copy"
    BY <1>0, <1>k, <2>1, KeysFixed
  <2>3. snd[s].pc = "cas"
    BY <2>1 DEF CasSlot, At
  <2> QED BY <1>0, <2>1, <2>2, <2>3
<1>1. ASSUME NEW t \in Senders, NEW i \in Dedicated, NEW k \in Dedicated,
             key'[i] = t, key'[k] = t
      PROVE  i = k
  <2>1. CASE key'[i] = key[i] /\ key'[k] = key[k]
    BY <1>1, <2>1 DEF OwnKeys
  <2>2. CASE key'[i] # key[i]
    BY <1>1, <1>k, <2>2 DEF OwnKeys
  <2>3. CASE key'[k] # key[k]
    BY <1>1, <1>k, <2>3 DEF OwnKeys
  <2> QED BY <2>1, <2>2, <2>3
(* what t saw of the slots is still so *)
<1>s. ASSUME NEW t \in Senders, snd'[t] = snd[t], NEW i \in Dedicated
      PROVE  /\ key[i] # t /\ snd[t].pc \in {"scan", "cas"} => key'[i] # t \/ CasSlot(t)
             /\ key[i] # NoKey => key'[i] # NoKey
  <2>1. key[i] # NoKey => key'[i] # NoKey
    BY <1>0, KeyFixed
  <2>2. key[i] # t => key'[i] # t \/ CasSlot(t)
    BY <1>k
  <2> QED BY <2>1, <2>2
<1>2. ASSUME NEW t \in Senders, snd'[t].pc = "scan", NEW i \in Dedicated, i < snd'[t].i
      PROVE  key'[i] # t /\ (snd'[t].free = NoSlot => key'[i] # NoKey)
  <2>1. CASE snd'[t] = snd[t] /\ ~CasSlot(t)
    <3>1. key[i] # t /\ (snd[t].free = NoSlot => key[i] # NoKey)
      BY <1>2, <2>1 DEF OwnKeys
    <3> QED BY <1>2, <1>s, <2>1, <3>1
  <2>2. CASE SendBegin(t) \/ CasSlot(t)
    <3>1. snd'[t].i = 0
      <4>1. CASE SendBegin(t)
        BY <1>0, <4>1 DEF SendBegin, SndIdle
      <4>2. CASE CasSlot(t)
        BY <1>2, <4>2, KeysFixed
      <4> QED BY <2>2, <4>1, <4>2
    <3>2. i \in Nat
      BY DEF Dedicated
    <3> QED BY <1>2, <3>1, <3>2
  <2>3. CASE ScanSlot(t)
    <3>1. PICK n \in Channels : n = snd[t].i
      BY <1>0 DEF SndRegs
    <3>2. n \in Dedicated /\ snd[t].pc = "scan" /\ UNCHANGED key
      BY <2>3, <3>1, SizeAssumption DEF ScanSlot, At, chans, Channels, Dedicated
    <3>3. key[n] # t
      BY <1>0, <1>2, <2>3, <3>1 DEF ScanSlot, SndRegs
    <3>4. snd'[t].i = n + 1 /\ (snd'[t].free = NoSlot => snd[t].free = NoSlot /\ key[n] # NoKey)
      <4>1. n # NoSlot
        BY <3>2 DEF Dedicated, NoSlot
      <4> QED BY <1>0, <2>3, <3>1, <3>3, <4>1 DEF ScanSlot, SndRegs, Claimable
    <3>5. i < n \/ i = n
      BY <1>2, <3>2, <3>4 DEF Dedicated
    <3>6. CASE i < n
      <4>1. key[i] # t /\ (snd[t].free = NoSlot => key[i] # NoKey)
        BY <3>1, <3>2, <3>6 DEF OwnKeys
      <4> QED BY <3>2, <3>4, <4>1
    <3> QED BY <3>2, <3>3, <3>4, <3>5, <3>6
  <2>4. ASSUME NEW s \in Senders, SendBegin(s) \/ SenderStep(s) \/ Kill(s)
        PROVE  \/ snd'[t] = snd[t] /\ ~CasSlot(t)
               \/ SendBegin(t) \/ CasSlot(t) \/ ScanSlot(t)
    <3>1. CASE s # t
      <4>1. snd'[t] = snd[t]
        BY <1>0, <2>4, <3>1, SenderFrame
      <4> QED BY <4>1
    <3>2. CASE s = t
      BY <1>0, <1>2, <2>4, <3>2, Moves DEF SenderStep
    <3> QED BY <3>1, <3>2
  <2>5. CASE RecvBegin \/ OwnerStep
    BY <2>1, <2>2, <2>5, OwnerTouches
  <2> QED BY <2>1, <2>2, <2>3, <2>4, <2>5 DEF Next
<1>3. ASSUME NEW t \in Senders, snd'[t].pc = "cas", NEW i \in Dedicated PROVE key'[i] # t
  <2>1. CASE snd'[t] = snd[t]
    <3>1. ~CasSlot(t)
      BY <1>3, KeysFixed
    <3>2. key[i] # t
      BY <1>3, <2>1 DEF OwnKeys
    <3> QED BY <1>3, <1>s, <2>1, <3>1, <3>2
  <2>2. CASE ResetSlot(t)
    <3>1. snd[t].pc = "scan" /\ snd[t].i = SHIDX /\ UNCHANGED key
      BY <2>2 DEF ResetSlot, At
    <3>2. i < SHIDX
      BY SizeAssumption DEF Dedicated
    <3> QED BY <3>1, <3>2 DEF OwnKeys
  <2>3. ASSUME NEW s \in Senders, SendBegin(s) \/ SenderStep(s) \/ Kill(s)
        PROVE  snd'[t] = snd[t] \/ ResetSlot(t)
    <3>1. CASE s # t
      BY <1>0, <2>3, <3>1, SenderFrame
    <3>2. CASE s = t
      BY <1>0, <1>3, <2>3, <3>2, Moves DEF SenderStep
    <3> QED BY <3>1, <3>2
  <2>4. CASE RecvBegin \/ OwnerStep
    BY <2>1, <2>4, OwnerTouches
  <2> QED BY <2>1, <2>2, <2>3, <2>4 DEF Next
<1> QED BY <1>1, <1>2, <1>3 DEF OwnKeys

(* Who shares has no slot of its own, and never gets one: its messages are *)
(* all in the overflow ring.                                               *)
LEMMA HomesStep ==
  ASSUME Orderly, Stocked, Unwrapped, Mortal = {}, OwnKeys, Homes, Next
  PROVE  Homes'
<1>0. TypeOK /\ Dedicated \subseteq Channels /\ SHIDX \in Channels \ Dedicated
  BY ChannelSets DEF Orderly, KeyInv
<1> SUFFICES ASSUME NEW s \in Senders, Sharing(s)', NEW i \in Dedicated
             PROVE  key'[i] \notin {NoKey, s}
  BY DEF Homes, Dedicated
<1>1. ASSUME key[i] \notin {NoKey, s} PROVE key'[i] \notin {NoKey, s}
  BY <1>0, <1>1, KeyFixed
<1>2. CASE Sharing(s)
  BY <1>1, <1>2 DEF Homes
<1>3. CASE ScanShare(s)
  <2>1. snd[s].pc = "scan" /\ snd[s].i = SHIDX /\ snd[s].free = NoSlot
    BY <1>3 DEF ScanShare, At
  <2>2. i < SHIDX
    BY SizeAssumption DEF Dedicated
  <2> QED BY <1>1, <2>1, <2>2 DEF OwnKeys
<1>4. CASE \E j \in In(SHIDX)' : Queued(SHIDX, j)'[1] = s
  <2>1. PICK j \in In(SHIDX)' : Queued(SHIDX, j)'[1] = s
    BY <1>4
  <2>2. CASE \E k \in In(SHIDX) : Queued(SHIDX, j)' = Queued(SHIDX, k)
    BY <1>2, <2>1, <2>2 DEF Sharing
  <2>3. ASSUME NEW t \in Senders, PublishRt(t), snd[t].c = SHIDX,
               Queued(SHIDX, j)' = ThisMsg(t)
        PROVE  Sharing(s)
    <3>1. t = s
      BY <2>1, <2>3 DEF ThisMsg
    <3>2. snd[s].pc = "publish" /\ Shared(s)
      BY <2>3, <3>1 DEF PublishRt, At, Shared
    <3> QED BY <3>2 DEF Sharing, SndPcs
  <2> QED BY <1>0, <1>2, <2>2, <2>3, Remains
<1>5. CASE snd'[s].pc \in SndPcs \ {"idle", "scan", "cas", "wake"} /\ Shared(s)'
  <2>1. CASE snd'[s] = snd[s]
    BY <1>2, <1>5, <2>1 DEF Sharing, Shared
  <2>2. CASE SendBegin(s) \/ SenderStep(s) \/ Kill(s)
    <3>1. ~ScanSlot(s)
      <4>1. ASSUME ScanSlot(s) PROVE FALSE
        <5>1. snd[s].i < SHIDX
          BY <4>1 DEF ScanSlot
        <5>2. snd'[s].c = snd[s].i
          BY <1>0, <1>5, <4>1, Moves
        <5>3. snd'[s].c = SHIDX
          BY <1>5 DEF Shared
        <5> QED BY <5>1, <5>2, <5>3, SizeAssumption
      <4> QED BY <4>1
    <3>2. ~CasSlot(s)
      BY <1>0, <1>5, KeysFixed DEF Shared
    <3>3. ScanShare(s) \/ (snd[s].pc \in SndPcs \ {"idle", "scan", "cas", "wake"}
                             /\ snd'[s].c = snd[s].c)
      BY <1>0, <1>5, <2>2, <3>1, <3>2, Moves DEF SenderStep, SndPcs
    <3> QED BY <1>2, <1>3, <1>5, <3>3 DEF Sharing, Shared
  <2>3. ASSUME NEW t \in Senders, t # s, SendBegin(t) \/ SenderStep(t) \/ Kill(t)
        PROVE  snd'[s] = snd[s]
    BY <1>0, <2>3, SenderFrame
  <2>4. CASE RecvBegin \/ OwnerStep
    BY <2>1, <2>4, OwnerTouches
  <2> QED BY <2>1, <2>2, <2>3, <2>4 DEF Next
<1> QED BY <1>4, <1>5 DEF Sharing, Shared

(* What the owner picked is what it asked for, and the first of it. *)
LEMMA PickedStep ==
  ASSUME Orderly, Stocked, Unwrapped, Mortal = {}, Owned, Picked, Next
  PROVE  Picked'
<1>0. TypeOK /\ rcv \in RcvRegs /\ rcv.c \in Channels
  BY DEF Orderly, KeyInv, TypeOK, RcvTypes, RcvRegs
<1>1. ASSUME NEW s \in Senders, SendBegin(s) \/ SenderStep(s) \/ Kill(s) PROVE Picked'
  <2>1. UNCHANGED rcv
    BY <1>1, SenderTouches
  <2>2. PICK c \in Channels : c = rcv.c
    BY <1>0
  <2>3. ASSUME rcv.pc = "count" PROVE rcv.kind = "from" /\ c \in Dedicated /\ key'[c] = rcv.from
    <3>1. rcv.kind = "from" /\ c \in Dedicated /\ key[c] = rcv.from /\ key[c] # NoKey
      BY <2>2, <2>3 DEF Picked, Orderly, KeyInv, Asked
    <3> QED BY <1>1, <3>1, KeyFixed DEF Next
  <2>4. ASSUME NEW x \in In(c), Pick(c, x) PROVE Pick(c, x)'
    <3>1. \A j \in 0 .. x : Queued(c, j)' = Queued(c, j)
      <4>1. \A j \in In(c) : Queued(c, j)' = Queued(c, j)
        BY <1>1, SenderKeeps
      <4>2. Count(c) \in Nat
        BY RingHere
      <4> QED BY <4>1, <4>2 DEF In
    <3>2. x \in Nat
      BY DEF In
    <3> QED BY <2>1, <2>4, <3>1, <3>2 DEF Pick
  <2>5. CASE rcv.pc \in {"take", "advance"}
    <3>1. Count(c) # 0 /\ Count(c) \in Nat
      BY <2>2, <2>5, RingHere DEF Orderly, Taking
    <3>2. rh'[c] = rh[c]
      BY <1>1, <3>1, SenderKeeps
    <3>3. Off' = Off
      BY <2>1, <2>2, <3>2 DEF Off
    <3>4. 0 \in In(c)
      BY <3>1 DEF In
    <3>5. rcv.pc = "take" => Off \in In(c)
      BY <1>0, <2>2, <3>1, OffFacts DEF Stocked, Chosen, In
    <3>6. rcv.pc = "advance" => Pick(c, 0)'
      BY <2>2, <2>4, <3>4 DEF Picked
    <3>7. ASSUME rcv.pc = "take" PROVE Pick(rcv.c, Off)'
      <4>1. PICK x \in In(c) : x = Off
        BY <3>5, <3>7
      <4>2. Pick(c, x)
        BY <2>2, <3>7, <4>1 DEF Picked
      <4>3. Pick(c, x)'
        BY <2>4, <4>2
      <4> QED BY <2>1, <2>2, <3>3, <4>1, <4>3 DEF Pick
    <3> QED BY <2>1, <2>2, <2>5, <3>6, <3>7 DEF Picked, Pick
  <2>6. CASE rcv.pc \notin {"take", "advance"}
    BY <2>1, <2>2, <2>3, <2>6 DEF Picked
  <2> QED BY <2>5, <2>6
<1>2. CASE RecvBegin \/ OwnerStep
  <2>0. UNCHANGED key
    BY <1>2, OwnerTouches
  <2>c. PICK c \in Channels : c = rcv'.c
    <3>1. TypeOK'
      BY <1>0, <1>2, TypeStep DEF Next
    <3> QED BY <3>1 DEF TypeOK, RcvTypes, RcvRegs
  <2>1. CASE rcv'.pc = "take"
    <3>1. PICK x : x = Off'
      OBVIOUS
    <3>2. /\ UNCHANGED <<key, rh, rt, rv, ring>>
          /\ rcv'.kind = rcv.kind /\ rcv'.from = rcv.from /\ x \in In(c)
          /\ \/ rcv.kind = "any"
             \/ /\ rcv.kind = "res" /\ Queued(c, x) \in Results
                /\ \A j \in 0 .. x - 1 : Queued(c, j) \notin Results
             \/ rcv.pc = "count" /\ c = rcv.c /\ x = 0
             \/ /\ rcv.kind = "from" /\ Queued(c, x) \in MsgsOf(rcv.from)
                /\ \A j \in 0 .. x - 1 : Queued(c, j) \notin MsgsOf(rcv.from)
      BY <1>2, <2>c, <2>1, <3>1, ScanTakes
    <3>3. x \in Nat /\ \A j \in 0 .. x : j \in In(c) /\ Queued(c, j) \in Msgs
      <4>1. Count(c) \in Nat
        BY RingHere
      <4>2. x \in Nat /\ \A j \in 0 .. x : j \in In(c)
        BY <3>2, <4>1 DEF In
      <4> QED BY <1>0, <4>2 DEF Stocked, Stock, Published, TypeOK
    <3>4. Pick(c, x)
      <4>1. CASE rcv.kind = "from" /\ rcv.pc = "count" /\ c = rcv.c /\ x = 0
        <5>1. c \in Dedicated /\ key[c] = rcv.from
          BY <4>1 DEF Picked
        <5>2. Queued(c, 0)[1] = rcv.from
          BY <3>2, <4>1, <5>1 DEF Owned
        <5> QED BY <4>1, <5>2 DEF Pick
      <4>2. CASE rcv.kind = "from" /\ Queued(c, x) \in MsgsOf(rcv.from)
                  /\ \A j \in 0 .. x - 1 : Queued(c, j) \notin MsgsOf(rcv.from)
        <5>1. Queued(c, x)[1] = rcv.from
          BY <4>2 DEF MsgsOf
        <5>2. ASSUME NEW j \in 0 .. x - 1 PROVE Queued(c, j)[1] # rcv.from
          <6>1. j \in 0 .. x
            BY <3>3
          <6>2. Queued(c, j) \in Msgs
            BY <3>3, <6>1
          <6> QED BY <4>2, <6>2 DEF MsgsOf, Msgs
        <5> QED BY <4>2, <5>1, <5>2 DEF Pick
      <4>3. CASE rcv.kind # "from"
        <5>1. rcv.pc # "count"
          BY <4>3 DEF Picked
        <5> QED BY <3>2, <4>3, <5>1 DEF Pick
      <4> QED BY <3>2, <4>1, <4>2, <4>3
    <3>5. \A j : Queued(c, j)' = Queued(c, j)
      BY <3>2 DEF Queued, Ring, Slot
    <3>6. Pick(rcv.c, Off)'
      BY <2>c, <3>1, <3>2, <3>4, <3>5 DEF Pick
    <3> QED BY <2>1, <3>6 DEF Picked
  <2>2. CASE rcv'.pc = "advance"
    <3>1. TakeHead
      <4>1. ~RecvBegin
        BY <2>2 DEF RecvBegin, RcvIdle
      <4>2. AdvanceRh \/ TakeMid => rcv' = RcvIdle
        BY DEF AdvanceRh, TakeMid
      <4>3. RcvIdle.pc = "idle"
        BY DEF RcvIdle
      <4>4. ~(ScanAny \/ ScanRes \/ ScanFrom \/ CountFrom \/ ScanShared \/ BlockCas
                \/ Rescan \/ Park \/ Unpark)
        BY <1>0, <2>2 DEF ScanAny, ScanRes, ScanFrom, CountFrom, ScanShared, BlockCas, Rescan,
           Park, Unpark, Take, NextSlot, RAt, RcvRegs
      <4> QED BY <1>2, <2>2, <4>1, <4>2, <4>3, <4>4 DEF OwnerStep
    <3>2. rcv' = [rcv EXCEPT !.pc = "advance", !.m = Slot(Ring(rcv.c), rcv.k)]
            /\ rcv.pc = "take" /\ rcv.k = rh[rcv.c] /\ UNCHANGED <<rh, rt, rv, ring>>
      BY <3>1 DEF TakeHead, RAt, sends
    <3>3. c = rcv.c /\ rcv'.kind = rcv.kind /\ rcv'.from = rcv.from
      BY <1>0, <2>c, <3>2 DEF RcvRegs
    <3>4. Off = 0
      <4>1. CW \in Nat \ {0} /\ rh[c] \in 0 .. CW - 1
        BY <1>0, Indices
      <4>2. rcv.k - rh[rcv.c] = 0 /\ CW * 0 + 0 = 0 /\ 0 \in 0 .. CW - 1 /\ 0 \in Int
        BY <3>2, <3>3, <4>1
      <4>3. (CW * 0 + 0) % CW = 0
        BY ONLY <4>1, <4>2, DivModU
      <4> QED BY <4>2, <4>3 DEF Off
    <3>5. Pick(c, 0)
      BY <3>2, <3>3, <3>4 DEF Picked
    <3>6. \A j : Queued(c, j)' = Queued(c, j)
      BY <3>2 DEF Queued, Ring, Slot
    <3>7. Pick(rcv.c, 0)'
      BY <2>c, <3>3, <3>5, <3>6 DEF Pick
    <3> QED BY <2>2, <3>7 DEF Picked
  <2>3. CASE rcv'.pc = "count"
    <3>1. ScanFrom
      <4>1. ~RecvBegin
        BY <2>3 DEF RecvBegin, RcvIdle
      <4>2. AdvanceRh \/ TakeMid => rcv' = RcvIdle
        BY DEF AdvanceRh, TakeMid
      <4>3. RcvIdle.pc = "idle"
        BY DEF RcvIdle
      <4>4. ~(ScanAny \/ ScanRes \/ TakeHead \/ CountFrom \/ ScanShared \/ BlockCas
                \/ Rescan \/ Park \/ Unpark)
        BY <1>0, <2>3 DEF ScanAny, ScanRes, TakeHead, CountFrom, ScanShared, BlockCas, Rescan,
           Park, Unpark, Take, NextSlot, RAt, RcvRegs
      <4> QED BY <1>2, <2>3, <4>1, <4>2, <4>3, <4>4 DEF OwnerStep
    <3>2. /\ rcv.kind = "from" /\ rcv.n < SHIDX /\ rcv.n \in Nat
          /\ rcv'.c = rcv.n /\ key[rcv.n] = rcv.from
          /\ rcv'.kind = rcv.kind /\ rcv'.from = rcv.from
      <4>1. /\ rcv.kind = "from" /\ rcv.n < SHIDX /\ rcv.pc = "scan" /\ rcv.n \in Nat
            /\ IF key[rcv.n] = rcv.from
               THEN rcv' = [rcv EXCEPT !.pc = "count", !.c = rcv.n] ELSE NextSlot
        BY <1>0, <3>1 DEF ScanFrom, RAt, RcvRegs, MAXSND
      <4>2. NextSlot => rcv'.pc = rcv.pc
        BY <1>0 DEF NextSlot, RcvRegs
      <4>3. key[rcv.n] = rcv.from /\ rcv' = [rcv EXCEPT !.pc = "count", !.c = rcv.n]
        BY <2>3, <4>1, <4>2
      <4> QED BY <1>0, <4>1, <4>3 DEF RcvRegs
    <3>3. rcv'.c \in Dedicated
      BY <3>2, SizeAssumption DEF Dedicated
    <3> QED BY <2>0, <2>3, <3>2, <3>3 DEF Picked
  <2>4. CASE rcv'.pc \notin {"take", "advance", "count"}
    BY <2>4 DEF Picked
  <2> QED BY <2>1, <2>2, <2>3, <2>4
<1> QED BY <1>1, <1>2 DEF Next

(* All of it together. *)
Placed == Owned /\ OwnKeys /\ Homes /\ Picked

(* A slot that was claimed earlier was claimed by one sender. *)
LEMMA PlacedInit == Orderly /\ Init => Placed
<1> SUFFICES ASSUME Orderly, Init PROVE Placed
  OBVIOUS
<1>1. TypeOK /\ Dedicated \subseteq Channels /\ SHIDX \in Channels
  <2>1. TypeOK
    BY DEF Orderly, KeyInv
  <2> QED BY <2>1, ChannelSets
<1>2. \A i \in Channels : In(i) = {}
  <2> SUFFICES ASSUME NEW i \in Channels PROVE In(i) = {}
    OBVIOUS
  <2>1. rh[i] = rt[i]
    BY DEF Init
  <2>2. Count(i) = 0
    BY <1>1, <2>1, EmptyWhenEqual
  <2> QED BY <2>2 DEF In
<1>3. \A s \in Senders : snd[s].pc = "idle"
  BY DEF Init, SndIdle
<1>4. rcv.pc = "idle"
  BY DEF Init, RcvIdle
<1>5. \A i \in Dedicated : key[i] = Bound[i]
  <2> SUFFICES ASSUME NEW i \in Dedicated PROVE key[i] = Bound[i]
    OBVIOUS
  <2>1. i \in Channels /\ i # SHIDX
    BY ChannelSets
  <2> QED BY <2>1 DEF Init
<1>6. Owned /\ Homes /\ Picked
  BY <1>1, <1>2, <1>3, <1>4 DEF Owned, Homes, Sharing, Picked
<1>7. OwnKeys
  <2>1. ASSUME NEW s \in Senders, NEW i \in Dedicated, NEW k \in Dedicated, key[i] = s, key[k] = s
        PROVE  i = k
    BY <1>5, <2>1, KeysDistinct, SizeAssumption
  <2> QED BY <1>3, <2>1 DEF OwnKeys
<1> QED BY <1>6, <1>7 DEF Placed

(* Every step keeps it. *)
LEMMA PlacedStep ==
  ASSUME Orderly, Stocked, Unwrapped, Mortal = {}, Placed, [Next]_vars
  PROVE  Placed'
<1>1. CASE Next
  BY <1>1, OwnedStep, OwnKeysStep, HomesStep, PickedStep DEF Placed
<1>2. CASE UNCHANGED vars
  <2>1. UNCHANGED <<key, rh, rt, rv, ring, snd, rcv>>
    BY <1>2 DEF vars
  <2>2. \A i : In(i)' = In(i) /\ \A j : Queued(i, j)' = Queued(i, j)
    BY <2>1 DEF In, Count, Queued, Ring, Slot
  <2>3. Off' = Off
    BY <2>1 DEF Off
  <2>4. Owned' /\ OwnKeys' /\ Homes'
    BY <2>1, <2>2 DEF Placed, Owned, OwnKeys, Homes, Sharing, Shared
  <2>5. Picked'
    BY <2>1, <2>2, <2>3 DEF Placed, Picked, Pick
  <2> QED BY <2>4, <2>5 DEF Placed
<1> QED BY <1>1, <1>2

(* What a receive takes is what it asked for, *)
LEMMA TakesAsked ==
  ASSUME Orderly, Stocked, Unwrapped, Picked, [Next]_vars, got' # got
  PROVE  /\ AdvanceRh \/ TakeMid
         /\ rcv.c \in Channels /\ Spot \in In(rcv.c)
         /\ got'[Len(got')] = Queued(rcv.c, Spot) /\ Pick(rcv.c, Spot)
         /\ rcv.kind = "any" => Spot = 0
<1>0. TypeOK /\ rcv.c \in Channels /\ got \in Seq(AnyMsg)
  BY DEF Orderly, KeyInv, TypeOK, RcvTypes, RcvRegs
<1>1. AdvanceRh \/ TakeMid
  <2>1. ASSUME NEW s \in Senders, SendBegin(s) \/ SenderStep(s) \/ Kill(s) PROVE FALSE
    BY <2>1 DEF SenderStep, SendBegin, ScanSlot, ScanShare, ResetSlot, CasSlot, MsgCopy,
       Resume, MemDenied, PushRoom, PushFull, WriteSlot, PublishRt, GrowLock,
       InstallRing, SwapRing, WakeOwner, Kill, owner
  <2>2. CASE (RecvBegin \/ OwnerStep) /\ ~(AdvanceRh \/ TakeMid)
    BY <2>2 DEF OwnerStep, RecvBegin, ScanAny, ScanRes, ScanFrom, CountFrom, ScanShared,
       TakeHead, BlockCas, Rescan, Park, Unpark
  <2> QED BY <2>1, <2>2 DEF Next, vars
<1>2. PICK c \in Channels : c = rcv.c
  BY <1>0
<1>3. PICK x : x = Spot
  OBVIOUS
<1>4. x \in In(c) /\ got' = Append(got, Queued(c, x))
  BY <1>1, <1>2, <1>3, TakeEffect DEF Stocked
<1>5. got'[Len(got')] = Queued(c, x)
  BY <1>0, <1>4
<1>6. rcv.pc \in {"take", "advance"}
  BY <1>1 DEF AdvanceRh, TakeMid, RAt
<1>7. Pick(c, x) /\ (rcv.kind = "any" => x = 0)
  BY <1>2, <1>3, <1>6 DEF Picked, Stocked, Chosen, Spot
<1> QED BY <1>0, <1>1, <1>2, <1>3, <1>4, <1>5, <1>7

(* a message of the sender named, a Result, *)
LEMMA TakesSelected ==
  ASSUME Orderly, Stocked, Unwrapped, Placed, [Next]_vars, got' # got
  PROVE  LET m == got'[Len(got')] IN
         /\ rcv.kind = "from" => m \in MsgsOf(rcv.from)
         /\ rcv.kind = "res" => m \in Results
<1>1. PICK c \in Channels : c = rcv.c
  BY TakesAsked DEF Placed
<1>2. PICK x \in In(c) : x = Spot
  BY <1>1, TakesAsked DEF Placed
<1>3. got'[Len(got')] = Queued(c, x) /\ Pick(c, x)
  BY <1>1, <1>2, TakesAsked DEF Placed
<1>4. Queued(c, x) \in Msgs
  BY DEF Stocked, Stock, Published, Orderly, KeyInv, TypeOK
<1> QED BY <1>3, <1>4 DEF Pick, MsgsOf, Msgs

(* and of its sender's messages that it could have taken the oldest: the   *)
(* older ones are received.                                                *)
LEMMA TakesOldest ==
  ASSUME Orderly, Stocked, Unwrapped, Placed, [Next]_vars, got' # got,
         NEW p \in pub, NEW m, m = got'[Len(got')],
         p[1] = m[1], p[2] < m[2], rcv.kind = "res" => p \in Results
  PROVE  \E j \in DOMAIN got : got[j] = p
<1> SUFFICES ASSUME ~ \E j \in DOMAIN got : got[j] = p PROVE FALSE
  OBVIOUS
<1>0. TypeOK /\ pub \subseteq Msgs /\ rcv.kind \in {"any", "from", "res"}
  BY DEF Orderly, KeyInv, TypeOK, RcvTypes, RcvRegs
<1>1. PICK c \in Channels : c = rcv.c
  BY TakesAsked DEF Placed
<1>2. PICK x \in In(c) : x = Spot
  BY <1>1, TakesAsked DEF Placed
<1>3. m = Queued(c, x) /\ Pick(c, x) /\ (rcv.kind = "any" => x = 0)
  BY <1>1, <1>2, TakesAsked DEF Placed
<1>4. PICK i \in Channels : \E j \in In(i) : Queued(i, j) = p
  BY DEF Stocked, Stock, NoneLost
<1>5. PICK j \in In(i) : Queued(i, j) = p
  BY <1>4
<1>6. p \in Msgs /\ m \in Msgs /\ p[2] \in Int /\ m[2] \in Int /\ m[1] \in Senders
  <2>1. m \in pub
    BY <1>3 DEF Stocked, Stock, Published
  <2> QED BY <1>0, <2>1 DEF Msgs
(* in one channel the order is that of the numbers, and the first is picked *)
<1>7. CASE i = c
  <2>1. j \in Int /\ x \in Int /\ Count(c) \in Nat
    BY <1>7, RingHere DEF In
  <2>2. j < x
    <3>1. ~(x < j)
      BY <1>3, <1>5, <1>6, <1>7 DEF Stocked, Stock, Sorted
    <3>2. j # x
      BY <1>3, <1>5, <1>6, <1>7
    <3> QED BY <2>1, <3>1, <3>2
  <2>3. j \in 0 .. x - 1 /\ x # 0
    BY <1>7, <2>1, <2>2 DEF In
  <2> QED BY <1>0, <1>3, <1>5, <1>7, <2>3 DEF Pick
(* a sender's messages are in one channel *)
<1>8. CASE i # c
  <2>1. ASSUME NEW k \in Dedicated, NEW y \in In(k), Queued(k, y)[1] = m[1]
        PROVE  key[k] = m[1]
    BY <2>1 DEF Placed, Owned
  <2>2. ASSUME NEW y \in In(SHIDX), Queued(SHIDX, y)[1] = m[1], NEW k \in Dedicated
        PROVE  key[k] # m[1]
    BY <1>6, <2>2 DEF Placed, Homes, Sharing
  <2>3. CASE i \in Dedicated /\ c \in Dedicated
    BY <1>3, <1>5, <1>6, <1>8, <2>1, <2>3 DEF Placed, OwnKeys
  <2>4. CASE i = SHIDX /\ c \in Dedicated
    BY <1>3, <1>5, <2>1, <2>2, <2>4
  <2>5. CASE i \in Dedicated /\ c = SHIDX
    BY <1>3, <1>5, <2>1, <2>2, <2>5
  <2> QED BY <1>8, <2>3, <2>4, <2>5, ChannelSets
<1> QED BY <1>7, <1>8

(* Every receive takes what it asked for and of its sender's messages that *)
(* it could have taken the oldest, where nobody dies: with a death a slot  *)
(* changes hands and neither is so (README, section 5, entries 5 and 6).   *)
THEOREM TakesOldestFirst ==
  Calm /\ Mortal = {} => (Spec /\ []Unwrapped => TakesTheOldest)
<1> SUFFICES ASSUME Calm, Mortal = {} PROVE Spec /\ []Unwrapped => TakesTheOldest
  OBVIOUS
<1> DEFINE OrderInv == Orderly /\ Stocked /\ Placed
<1>1. Init => OrderInv
  BY OrderlyInit, StockedInit, PlacedInit
<1>2. OrderInv /\ Unwrapped /\ [Next]_vars => OrderInv'
  BY OrderlyStep, StockedStep, PlacedStep
<1>3. OrderInv /\ Unwrapped /\ [Next]_vars =>
        [got' # got => LET m == got'[Len(got')] IN
           /\ rcv.kind = "from" => m \in MsgsOf(rcv.from)
           /\ rcv.kind = "res" => m \in Results]_vars
  BY TakesSelected
<1>4. OrderInv /\ Unwrapped /\ [Next]_vars =>
        [got' # got =>
           LET m == got'[Len(got')] IN
           \A p \in pub :
             p[1] = m[1] /\ p[2] < m[2] /\ (rcv.kind = "res" => p \in Results)
               => \E j \in DOMAIN got : got[j] = p]_vars
  BY TakesOldest
<1> QED
  BY <1>1, <1>2, <1>3, <1>4, PTL DEF Spec, TakesTheOldest, SelectiveTakes, PerSenderFifo

----------------------------------------------------------------------------
(* The refinement.  What waits in a sender's queue is what of its messages *)
(* was published and not received.                                         *)
Waits(s) == {m \in MsgsOf(s) : m \in pub /\ \A a \in DOMAIN got : got[a] # m}

(* So the abstract queues follow from the two histories. *)
LEMMA InboxIs == Stock => Inbox = [s \in Senders |-> Waits(s)]
<1> SUFFICES ASSUME Stock PROVE Inbox = [s \in Senders |-> Waits(s)]
  OBVIOUS
<1>1. ASSUME NEW s \in Senders, NEW m \in MsgsOf(s)
      PROVE  (\E i \in Channels : Hits(i, {m}) # {})
               <=> m \in pub /\ \A a \in DOMAIN got : got[a] # m
  <2>1. ASSUME NEW i \in Channels, Hits(i, {m}) # {}
        PROVE  m \in pub /\ \A a \in DOMAIN got : got[a] # m
    <3>1. PICK j \in In(i) : Queued(i, j) = m
      BY <2>1 DEF Hits, In
    <3> QED BY <3>1 DEF Stock, Published, GotGone
  <2>2. ASSUME m \in pub, \A a \in DOMAIN got : got[a] # m
        PROVE  \E i \in Channels : Hits(i, {m}) # {}
    <3>1. PICK i \in Channels : \E j \in In(i) : Queued(i, j) = m
      BY <2>2 DEF Stock, NoneLost
    <3>2. PICK j \in In(i) : Queued(i, j) = m
      BY <3>1
    <3>3. j \in Hits(i, {m})
      BY <3>2 DEF Hits, In
    <3> QED BY <3>3
  <2> QED BY <2>1, <2>2
<1>2. ASSUME NEW s \in Senders
      PROVE  {m \in MsgsOf(s) : \E i \in Channels : Hits(i, {m}) # {}} = Waits(s)
  BY <1>1 DEF Waits
<1> QED BY <1>2 DEF Inbox

(* The same of the next state. *)
LEMMA InboxNext == (Stock => Inbox = [s \in Senders |-> Waits(s)])'
BY InboxIs, PTL

(* Nothing is published but by the store of rt: Put. *)
LEMMA PublishIsPut ==
  ASSUME Orderly, Stocked, Unwrapped, NEW s \in Senders, PublishRt(s)
  PROVE  \E n \in 1 .. Sends : Fifo!Put(s, n)
<1>0. TypeOK /\ pub \subseteq Msgs /\ snd[s].pc = "publish"
  BY DEF Orderly, KeyInv, TypeOK, PublishRt, At
<1>1. PICK n : n = nth[s] + 1
  OBVIOUS
<1>2. ThisMsg(s) = <<s, n>> /\ n \in 1 .. Sends
  <2>1. ThisMsg(s) \in Msgs /\ ThisMsg(s) = <<s, n>>
    BY <1>0, <1>1, ThisMsgType DEF ThisMsg
  <2> QED BY <2>1 DEF Msgs
<1>3. pub' = pub \cup {<<s, n>>} /\ UNCHANGED got
  BY <1>2 DEF PublishRt, owner
<1>4. \A m \in pub : m[1] = s => m[2] < n
  <2> SUFFICES ASSUME NEW m \in pub, m[1] = s PROVE m[2] < n
    OBVIOUS
  <2>1. m[2] <= nth[s]
    BY <1>0 DEF Stocked, Numbered
  <2>2. m[2] \in Nat /\ nth[s] \in Nat
    BY <1>0, SizeAssumption DEF Msgs, TypeOK, SndTypes
  <2> QED BY <1>1, <2>1, <2>2
<1>5. <<s, n>> \notin pub
  BY <1>2, <1>4
<1>6. Inbox' = [Inbox EXCEPT ![s] = @ \cup {<<s, n>>}]
  <2>1. Inbox = [t \in Senders |-> Waits(t)]
    BY InboxIs DEF Stocked
  <2>2. Stock'
    BY PublishStocks
  <2>3. Inbox' = [t \in Senders |-> Waits(t)']
    BY <2>2, InboxNext
  <2>4. \A a \in DOMAIN got : got[a] # <<s, n>>
    BY <1>5 DEF Stocked, Stock, GotGone
  <2>5. Waits(s)' = Waits(s) \cup {<<s, n>>}
    BY <1>2, <1>3, <2>4 DEF Waits, MsgsOf
  <2>6. ASSUME NEW t \in Senders, t # s PROVE Waits(t)' = Waits(t)
    BY <1>3, <2>6 DEF Waits, MsgsOf
  <2> QED BY <2>1, <2>3, <2>5, <2>6
<1> QED BY <1>2, <1>3, <1>4, <1>6 DEF Fifo!Put

(* Nothing is received but by the store of rh: Receive. *)
LEMMA TakeIsReceive ==
  ASSUME Orderly, Stocked, Unwrapped, Placed, [Next]_vars, got' # got,
         Stock'
  PROVE  \E s \in Senders : Fifo!Receive(s)
<1>0. TypeOK /\ pub \subseteq Msgs /\ got \in Seq(AnyMsg)
  BY DEF Orderly, KeyInv, TypeOK, RcvTypes
<1>1. PICK c \in Channels : c = rcv.c
  BY TakesAsked DEF Placed
<1>2. PICK x \in In(c) : x = Spot
  BY <1>1, TakesAsked DEF Placed
<1>3. PICK m : m = Queued(c, x)
  OBVIOUS
<1>4. (AdvanceRh \/ TakeMid) /\ got'[Len(got')] = m /\ Pick(c, x)
  BY <1>1, <1>2, <1>3, TakesAsked DEF Placed
<1>5. got' = Append(got, m) /\ UNCHANGED pub
  BY <1>1, <1>2, <1>3, <1>4, TakeEffect DEF Stocked
<1>6. m \in pub /\ \A a \in DOMAIN got : got[a] # m
  BY <1>3 DEF Stocked, Stock, Published, GotGone
<1>7. m \in Msgs
  BY <1>0, <1>6
<1>8. PICK s \in Senders : m[1] = s /\ m \in MsgsOf(s)
  BY <1>7 DEF Msgs, MsgsOf
<1>i. Inbox = [t \in Senders |-> Waits(t)]
  BY InboxIs DEF Stocked
<1>9. m \in Inbox[s]
  BY <1>6, <1>8, <1>i DEF Waits
<1>10. ASSUME NEW p \in Inbox[s], rcv.kind = "res" => p \in Results PROVE m[2] <= p[2]
  <2>1. p \in pub /\ p[1] = m[1] /\ \A a \in DOMAIN got : got[a] # p
    BY <1>8, <1>i, <1>10 DEF Waits, MsgsOf
  <2>2. ~(p[2] < m[2])
    BY <1>4, <1>10, <2>1, TakesOldest
  <2>3. p[2] \in Int /\ m[2] \in Int
    BY <1>0, <1>7, <2>1 DEF Msgs
  <2> QED BY <2>2, <2>3
<1>11. \E W \in {MsgsOf(s), Results} : m \in Fifo!Oldest(s, W)
  <2>1. CASE rcv.kind = "res"
    <3>1. m \in Results
      BY <1>3, <1>4, <2>1 DEF Pick
    <3>2. m \in Fifo!Oldest(s, Results)
      BY <1>9, <1>10, <3>1 DEF Fifo!Oldest
    <3> QED BY <3>2
  <2>2. CASE rcv.kind # "res"
    <3>1. m \in Fifo!Oldest(s, MsgsOf(s))
      BY <1>8, <1>9, <1>10, <2>2 DEF Fifo!Oldest
    <3> QED BY <3>1
  <2> QED BY <2>1, <2>2
<1>12. Inbox' = [Inbox EXCEPT ![s] = @ \ {m}]
  <2>1. Inbox' = [t \in Senders |-> Waits(t)']
    BY InboxNext
  <2>2. /\ DOMAIN got' = DOMAIN got \cup {Len(got) + 1} /\ got'[Len(got) + 1] = m
        /\ \A a \in DOMAIN got : got'[a] = got[a]
    <3>1. m \in AnyMsg
      BY <1>7 DEF AnyMsg
    <3>2. DOMAIN got = 1 .. Len(got) /\ Len(got) \in Nat /\ DOMAIN got' = 1 .. Len(got) + 1
      BY <1>0, <1>5, <3>1
    <3>3. \A a \in 1 .. Len(got) : got'[a] = got[a]
      BY <1>0, <1>5, <3>1
    <3>4. got'[Len(got) + 1] = m
      BY <1>0, <1>5, <3>1
    <3> QED BY <3>2, <3>3, <3>4
  <2>3. \A p : (\A a \in DOMAIN got' : got'[a] # p) <=> p # m /\ \A a \in DOMAIN got : got[a] # p
    BY <2>2
  <2>4. \A t \in Senders : Waits(t)' = Waits(t) \ {m}
    BY <1>5, <2>3 DEF Waits, MsgsOf
  <2>5. \A t \in Senders : t # s => m \notin Waits(t)
    BY <1>8 DEF Waits, MsgsOf
  <2>6. ASSUME NEW t \in Senders
        PROVE  Waits(t)' = IF t = s THEN Waits(t) \ {m} ELSE Waits(t)
    BY <2>4, <2>5
  <2>7. Inbox' = [t \in Senders |-> IF t = s THEN Waits(t) \ {m} ELSE Waits(t)]
    BY <2>1, <2>6
  <2>8. [Inbox EXCEPT ![s] = @ \ {m}]
          = [t \in Senders |-> IF t = s THEN Waits(t) \ {m} ELSE Waits(t)]
    BY <1>i
  <2> QED BY <2>7, <2>8
<1> QED BY <1>5, <1>11, <1>12 DEF Fifo!Receive, MsgsOf

(* Every other step leaves the abstract mailbox alone. *)
LEMMA FifoStep ==
  ASSUME Orderly, Stocked, Unwrapped, Placed, [Next]_vars
  PROVE  [Fifo!FifoNext]_<<Inbox, pub, got>>
<1>0. Stock' /\ TypeOK
  BY StockedStep DEF Stocked, Orderly, KeyInv
<1>1. CASE got' # got
  BY <1>0, <1>1, TakeIsReceive DEF Fifo!FifoNext
<1>2. CASE \E s \in Senders : PublishRt(s)
  BY <1>2, PublishIsPut DEF Fifo!FifoNext
<1>3. CASE UNCHANGED <<pub, got>>
  <2>1. \A s \in Senders : Waits(s)' = Waits(s)
    BY <1>3 DEF Waits, MsgsOf
  <2>2. Inbox' = [s \in Senders |-> Waits(s)']
    BY <1>0, InboxNext
  <2>3. Inbox' = Inbox
    BY <2>1, <2>2, InboxIs DEF Stocked
  <2> QED BY <1>3, <2>3
<1>4. UNCHANGED pub \/ \E s \in Senders : PublishRt(s)
  <2>1. ASSUME NEW s \in Senders, SendBegin(s) \/ SenderStep(s) \/ Kill(s)
        PROVE  UNCHANGED pub \/ PublishRt(s)
    BY <1>0, <2>1, SendsCount
  <2>2. CASE RecvBegin \/ OwnerStep
    BY <2>2 DEF OwnerStep, RecvBegin, ScanAny, ScanRes, ScanFrom, CountFrom, ScanShared,
       TakeHead, AdvanceRh, TakeMid, BlockCas, Rescan, Park, Unpark, sends
  <2> QED BY <2>1, <2>2 DEF Next, vars
<1> QED BY <1>1, <1>2, <1>3, <1>4

(* The channel block implements the bounded mailbox, where nobody dies:     *)
(* behind slots, rings that grow, the shared ring and its lock, a sender    *)
(* sees one queue, from which each receive takes the oldest it asked for.   *)
THEOREM RingsImplementQueues ==
  Calm /\ Mortal = {} => (Spec /\ []Unwrapped => ImplementsFifo)
<1> SUFFICES ASSUME Calm, Mortal = {} PROVE Spec /\ []Unwrapped => ImplementsFifo
  OBVIOUS
<1> DEFINE OrderInv == Orderly /\ Stocked /\ Placed
<1>1. Init => OrderInv
  BY OrderlyInit, StockedInit, PlacedInit
<1>2. OrderInv /\ Unwrapped /\ [Next]_vars => OrderInv'
  BY OrderlyStep, StockedStep, PlacedStep
<1>3. Init => Fifo!FifoInit
  <2> SUFFICES ASSUME Init PROVE Fifo!FifoInit
    OBVIOUS
  <2>1. Inbox = [s \in Senders |-> Waits(s)]
    BY OrderlyInit, StockedInit, InboxIs DEF Stocked
  <2>2. pub = {} /\ got = <<>>
    BY DEF Init
  <2>3. \A s \in Senders : Waits(s) = {}
    BY <2>2 DEF Waits
  <2> QED BY <2>1, <2>2, <2>3 DEF Fifo!FifoInit
<1>4. OrderInv /\ Unwrapped /\ [Next]_vars => [Fifo!FifoNext]_<<Inbox, pub, got>>
  BY FifoStep
<1> QED BY <1>1, <1>2, <1>3, <1>4, PTL DEF Spec, ImplementsFifo, Fifo!FifoSpec
=============================================================================

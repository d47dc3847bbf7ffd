---------------------------- MODULE QueueProofs -----------------------------
(***************************************************************************)
(* Queues whose order is the point: the descriptor rings of virt/net.c,    *)
(* the growth ledger and the severity rings of runtime.c, and the backlog  *)
(* of a hart (actors.c).                                                   *)
(***************************************************************************)
EXTENDS Admission, LogRings, Virtq, FiniteSetTheorems, SequenceTheorems, TLAPS

(* Euclidean division, and its uniqueness.                                 *)
LEMMA DivMod ==
  ASSUME NEW a \in Int, NEW n \in Nat \ {0}
  PROVE a \div n \in Int /\ a % n \in 0 .. n-1 /\ a = n * (a \div n) + (a % n)
BY ONLY a \in Int, n \in Nat \ {0}

(* ... and no other remainder.                                             *)
LEMMA DivModU ==
  ASSUME NEW n \in Nat \ {0}, NEW q \in Int, NEW r \in 0 .. n-1
  PROVE (n * q + r) % n = r
BY ONLY q \in Int, n \in Nat \ {0}, r \in 0 .. n-1

(* A multiple of the modulus does not change the remainder.                *)
LEMMA ModShift ==
  ASSUME NEW n \in Nat \ {0}, NEW q \in Int, NEW a \in Int
  PROVE (n * q + a) % n = a % n
<1>1. PICK p \in Int, r \in 0 .. n - 1 : a = n * p + r /\ a % n = r
  BY DivMod
<1>2. n * q + a = n * (q + p) + r
  BY <1>1
<1>3. (n * (q + p) + r) % n = r
  BY <1>1, DivModU
<1> QED BY <1>1, <1>2, <1>3

(* A divisor of the modulus sees the same remainder.                       *)
LEMMA ModMod ==
  ASSUME NEW a \in Int, NEW m \in Nat \ {0}, NEW n \in Nat \ {0}, m % n = 0
  PROVE (a % m) % n = a % n
<1>1. PICK p \in Int, r \in 0 .. m - 1 : a = m * p + r /\ a % m = r
  BY DivMod
<1>2. PICK q \in Int : m = n * q
  <2>1. m \in Int /\ m \div n \in Int /\ m = n * (m \div n) + (m % n)
    BY DivMod
  <2>2. m = n * (m \div n)
    BY <2>1
  <2> QED BY <2>1, <2>2
<1>3. n * (q * p) + r = a
  BY <1>1, <1>2
<1>4. (n * (q * p) + r) % n = r % n
  <2>1. q * p \in Int /\ r \in Int
    BY <1>1, <1>2
  <2> QED BY ONLY <2>1, ModShift, n \in Nat \ {0}
<1> QED BY <1>1, <1>3, <1>4

(* Numbers less than the modulus apart have different remainders.          *)
LEMMA ModApart ==
  ASSUME NEW a \in Int, NEW b \in Int, NEW n \in Nat \ {0}, a < b, b < a + n
  PROVE a % n # b % n
<1> SUFFICES ASSUME a % n = b % n PROVE FALSE
  OBVIOUS
<1>1. PICK p \in Int, r \in 0 .. n - 1 : a = n * p + r /\ a % n = r
  BY DivMod
<1>2. PICK q \in Int, s \in 0 .. n - 1 : b = n * q + s /\ b % n = s
  BY DivMod
<1>3. b - a = n * (q - p)
  BY <1>1, <1>2
<1>4. CASE q - p <= 0
  <2>1. n * (q - p) <= 0
    BY <1>4
  <2> QED BY <2>1, <1>3
<1>5. CASE q - p >= 1
  <2>1. n * (q - p) >= n
    BY <1>5
  <2> QED BY <2>1, <1>3
<1> QED BY <1>4, <1>5

(* The remainder may be taken before an addition.                          *)
LEMMA ModPlus ==
  ASSUME NEW a \in Int, NEW b \in Int, NEW n \in Nat \ {0}
  PROVE ((a % n) + b) % n = (a + b) % n
<1>1. PICK p \in Int, r \in 0 .. n - 1 : a = n * p + r /\ a % n = r
  BY DivMod
<1>2. n * p + (r + b) = a + b
  BY <1>1
<1>3. (n * p + (r + b)) % n = (r + b) % n
  <2>1. r + b \in Int
    BY <1>1
  <2> QED BY <2>1, <1>1, ModShift
<1> QED BY <1>1, <1>2, <1>3

-----------------------------------------------------------------------------
(* The virtqueues of virt/net.c.  Each index is a count modulo IdxMod: Made *)
(* of the buffers posted, of those the device has filled, of those handled. *)
Made == Len(handled) + QSZ - (IF cur = -1 THEN 0 ELSE 1)
Filled == Len(taken)
Done == Len(handled)
Used == [k \in Nat |-> rxUsed.ring[k % QSZ]]
Posted == [k \in Nat |-> rxAvail.ring[k % QSZ]]
QueueTypes ==
  /\ rxAvail \in [ring : [Bufs -> Bufs], idx : Nat] /\ rxUsed \in [ring : [Bufs -> Bufs], idx : Nat]
  /\ rxBufs \in [Bufs -> Nat] /\ cur \in Bufs \cup {-1}
  /\ taken \in Seq(Nat) /\ handled \in Seq(Nat) /\ arrived \in Nat
Indices ==
  /\ rxAvail.idx = Made % IdxMod /\ rxUsed.idx = Filled % IdxMod
  /\ rxSeen = Filled % IdxMod /\ lastUsed = Done % IdxMod
  /\ Done <= Filled /\ Filled <= Made
(* A buffer is posted, filled or being handled, and in one place.           *)
BufferOnce ==
  /\ \A j, k \in Done .. Filled - 1 : j # k => Used[j] # Used[k]
  /\ \A j, k \in Filled .. Made - 1 : j # k => Posted[j] # Posted[k]
  /\ \A j \in Done .. Filled - 1, k \in Filled .. Made - 1 : Used[j] # Posted[k]
  /\ \A j \in Done .. Filled - 1 : Used[j] # cur
  /\ \A k \in Filled .. Made - 1 : Posted[k] # cur
FramesKept ==
  /\ \A k \in Done .. Filled - 1 : rxBufs[Used[k]] = taken[k + 1]
  /\ \A k \in 1 .. Done : handled[k] = taken[k]
RxInv == QueueTypes /\ Indices /\ BufferOnce /\ FramesKept

LEMMA Moduli ==
  ASSUME QueueSizes
  PROVE  /\ QSZ \in Nat \ {0} /\ IdxMod \in Nat \ {0} /\ IdxMod > QSZ
         /\ \A a \in Nat : a % QSZ \in Bufs /\ a % IdxMod \in Nat /\ (a % IdxMod) % QSZ = a % QSZ
                           /\ Next16(a % IdxMod) = (a + 1) % IdxMod
         /\ \A a, b \in Nat : a <= b /\ b <= a + QSZ /\ a # b => a % IdxMod # b % IdxMod
         /\ \A a, b \in Nat : a # b /\ a < b + QSZ /\ b < a + QSZ => a % QSZ # b % QSZ
<1>1. QSZ \in Nat \ {0} /\ IdxMod \in Nat \ {0} /\ IdxMod > QSZ /\ IdxMod % QSZ = 0
  BY DEF QueueSizes
<1>2. ASSUME NEW a \in Nat
      PROVE  /\ a % QSZ \in Bufs /\ a % IdxMod \in Nat /\ (a % IdxMod) % QSZ = a % QSZ
             /\ Next16(a % IdxMod) = (a + 1) % IdxMod
  <2>0. a \in Int /\ 1 \in Int
    OBVIOUS
  <2>1. a % QSZ \in 0 .. QSZ - 1 /\ a % IdxMod \in 0 .. IdxMod - 1
    BY <1>1, DivMod
  <2>2. (a % IdxMod) % QSZ = a % QSZ
    BY <1>1, <2>0, ModMod, Zenon
  <2>3. ((a % IdxMod) + 1) % IdxMod = (a + 1) % IdxMod
    BY <1>1, <2>0, ModPlus, Zenon
  <2> QED BY <2>1, <2>2, <2>3 DEF Bufs, Next16
<1>3. ASSUME NEW a \in Nat, NEW b \in Nat, a <= b, b <= a + QSZ, a # b PROVE a % IdxMod # b % IdxMod
  <2>1. a \in Int /\ b \in Int /\ a < b /\ b < a + IdxMod
    BY <1>1, <1>3
  <2> QED BY <1>1, <2>1, ModApart, Zenon
<1>4. ASSUME NEW a \in Nat, NEW b \in Nat, a # b, a < b + QSZ, b < a + QSZ PROVE a % QSZ # b % QSZ
  <2>0. a \in Int /\ b \in Int
    OBVIOUS
  <2>1. CASE a < b
    BY <1>1, <1>4, <2>0, <2>1, ModApart, Zenon
  <2>2. CASE b < a
    BY <1>1, <1>4, <2>0, <2>2, ModApart, Zenon
  <2> QED BY <1>4, <2>1, <2>2
<1> QED BY <1>1, <1>2, <1>3, <1>4

(* Put writes the entry its index stands for, and none of the QSZ - 1 before. *)
Queue == [ring : [Bufs -> Bufs], idx : Nat]
LEMMA PutAt ==
  ASSUME QueueSizes, NEW q \in Queue, NEW n \in Nat, q.idx = n % IdxMod, NEW b \in Bufs
  PROVE  /\ Put(q, b) \in Queue /\ Put(q, b).idx = (n + 1) % IdxMod
         /\ Put(q, b).ring[n % QSZ] = b
         /\ \A k \in Nat : k < n /\ n < k + QSZ => Put(q, b).ring[k % QSZ] = q.ring[k % QSZ]
<1>1. PICK p : p = Put(q, b)
  OBVIOUS
<1>2. PICK s \in Bufs : s = n % QSZ /\ q.idx % QSZ = s
  BY Moduli
<1>3. p = [ring |-> [q.ring EXCEPT ![s] = b], idx |-> (n + 1) % IdxMod]
  BY <1>1, <1>2, Moduli DEF Put
<1>4. (n + 1) % IdxMod \in Nat
  BY Moduli
<1>5. q.ring \in [Bufs -> Bufs]
  BY DEF Queue
<1>6. p \in Queue /\ p.idx = (n + 1) % IdxMod /\ p.ring[s] = b
  BY <1>3, <1>4, <1>5 DEF Queue
<1>7. ASSUME NEW k \in Nat, k < n, n < k + QSZ PROVE p.ring[k % QSZ] = q.ring[k % QSZ]
  <2>1. PICK u \in Bufs : u = k % QSZ /\ u # s
    <3>1. k % QSZ \in Bufs
      BY Moduli
    <3>2. k # n /\ n < k + QSZ /\ k < n + QSZ
      BY <1>7, Moduli
    <3>3. k % QSZ # n % QSZ
      BY <3>2, Moduli
    <3> QED BY <1>2, <3>1, <3>3
  <2> QED BY <1>3, <1>5, <2>1
<1> QED BY <1>1, <1>2, <1>6, <1>7

LEMMA Counts ==
  ASSUME QueueSizes, RxInv
  PROVE  /\ Done \in Nat /\ Filled \in Nat /\ Made \in Nat
         /\ Done <= Filled /\ Filled <= Made /\ Made <= Done + QSZ
         /\ \A k \in Nat : Used[k] \in Bufs /\ Posted[k] \in Bufs
<1>1. QSZ \in Nat \ {0}
  BY DEF QueueSizes
<1>2. Done \in Nat /\ Filled \in Nat
  BY DEF RxInv, QueueTypes, Done, Filled
<1>3. Done <= Filled /\ Filled <= Made
  BY DEF RxInv, Indices
<1>4. Made = Done + QSZ - (IF cur = -1 THEN 0 ELSE 1)
  BY DEF Made, Done
<1>5. Made \in Nat /\ Made <= Done + QSZ
  BY <1>1, <1>2, <1>4
<1>6. ASSUME NEW k \in Nat PROVE Used[k] \in Bufs /\ Posted[k] \in Bufs
  <2>1. k % QSZ \in Bufs
    BY Moduli
  <2> QED BY <2>1 DEF RxInv, QueueTypes, Used, Posted
<1> QED BY <1>2, <1>3, <1>5, <1>6
LEMMA ArriveKeeps == ASSUME QueueSizes, RxInv, Arrive PROVE RxInv'
<1>1. /\ Done \in Nat /\ Filled \in Nat /\ Made \in Nat /\ QSZ \in Nat \ {0}
      /\ Done <= Filled /\ Filled <= Made /\ Made <= Done + QSZ
  BY Counts DEF QueueSizes
<1>2. UNCHANGED <<rxAvail, lastUsed, cur, handled>> /\ arrived' \in Nat
  BY DEF Arrive, RxInv, QueueTypes
<1>3. Made' = Made /\ Done' = Done
  BY <1>2 DEF Made, Done
<1>4. CASE rxSeen = rxAvail.idx
  <2>1. UNCHANGED <<rxUsed, rxSeen, rxBufs, taken>>
    BY <1>4 DEF Arrive
  <2>2. Filled' = Filled /\ \A k \in Nat : Used'[k] = Used[k] /\ Posted'[k] = Posted[k]
    BY <1>2, <2>1 DEF Filled, Used, Posted
  <2>3. QueueTypes' /\ Indices'
    BY <1>2, <1>3, <2>1, <2>2 DEF RxInv, QueueTypes, Indices
  <2>4. BufferOnce' /\ FramesKept'
    BY <1>1, <1>2, <1>3, <2>1, <2>2 DEF RxInv, BufferOnce, FramesKept
  <2> QED BY <2>3, <2>4 DEF RxInv
<1>5. CASE rxSeen # rxAvail.idx
  <2>1. Filled < Made
    BY <1>1, <1>5 DEF RxInv, Indices
  <2>2. PICK b \in Bufs : /\ b = Posted[Filled]
                          /\ rxUsed' = Put(rxUsed, b) /\ rxBufs' = [rxBufs EXCEPT ![b] = arrived + 1]
                          /\ taken' = Append(taken, arrived + 1) /\ rxSeen' = Next16(rxSeen)
    <3>1. rxSeen % QSZ = Filled % QSZ
      BY <1>1, Moduli DEF RxInv, Indices
    <3> QED BY <1>1, <1>5, <3>1, Counts DEF Arrive, Posted
  <2>3. rxUsed \in Queue /\ rxUsed.idx = Filled % IdxMod
    BY DEF RxInv, QueueTypes, Indices, Queue
  <2>4. /\ rxUsed' \in Queue /\ rxUsed'.idx = (Filled + 1) % IdxMod
        /\ Used'[Filled] = b
        /\ \A k \in Done .. Filled - 1 : Used'[k] = Used[k]
    <3>1. \A k \in Done .. Filled - 1 : k \in Nat /\ k < Filled /\ Filled < k + QSZ
      BY <1>1, <2>1
    <3>2. PICK q \in Queue : q = rxUsed /\ q.idx = Filled % IdxMod
      BY <2>3
    <3>3. /\ Put(q, b) \in Queue /\ Put(q, b).idx = (Filled + 1) % IdxMod
          /\ Put(q, b).ring[Filled % QSZ] = b
          /\ \A k \in Nat : k < Filled /\ Filled < k + QSZ => Put(q, b).ring[k % QSZ] = q.ring[k % QSZ]
      BY <1>1, <3>2, PutAt
    <3>4. PICK p : p = Put(q, b) /\ rxUsed' = p
      BY <2>2, <3>2
    <3>5. \A k \in Nat : Used'[k] = p.ring[k % QSZ] /\ Used[k] = q.ring[k % QSZ]
      BY <3>2, <3>4 DEF Used
    <3>6. Filled \in Nat /\ Used'[Filled] = b
      BY <1>1, <3>3, <3>4, <3>5
    <3>7. ASSUME NEW k \in Done .. Filled - 1 PROVE Used'[k] = Used[k]
      <4>1. k \in Nat /\ k < Filled /\ Filled < k + QSZ
        BY <3>1
      <4>2. p.ring[k % QSZ] = q.ring[k % QSZ]
        BY <3>3, <3>4, <4>1
      <4> QED BY <3>5, <4>1, <4>2
    <3>8. rxUsed' \in Queue /\ rxUsed'.idx = (Filled + 1) % IdxMod
      BY <3>3, <3>4
    <3> QED BY <3>6, <3>7, <3>8
  <2>5. Filled' = Filled + 1 /\ taken' \in Seq(Nat) /\ taken'[Filled + 1] = arrived + 1
        /\ \A k \in 1 .. Filled : taken'[k] = taken[k]
    BY <1>1, <2>2 DEF Filled, RxInv, QueueTypes
  <2>6. \A k \in Nat : Posted'[k] = Posted[k]
    BY <1>2 DEF Posted
  <2>7. QueueTypes'
    BY <1>2, <2>2, <2>4, <2>5 DEF RxInv, QueueTypes, Queue
  <2>8. Indices'
    <3>1. rxSeen' = (Filled + 1) % IdxMod
      BY <1>1, <2>2, Moduli DEF RxInv, Indices
    <3>2. Made' = Made /\ Done' = Done /\ Filled' = Filled + 1
      BY <1>3, <2>5
    <3>3. rxAvail'.idx = Made' % IdxMod /\ lastUsed' = Done' % IdxMod
      BY <1>2, <3>2 DEF RxInv, Indices
    <3>4. rxUsed'.idx = Filled' % IdxMod /\ rxSeen' = Filled' % IdxMod
      BY <2>4, <3>1, <3>2
    <3>5. Done' <= Filled' /\ Filled' <= Made'
      BY <1>1, <2>1, <3>2
    <3> QED BY <3>3, <3>4, <3>5 DEF Indices
  <2>9. BufferOnce'
    <3>1. /\ \A j \in Done .. Filled - 1 : b # Used[j]
          /\ \A k \in Filled + 1 .. Made - 1 : b # Posted[k]
          /\ b # cur
      <4>1. Filled \in Filled .. Made - 1 /\ b = Posted[Filled]
        BY <1>1, <2>1, <2>2
      <4>2. \A k \in Filled + 1 .. Made - 1 : k \in Filled .. Made - 1 /\ k # Filled
        BY <1>1
      <4>3. BufferOnce
        BY DEF RxInv
      <4>4. \A k \in Filled + 1 .. Made - 1 : b # Posted[k]
        BY <4>1, <4>2, <4>3 DEF BufferOnce
      <4> QED BY <4>1, <4>3, <4>4 DEF BufferOnce
    <3>2. \A j \in Done .. Filled : j = Filled \/ j \in Done .. Filled - 1
      BY <1>1
    <3>3. \A j, k \in Done .. Filled : j # k => Used'[j] # Used'[k]
      BY <2>4, <3>1, <3>2 DEF RxInv, BufferOnce
    <3>4. \A j \in Done .. Filled, k \in Filled + 1 .. Made - 1 : Used'[j] # Posted[k]
      BY <1>1, <2>4, <3>1, <3>2 DEF RxInv, BufferOnce
    <3>5. \A j \in Done .. Filled : Used'[j] # cur
      BY <2>4, <3>1, <3>2 DEF RxInv, BufferOnce
    <3>6. \A j, k \in Filled + 1 .. Made - 1 : j \in Filled .. Made - 1 /\ k \in Filled .. Made - 1
      BY <1>1
    <3>7. (Filled + 1) - 1 = Filled
      BY <1>1
    <3>8. \A k \in Filled .. Made - 1 : k \in Nat
      BY <1>1
    <3>9. /\ \A j, k \in Filled + 1 .. Made - 1 : j # k => Posted'[j] # Posted'[k]
          /\ \A j \in Done .. Filled, k \in Filled + 1 .. Made - 1 : Used'[j] # Posted'[k]
          /\ \A k \in Filled + 1 .. Made - 1 : Posted'[k] # cur
      <4>1. BufferOnce
        BY DEF RxInv
      <4>2. \A k \in Filled + 1 .. Made - 1 : Posted'[k] = Posted[k] /\ k \in Filled .. Made - 1
        BY <2>6, <3>6, <3>8
      <4>3. \A j, k \in Filled + 1 .. Made - 1 : j # k => Posted[j] # Posted[k]
        BY <3>6, <4>1 DEF BufferOnce
      <4>4. \A k \in Filled + 1 .. Made - 1 : Posted[k] # cur
        BY <4>1, <4>2 DEF BufferOnce
      <4> QED BY <3>4, <4>2, <4>3, <4>4
    <3>10. Filled' = Filled + 1 /\ Done' = Done /\ Made' = Made /\ cur' = cur
      BY <1>2, <1>3, <2>5
    <3> QED BY <3>3, <3>5, <3>7, <3>9, <3>10 DEF BufferOnce
  <2>10. FramesKept'
    <3>1. ASSUME NEW k \in Done .. Filled PROVE rxBufs'[Used'[k]] = taken'[k + 1]
      <4>1. CASE k = Filled
        BY <2>2, <2>4, <2>5, <4>1 DEF RxInv, QueueTypes
      <4>2. CASE k \in Done .. Filled - 1
        <5>1. Used[k] # b /\ Used[k] \in Bufs /\ Used'[k] = Used[k]
          BY <1>1, <2>1, <2>2, <2>4, <4>2, Counts DEF RxInv, BufferOnce
        <5>2. rxBufs'[Used[k]] = rxBufs[Used[k]]
          BY <2>2, <5>1 DEF RxInv, QueueTypes
        <5>3. k + 1 \in 1 .. Filled
          BY <1>1, <4>2
        <5> QED BY <2>5, <4>2, <5>1, <5>2, <5>3 DEF RxInv, FramesKept
      <4> QED BY <1>1, <4>1, <4>2
    <3>2. ASSUME NEW k \in 1 .. Done PROVE handled'[k] = taken'[k]
      BY <1>1, <1>2, <2>5 DEF RxInv, FramesKept
    <3> QED BY <1>1, <1>3, <2>5, <3>1, <3>2 DEF FramesKept
  <2> QED BY <2>7, <2>8, <2>9, <2>10 DEF RxInv
<1> QED BY <1>4, <1>5

(* What a post does: the next place of the posted ring holds the buffer.    *)
LEMMA PostKeeps ==
  ASSUME QueueSizes, RxInv, NEW b \in Bufs, RxPost(b), Made < Filled + QSZ
  PROVE  /\ rxAvail' \in Queue /\ rxAvail'.idx = (Made + 1) % IdxMod
         /\ Posted'[Made] = b /\ \A k \in Filled .. Made - 1 : Posted'[k] = Posted[k]
<1>1. PICK q \in Queue : q = rxAvail /\ q.idx = Made % IdxMod
  BY DEF RxInv, QueueTypes, Indices, Queue
<1>2. /\ Put(q, b) \in Queue /\ Put(q, b).idx = (Made + 1) % IdxMod
      /\ Put(q, b).ring[Made % QSZ] = b
      /\ \A k \in Nat : k < Made /\ Made < k + QSZ => Put(q, b).ring[k % QSZ] = q.ring[k % QSZ]
  BY <1>1, Counts, PutAt
<1>3. PICK p : p = Put(q, b) /\ rxAvail' = p
  BY <1>1 DEF RxPost
<1>4. \A k \in Nat : Posted'[k] = p.ring[k % QSZ] /\ Posted[k] = q.ring[k % QSZ]
  BY <1>1, <1>3 DEF Posted
<1>5. \A k \in Filled .. Made - 1 : k \in Nat /\ k < Made /\ Made < k + QSZ
  BY Counts DEF QueueSizes
<1> QED BY <1>2, <1>3, <1>4, <1>5, Counts
LEMMA PumpKeeps == ASSUME QueueSizes, RxInv, NetPump PROVE RxInv'
<1>1. /\ Done \in Nat /\ Filled \in Nat /\ Made \in Nat /\ QSZ \in Nat \ {0}
      /\ Done <= Filled /\ Filled <= Made /\ Made = Done + QSZ
  BY Counts DEF QueueSizes, NetPump, Made, Done
<1>2. /\ UNCHANGED <<rxUsed, rxSeen, rxBufs, arrived, taken>> /\ cur = -1
      /\ lastUsed # rxUsed.idx /\ lastUsed' = Next16(lastUsed)
  BY DEF NetPump, Consumed
<1>3. Filled' = Filled /\ Used' = Used
  BY <1>2 DEF Filled, Used
<1>4. Done < Filled
  BY <1>1, <1>2 DEF RxInv, Indices
<1>5. PICK b \in Bufs : /\ b = Used[Done] /\ handled' = Append(handled, rxBufs[b])
                        /\ \/ RxPost(b) /\ cur' = cur
                           \/ cur' = b /\ rxAvail' = rxAvail
  <2>1. lastUsed % QSZ = Done % QSZ
    BY <1>1, Moduli DEF RxInv, Indices
  <2>2. Used[Done] = rxUsed.ring[lastUsed % QSZ] /\ Used[Done] \in Bufs
    BY <1>1, <2>1, Counts DEF Used
  <2> QED BY <2>2 DEF NetPump
<1>6. rxBufs[b] = taken[Done + 1]
  BY <1>1, <1>4, <1>5 DEF RxInv, FramesKept
<1>7. /\ Done' = Done + 1 /\ handled' \in Seq(Nat) /\ handled'[Done + 1] = rxBufs[b]
      /\ \A k \in 1 .. Done : handled'[k] = handled[k]
  BY <1>1, <1>5 DEF Done, RxInv, QueueTypes
<1>8. lastUsed' = (Done + 1) % IdxMod
  BY <1>1, <1>2, Moduli DEF RxInv, Indices
<1>9. FramesKept'
  <2>1. \A k \in Done + 1 .. Filled - 1 : k \in Done .. Filled - 1
    BY <1>1
  <2>2. \A k \in 1 .. Done + 1 : k = Done + 1 \/ k \in 1 .. Done
    BY <1>1
  <2> QED BY <1>2, <1>3, <1>6, <1>7, <2>1, <2>2 DEF RxInv, FramesKept
<1>10. /\ \A j, k \in Done + 1 .. Filled - 1 : j # k => Used[j] # Used[k]
       /\ \A j \in Done + 1 .. Filled - 1 : Used[j] # b
       /\ \A k \in Filled .. Made - 1 : Posted[k] # b
       /\ \A j \in Done + 1 .. Filled - 1, k \in Filled .. Made - 1 : Used[j] # Posted[k]
       /\ \A j, k \in Filled .. Made - 1 : j # k => Posted[j] # Posted[k]
  <2>1. \A j \in Done + 1 .. Filled - 1 : j \in Done .. Filled - 1 /\ j # Done
    BY <1>1
  <2>2. Done \in Done .. Filled - 1
    BY <1>1, <1>4
  <2> QED BY <1>5, <2>1, <2>2 DEF RxInv, BufferOnce
<1>11. \A x \in Bufs : x # -1
  BY <1>1 DEF Bufs
<1>12. CASE cur' = b /\ rxAvail' = rxAvail
  <2>1. Made' = Made /\ Posted' = Posted
    <3>1. cur' # -1
      BY <1>11, <1>12
    <3>2. Made' = Done' + QSZ - 1
      BY <3>1 DEF Made, Done
    <3> QED BY <1>1, <1>7, <1>12, <3>2 DEF Posted
  <2>2. QueueTypes'
    BY <1>2, <1>7, <1>12 DEF RxInv, QueueTypes
  <2>3. Indices'
    BY <1>1, <1>2, <1>3, <1>4, <1>7, <1>8, <1>12, <2>1 DEF RxInv, Indices
  <2>4. BufferOnce'
    BY <1>1, <1>3, <1>7, <1>10, <1>12, <2>1 DEF BufferOnce
  <2> QED BY <1>9, <2>2, <2>3, <2>4 DEF RxInv
<1>13. CASE RxPost(b) /\ cur' = cur
  <2>1. Made' = Made + 1
    <3>1. Made' = Done' + QSZ - 0
      BY <1>2, <1>13 DEF Made, Done
    <3> QED BY <1>1, <1>7, <3>1
  <2>2. /\ rxAvail' \in Queue /\ rxAvail'.idx = (Made + 1) % IdxMod
        /\ Posted'[Made] = b /\ \A k \in Filled .. Made - 1 : Posted'[k] = Posted[k]
    <3>1. Made < Filled + QSZ
      BY <1>1, <1>4
    <3> QED BY <1>13, <3>1, PostKeeps
  <2>3. QueueTypes'
    BY <1>2, <1>7, <1>13, <2>2 DEF RxInv, QueueTypes, Queue
  <2>4. Indices'
    BY <1>1, <1>2, <1>3, <1>4, <1>7, <1>8, <2>1, <2>2 DEF RxInv, Indices
  <2>5. BufferOnce'
    <3>1. \A k \in Filled .. Made : k = Made \/ k \in Filled .. Made - 1
      BY <1>1
    <3>2. \A j, k \in Filled .. Made : j # k => Posted'[j] # Posted'[k]
      BY <1>10, <2>2, <3>1
    <3>3. \A j \in Done + 1 .. Filled - 1, k \in Filled .. Made : Used[j] # Posted'[k]
      BY <1>10, <2>2, <3>1
    <3>4. \A j \in Done + 1 .. Filled - 1 : Used[j] \in Bufs
      BY <1>1, Counts
    <3>5. \A k \in Filled .. Made : Posted'[k] \in Bufs
      BY <1>1, <2>2, <3>1, Counts
    <3>6. (Made + 1) - 1 = Made
      BY <1>1
    <3> QED BY <1>2, <1>3, <1>7, <1>10, <1>11, <1>13, <2>1, <3>2, <3>3, <3>4, <3>5, <3>6 DEF BufferOnce
  <2> QED BY <1>9, <2>3, <2>4, <2>5 DEF RxInv
<1> QED BY <1>5, <1>12, <1>13

LEMMA SpinKeeps == ASSUME QueueSizes, RxInv, SpinEnds PROVE RxInv'
<1>1. /\ Done \in Nat /\ Filled \in Nat /\ Made \in Nat /\ QSZ \in Nat \ {0}
      /\ Done <= Filled /\ Filled <= Made
  BY Counts DEF QueueSizes
<1>2. UNCHANGED <<rxUsed, rxSeen, lastUsed, rxBufs, arrived, taken, handled>>
  BY DEF SpinEnds
<1>3. Filled' = Filled /\ Done' = Done /\ Used' = Used
  BY <1>2 DEF Filled, Done, Used
<1>4. CASE cur = -1
  <2>1. UNCHANGED <<rxAvail, cur>>
    BY <1>4 DEF SpinEnds
  <2>2. Made' = Made /\ Posted' = Posted
    BY <1>2, <2>1 DEF Made, Posted
  <2> QED BY <1>2, <1>3, <2>1, <2>2 DEF RxInv, QueueTypes, Indices, BufferOnce, FramesKept
<1>5. CASE cur # -1
  <2>1. RxPost(cur) /\ cur' = -1 /\ cur \in Bufs
    BY <1>5 DEF SpinEnds, RxInv, QueueTypes
  <2>2. Made = Done + QSZ - 1 /\ Made' = Made + 1
    <3>1. Made = Done + QSZ - 1
      BY <1>5 DEF Made, Done
    <3>2. Made' = Done' + QSZ - 0
      BY <2>1 DEF Made, Done
    <3> QED BY <1>1, <1>3, <3>1, <3>2
  <2>3. /\ rxAvail' \in Queue /\ rxAvail'.idx = (Made + 1) % IdxMod
        /\ Posted'[Made] = cur /\ \A k \in Filled .. Made - 1 : Posted'[k] = Posted[k]
    <3>1. Made < Filled + QSZ
      BY <1>1, <2>2
    <3> QED BY <2>1, <3>1, PostKeeps
  <2>4. QueueTypes'
    BY <1>2, <2>1, <2>3 DEF RxInv, QueueTypes, Queue
  <2>5. Indices'
    BY <1>1, <1>2, <1>3, <2>2, <2>3 DEF RxInv, Indices
  <2>6. BufferOnce'
    <3>1. \A k \in Filled .. Made : k = Made \/ k \in Filled .. Made - 1
      BY <1>1
    <3>2. \A j, k \in Filled .. Made : j # k => Posted'[j] # Posted'[k]
      BY <2>3, <3>1 DEF RxInv, BufferOnce
    <3>3. \A j \in Done .. Filled - 1, k \in Filled .. Made : Used[j] # Posted'[k]
      BY <2>3, <3>1 DEF RxInv, BufferOnce
    <3>4. \A j \in Done .. Filled - 1 : Used[j] \in Bufs
      BY <1>1, Counts
    <3>5. \A k \in Filled .. Made : Posted'[k] \in Bufs
      BY <1>1, <2>1, <2>3, <3>1, Counts
    <3>6. (Made + 1) - 1 = Made /\ \A x \in Bufs : x # -1
      BY <1>1 DEF Bufs
    <3> QED BY <1>3, <2>1, <2>2, <3>2, <3>3, <3>4, <3>5, <3>6 DEF RxInv, BufferOnce
  <2>7. FramesKept'
    BY <1>2, <1>3 DEF RxInv, FramesKept
  <2> QED BY <2>4, <2>5, <2>6, <2>7 DEF RxInv
<1> QED BY <1>4, <1>5
LEMMA RxStarts == QueueSizes /\ VInit => RxInv
<1> SUFFICES ASSUME QueueSizes, VInit PROVE RxInv
  OBVIOUS
<1>1. QSZ \in Nat \ {0} /\ IdxMod \in Nat \ {0}
  BY Moduli
<1>2. /\ rxAvail = [ring |-> [i \in Bufs |-> i], idx |-> QSZ % IdxMod] /\ rxUsed = [ring |-> [i \in Bufs |-> 0], idx |-> 0]
      /\ rxSeen = 0 /\ lastUsed = 0 /\ rxBufs = [i \in Bufs |-> 0] /\ cur = -1
      /\ arrived = 0 /\ taken = <<>> /\ handled = <<>>
  BY DEF VInit
<1>3. Done = 0 /\ Filled = 0 /\ Made = QSZ
  BY <1>1, <1>2 DEF Done, Filled, Made
<1>4. 0 \in Bufs /\ QSZ % IdxMod \in Nat /\ 0 % IdxMod = 0
  BY <1>1, Moduli DEF Bufs, QueueSizes
<1>5. QueueTypes
  BY <1>2, <1>4 DEF QueueTypes
<1>6. Indices
  BY <1>1, <1>2, <1>3, <1>4 DEF Indices
<1>7. \A k \in 0 .. QSZ - 1 : Posted[k] = k /\ k # -1
  <2>1. ASSUME NEW k \in 0 .. QSZ - 1 PROVE Posted[k] = k
    <3>1. k \in Nat /\ k % QSZ = k
      BY <1>1
    <3> QED BY <1>2, <3>1 DEF Posted, Bufs
  <2> QED BY <1>1, <2>1
<1>8. BufferOnce /\ FramesKept
  BY <1>1, <1>2, <1>3, <1>7 DEF BufferOnce, FramesKept
<1> QED BY <1>5, <1>6, <1>8 DEF RxInv
LEMMA RxKeeps == QueueSizes /\ RxInv /\ [VNext]_vvars => RxInv'
<1> SUFFICES ASSUME QueueSizes, RxInv, [VNext]_vvars PROVE RxInv'
  OBVIOUS
<1>1. CASE NicTx \/ Transmit \/ UNCHANGED vvars
  <2>1. UNCHANGED <<rxAvail, rxUsed, rxSeen, lastUsed, rxBufs, cur, arrived, taken, handled>>
    BY <1>1 DEF NicTx, Transmit, vvars, rxvars
  <2>2. Made' = Made /\ Done' = Done /\ Filled' = Filled /\ Used' = Used /\ Posted' = Posted
    BY <2>1 DEF Made, Done, Filled, Used, Posted
  <2> QED BY <2>1, <2>2 DEF RxInv, QueueTypes, Indices, BufferOnce, FramesKept
<1> QED BY <1>1, ArriveKeeps, PumpKeeps, SpinKeeps DEF VNext

LEMMA TwoParts ==
  ASSUME NEW h \in Seq(Nat), NEW e \in Seq(Nat), NEW w \in Seq(Nat), Len(w) = Len(h) + Len(e),
         \A k \in 1 .. Len(h) : h[k] = w[k], \A k \in 1 .. Len(e) : e[k] = w[Len(h) + k]
  PROVE  h \o e = w
<1>1. Len(h) \in Nat /\ Len(e) \in Nat
  OBVIOUS
<1>2. h \o e \in Seq(Nat) /\ Len(h \o e) = Len(h) + Len(e)
      /\ \A i \in 1 .. Len(h) + Len(e) : (h \o e)[i] = IF i <= Len(h) THEN h[i] ELSE e[i - Len(h)]
  BY ConcatProperties
<1>3. ASSUME NEW i \in 1 .. Len(w) PROVE (h \o e)[i] = w[i]
  <2>1. CASE i <= Len(h)
    BY <1>1, <1>2, <2>1
  <2>2. CASE i > Len(h)
    <3>0. i - Len(h) \in 1 .. Len(e) /\ Len(h) + (i - Len(h)) = i /\ ~(i <= Len(h))
          /\ i \in 1 .. Len(h) + Len(e)
      BY <1>1, <2>2
    <3>1. PICK k \in 1 .. Len(e) : k = i - Len(h) /\ Len(h) + k = i /\ ~(i <= Len(h))
                                  /\ i \in 1 .. Len(h) + Len(e)
      BY <3>0, Zenon
    <3>2. e[k] = w[i]
      BY <3>1
    <3>3. (h \o e)[i] = e[i - Len(h)]
      BY <1>2, <3>1
    <3> QED BY <3>1, <3>2, <3>3
  <2> QED BY <1>1, <2>1, <2>2
<1> QED BY <1>2, <1>3, SeqEqual
(* What the used ring still holds are the frames after those handled.       *)
LEMMA FramesInOrder == QueueSizes /\ RxInv => RxExact
<1> SUFFICES ASSUME QueueSizes, RxInv PROVE RxExact
  OBVIOUS
<1>1. /\ Done \in Nat /\ Filled \in Nat /\ Done <= Filled /\ Filled <= Done + QSZ
      /\ QSZ \in Nat \ {0} /\ IdxMod \in Nat \ {0} /\ QSZ < IdxMod
  BY Counts, Moduli
<1>2. Waiting = Filled - Done
  <2>1. PICK d \in 0 .. IdxMod - 1 : d = Filled - Done
    BY <1>1
  <2>2. Waiting = ((Filled % IdxMod) - (Done % IdxMod)) % IdxMod
    BY DEF Waiting, RxInv, Indices
  <2>3. PICK p \in Int, r \in 0 .. IdxMod - 1 : Filled = IdxMod * p + r /\ Filled % IdxMod = r
    <3>1. Filled \in Int
      BY <1>1
    <3>2. Filled \div IdxMod \in Int /\ Filled % IdxMod \in 0 .. IdxMod - 1
          /\ Filled = IdxMod * (Filled \div IdxMod) + (Filled % IdxMod)
      BY <1>1, <3>1, DivMod, Zenon
    <3> QED BY <3>2, Zenon
  <2>4. PICK q \in Int, s \in 0 .. IdxMod - 1 : Done = IdxMod * q + s /\ Done % IdxMod = s
    <3>1. Done \in Int
      BY <1>1
    <3>2. Done \div IdxMod \in Int /\ Done % IdxMod \in 0 .. IdxMod - 1
          /\ Done = IdxMod * (Done \div IdxMod) + (Done % IdxMod)
      BY <1>1, <3>1, DivMod, Zenon
    <3> QED BY <3>2, Zenon
  <2>5. r - s = IdxMod * (q - p) + d
    BY <1>1, <2>1, <2>3, <2>4
  <2>6. (r - s) % IdxMod = d
    <3>1. q - p \in Int
      OBVIOUS
    <3> QED BY <1>1, <2>5, <3>1, DivModU, Zenon
  <2> QED BY <2>1, <2>2, <2>3, <2>4, <2>6
<1> DEFINE rest == [i \in 1 .. Waiting |-> rxBufs[rxUsed.ring[(lastUsed + i - 1) % QSZ]]]
<1>3. \A i \in 1 .. Filled - Done : rest[i] = taken[Done + i]
  <2>1. ASSUME NEW i \in 1 .. Filled - Done
        PROVE  rxBufs[rxUsed.ring[(lastUsed + i - 1) % QSZ]] = taken[Done + i]
    <3>1. PICK k \in Done .. Filled - 1 : k = Done + i - 1
      BY <1>1
    <3>2. (lastUsed + i - 1) % QSZ = k % QSZ
      <4>1. Done \in Int /\ i - 1 \in Int /\ Done + (i - 1) = k /\ (Done % IdxMod) \in Int
        BY <1>1, <3>1, Moduli
      <4>2. (((Done % IdxMod) % QSZ) + (i - 1)) % QSZ = k % QSZ
        <5>1. (Done % IdxMod) % QSZ = Done % QSZ
          BY <1>1, Moduli
        <5>2. ((Done % QSZ) + (i - 1)) % QSZ = (Done + (i - 1)) % QSZ
          BY <1>1, <4>1, ModPlus, Zenon
        <5> QED BY <4>1, <5>1, <5>2
      <4>3. (((Done % IdxMod) % QSZ) + (i - 1)) % QSZ = ((Done % IdxMod) + (i - 1)) % QSZ
        BY <1>1, <4>1, ModPlus, Zenon
      <4>4. lastUsed + i - 1 = (Done % IdxMod) + (i - 1)
        <5>1. lastUsed = Done % IdxMod
          BY DEF RxInv, Indices
        <5> QED BY <4>1, <5>1
      <4> QED BY <4>2, <4>3, <4>4
    <3>3. Used[k] = rxUsed.ring[k % QSZ] /\ rxBufs[Used[k]] = taken[k + 1] /\ k + 1 = Done + i
      <4>1. rxBufs[Used[k]] = taken[k + 1]
        BY DEF RxInv, FramesKept
      <4>2. Used[k] = rxUsed.ring[k % QSZ] /\ k + 1 = Done + i
        BY <1>1, <3>1 DEF Used
      <4> QED BY <4>1, <4>2
    <3> QED BY <3>2, <3>3
  <2> QED BY <1>2, <2>1
<1>4. taken \in Seq(Nat) /\ handled \in Seq(Nat) /\ Len(taken) = Filled /\ Len(handled) = Done
  BY DEF RxInv, QueueTypes, Filled, Done
<1>5. rest \in Seq(Nat) /\ Len(rest) = Filled - Done
  <2>1. \A i \in 1 .. Filled - Done : taken[Done + i] \in Nat
    BY <1>1, <1>4
  <2>2. PICK n \in Nat : n = Filled - Done
    BY <1>1
  <2>3. rest = [i \in 1 .. n |-> taken[Done + i]]
    BY <1>2, <1>3, <2>2
  <2> HIDE DEF rest
  <2> QED BY <2>1, <2>2, <2>3
<1>6. handled \o rest = taken
  <2> HIDE DEF rest
  <2>1. PICK h \in Seq(Nat), e \in Seq(Nat), w \in Seq(Nat) : h = handled /\ e = rest /\ w = taken
    BY <1>4, <1>5
  <2>2. \A k \in 1 .. Len(h) : h[k] = w[k]
    BY <1>4, <2>1 DEF RxInv, FramesKept
  <2>3. \A k \in 1 .. Len(e) : e[k] = w[Len(h) + k]
    BY <1>3, <1>4, <1>5, <2>1
  <2>4. h \o e = w
    <3>1. Len(w) = Len(h) + Len(e)
      BY <1>1, <1>4, <1>5, <2>1
    <3> QED BY <2>2, <2>3, <3>1, TwoParts
  <2> QED BY <2>1, <2>4
<1> QED BY <1>6 DEF RxExact

(* Frames leave in the order they were assembled: as long as nic_tx waits   *)
(* for the device, its one buffer is not refilled before it was sent.       *)
TxInv ==
  /\ sent \in Nat /\ wire \in Seq(Nat) /\ Len(wire) <= sent
  /\ \A i \in 1 .. Len(wire) : wire[i] = i
  /\ txBuf = sent /\ txAvail = sent % IdxMod /\ txUsed = Len(wire) % IdxMod
  /\ IF before = -1 THEN Len(wire) = sent
     ELSE 1 <= sent /\ before = (sent - 1) % IdxMod /\ sent - 1 <= Len(wire)
LEMMA TxKeeps == QueueSizes /\ Patient /\ TxInv /\ [VNext]_vvars => TxInv'
<1> SUFFICES ASSUME QueueSizes, Patient, TxInv, [VNext]_vvars PROVE TxInv'
  OBVIOUS
<1>1. sent \in Nat /\ Len(wire) \in Nat /\ wire \in Seq(Nat) /\ Len(wire) <= sent
  BY DEF TxInv
<1>2. CASE Arrive \/ NetPump \/ UNCHANGED vvars
  <2>1. UNCHANGED txvars
    BY <1>2 DEF Arrive, NetPump, vvars, txvars
  <2> QED BY <2>1 DEF TxInv, txvars
<1>3. CASE NicTx
  <2>1. /\ before = -1 /\ sent' = sent + 1 /\ txBuf' = sent + 1 /\ before' = txUsed
        /\ txAvail' = Next16(txAvail) /\ UNCHANGED <<txUsed, wire>>
    BY <1>3 DEF NicTx
  <2>2. Len(wire) = sent /\ txUsed = sent % IdxMod /\ txAvail = sent % IdxMod
    BY <2>1 DEF TxInv
  <2>3. txAvail' = (sent + 1) % IdxMod /\ sent % IdxMod \in Nat
    BY <1>1, <2>1, <2>2, Moduli
  <2>4. (sent + 1) - 1 = sent
    BY <1>1
  <2>5. before' # -1
    BY <2>1, <2>2, <2>3
  <2> QED BY <1>1, <2>1, <2>2, <2>3, <2>4, <2>5 DEF TxInv
<1>4. CASE SpinEnds
  <2>1. before # -1 /\ txUsed # before /\ before' = -1 /\ UNCHANGED <<txBuf, txAvail, txUsed, sent, wire>>
    BY <1>4 DEF SpinEnds, Completed
  <2>2. Len(wire) # sent - 1 /\ sent - 1 <= Len(wire)
    BY <1>1, <2>1 DEF TxInv
  <2>3. Len(wire) = sent
    BY <1>1, <2>2
  <2> QED BY <2>1, <2>3 DEF TxInv
<1>5. CASE Transmit
  <2>1. txUsed # txAvail /\ txUsed' = Next16(txUsed) /\ wire' = Append(wire, txBuf)
        /\ UNCHANGED <<txBuf, txAvail, before, sent>>
    BY <1>5 DEF Transmit
  <2>2. Len(wire) # sent /\ txBuf = sent /\ txUsed = Len(wire) % IdxMod
    BY <2>1 DEF TxInv
  <2>3. before # -1 /\ sent - 1 <= Len(wire)
    BY <2>2 DEF TxInv
  <2>4. Len(wire) + 1 = sent
    BY <1>1, <2>2, <2>3
  <2>5. txUsed' = (Len(wire) + 1) % IdxMod
    BY <1>1, <2>1, <2>2, Moduli
  <2>6. wire' \in Seq(Nat) /\ Len(wire') = Len(wire) + 1 /\ wire'[Len(wire) + 1] = sent
        /\ \A i \in 1 .. Len(wire) : wire'[i] = wire[i]
    BY <1>1, <2>1, <2>2
  <2>7. \A i \in 1 .. Len(wire') : wire'[i] = i
    <3>1. \A i \in 1 .. Len(wire) + 1 : i = Len(wire) + 1 \/ i \in 1 .. Len(wire)
      BY <1>1
    <3> QED BY <2>4, <2>6, <3>1 DEF TxInv
  <2> QED BY <1>1, <2>1, <2>3, <2>4, <2>5, <2>6, <2>7 DEF TxInv
<1> QED BY <1>2, <1>3, <1>4, <1>5 DEF VNext

(* For any number of descriptors and any width of the indices that is a     *)
(* multiple of it: every frame the device has accepted is handled once, in  *)
(* order, also when a handled frame is answered before its buffer is posted *)
(* again; and if nic_tx outlasts the device, what goes out is what was      *)
(* assembled, in order (virt/net.c).                                        *)
THEOREM FramesOnce == QueueSizes => (VSpec => [](RxExact /\ (Patient => TxTrue)))
<1> SUFFICES ASSUME QueueSizes PROVE VSpec => [](RxExact /\ (Patient => TxTrue))
  OBVIOUS
<1> DEFINE Both == RxInv /\ (Patient => TxInv)
<1>1. VInit => Both
  <2> SUFFICES ASSUME VInit PROVE Both
    OBVIOUS
  <2>1. 0 % IdxMod = 0
    BY Moduli
  <2>2. TxInv
    BY <2>1 DEF VInit, TxInv
  <2> QED BY <2>2, RxStarts
<1>2. Both /\ [VNext]_vvars => Both'
  BY RxKeeps, TxKeeps
<1>3. Both => RxExact /\ (Patient => TxTrue)
  <2>1. TxInv => TxTrue
    <3> SUFFICES ASSUME TxInv PROVE TxTrue
      OBVIOUS
    <3>1. PICK n \in Nat, w \in Seq(Nat) : w = wire /\ n = Len(w) /\ \A i \in 1 .. n : w[i] = i
      BY DEF TxInv
    <3>2. w = [i \in 1 .. n |-> i]
      BY <3>1
    <3> QED BY <3>1, <3>2 DEF TxTrue
  <2> QED BY <2>1, FramesInOrder
<1> QED BY <1>1, <1>2, <1>3, PTL DEF VSpec

-----------------------------------------------------------------------------
(* The growth ledger: a slot is valid under a sequence number, or somebody  *)
(* is at work in it.                                                        *)
Slots == 0 .. GROWLOG_N - 1
Event == [seq : Nat, want : Nat, got : Nat]
Stages == {"idle", "invalidate", "want", "got", "publish"}
GrowTypes ==
  /\ nextSeq \in Nat /\ grows \in [Slots -> Event]
  /\ grower \in [Growers -> [at : Stages, s : Nat]]
  /\ reader \in [at : {"idle", "seq1", "want", "got", "seq2"}, s : Nat, newest : Nat, want : Nat, got : Nat]
  /\ list \in Seq([s : Nat, want : Nat, got : Nat])
Writing == {h \in Growers : grower[h].at # "idle"}
Mine(h) == grows[Slot(grower[h].s)]
WritersApart ==
  /\ \A h \in Writing : grower[h].s < nextSeq
  /\ \A g, h \in Writing : g # h => Slot(grower[g].s) # Slot(grower[h].s)
(* What a writer has done to its slot so far. *)
HalfWritten ==
  \A h \in Writing :
    /\ grower[h].at # "invalidate" => Mine(h).seq = 0
    /\ grower[h].at \in {"got", "publish"} => Mine(h).want = grower[h].s + 1
    /\ grower[h].at = "publish" => Mine(h).got = grower[h].s + 1
(* A number is published once, by its writer's last store. *)
Published ==
  /\ \A i \in Slots : grows[i].seq # 0 =>
       grows[i].seq <= nextSeq /\ grows[i].want = grows[i].seq /\ grows[i].got = grows[i].seq
  /\ \A i \in Slots : \A h \in Writing : grows[i].seq # grower[h].s + 1
(* While a reader copies, the number it has seen can only disappear. *)
Seen == grows[Slot(reader.s)]
ReadTrue ==
  /\ reader.at \in {"want", "got", "seq2"} =>
       reader.s < nextSeq /\ \A h \in Writing : grower[h].s # reader.s
  /\ reader.at \in {"got", "seq2"} /\ Seen.seq = reader.s + 1 => reader.want = reader.s + 1
  /\ reader.at = "seq2" /\ Seen.seq = reader.s + 1 => reader.got = reader.s + 1
  /\ \A i \in DOMAIN list : list[i].s <= reader.s
GrowInv == GrowTypes /\ WritersApart /\ HalfWritten /\ Published /\ ReadTrue /\ ListedWhole

LEMMA SlotIs == ASSUME LogSizes, NEW s \in Nat PROVE Slot(s) \in Slots
<1>1. GROWLOG_N \in Nat \ {0}
  BY DEF LogSizes
<1>2. s % GROWLOG_N \in 0 .. GROWLOG_N - 1
  BY <1>1, DivMod
<1> QED BY <1>2 DEF Slot, Slots

LEMMA GrowStarts == LogSizes /\ GrowInit => GrowInv
<1> SUFFICES ASSUME LogSizes, GrowInit PROVE GrowInv
  OBVIOUS
<1>1. GrowTypes
  BY DEF GrowInit, GrowTypes, Slots, Event, Free, Stages
<1>2. Writing = {} /\ list = <<>> /\ \A i \in Slots : grows[i].seq = 0
  BY DEF GrowInit, Writing, Free, Slots
<1>3. reader.at = "idle"
  BY DEF GrowInit
<1> QED BY <1>1, <1>2, <1>3 DEF GrowInv, WritersApart, HalfWritten, Published, ReadTrue, ListedWhole

LEMMA TicketKeeps ==
  ASSUME LogSizes, ~Lapped, GrowInv, NEW h \in Growers, Ticket(h) PROVE GrowInv'
<1>1. /\ grower[h].at = "idle" /\ nextSeq' = nextSeq + 1
      /\ grower' = [grower EXCEPT ![h] = [at |-> "invalidate", s |-> nextSeq]]
      /\ UNCHANGED <<grows, reader, list>>
      /\ \A g \in Writing : Slot(grower[g].s) # Slot(nextSeq)
  BY DEF Ticket, Writing
<1>2. GrowTypes /\ nextSeq \in Nat
  BY DEF GrowInv, GrowTypes
<1>3. GrowTypes'
  BY <1>1, <1>2 DEF GrowTypes, Stages
<1>4. /\ Writing' = Writing \cup {h} /\ h \notin Writing
      /\ grower'[h] = [at |-> "invalidate", s |-> nextSeq]
      /\ \A g \in Writing : grower'[g] = grower[g] /\ g \in Growers
  BY <1>1, <1>2 DEF GrowTypes, Writing
<1>5. \A g \in Writing : grower[g].s \in Nat /\ grower[g].s < nextSeq
  BY DEF GrowInv, GrowTypes, WritersApart, Writing
<1>6. WritersApart'
  BY <1>1, <1>2, <1>4, <1>5 DEF GrowInv, WritersApart
<1>7. HalfWritten'
  BY <1>1, <1>4 DEF GrowInv, HalfWritten, Mine
<1>8. Published'
  <2>1. \A i \in Slots : grows[i].seq \in Nat
    BY <1>2 DEF GrowTypes, Event
  <2> QED BY <1>1, <1>2, <1>4, <2>1 DEF GrowInv, Published
<1>9. ReadTrue'
  <2>1. reader.s \in Nat
    BY <1>2 DEF GrowTypes
  <2> QED BY <1>1, <1>2, <1>4, <2>1 DEF GrowInv, ReadTrue, Seen
<1>10. ListedWhole'
  BY <1>1 DEF GrowInv, ListedWhole
<1> QED BY <1>3, <1>6, <1>7, <1>8, <1>9, <1>10 DEF GrowInv

(* A store touches the writer's slot only; the slot is nobody else's.       *)
LEMMA WriteKeeps ==
  ASSUME LogSizes, GrowInv, NEW h \in Growers, Write(h) PROVE GrowInv'
<1>1. GrowTypes /\ UNCHANGED <<nextSeq, reader, list>> /\ grower[h].at # "idle"
  BY DEF GrowInv, Write
<1>2. PICK s \in Nat, b \in Slots : s = grower[h].s /\ b = Slot(s)
  BY <1>1, SlotIs DEF GrowTypes
<1>3. PICK at \in Stages, to \in Stages, e \in Event :
        /\ grower[h].at = at /\ grower' = [grower EXCEPT ![h].at = to] /\ grows' = [grows EXCEPT ![b] = e]
        /\ \/ at = "invalidate" /\ to = "want" /\ e = [grows[b] EXCEPT !.seq = 0]
           \/ at = "want" /\ to = "got" /\ e = [grows[b] EXCEPT !.want = s + 1]
           \/ at = "got" /\ to = "publish" /\ e = [grows[b] EXCEPT !.got = s + 1]
           \/ at = "publish" /\ to = "idle" /\ e = [grows[b] EXCEPT !.seq = s + 1]
  <2>1. grows[b] \in Event
    BY <1>1 DEF GrowTypes
  <2>2. /\ [grows[b] EXCEPT !.seq = 0] \in Event /\ [grows[b] EXCEPT !.want = s + 1] \in Event
        /\ [grows[b] EXCEPT !.got = s + 1] \in Event /\ [grows[b] EXCEPT !.seq = s + 1] \in Event
    BY <2>1 DEF Event
  <2>3. \/ /\ grower[h].at = "invalidate" /\ grower' = [grower EXCEPT ![h].at = "want"]
           /\ grows' = [grows EXCEPT ![b] = [grows[b] EXCEPT !.seq = 0]]
        \/ /\ grower[h].at = "want" /\ grower' = [grower EXCEPT ![h].at = "got"]
           /\ grows' = [grows EXCEPT ![b] = [grows[b] EXCEPT !.want = s + 1]]
        \/ /\ grower[h].at = "got" /\ grower' = [grower EXCEPT ![h].at = "publish"]
           /\ grows' = [grows EXCEPT ![b] = [grows[b] EXCEPT !.got = s + 1]]
        \/ /\ grower[h].at = "publish" /\ grower' = [grower EXCEPT ![h].at = "idle"]
           /\ grows' = [grows EXCEPT ![b] = [grows[b] EXCEPT !.seq = s + 1]]
    BY <1>2 DEF Write, To, Invalid
  <2>4. {"idle", "invalidate", "want", "got", "publish"} \subseteq Stages
    BY DEF Stages
  <2> QED BY <2>2, <2>3, <2>4
<1>4. PICK old \in Event : old = grows[b]
  BY <1>1 DEF GrowTypes
<1>5. /\ grows' \in [Slots -> Event] /\ grows'[b] = e
      /\ \A i \in Slots : i # b => grows'[i] = grows[i]
  BY <1>1, <1>3 DEF GrowTypes
<1>6. /\ grower'[h].at = to /\ grower'[h].s = s
      /\ \A g \in Growers : g # h => grower'[g] = grower[g]
      /\ h \in Writing /\ Writing' = IF to = "idle" THEN Writing \ {h} ELSE Writing
  BY <1>1, <1>2, <1>3 DEF GrowTypes, Writing
<1>7. GrowTypes'
  <2> QED BY <1>1, <1>3, <1>5 DEF GrowTypes
<1>8. WritersApart'
  <2>1. \A g \in Writing' : g \in Writing /\ grower'[g].s = grower[g].s
    BY <1>2, <1>6 DEF Writing
  <2> QED BY <1>1, <2>1 DEF GrowInv, WritersApart
<1>9. \A g \in Writing : g # h => Slot(grower[g].s) # b /\ Slot(grower[g].s) \in Slots
  BY <1>1, <1>2, <1>6, SlotIs DEF GrowInv, WritersApart, GrowTypes, Writing
<1>10. HalfWritten'
  <2>1. ASSUME NEW g \in Writing', g # h
        PROVE  /\ grower'[g].at # "invalidate" => Mine(g)'.seq = 0
               /\ grower'[g].at \in {"got", "publish"} => Mine(g)'.want = grower'[g].s + 1
               /\ grower'[g].at = "publish" => Mine(g)'.got = grower'[g].s + 1
    <3>1. g \in Writing /\ grower'[g] = grower[g] /\ g \in Growers
      BY <1>6, <2>1 DEF Writing
    <3>2. grows'[Slot(grower[g].s)] = grows[Slot(grower[g].s)]
      BY <1>5, <1>9, <2>1, <3>1
    <3> QED BY <3>1, <3>2 DEF GrowInv, HalfWritten, Mine
  <2>2. /\ at # "invalidate" => old.seq = 0
        /\ at \in {"got", "publish"} => old.want = s + 1
    BY <1>2, <1>3, <1>4, <1>6 DEF GrowInv, HalfWritten, Mine
  <2>3. /\ to # "idle" => e.seq = 0
        /\ to \in {"got", "publish"} => e.want = s + 1
        /\ to = "publish" => e.got = s + 1
    BY <1>3, <1>4, <2>2 DEF Event
  <2>4. grows'[Slot(grower'[h].s)] = e
    BY <1>2, <1>5, <1>6
  <2> QED BY <1>6, <2>1, <2>3, <2>4 DEF HalfWritten, Mine, Writing
<1>11. e.seq # 0 => /\ e.want = e.seq /\ e.got = e.seq /\ e.seq <= nextSeq
                    /\ e.seq = s + 1 /\ to = "idle"
  <2>1. /\ at # "invalidate" => old.seq = 0
        /\ at \in {"got", "publish"} => old.want = s + 1
        /\ at = "publish" => old.got = s + 1
    BY <1>2, <1>3, <1>4, <1>6 DEF GrowInv, HalfWritten, Mine
  <2>2. s < nextSeq /\ nextSeq \in Nat
    BY <1>1, <1>2, <1>6 DEF GrowInv, WritersApart, GrowTypes
  <2> QED BY <1>3, <1>4, <2>1, <2>2 DEF Event
<1>12. Published'
  <2>1. ASSUME NEW i \in Slots, grows'[i].seq # 0
        PROVE  grows'[i].seq <= nextSeq /\ grows'[i].want = grows'[i].seq /\ grows'[i].got = grows'[i].seq
    <3>1. CASE i = b
      BY <1>5, <1>11, <2>1, <3>1
    <3>2. CASE i # b
      BY <1>5, <2>1, <3>2 DEF GrowInv, Published
    <3> QED BY <3>1, <3>2
  <2>2. ASSUME NEW i \in Slots, NEW g \in Writing' PROVE grows'[i].seq # grower'[g].s + 1
    <3>1. g \in Writing /\ grower'[g].s = grower[g].s /\ grower[g].s \in Nat
      BY <1>1, <1>2, <1>6, <2>2 DEF Writing, GrowTypes
    <3>2. CASE i # b
      BY <1>5, <3>1, <3>2 DEF GrowInv, Published
    <3>3. CASE i = b /\ e.seq = 0
      BY <1>5, <3>1, <3>3
    <3>4. CASE i = b /\ e.seq # 0
      <4>1. g # h /\ e.seq = s + 1
        BY <1>6, <1>11, <2>2, <3>4
      <4>2. grower[g].s # s
        BY <1>2, <1>9, <3>1, <4>1
      <4> QED BY <1>5, <3>1, <3>4, <4>1, <4>2
    <3> QED BY <3>2, <3>3, <3>4
  <2> QED BY <1>1, <2>1, <2>2 DEF Published
<1>13. ReadTrue'
  <2>1. PICK r \in Nat, c \in Slots : r = reader.s /\ c = Slot(r)
    BY <1>1, SlotIs DEF GrowTypes
  <2>2. reader.at \in {"want", "got", "seq2"} =>
          r < nextSeq /\ \A g \in Writing : grower[g].s # r
    BY <2>1 DEF GrowInv, ReadTrue
  <2>3. \A g \in Writing' : g \in Writing /\ grower'[g].s = grower[g].s
    BY <1>2, <1>6 DEF Writing
  <2>4. reader.at \in {"want", "got", "seq2"} /\ grows'[c].seq = r + 1 => grows[c].seq = r + 1
    <3>1. CASE c # b
      BY <1>5, <3>1
    <3>2. CASE c = b
      <4>1. reader.at \in {"want", "got", "seq2"} => s # r
        BY <1>2, <1>6, <2>2
      <4> QED BY <1>5, <1>11, <2>1, <3>2, <4>1
    <3> QED BY <3>1, <3>2
  <2> QED BY <1>1, <2>1, <2>2, <2>3, <2>4 DEF GrowInv, ReadTrue, Seen
<1>14. ListedWhole'
  BY <1>1 DEF GrowInv, ListedWhole
<1> QED BY <1>7, <1>8, <1>10, <1>12, <1>13, <1>14 DEF GrowInv

ReadStages == {"idle", "seq1", "want", "got", "seq2"}
Reader == [at : ReadStages, s : Nat, newest : Nat, want : Nat, got : Nat]
Entry == [s : Nat, want : Nat, got : Nat]
(* Whole entries under falling numbers, none above the reader's. *)
Falling(l, top) ==
  /\ \A i \in 1 .. Len(l) : l[i].s <= top /\ l[i].want = l[i].s /\ l[i].got = l[i].s
  /\ \A i, j \in 1 .. Len(l) : i < j => l[i].s > l[j].s
LEMMA ListedIs ==
  ASSUME list \in Seq(Entry)
  PROVE  ListedWhole /\ (\A i \in DOMAIN list : list[i].s <= reader.s) <=> Falling(list, reader.s)
<1>1. Len(list) \in Nat /\ DOMAIN list = 1 .. Len(list)
  OBVIOUS
<1>2. PICK D : D = DOMAIN list
  OBVIOUS
<1>3. ListedWhole /\ (\A i \in D : list[i].s <= reader.s)
      <=> /\ \A i \in D : list[i].s <= reader.s /\ list[i].want = list[i].s /\ list[i].got = list[i].s
          /\ \A i, j \in D : i < j => list[i].s > list[j].s
  BY <1>2 DEF ListedWhole
<1> QED BY <1>1, <1>2, <1>3 DEF Falling
LEMMA Prepended ==
  ASSUME NEW l \in Seq(Entry), NEW x \in Entry, NEW top \in Nat, Falling(l, top),
         x.s = top + 1, x.want = x.s, x.got = x.s
  PROVE  <<x>> \o l \in Seq(Entry) /\ Falling(<<x>> \o l, top + 1)
<1>1. PICK n \in Nat : n = Len(l)
  OBVIOUS
<1>2. <<x>> \in Seq(Entry) /\ Len(<<x>>) = 1 /\ <<x>>[1] = x
  OBVIOUS
<1>3. PICK m : m = <<x>> \o l
  OBVIOUS
<1>4. /\ m \in Seq(Entry) /\ Len(m) = 1 + n
      /\ \A i \in 1 .. 1 + n : m[i] = IF i <= 1 THEN <<x>>[i] ELSE l[i - 1]
  BY <1>1, <1>2, <1>3, ConcatProperties
<1>5. m[1] = x /\ \A i \in 2 .. 1 + n : m[i] = l[i - 1] /\ i - 1 \in 1 .. n
  BY <1>2, <1>4
<1>6. \A i \in 1 .. n : l[i].s <= top /\ l[i].s \in Nat /\ l[i].want = l[i].s /\ l[i].got = l[i].s
  <2>1. \A i \in 1 .. n : l[i] \in Entry
    BY <1>1, ElementOfSeq
  <2> QED BY <1>1, <2>1 DEF Falling, Entry
<1>7. \A i \in 2 .. 1 + n : m[i].s <= top /\ m[i].s \in Nat /\ m[i].want = m[i].s /\ m[i].got = m[i].s
  <2>1. ASSUME NEW i \in 2 .. 1 + n
        PROVE  m[i].s <= top /\ m[i].s \in Nat /\ m[i].want = m[i].s /\ m[i].got = m[i].s
    <3>1. PICK k \in 1 .. n : m[i] = l[k]
      BY <1>5
    <3> QED BY <1>6, <3>1
  <2> QED BY <2>1
<1>8. \A i \in 1 .. 1 + n : i = 1 \/ i \in 2 .. 1 + n
  OBVIOUS
<1>9. \A i \in 1 .. 1 + n : m[i].s <= top + 1 /\ m[i].want = m[i].s /\ m[i].got = m[i].s
  BY <1>5, <1>7, <1>8
<1>10. ASSUME NEW i \in 1 .. 1 + n, NEW j \in 1 .. 1 + n, i < j PROVE m[i].s > m[j].s
  <2>1. j \in 2 .. 1 + n
    BY <1>10
  <2>2. CASE i = 1
    <3>1. m[i].s = top + 1 /\ m[j].s <= top /\ m[j].s \in Nat
      BY <1>5, <1>7, <2>1, <2>2
    <3> QED BY <3>1
  <2>3. CASE i \in 2 .. 1 + n
    <3>1. PICK c \in 1 .. n, d \in 1 .. n : c = i - 1 /\ d = j - 1 /\ c < d
      BY <1>5, <1>10, <2>1, <2>3
    <3>2. l[c].s > l[d].s
      BY <1>1, <3>1 DEF Falling
    <3> QED BY <1>5, <2>1, <2>3, <3>1, <3>2
  <2> QED BY <1>8, <2>2, <2>3
<1> QED BY <1>3, <1>4, <1>9, <1>10 DEF Falling

LEMMA ReadKeeps == ASSUME LogSizes, GrowInv, Read PROVE GrowInv'
<1>1. GrowTypes /\ UNCHANGED <<nextSeq, grows, grower>> /\ GROWLOG_N \in Nat \ {0}
  BY DEF GrowInv, Read, LogSizes
<1>2. WritersApart' /\ HalfWritten' /\ Published' /\ Writing' = Writing
  BY <1>1 DEF GrowInv, WritersApart, HalfWritten, Published, Writing, Mine
<1>3. PICK r \in Reader, e \in Event, b \in Slots : r = reader /\ b = Slot(r.s) /\ e = grows[b] /\ e = Seen
  BY <1>1, SlotIs DEF GrowTypes, Seen, Reader, ReadStages
<1>4. list \in Seq(Entry) /\ Falling(list, r.s)
  BY <1>1, <1>3, ListedIs DEF GrowTypes, Entry, GrowInv, ReadTrue
<1>5. /\ r.at \in {"want", "got", "seq2"} => r.s < nextSeq /\ \A h \in Writing : grower[h].s # r.s
      /\ r.at \in {"got", "seq2"} /\ e.seq = r.s + 1 => r.want = r.s + 1
      /\ r.at = "seq2" /\ e.seq = r.s + 1 => r.got = r.s + 1
  BY <1>3 DEF GrowInv, ReadTrue
<1>6. e.seq # 0 => e.seq <= nextSeq /\ e.want = e.seq /\ e.got = e.seq /\ \A h \in Writing : e.seq # grower[h].s + 1
  BY <1>3 DEF GrowInv, Published
<1>7. nextSeq \in Nat /\ \A h \in Writing : grower[h].s \in Nat
  BY <1>1 DEF GrowTypes, Writing
<1>8. r.s \in Nat /\ r.newest \in Nat /\ r.want \in Nat /\ r.got \in Nat /\ r.at \in ReadStages
      /\ e.seq \in Nat /\ e.want \in Nat /\ e.got \in Nat
  BY DEF Reader, Event
<1>9. ASSUME reader' \in Reader, list' \in Seq(Entry), Falling(list', reader'.s), ReadTrue'
      PROVE  GrowInv'
  <2>1. ListedWhole'
    <3>1. PICK l \in Seq(Entry), n \in Nat : l = list' /\ n = Len(l) /\ DOMAIN l = 1 .. n
      BY <1>9
    <3> QED BY <1>9, <3>1 DEF ListedWhole, Falling
  <2>2. GrowTypes'
    BY <1>1, <1>9 DEF GrowTypes, Reader, ReadStages, Entry
  <2> QED BY <1>2, <1>9, <2>1, <2>2 DEF GrowInv
(* on to the next older ... newest slot *)
<1>10. ASSUME NEW to \in {"idle", "seq1"}, reader' = [r EXCEPT !.s = r.s + 1, !.at = to],
              list' \in Seq(Entry), Falling(list', r.s + 1)
       PROVE  GrowInv'
  <2>1. [r EXCEPT !.s = r.s + 1] \in Reader /\ to \in ReadStages
    BY <1>8 DEF Reader, ReadStages
  <2>2. PICK q \in Reader : q = [r EXCEPT !.s = r.s + 1]
    BY <2>1
  <2>3. reader' = [q EXCEPT !.at = to] /\ q.s = r.s + 1
    BY <1>10, <2>2 DEF Reader
  <2>4. reader' \in Reader /\ reader'.s = r.s + 1 /\ reader'.at = to
    BY <2>1, <2>3 DEF Reader
  <2>5. PICK l \in Seq(Entry), n \in Nat : l = list' /\ n = Len(l) /\ DOMAIN l = 1 .. n
    BY <1>10
  <2>6. ReadTrue'
    BY <1>10, <2>4, <2>5 DEF ReadTrue, Falling
  <2> QED BY <1>9, <1>10, <2>4, <2>6
(* on within the slot *)
<1>11. ASSUME NEW to \in {"want", "got", "seq2"}, reader' \in Reader, reader'.s = r.s, reader'.at = to, list' = list,
              r.s < nextSeq, \A h \in Writing : grower[h].s # r.s,
              to \in {"got", "seq2"} /\ e.seq = r.s + 1 => reader'.want = r.s + 1,
              to = "seq2" /\ e.seq = r.s + 1 => reader'.got = r.s + 1
       PROVE  GrowInv'
  <2>1. Seen' = e
    BY <1>1, <1>3, <1>11 DEF Seen
  <2>2. ReadTrue'
    BY <1>1, <1>2, <1>3, <1>11, <2>1 DEF ReadTrue, GrowInv
  <2> QED BY <1>4, <1>9, <1>11, <2>2
<1>12. CASE r.at = "idle"
  <2>1. list' = <<>> /\ reader' = [r EXCEPT !.at = "seq1", !.newest = nextSeq, !.s = nextSeq - Have(nextSeq)]
    BY <1>3, <1>12 DEF Read
  <2>2. nextSeq - Have(nextSeq) \in Nat
    BY <1>1, <1>7 DEF Have
  <2>3. reader' \in Reader /\ reader'.at = "seq1"
    BY <1>7, <1>8, <2>1, <2>2 DEF Reader, ReadStages
  <2>4. list' \in Seq(Entry) /\ Falling(list', reader'.s) /\ DOMAIN list' = {}
    BY <2>1 DEF Falling
  <2>5. ReadTrue'
    BY <2>3, <2>4 DEF ReadTrue
  <2> QED BY <1>9, <2>3, <2>4, <2>5
<1>13. Falling(list, r.s + 1)
  <2>1. PICK l \in Seq(Entry), n \in Nat : l = list /\ n = Len(l)
    BY <1>4
  <2>2. \A i \in 1 .. n : l[i].s \in Nat
    <3>1. \A i \in 1 .. n : l[i] \in Entry
      BY <2>1, ElementOfSeq
    <3> QED BY <3>1 DEF Entry
  <2>3. PICK top \in Nat : top = r.s
    BY <1>8 DEF Reader
  <2>4. Falling(l, top)
    BY <1>4, <2>1, <2>3
  <2>5. \A i \in 1 .. n : l[i].s <= top + 1 /\ l[i].want = l[i].s /\ l[i].got = l[i].s
    BY <2>1, <2>2, <2>4 DEF Falling
  <2>6. Falling(l, top + 1)
    BY <2>1, <2>4, <2>5 DEF Falling
  <2> QED BY <2>1, <2>3, <2>6
<1>14. CASE r.at = "seq1"
  <2>1. CASE e.seq = r.s + 1
    <3>1. reader' = [r EXCEPT !.at = "want"] /\ list' = list
      BY <1>3, <1>14, <2>1 DEF Read, Seen
    <3>2. reader' \in Reader /\ reader'.s = r.s /\ reader'.at = "want"
      BY <1>8, <3>1 DEF Reader, ReadStages
    <3>3. r.s < nextSeq /\ \A h \in Writing : grower[h].s # r.s
      BY <1>6, <1>7, <1>8, <2>1
    <3> QED BY <1>11, <3>1, <3>2, <3>3
  <2>2. CASE e.seq # r.s + 1
    <3>1. PICK to \in {"idle", "seq1"} : reader' = [r EXCEPT !.s = r.s + 1, !.at = to] /\ list' = list
      BY <1>3, <1>14, <2>2 DEF Read, Seen
    <3> QED BY <1>4, <1>10, <1>13, <3>1
  <2> QED BY <2>1, <2>2
<1>15. CASE r.at = "want"
  <2>1. reader' = [r EXCEPT !.at = "got", !.want = e.want] /\ list' = list
    BY <1>3, <1>15 DEF Read, Seen
  <2>2. reader' \in Reader /\ reader'.s = r.s /\ reader'.at = "got" /\ reader'.want = e.want
    BY <1>8, <2>1 DEF Reader, ReadStages
  <2>3. e.seq = r.s + 1 => e.want = r.s + 1
    BY <1>6, <1>8
  <2> QED BY <1>5, <1>11, <1>15, <2>1, <2>2, <2>3
<1>16. CASE r.at = "got"
  <2>1. reader' = [r EXCEPT !.at = "seq2", !.got = e.got] /\ list' = list
    BY <1>3, <1>16 DEF Read, Seen
  <2>2. reader' \in Reader /\ reader'.s = r.s /\ reader'.at = "seq2" /\ reader'.got = e.got /\ reader'.want = r.want
    BY <1>8, <2>1 DEF Reader, ReadStages
  <2>3. e.seq = r.s + 1 => e.got = r.s + 1
    BY <1>6, <1>8
  <2> QED BY <1>5, <1>11, <1>16, <2>1, <2>2, <2>3
<1>17. CASE r.at = "seq2"
  <2>1. PICK to \in {"idle", "seq1"} : reader' = [r EXCEPT !.s = r.s + 1, !.at = to]
    BY <1>3, <1>17 DEF Read
  <2>2. list' \in Seq(Entry) /\ Falling(list', r.s + 1)
    <3>1. CASE e.seq = r.s + 1
      <4>1. PICK x \in Entry : x.s = r.s + 1 /\ x.want = x.s /\ x.got = x.s /\ list' = <<x>> \o list
        <5>1. list' = <<[s |-> r.s + 1, want |-> r.want, got |-> r.got]>> \o list
          BY <1>3, <1>17, <3>1 DEF Read, Seen
        <5>2. r.want = r.s + 1 /\ r.got = r.s + 1
          BY <1>5, <1>17, <3>1
        <5>3. [s |-> r.s + 1, want |-> r.s + 1, got |-> r.s + 1] \in Entry
          BY <1>8 DEF Entry
        <5> QED BY <5>1, <5>2, <5>3
      <4> QED BY <1>4, <1>8, <4>1, Prepended
    <3>2. CASE e.seq # r.s + 1
      <4>1. list' = list
        BY <1>3, <1>17, <3>2 DEF Read, Seen
      <4> QED BY <1>4, <1>13, <4>1
    <3> QED BY <3>1, <3>2
  <2> QED BY <1>10, <2>1, <2>2
<1> QED BY <1>8, <1>12, <1>14, <1>15, <1>16, <1>17 DEF ReadStages

(* With any number of growing harts and any number of slots, Sys.growLog    *)
(* lists whole events only, newest first: an event whose slot was taken over*)
(* while it was copied is left out.  Growers in one slot at a time a ring   *)
(* apart are excluded (Lapped): they would fill it together (growlog).      *)
THEOREM EventsWhole == LogSizes /\ ~Lapped => (GrowSpec => []ListedWhole)
<1> SUFFICES ASSUME LogSizes, ~Lapped PROVE GrowSpec => []ListedWhole
  OBVIOUS
<1>1. GrowInit => GrowInv
  BY GrowStarts
<1>2. GrowInv /\ [GrowNext]_gvars => GrowInv'
  <2> SUFFICES ASSUME GrowInv, [GrowNext]_gvars PROVE GrowInv'
    OBVIOUS
  <2>1. CASE UNCHANGED gvars
    BY <2>1 DEF gvars, GrowInv, GrowTypes, WritersApart, HalfWritten, Published, ReadTrue, ListedWhole,
                Writing, Mine, Seen
  <2> QED BY <2>1, TicketKeeps, WriteKeeps, ReadKeeps DEF GrowNext
<1>3. GrowInv => ListedWhole
  BY DEF GrowInv
<1> QED BY <1>1, <1>2, <1>3, PTL DEF GrowSpec

-----------------------------------------------------------------------------
(* The severity rings: who holds log_lock copies lines that stay.           *)
Spots == {"idle", "put", "snap", "con", "copy", "parked", "done"}
Busy == {"copy", "parked", "done"}
Person == [at : Spots, line : Nat, note : Int, i : Nat, have : Nat, copy : Seq(Nat)]
Depth == IF logged < LOG_N THEN logged ELSE LOG_N
LogTypes ==
  /\ logged \in Nat /\ cells \in [Idx -> Nat] /\ suppressed \in Int
  /\ actor \in [Writers -> Person] /\ lockedBy \in Writers \cup {NoOne}
RingTrue == \A n \in 1 .. logged : n > logged - LOG_N => cells[(n - 1) % LOG_N] = n
Locking == \A a \in Writers : actor[a].at \in Busy <=> lockedBy = a
(* The lines a holder of log_lock has so far, newest in front. *)
Newest(s, i, top) == Len(s) = i /\ \A j \in 1 .. i : s[j] = top - j + 1
Copying ==
  \A a \in Writers :
    /\ actor[a].at \in Busy =>
         /\ actor[a].have = Depth /\ actor[a].i <= Depth
         /\ IF actor[a].at = "done" THEN actor[a].i = Depth ELSE actor[a].i < Depth
         /\ Newest(actor[a].copy, actor[a].i, logged - Depth + actor[a].i)
    /\ actor[a].at \in {"idle", "snap"} => actor[a].i = 0 /\ actor[a].have = 0 /\ actor[a].copy = <<>>
SnapInv == LogTypes /\ RingTrue /\ Locking /\ Copying /\ SnapExact

LEMMA LogConsts ==
  ASSUME LogSizes
  PROVE  /\ LOG_N \in Nat \ {0} /\ NoOne \notin Writers
         /\ \A n \in Nat : n % LOG_N \in Idx
         /\ \A m, n \in Nat : m < n /\ n < m + LOG_N => m % LOG_N # n % LOG_N
<1>1. LOG_N \in Nat \ {0} /\ NoOne \notin Writers
  BY DEF LogSizes
<1>2. ASSUME NEW n \in Nat PROVE n % LOG_N \in Idx
  BY <1>1, DivMod DEF Idx
<1>3. ASSUME NEW m \in Nat, NEW n \in Nat, m < n, n < m + LOG_N PROVE m % LOG_N # n % LOG_N
  <2>1. m \in Int /\ n \in Int
    OBVIOUS
  <2> QED BY <1>1, <1>3, <2>1, ModApart, Zenon
<1> QED BY <1>1, <1>2, <1>3

LEMMA SnapStarts == LogSizes /\ LogInit => SnapInv
<1> SUFFICES ASSUME LogSizes, LogInit PROVE SnapInv
  OBVIOUS
<1>1. logged = 0 /\ cells = [i \in Idx |-> 0] /\ lockedBy = NoOne /\ suppressed = 0 /\ snaps = {}
      /\ actor = [a \in Writers |-> Resting]
  BY DEF LogInit
<1>2. Resting \in Person /\ Resting.at = "idle" /\ Resting.i = 0 /\ Resting.have = 0 /\ Resting.copy = <<>>
  BY DEF Resting, Person, Spots
<1>3. LogTypes
  BY <1>1, <1>2 DEF LogTypes
<1>4. RingTrue /\ SnapExact
  BY <1>1 DEF RingTrue, SnapExact
<1>5. Locking /\ Copying
  BY <1>1, <1>2, LogConsts DEF Locking, Copying, Busy
<1> QED BY <1>3, <1>4, <1>5 DEF SnapInv

(* A step that only moves one actor, not into and not out of the lock.      *)
LEMMA MoveKeeps ==
  ASSUME LogSizes, SnapInv, NEW a \in Writers, NEW p \in Person, actor' = [actor EXCEPT ![a] = p],
         UNCHANGED <<logged, cells, lockedBy, snaps>>, suppressed' \in Int,
         p.at \in Busy <=> actor[a].at \in Busy,
         p.at \in Busy => /\ p.have = Depth /\ p.i <= Depth
                          /\ IF p.at = "done" THEN p.i = Depth ELSE p.i < Depth
                          /\ Newest(p.copy, p.i, logged - Depth + p.i),
         p.at \in {"idle", "snap"} => p.i = 0 /\ p.have = 0 /\ p.copy = <<>>
  PROVE  SnapInv'
<1>1. actor \in [Writers -> Person] /\ Depth' = Depth
  BY DEF SnapInv, LogTypes, Depth
<1>2. actor'[a] = p /\ \A b \in Writers : b # a => actor'[b] = actor[b]
  BY <1>1
<1>3. LogTypes'
  BY <1>1 DEF SnapInv, LogTypes
<1>4. RingTrue' /\ SnapExact'
  BY DEF SnapInv, RingTrue, SnapExact
<1>5. Locking'
  BY <1>2 DEF SnapInv, Locking
<1>6. Copying'
  BY <1>1, <1>2 DEF SnapInv, Copying
<1> QED BY <1>3, <1>4, <1>5, <1>6 DEF SnapInv

LEMMA DispatchKeeps == ASSUME LogSizes, SnapInv, NEW a \in Writers, Dispatch(a) PROVE SnapInv'
<1>1. PICK p \in Person : p = actor[a]
  BY DEF SnapInv, LogTypes
<1>2. PICK at : at \in (IF p.at = "idle" THEN {"put", "snap"} ELSE {p.at}) /\ Go(a, at)
  BY <1>1 DEF Dispatch
<1>3. at \in Spots /\ [p EXCEPT !.at = at] \in Person
  BY <1>2 DEF Person, Spots
<1>4. PICK q \in Person : q = [p EXCEPT !.at = at]
  BY <1>3
<1>5. actor' = [actor EXCEPT ![a] = q]
  BY <1>1, <1>2, <1>4 DEF Go
<1>6. q.at = at /\ q.i = p.i /\ q.have = p.have /\ q.copy = p.copy
  BY <1>4 DEF Person
<1>7. p.at # "idle" => at = p.at
  BY <1>2
<1>8. p.at = "idle" => at \in {"put", "snap"}
  BY <1>2
<1>9. UNCHANGED <<logged, cells, lockedBy, snaps>> /\ suppressed' \in Int
  BY DEF Dispatch, SnapInv, LogTypes
<1> QED BY <1>1, <1>5, <1>6, <1>7, <1>8, <1>9, MoveKeeps DEF Busy, SnapInv, Copying

LEMMA EchoKeeps == ASSUME LogSizes, SnapInv, NEW a \in Writers, Echo(a) PROVE SnapInv'
<1>1. actor[a].at = "con" /\ actor' = [actor EXCEPT ![a] = Resting]
      /\ UNCHANGED <<logged, cells, lockedBy, snaps>> /\ suppressed' \in Int
  BY DEF Echo, SnapInv, LogTypes
<1>2. Resting \in Person /\ Resting.at = "idle" /\ Resting.i = 0 /\ Resting.have = 0 /\ Resting.copy = <<>>
  BY DEF Resting, Person, Spots
<1> QED BY <1>1, <1>2, MoveKeeps DEF Busy

LEMMA Rested == Resting \in Person /\ Resting.at = "idle" /\ Resting.i = 0 /\ Resting.have = 0 /\ Resting.copy = <<>>
BY DEF Resting, Person, Spots

(* What LogPut makes of the actor whose line is echoed, SnapBegin of a      *)
(* copier.                                                                   *)
Loud(q, l, n) == [q EXCEPT !.at = "con", !.line = l, !.note = n]
LEMMA Echoing ==
  ASSUME NEW q \in Person, NEW l \in Nat, NEW n \in Int
  PROVE  /\ Loud(q, l, n) \in Person /\ Loud(q, l, n).at = "con" /\ Loud(q, l, n).i = q.i
         /\ Loud(q, l, n).have = q.have /\ Loud(q, l, n).copy = q.copy
<1>1. Loud(q, l, n) \in Person
  BY DEF Person, Spots, Loud
<1> QED BY <1>1 DEF Person, Loud

First(q, h) == [q EXCEPT !.at = "copy", !.have = h]
LEMMA Starting ==
  ASSUME NEW q \in Person, NEW h \in Nat
  PROVE  /\ First(q, h) \in Person /\ First(q, h).at = "copy" /\ First(q, h).i = q.i
         /\ First(q, h).have = h /\ First(q, h).copy = q.copy
<1>1. First(q, h) \in Person
  BY DEF Person, Spots, First
<1> QED BY <1>1 DEF Person, First

(* One more line copied: what SnapCopy makes of the copier q.               *)
More(q, k, at, t) == [q EXCEPT !.i = k, !.at = at, !.copy = t]
LEMMA Longer ==
  ASSUME NEW q \in Person, NEW k \in Nat, NEW at \in Spots, NEW t \in Seq(Nat)
  PROVE  /\ More(q, k, at, t) \in Person
         /\ More(q, k, at, t).i = k /\ More(q, k, at, t).at = at
         /\ More(q, k, at, t).copy = t /\ More(q, k, at, t).have = q.have
<1>1. More(q, k, at, t) \in Person
  <2> DEFINE Copies == Seq(Nat)
             Shape == [at : Spots, line : Nat, note : Int, i : Nat, have : Nat, copy : Copies]
  <2>1. Person = Shape
    BY DEF Person
  <2>2. t \in Copies
    OBVIOUS
  <2> HIDE DEF Copies
  <2>3. q \in Shape
    BY <2>1
  <2>4. More(q, k, at, t) \in Shape
    BY <2>2, <2>3 DEF More
  <2> QED BY <2>1, <2>4
<1>2. /\ More(q, k, at, t).i = k /\ More(q, k, at, t).at = at
      /\ More(q, k, at, t).copy = t /\ More(q, k, at, t).have = q.have
  BY DEF Person, More
<1> QED BY <1>1, <1>2

LEMMA Moved ==
  ASSUME NEW q \in Person, NEW at \in Spots
  PROVE  \E p \in Person : p = [q EXCEPT !.at = at] /\ p.at = at /\ p.i = q.i /\ p.have = q.have /\ p.copy = q.copy
<1> DEFINE p == [q EXCEPT !.at = at]
<1>1. p \in Person
  BY DEF Person, Spots
<1>2. p.at = at /\ p.i = q.i /\ p.have = q.have /\ p.copy = q.copy
  BY DEF Person
<1> HIDE DEF p
<1>3. \E r \in Person : r = p /\ r.at = at /\ r.i = q.i /\ r.have = q.have /\ r.copy = q.copy
  BY <1>1, <1>2
<1> QED BY <1>3 DEF p

LEMMA LogPutKeeps == ASSUME LogSizes, SnapInv, NEW a \in Writers, LogPut(a) PROVE SnapInv'
<1>1. /\ actor[a].at = "put" /\ lockedBy = NoOne /\ UNCHANGED <<lockedBy, snaps>>
      /\ cells' = [cells EXCEPT ![logged % LOG_N] = logged + 1] /\ logged' = logged + 1
  BY DEF LogPut
<1>2. logged \in Nat /\ cells \in [Idx -> Nat] /\ suppressed \in Int /\ actor \in [Writers -> Person]
      /\ LOG_N \in Nat \ {0}
  BY LogConsts DEF SnapInv, LogTypes
<1>3. PICK p \in Person : /\ actor' = [actor EXCEPT ![a] = p] /\ suppressed' \in Int
                          /\ p.at \in {"con", "idle"} /\ p.i = 0 /\ p.have = 0 /\ p.copy = <<>>
  <2>1. PICK r \in Person : r = Resting /\ r.at = "idle" /\ r.i = 0 /\ r.have = 0 /\ r.copy = <<>>
    BY Rested
  <2>2. PICK c \in Person : /\ c = Loud(r, logged + 1, suppressed)
                            /\ c.at = "con" /\ c.i = 0 /\ c.have = 0 /\ c.copy = <<>>
    <3>1. PICK l \in Nat, n \in Int : l = logged + 1 /\ n = suppressed
      BY <1>2
    <3>2. PICK c \in Person : c = Loud(r, l, n) /\ c.at = "con" /\ c.i = r.i /\ c.have = r.have /\ c.copy = r.copy
      BY Echoing
    <3> QED BY <2>1, <3>1, <3>2
  <2>3. CASE Window.used < ECHO_ALLOW
    <3>1. actor' = [actor EXCEPT ![a] = [Resting EXCEPT !.at = "con", !.line = logged + 1, !.note = suppressed]]
          /\ suppressed' = suppressed - Owed
      BY <2>3 DEF LogPut
    <3>2. suppressed' \in Int
      BY <1>2, <3>1 DEF Owed
    <3>3. actor' = [actor EXCEPT ![a] = c]
      BY <2>1, <2>2, <3>1 DEF Loud
    <3> QED BY <2>2, <3>2, <3>3
  <2>4. CASE ~(Window.used < ECHO_ALLOW)
    <3>1. actor' = [actor EXCEPT ![a] = Resting] /\ suppressed' = suppressed + 1
      BY <2>4 DEF LogPut
    <3>2. suppressed' \in Int
      BY <1>2, <3>1
    <3>3. actor' = [actor EXCEPT ![a] = r]
      BY <2>1, <3>1
    <3> QED BY <2>1, <3>2, <3>3
  <2> QED BY <2>3, <2>4
<1>4. actor'[a] = p /\ \A b \in Writers : b # a => actor'[b] = actor[b]
  BY <1>2, <1>3
<1>5. \A b \in Writers : actor[b].at \notin Busy
  BY <1>1, LogConsts DEF SnapInv, Locking
<1>6. LogTypes'
  <2>1. logged' \in Nat
    BY <1>1, <1>2
  <2>2. cells' \in [Idx -> Nat]
    <3>1. PICK s \in Idx : s = logged % LOG_N
      BY <1>2, LogConsts
    <3>2. PICK v \in Nat : v = logged + 1
      BY <1>2
    <3>3. cells' = [cells EXCEPT ![s] = v]
      BY <1>1, <3>1, <3>2
    <3> QED BY <1>2, <3>3
  <2>3. actor' \in [Writers -> Person]
    BY <1>2, <1>3
  <2>4. lockedBy' \in Writers \cup {NoOne} /\ suppressed' \in Int
    BY <1>1, <1>3
  <2> QED BY <2>1, <2>2, <2>3, <2>4 DEF LogTypes
<1>7. RingTrue'
  <2>1. PICK s \in Idx : s = logged % LOG_N
    BY <1>2, LogConsts
  <2>2. ASSUME NEW n \in 1 .. logged + 1, n > logged + 1 - LOG_N PROVE cells'[(n - 1) % LOG_N] = n
    <3>1. CASE n = logged + 1
      <4>1. n - 1 = logged
        BY <1>2, <3>1
      <4> QED BY <1>1, <1>2, <2>1, <3>1, <4>1
    <3>2. CASE n # logged + 1
      <4>1. n - 1 \in Nat /\ n - 1 < logged /\ logged < (n - 1) + LOG_N /\ n \in 1 .. logged /\ n > logged - LOG_N
        BY <1>2, <2>2, <3>2
      <4>2. PICK u \in Idx : u = (n - 1) % LOG_N /\ u # s
        BY <1>2, <2>1, <4>1, LogConsts
      <4>3. cells[u] = n
        BY <4>1, <4>2 DEF SnapInv, RingTrue
      <4> QED BY <1>1, <1>2, <2>1, <4>2, <4>3
    <3> QED BY <3>1, <3>2
  <2>3. \A n \in 1 .. logged' : n > logged' - LOG_N => cells'[(n - 1) % LOG_N] = n
    <3>1. PICK v \in Nat : v = logged + 1 /\ logged' = v
      BY <1>1, <1>2
    <3>2. \A n \in 1 .. v : n > v - LOG_N => cells'[(n - 1) % LOG_N] = n
      <4>1. \A n \in 1 .. logged + 1 : n > logged + 1 - LOG_N => cells'[(n - 1) % LOG_N] = n
        BY ONLY <2>2
      <4>2. \A n \in 1 .. v : n \in 1 .. logged + 1 /\ (n > v - LOG_N => n > logged + 1 - LOG_N)
        BY <1>2, <3>1
      <4> QED BY ONLY <4>1, <4>2
    <3> QED BY <3>1, <3>2
  <2> QED BY <2>3 DEF RingTrue
<1>8. Locking' /\ Copying'
  <2>1. \A b \in Writers : actor'[b].at \notin Busy
    BY <1>3, <1>4, <1>5 DEF Busy
  <2>2. Locking'
    BY <1>1, <2>1, LogConsts DEF Locking
  <2>3. Copying'
    BY <1>3, <1>4, <2>1 DEF SnapInv, Copying
  <2> QED BY <2>2, <2>3
<1>9. SnapExact'
  BY <1>1 DEF SnapInv, SnapExact
<1> QED BY <1>6, <1>7, <1>8, <1>9 DEF SnapInv

LEMMA SnapBeginKeeps == ASSUME LogSizes, SnapInv, NEW a \in Writers, SnapBegin(a) PROVE SnapInv'
<1>1. /\ actor[a].at = "snap" /\ lockedBy = NoOne /\ lockedBy' = a
      /\ UNCHANGED <<logged, cells, suppressed, snaps>>
  BY DEF SnapBegin, Taken
<1>2. logged \in Nat /\ actor \in [Writers -> Person] /\ LOG_N \in Nat \ {0} /\ Depth \in Nat /\ Depth' = Depth
  BY <1>1, LogConsts DEF SnapInv, LogTypes, Depth
<1>3. PICK p \in Person : actor' = [actor EXCEPT ![a] = p] /\ p.i = 0 /\ p.copy = <<>> /\ p.have = Depth
                          /\ p.at = IF Depth = 0 THEN "done" ELSE "copy"
  <2>1. PICK q \in Person : q = actor[a] /\ q.i = 0 /\ q.copy = <<>>
    BY <1>1, <1>2 DEF SnapInv, Copying
  <2>2. CASE Depth = 0
    <3>1. actor' = [actor EXCEPT ![a].at = "done"]
      BY <2>2 DEF SnapBegin, Depth, Go
    <3>2. q.have = 0
      BY <1>1, <2>1 DEF SnapInv, Copying
    <3>3. PICK p \in Person : /\ p = [q EXCEPT !.at = "done"] /\ p.at = "done"
                              /\ p.i = 0 /\ p.have = 0 /\ p.copy = <<>>
      <4>1. "done" \in Spots
        BY DEF Spots
      <4>2. \E p \in Person : /\ p = [q EXCEPT !.at = "done"] /\ p.at = "done"
                              /\ p.i = q.i /\ p.have = q.have /\ p.copy = q.copy
        BY <4>1, Moved
      <4> QED BY <2>1, <3>2, <4>2
    <3>4. actor' = [actor EXCEPT ![a] = p]
      BY <2>1, <3>1, <3>3
    <3> QED BY <2>2, <3>3, <3>4
  <2>3. CASE Depth # 0
    <3>1. actor' = [actor EXCEPT ![a] = [Resting EXCEPT !.at = "copy", !.have = Depth]]
      BY <2>3 DEF SnapBegin, Depth
    <3>2. PICK r \in Person : r = Resting /\ r.at = "idle" /\ r.i = 0 /\ r.have = 0 /\ r.copy = <<>>
      BY Rested
    <3>3. PICK h \in Nat : h = Depth
      BY <1>2
    <3>4. PICK p \in Person : p = First(r, h) /\ p.at = "copy" /\ p.i = r.i /\ p.have = h /\ p.copy = r.copy
      BY Starting
    <3>5. actor' = [actor EXCEPT ![a] = p]
      BY <3>1, <3>2, <3>3, <3>4 DEF First
    <3> QED BY <2>3, <3>2, <3>3, <3>4, <3>5
  <2> QED BY <2>2, <2>3
<1>4. actor'[a] = p /\ \A b \in Writers : b # a => actor'[b] = actor[b]
  BY <1>2, <1>3
<1>5. LogTypes'
  BY <1>1, <1>2, <1>3 DEF SnapInv, LogTypes
<1>6. RingTrue' /\ SnapExact'
  BY <1>1 DEF SnapInv, RingTrue, SnapExact
<1>7. \A b \in Writers : actor[b].at \notin Busy
  BY <1>1, LogConsts DEF SnapInv, Locking
<1>8. Locking'
  BY <1>1, <1>3, <1>4, <1>7 DEF Locking, Busy
<1>9. Newest(p.copy, 0, logged - Depth + 0)
  BY <1>3 DEF Newest
<1>10. Copying'
  <2>1. \A b \in Writers : b # a => actor'[b].at \notin Busy
    BY <1>4, <1>7
  <2>2. 0 <= Depth /\ (Depth # 0 => 0 < Depth)
    BY <1>2
  <2> QED BY <1>1, <1>2, <1>3, <1>4, <1>9, <2>1, <2>2 DEF SnapInv, Copying
<1> QED BY <1>5, <1>6, <1>8, <1>10 DEF SnapInv

(* The next line in front of those a copier has: one more, and newest first. *)
LEMMA InFront ==
  ASSUME NEW s \in Seq(Nat), NEW i \in Nat, NEW top \in Nat, Newest(s, i, top)
  PROVE  <<top + 1>> \o s \in Seq(Nat) /\ Newest(<<top + 1>> \o s, i + 1, top + 1)
<1> DEFINE h == <<top + 1>>
           r == h \o s
<1>1. h \in Seq(Nat) /\ Len(h) = 1 /\ h[1] = top + 1
  OBVIOUS
<1>2. /\ r \in Seq(Nat) /\ Len(r) = 1 + i
      /\ \A j \in 1 .. 1 + i : r[j] = IF j <= 1 THEN h[j] ELSE s[j - 1]
  <2>1. Len(s) = i
    BY DEF Newest
  <2> HIDE DEF h
  <2>2. /\ h \o s \in Seq(Nat) /\ Len(h \o s) = Len(h) + Len(s)
        /\ \A j \in 1 .. Len(h) + Len(s) : (h \o s)[j] = IF j <= Len(h) THEN h[j] ELSE s[j - Len(h)]
    BY <1>1, ConcatProperties
  <2> QED BY <1>1, <2>1, <2>2
<1> HIDE DEF h, r
<1>3. ASSUME NEW j \in 1 .. i + 1 PROVE r[j] = top + 1 - j + 1
  <2>1. CASE j = 1
    BY <1>1, <1>2, <2>1
  <2>2. CASE j # 1
    <3>1. j - 1 \in 1 .. i /\ r[j] = s[j - 1]
      BY <1>2, <2>2
    <3>2. s[j - 1] = top - (j - 1) + 1
      BY <3>1 DEF Newest
    <3> QED BY <3>1, <3>2
  <2> QED BY <2>1, <2>2
<1>4. Newest(r, i + 1, top + 1)
  BY <1>2, <1>3 DEF Newest
<1> QED BY <1>2, <1>4 DEF h, r

LEMMA SnapCopyKeeps == ASSUME LogSizes, SnapInv, NEW a \in Writers, SnapCopy(a) PROVE SnapInv'
<1>1. actor[a].at = "copy" /\ UNCHANGED <<logged, cells, lockedBy, suppressed, snaps>>
  BY DEF SnapCopy
<1>2. logged \in Nat /\ actor \in [Writers -> Person] /\ LOG_N \in Nat \ {0} /\ Depth \in Nat /\ Depth <= LOG_N
      /\ Depth <= logged /\ suppressed' \in Int
  BY <1>1, LogConsts DEF SnapInv, LogTypes, Depth
<1>3. PICK c \in Person : /\ c = actor[a] /\ c.at = "copy" /\ c.have = Depth /\ c.i < Depth
                          /\ Newest(c.copy, c.i, logged - Depth + c.i)
  BY <1>1, <1>2 DEF SnapInv, Copying, Busy
<1>4. PICK i \in Nat, s \in Seq(Nat) : i = c.i /\ s = c.copy
  BY DEF Person
<1>5. PICK top \in Nat : top = logged - Depth + i
  BY <1>2, <1>4
<1>6. cells[(logged - c.have + c.i) % LOG_N] = top + 1
  <2>1. top + 1 \in 1 .. logged /\ top + 1 > logged - LOG_N
    BY <1>2, <1>3, <1>4, <1>5
  <2>2. cells[(top + 1 - 1) % LOG_N] = top + 1
    BY <2>1 DEF SnapInv, RingTrue
  <2>3. logged - c.have + c.i = top /\ top + 1 - 1 = top
    BY <1>3, <1>4, <1>5
  <2> QED BY <2>2, <2>3
<1>7. PICK t \in Seq(Nat) : t = <<top + 1>> \o s /\ Newest(t, i + 1, top + 1)
  BY <1>3, <1>4, <1>5, InFront
<1>8. PICK at \in Spots : at = IF c.i + 1 = c.have THEN "done" ELSE "copy"
  BY DEF Spots
<1>9. PICK p \in Person : /\ p = [c EXCEPT !.i = i + 1, !.at = at, !.copy = t]
                          /\ p.i = i + 1 /\ p.at = at /\ p.copy = t /\ p.have = Depth
  <2>1. PICK k \in Nat : k = i + 1
    OBVIOUS
  <2>2. PICK p \in Person : p = More(c, k, at, t) /\ p.i = k /\ p.at = at /\ p.copy = t /\ p.have = c.have
    BY Longer
  <2>3. p = [c EXCEPT !.i = i + 1, !.at = at, !.copy = t]
    BY <2>1, <2>2 DEF More
  <2> QED BY <1>3, <2>1, <2>2, <2>3
<1>10. actor' = [actor EXCEPT ![a] = p]
  <2>1. actor' = [actor EXCEPT ![a].i = i + 1, ![a].at = at, ![a].copy = <<top + 1>> \o @]
    BY <1>3, <1>4, <1>6, <1>8 DEF SnapCopy
  <2> QED BY <1>2, <1>3, <1>4, <1>7, <1>9, <2>1
<1>11. p.at \in {"copy", "done"} /\ p.i <= Depth /\ (p.at = "done" <=> p.i = Depth)
  BY <1>2, <1>3, <1>4, <1>8, <1>9
<1>12. Newest(p.copy, p.i, logged - Depth + p.i)
  <2>1. logged - Depth + (i + 1) = top + 1
    BY <1>2, <1>5
  <2> QED BY <1>7, <1>9, <2>1
<1>13. p.i \in Nat /\ (p.at = "copy" => p.i < Depth)
  BY <1>2, <1>4, <1>9, <1>11
<1> QED BY <1>1, <1>2, <1>9, <1>10, <1>11, <1>12, <1>13, MoveKeeps DEF Busy

LEMMA WaitKeeps ==
  ASSUME LogSizes, SnapInv, NEW a \in Writers, SnapWait(a) \/ SnapWoken(a) PROVE SnapInv'
<1>1. PICK at \in {"copy", "parked"} : /\ actor[a].at \in {"copy", "parked"} /\ Go(a, at)
                                      /\ UNCHANGED <<logged, cells, lockedBy, suppressed, snaps>>
  BY DEF SnapWait, SnapWoken
<1>2. PICK p \in Person : p = actor[a]
  BY DEF SnapInv, LogTypes
<1>3. PICK q \in Person : q = [p EXCEPT !.at = at] /\ q.at = at /\ q.i = p.i /\ q.have = p.have /\ q.copy = p.copy
  <2>1. at \in Spots
    BY <1>1 DEF Spots
  <2> QED BY <2>1, Moved
<1>4. actor' = [actor EXCEPT ![a] = q]
  BY <1>1, <1>2, <1>3 DEF Go
<1>5. /\ p.have = Depth /\ p.i <= Depth /\ p.i < Depth
      /\ Newest(p.copy, p.i, logged - Depth + p.i)
  BY <1>1, <1>2 DEF SnapInv, Copying, Busy
<1>6. suppressed' \in Int
  BY <1>1 DEF SnapInv, LogTypes
<1> QED BY <1>1, <1>2, <1>3, <1>4, <1>5, <1>6, MoveKeeps DEF Busy

LEMMA SnapEndKeeps == ASSUME LogSizes, SnapInv, NEW a \in Writers, SnapEnd(a) PROVE SnapInv'
<1>1. /\ actor[a].at = "done" /\ lockedBy' = NoOne /\ actor' = [actor EXCEPT ![a] = Resting]
      /\ snaps' = snaps \cup {[copy |-> actor[a].copy, seq |-> logged]}
      /\ UNCHANGED <<logged, cells, suppressed>>
  BY DEF SnapEnd
<1>2. actor \in [Writers -> Person] /\ Depth' = Depth /\ Depth \in Nat
  BY <1>1, LogConsts DEF SnapInv, LogTypes, Depth
<1>3. actor'[a] = Resting /\ \A b \in Writers : b # a => actor'[b] = actor[b]
  BY <1>1, <1>2
<1>4. LogTypes'
  BY <1>1, <1>2, Rested DEF SnapInv, LogTypes
<1>5. RingTrue'
  BY <1>1 DEF SnapInv, RingTrue
<1>6. Locking'
  <2>1. lockedBy = a
    BY <1>1 DEF SnapInv, Locking, Busy
  <2>2. \A b \in Writers : actor'[b].at \notin Busy
    BY <1>3, <2>1, Rested DEF SnapInv, Locking, Busy
  <2> QED BY <1>1, <2>2, LogConsts DEF Locking
<1>7. Copying'
  BY <1>1, <1>2, <1>3, Rested DEF SnapInv, Copying, Busy
<1>8. SnapExact'
  <2>1. PICK s \in Seq(Nat), i \in Nat : s = actor[a].copy /\ i = Depth /\ Newest(s, i, logged - Depth + i)
    BY <1>1, <1>2 DEF SnapInv, Copying, Busy, Person
  <2>2. Len(s) = Depth /\ DOMAIN s = 1 .. Depth /\ \A j \in DOMAIN s : s[j] = logged - j + 1
    <3> DEFINE top == logged - Depth + i
    <3>0. top = logged
      BY <1>2, <2>1 DEF SnapInv, LogTypes
    <3> HIDE DEF top
    <3>1. Newest(s, i, top)
      BY <2>1 DEF top
    <3>5. Len(s) = i /\ \A j \in 1 .. i : s[j] = top - j + 1
      BY <3>1 DEF Newest
    <3>2. logged \in Nat /\ DOMAIN s = 1 .. Depth
      BY <2>1, <3>5 DEF SnapInv, LogTypes
    <3>3. ASSUME NEW j \in 1 .. Depth PROVE s[j] = logged - j + 1
      <4>1. s[j] = top - j + 1
        BY <2>1, <3>5
      <4> QED BY <3>0, <4>1
    <3> QED BY <2>1, <3>2, <3>3, <3>5
  <2>3. PICK t : t = [copy |-> s, seq |-> logged] /\ t.copy = s /\ t.seq = logged
    <3> DEFINE r == [copy |-> s, seq |-> logged]
    <3>1. r.copy = s /\ r.seq = logged
      OBVIOUS
    <3> HIDE DEF r
    <3>2. \E t : t = r /\ t.copy = s /\ t.seq = logged
      BY <3>1
    <3> QED BY <3>2 DEF r
  <2>4. \A u \in snaps' : u \in snaps \/ u = t
    BY <1>1, <2>1, <2>3
  <2>5. Len(t.copy) = (IF t.seq < LOG_N THEN t.seq ELSE LOG_N) /\ \A j \in DOMAIN t.copy : t.copy[j] = t.seq - j + 1
    BY <2>2, <2>3 DEF Depth
  <2> QED BY <2>4, <2>5 DEF SnapInv, SnapExact
<1> QED BY <1>4, <1>5, <1>6, <1>7, <1>8 DEF SnapInv

LEMMA SnapKeeps == LogSizes /\ SnapInv /\ [LogNext]_lvars => SnapInv'
<1> SUFFICES ASSUME LogSizes, SnapInv, [LogNext]_lvars PROVE SnapInv'
  OBVIOUS
<1>1. CASE UNCHANGED lvars
  BY <1>1 DEF lvars, SnapInv, LogTypes, RingTrue, Locking, Copying, Depth, SnapExact
<1>2. CASE LogNext
  <2>1. PICK a \in Writers : Dispatch(a) \/ LogPut(a) \/ Echo(a) \/ SnapBegin(a) \/ SnapCopy(a)
                             \/ SnapWait(a) \/ SnapWoken(a) \/ SnapEnd(a)
    BY <1>2 DEF LogNext
  <2> QED BY <2>1, DispatchKeeps, LogPutKeeps, EchoKeeps, SnapBeginKeeps, SnapCopyKeeps, WaitKeeps, SnapEndKeeps
<1> QED BY <1>1, <1>2

(* For any depth of the ring, any window, any allowance and any set of      *)
(* actors on any harts: a snapshot is the newest LOG_N lines as they stood   *)
(* at one moment, newest first, however long its copies waited for memory.  *)
THEOREM SnapshotsExact == LogSizes => (LogSpec => []SnapExact)
<1> SUFFICES ASSUME LogSizes PROVE LogSpec => []SnapExact
  OBVIOUS
<1>1. LogInit => SnapInv
  BY SnapStarts
<1>2. SnapInv /\ [LogNext]_lvars => SnapInv'
  BY SnapKeeps
<1>3. SnapInv => SnapExact
  BY DEF SnapInv
<1> QED BY <1>1, <1>2, <1>3, PTL DEF LogSpec

-----------------------------------------------------------------------------
(***************************************************************************)
(* The bounds of the two-tier scheduler, for any number of actors, harts   *)
(* and any threshold, when no actor has priority: an aged actor is passed  *)
(* by every other at most once, and on one hart the measured wait is       *)
(* within tau + residents.                                                 *)
(*                                                                         *)
(* The argument is the one of the code's essay.  Ahead(h, a) are the       *)
(* entries whose stamp is not later than a's.  Once a is aged every        *)
(* admission of its hart takes one from Ahead(h, a), and whoever comes     *)
(* back is stamped later.  So those that passed a and those still ahead of *)
(* it are together never more than the other actors.                       *)
(***************************************************************************)
USE AdmissionAssumption

Ahead(h, a) == {b \in bl[h] \ {a} : stamp[b] <= stamp[a]}

(* A set of actors is finite; one that lacks a known actor, or two, has    *)
(* fewer members than there are actors.                                    *)
LEMMA ActorSets ==
  /\ N \in Nat
  /\ \A A \in SUBSET Actors :
       /\ IsFiniteSet(A) /\ Cardinality(A) \in Nat
       /\ \A B \in SUBSET A : Cardinality(B) <= Cardinality(A)
       /\ \A a \in A : Cardinality(A \ {a}) = Cardinality(A) - 1
<1>1. N \in Nat
  BY FS_CardinalityType DEF N
<1>2. ASSUME NEW A \in SUBSET Actors
      PROVE  /\ IsFiniteSet(A) /\ Cardinality(A) \in Nat
             /\ \A B \in SUBSET A : Cardinality(B) <= Cardinality(A)
             /\ \A a \in A : Cardinality(A \ {a}) = Cardinality(A) - 1
  <2>1. IsFiniteSet(A)
    BY FS_Subset
  <2>2. Cardinality(A) \in Nat
    BY <2>1, FS_CardinalityType
  <2>3. \A B \in SUBSET A : Cardinality(B) <= Cardinality(A)
    BY <2>1, FS_Subset
  <2>4. \A a \in A : Cardinality(A \ {a}) = Cardinality(A) - 1
    BY <2>1, FS_RemoveElement
  <2> QED BY <2>1, <2>2, <2>3, <2>4
<1> QED BY <1>1, <1>2

LEMMA Others ==
  /\ \A a \in Actors : \A B \in SUBSET (Actors \ {a}) : Cardinality(B) <= N - 1
  /\ \A a, c \in Actors : a # c =>
       \A B \in SUBSET (Actors \ {a, c}) : Cardinality(B) <= N - 2
<1>1. \A a \in Actors : Cardinality(Actors \ {a}) = N - 1
  BY ActorSets DEF N
<1>2. ASSUME NEW a \in Actors, NEW c \in Actors, a # c
      PROVE  Cardinality(Actors \ {a, c}) = N - 2
  <2>1. Cardinality((Actors \ {a}) \ {c}) = Cardinality(Actors \ {a}) - 1
    BY <1>2, ActorSets
  <2>2. (Actors \ {a}) \ {c} = Actors \ {a, c}
    OBVIOUS
  <2> QED BY <1>1, <2>1, <2>2, ActorSets
<1>3. ASSUME NEW a \in Actors, NEW B \in SUBSET (Actors \ {a}) PROVE Cardinality(B) <= N - 1
  <2>1. Actors \ {a} \in SUBSET Actors
    OBVIOUS
  <2>2. Cardinality(B) <= Cardinality(Actors \ {a})
    BY <2>1, ActorSets
  <2> QED BY <1>1, <2>2
<1>4. ASSUME NEW a \in Actors, NEW c \in Actors, a # c, NEW B \in SUBSET (Actors \ {a, c})
      PROVE  Cardinality(B) <= N - 2
  <2>1. Actors \ {a, c} \in SUBSET Actors
    OBVIOUS
  <2>2. Cardinality(B) <= Cardinality(Actors \ {a, c})
    BY <2>1, ActorSets
  <2> QED BY <1>2, <1>4, <2>2
<1> QED BY <1>3, <1>4

----------------------------------------------------------------------------
(* The inductive invariant. *)
Types ==
  /\ bl \in [Harts -> SUBSET Actors] /\ ring \in Seq(Actors)
  /\ stamp \in [Actors -> Nat] /\ passed \in [Actors -> Nat]
  /\ adm \in Nat /\ maxWait \in Nat
  /\ clk \in [Harts -> Nat \cup {NoScan}]
Apart ==
  /\ \A h, k \in Harts, a \in Actors : a \in bl[h] /\ a \in bl[k] => h = k
  /\ \A i \in DOMAIN ring, h \in Harts : ring[i] \notin bl[h]
  /\ \A i, j \in DOMAIN ring : ring[i] = ring[j] => i = j
Past ==
  /\ \A h \in Harts : clk[h] # NoScan => clk[h] <= adm
  /\ \A h \in Harts : \A a \in bl[h] : stamp[a] <= adm
Passing ==
  \A h \in Harts : \A a \in bl[h] :
    /\ passed[a] > 0 => adm - stamp[a] > Tau
    /\ passed[a] + Cardinality(Ahead(h, a)) <= N - 1
AInv == Types /\ Apart /\ Past /\ Passing

LEMMA AheadType ==
  ASSUME Types, NEW h \in Harts, NEW a \in Actors
  PROVE  /\ Ahead(h, a) \in SUBSET (Actors \ {a})
         /\ Cardinality(Ahead(h, a)) \in Nat
<1>1. Ahead(h, a) \in SUBSET (Actors \ {a})
  BY DEF Types, Ahead
<1> QED BY <1>1, ActorSets

(* An entry a is appended to a backlog; entries may leave it.              *)
LEMMA Append1 ==
  ASSUME AInv, Types', Prio = {}, NEW h \in Harts, NEW a \in Actors,
         \A k \in Harts : a \notin bl[k],
         Stamped(a), adm' = adm,
         bl'[h] \subseteq bl[h] \cup {a},
         \A k \in Harts \ {h} : bl'[k] = bl[k]
  PROVE  /\ \A k \in Harts : \A x \in bl'[k] : stamp'[x] <= adm'
         /\ Passing'
<1>1. /\ \A x \in Actors : stamp'[x] = IF x = a THEN adm ELSE stamp[x]
      /\ \A x \in Actors : passed'[x] = IF x = a THEN 0 ELSE passed[x]
  BY DEF Stamped, AInv, Types
<1>2. ASSUME NEW k \in Harts, NEW x \in bl'[k] PROVE stamp'[x] <= adm'
  <2>1. x \in Actors /\ (x = a \/ x \in bl[k]) /\ adm \in Nat
    BY DEF Types, AInv
  <2>2. x # a => stamp[x] <= adm
    BY <2>1 DEF AInv, Past
  <2> QED BY <1>1, <2>1, <2>2
<1>3. ASSUME NEW k \in Harts, NEW x \in bl'[k]
      PROVE  /\ passed'[x] > 0 => adm' - stamp'[x] > Tau
             /\ passed'[x] + Cardinality(Ahead(k, x)') <= N - 1
  <2>1. x \in Actors /\ (x # a => x \in bl[k])
    BY DEF Types, AInv
  <2>2. Ahead(k, x)' \in SUBSET (Actors \ {x}) /\ Cardinality(Ahead(k, x)') \in Nat
    <3>1. Ahead(k, x)' \in SUBSET (Actors \ {x})
      BY DEF Types, Ahead
    <3> QED BY <3>1, ActorSets
  <2>3. CASE passed'[x] = 0
    BY <2>1, <2>2, <2>3, Others
  <2>4. CASE passed'[x] # 0
    <3>1. x # a /\ x \in bl[k] /\ passed'[x] = passed[x] /\ passed[x] > 0 /\ stamp'[x] = stamp[x]
      BY <1>1, <2>1, <2>4 DEF AInv, Types
    <3>2. adm - stamp[x] > Tau /\ passed[x] + Cardinality(Ahead(k, x)) <= N - 1
      BY <3>1 DEF AInv, Passing
    <3>3. adm \in Nat /\ stamp[x] \in Nat
      BY <2>1 DEF AInv, Types
    <3>4. Ahead(k, x)' \subseteq Ahead(k, x)
      <4> SUFFICES ASSUME NEW b \in Ahead(k, x)' PROVE b \in Ahead(k, x)
        OBVIOUS
      <4>1. b \in bl'[k] /\ b # x /\ stamp'[b] <= stamp'[x] /\ b \in Actors
        BY DEF Ahead, Types
      <4>2. b # a
        BY <1>1, <3>1, <3>2, <3>3, <4>1
      <4> QED BY <1>1, <3>1, <4>1, <4>2 DEF Ahead
    <3>5. Ahead(k, x) \in SUBSET Actors /\ Cardinality(Ahead(k, x)) \in Nat
      BY <2>1, AheadType DEF AInv
    <3>6. Cardinality(Ahead(k, x)') <= Cardinality(Ahead(k, x))
      BY <3>4, <3>5, ActorSets
    <3>7. passed[x] \in Nat /\ N \in Nat
      BY <2>1, ActorSets DEF AInv, Types
    <3> QED BY <2>2, <3>1, <3>2, <3>5, <3>6, <3>7
  <2> QED BY <2>3, <2>4
<1> QED BY <1>2, <1>3 DEF Passing

LEMMA ReadyStep ==
  ASSUME AInv, Prio = {}, NEW h \in Harts, NEW a \in Actors, Ready(h, a) PROVE AInv'
<1>1. PICK running \in {{}, {a}} : BacklogAdd(h, a, running)
  BY DEF Ready
<1> DEFINE q == bl[h] \cup {a}
           D == {d \in q : d \notin Pin \cup dead \cup running}
<1>2. Stamped(a) /\ adm' = adm /\ maxWait' = maxWait /\ clk' = clk
  BY <1>1 DEF BacklogAdd, Ready, clocks
<1>3. (\A k \in Harts : a \notin bl[k]) /\ (\A i \in DOMAIN ring : ring[i] # a)
  BY DEF Ready, Listed, ToSet
<1>4. \/ bl' = [bl EXCEPT ![h] = q] /\ ring' = ring
      \/ \E d \in q : bl' = [bl EXCEPT ![h] = q \ {d}] /\ ring' = Append(ring, d)
  BY <1>1 DEF BacklogAdd
<1>5. \A k \in Harts \ {h} : bl'[k] = bl[k]
  BY <1>4 DEF AInv, Types
<1>6. bl'[h] \subseteq bl[h] \cup {a}
  BY <1>4 DEF AInv, Types
<1>7. Types'
  <2>1. bl' \in [Harts -> SUBSET Actors] /\ ring' \in Seq(Actors)
    <3>1. CASE bl' = [bl EXCEPT ![h] = q] /\ ring' = ring
      BY <3>1 DEF AInv, Types
    <3>2. ASSUME NEW d \in q, bl' = [bl EXCEPT ![h] = q \ {d}], ring' = Append(ring, d)
          PROVE  bl' \in [Harts -> SUBSET Actors] /\ ring' \in Seq(Actors)
      BY <3>2 DEF AInv, Types
    <3> QED BY <1>4, <3>1, <3>2
  <2>2. stamp' \in [Actors -> Nat] /\ passed' \in [Actors -> Nat]
    BY <1>2 DEF AInv, Types, Stamped
  <2> QED BY <1>2, <2>1, <2>2 DEF AInv, Types
<1>8. Apart'
  <2>1. CASE bl' = [bl EXCEPT ![h] = q] /\ ring' = ring
    BY <2>1, <1>3 DEF AInv, Types, Apart
  <2>2. ASSUME NEW d \in q, bl' = [bl EXCEPT ![h] = q \ {d}], ring' = Append(ring, d)
        PROVE  Apart'
    <3>1. bl'[h] = q \ {d} /\ d \in Actors
      BY <2>2 DEF AInv, Types
    <3>2. \A k \in Harts : d \notin bl'[k]
      BY <1>3, <1>5, <3>1 DEF AInv, Apart
    <3>3. \A i \in DOMAIN ring : ring[i] # d
      BY <1>3 DEF AInv, Apart
    <3>4. /\ DOMAIN ring' = 1 .. Len(ring) + 1 /\ ring'[Len(ring) + 1] = d
          /\ \A i \in 1 .. Len(ring) : ring'[i] = ring[i]
          /\ DOMAIN ring = 1 .. Len(ring) /\ Len(ring) \in Nat
      BY <2>2, <3>1 DEF AInv, Types
    <3>5. \A k, l \in Harts, x \in Actors : x \in bl'[k] /\ x \in bl'[l] => k = l
      BY <1>3, <1>5, <1>6 DEF AInv, Apart
    <3>6. \A i \in DOMAIN ring', k \in Harts : ring'[i] \notin bl'[k]
      <4> SUFFICES ASSUME NEW i \in DOMAIN ring', NEW k \in Harts PROVE ring'[i] \notin bl'[k]
        OBVIOUS
      <4>1. CASE i = Len(ring) + 1
        BY <3>2, <3>4, <4>1
      <4>2. CASE i \in 1 .. Len(ring)
        BY <1>3, <1>5, <1>6, <3>4, <4>2 DEF AInv, Apart
      <4> QED BY <3>4, <4>1, <4>2
    <3>7. \A i, j \in DOMAIN ring' : ring'[i] = ring'[j] => i = j
      <4> SUFFICES ASSUME NEW i \in DOMAIN ring', NEW j \in DOMAIN ring', ring'[i] = ring'[j]
                   PROVE  i = j
        OBVIOUS
      <4>1. CASE i = Len(ring) + 1 /\ j \in 1 .. Len(ring)
        BY <3>3, <3>4, <4>1
      <4>2. CASE j = Len(ring) + 1 /\ i \in 1 .. Len(ring)
        BY <3>3, <3>4, <4>2
      <4>3. CASE i \in 1 .. Len(ring) /\ j \in 1 .. Len(ring)
        BY <3>4, <4>3 DEF AInv, Apart
      <4> QED BY <3>4, <4>1, <4>2, <4>3
    <3> QED BY <3>5, <3>6, <3>7 DEF Apart
  <2> QED BY <1>4, <2>1, <2>2
<1>9. (\A k \in Harts : \A x \in bl'[k] : stamp'[x] <= adm') /\ Passing'
  BY <1>2, <1>3, <1>5, <1>6, <1>7, Append1
<1> QED BY <1>2, <1>7, <1>8, <1>9 DEF AInv, Past

LEMMA StealStep ==
  ASSUME AInv, Prio = {}, NEW h \in Harts, Steal(h) PROVE AInv'
<1> DEFINE a == Head(ring)
<1>1. /\ ring # <<>> /\ ring' = Tail(ring) /\ Stamped(a)
      /\ bl' = [bl EXCEPT ![h] = {a}]
      /\ adm' = adm /\ maxWait' = maxWait /\ clk' = clk
  BY DEF Steal, clocks
<1>2. /\ a \in Actors /\ a = ring[1] /\ 1 \in DOMAIN ring
      /\ DOMAIN ring = 1 .. Len(ring) /\ Len(ring) \in Nat
      /\ DOMAIN ring' = 1 .. Len(ring) - 1
      /\ \A i \in DOMAIN ring' : ring'[i] = ring[i + 1]
      /\ ring' \in Seq(Actors)
  BY <1>1 DEF AInv, Types
<1>3. \A k \in Harts : a \notin bl[k]
  BY <1>2 DEF AInv, Apart
<1>4. (\A k \in Harts \ {h} : bl'[k] = bl[k]) /\ bl'[h] = {a}
  BY <1>1 DEF AInv, Types
<1> HIDE DEF a
<1>5. Types'
  BY <1>1, <1>2 DEF AInv, Types, Stamped
<1>6. Apart'
  <2>1. \A k, l \in Harts, x \in Actors : x \in bl'[k] /\ x \in bl'[l] => k = l
    BY <1>3, <1>4 DEF AInv, Apart
  <2>2. \A i, j \in DOMAIN ring' : ring'[i] = ring'[j] => i = j
    <3> SUFFICES ASSUME NEW i \in DOMAIN ring', NEW j \in DOMAIN ring', ring'[i] = ring'[j]
                 PROVE  i = j
      OBVIOUS
    <3>1. i + 1 \in DOMAIN ring /\ j + 1 \in DOMAIN ring /\ ring[i + 1] = ring[j + 1]
      BY <1>2
    <3>2. i + 1 = j + 1
      BY <3>1 DEF AInv, Apart
    <3> QED BY <1>2, <3>2
  <2>3. \A i \in DOMAIN ring', k \in Harts : ring'[i] \notin bl'[k]
    <3> SUFFICES ASSUME NEW i \in DOMAIN ring', NEW k \in Harts PROVE ring'[i] \notin bl'[k]
      OBVIOUS
    <3>1. i + 1 \in DOMAIN ring /\ ring'[i] = ring[i + 1] /\ i + 1 # 1
      BY <1>2
    <3>2. ring[i + 1] \notin bl[k] /\ ring[i + 1] # ring[1]
      BY <1>2, <3>1 DEF AInv, Apart
    <3> QED BY <1>2, <1>4, <3>1, <3>2
  <2> QED BY <2>1, <2>2, <2>3 DEF Apart
<1>7. (\A k \in Harts : \A x \in bl'[k] : stamp'[x] <= adm') /\ Passing'
  BY <1>1, <1>2, <1>3, <1>4, <1>5, Append1
<1> QED BY <1>1, <1>5, <1>6, <1>7 DEF AInv, Past

(* Backlogs may lose entries; nothing else of an entry changes. *)
LEMMA FewerStep ==
  ASSUME AInv, bl' \in [Harts -> SUBSET Actors], \A k \in Harts : bl'[k] \subseteq bl[k],
         UNCHANGED <<stamp, passed, ring, adm, maxWait>>,
         clk' \in [Harts -> Nat \cup {NoScan}],
         \A k \in Harts : clk'[k] \in {clk[k], NoScan, adm}
  PROVE  AInv'
<1>1. Types'
  BY DEF AInv, Types
<1>2. Apart'
  BY DEF AInv, Apart
<1>3. Past'
  BY DEF AInv, Past, Types
<1>4. ASSUME NEW k \in Harts, NEW x \in bl'[k]
      PROVE  /\ passed'[x] > 0 => adm' - stamp'[x] > Tau
             /\ passed'[x] + Cardinality(Ahead(k, x)') <= N - 1
  <2>1. x \in bl[k] /\ x \in Actors
    BY DEF AInv, Types
  <2>2. Ahead(k, x)' \subseteq Ahead(k, x)
    BY DEF Ahead
  <2>3. Ahead(k, x) \in SUBSET Actors /\ Cardinality(Ahead(k, x)) \in Nat
    BY <2>1, AheadType DEF AInv
  <2>4. /\ Cardinality(Ahead(k, x)') <= Cardinality(Ahead(k, x))
        /\ Cardinality(Ahead(k, x)') \in Nat
    <3>1. Ahead(k, x)' \in SUBSET Actors
      BY <2>2, <2>3
    <3> QED BY <2>2, <2>3, <3>1, ActorSets
  <2>5. passed[x] \in Nat /\ N \in Nat
    BY <2>1, ActorSets DEF AInv, Types
  <2>6. /\ passed[x] > 0 => adm - stamp[x] > Tau
        /\ passed[x] + Cardinality(Ahead(k, x)) <= N - 1
    BY <2>1 DEF AInv, Passing
  <2> QED BY <2>3, <2>4, <2>5, <2>6
<1> QED BY <1>1, <1>2, <1>3, <1>4 DEF AInv, Passing

LEMMA ScanStep ==
  ASSUME AInv, NEW h \in Harts, Scan(h) PROVE AInv'
<1>1. bl' = [bl EXCEPT ![h] = bl[h] \ dead] /\ UNCHANGED <<stamp, passed, ring, adm, maxWait>>
  BY DEF Scan, clocks
<1>2. clk' = [clk EXCEPT ![h] = IF bl[h] \subseteq dead THEN NoScan ELSE adm]
  BY DEF Scan
<1>3. bl' \in [Harts -> SUBSET Actors] /\ \A k \in Harts : bl'[k] \subseteq bl[k]
  BY <1>1 DEF AInv, Types
<1>4. /\ clk' \in [Harts -> Nat \cup {NoScan}]
      /\ \A k \in Harts : clk'[k] \in {clk[k], NoScan, adm}
  BY <1>2 DEF AInv, Types
<1> QED BY <1>1, <1>3, <1>4, FewerStep

(* What refill admits is not later than any entry that was aged when its   *)
(* scan began.                                                             *)
LEMMA PickOldest ==
  ASSUME Types, Prio = {}, NEW h \in Harts, NEW a \in bl[h], Pick(h, a),
         NEW b \in bl[h], clk[h] - stamp[b] > Tau
  PROVE  stamp[a] <= stamp[b]
<1>1. b \in Aged(h, clk[h])
  BY DEF Aged
<1>2. PICK S \in SUBSET Aged(h, adm) : /\ Aged(h, clk[h]) \subseteq S
                                       /\ a \in (IF S # {} THEN Oldest(S) ELSE bl[h])
  BY DEF Pick
<1>3. b \in S /\ a \in Oldest(S)
  BY <1>1, <1>2
<1>4. stamp[a] \in Nat /\ stamp[b] \in Nat
  BY DEF Types
<1> QED BY <1>3, <1>4 DEF Oldest

LEMMA AdmitStep ==
  ASSUME AInv, Prio = {}, NEW h \in Harts, NEW a \in Actors, Admit(h, a) PROVE AInv'
<1>1. /\ clk[h] # NoScan /\ a \in bl[h] /\ Pick(h, a) /\ adm' = adm + 1
      /\ stamp' = stamp /\ ring' = ring
      /\ bl' = [bl EXCEPT ![h] = bl[h] \ {a}]
      /\ clk' = [clk EXCEPT ![h] = NoScan]
      /\ maxWait' = IF adm' - stamp[a] > maxWait THEN adm' - stamp[a] ELSE maxWait
      /\ passed' = [b \in Actors |-> passed[b] + (IF b \in Aged(h, clk[h]) \ {a} THEN 1 ELSE 0)]
  BY DEF Admit
<1>2. adm \in Nat /\ clk[h] \in Nat /\ clk[h] <= adm /\ stamp[a] \in Nat /\ stamp[a] <= adm
  BY <1>1 DEF AInv, Types, Past
<1>3. Types'
  <2>1. bl' \in [Harts -> SUBSET Actors] /\ clk' \in [Harts -> Nat \cup {NoScan}]
    BY <1>1 DEF AInv, Types
  <2>2. passed' \in [Actors -> Nat]
    BY <1>1 DEF AInv, Types
  <2>3. adm' \in Nat /\ maxWait' \in Nat
    BY <1>1, <1>2 DEF AInv, Types
  <2> QED BY <1>1, <2>1, <2>2, <2>3 DEF AInv, Types
<1>4. bl'[h] = bl[h] \ {a} /\ \A k \in Harts \ {h} : bl'[k] = bl[k]
  BY <1>1 DEF AInv, Types
<1>5. Apart'
  BY <1>1, <1>4 DEF AInv, Apart
<1>6. Past'
  BY <1>1, <1>2, <1>4 DEF AInv, Types, Past
<1>7. ASSUME NEW k \in Harts, NEW x \in bl'[k]
      PROVE  /\ passed'[x] > 0 => adm' - stamp'[x] > Tau
             /\ passed'[x] + Cardinality(Ahead(k, x)') <= N - 1
  <2>1. x \in Actors /\ x \in bl[k] /\ x # a
    BY <1>1, <1>4 DEF AInv, Types, Apart
  <2>2. stamp[x] \in Nat /\ passed[x] \in Nat /\ N \in Nat
    BY <2>1, ActorSets DEF AInv, Types
  <2>3. /\ passed[x] > 0 => adm - stamp[x] > Tau
        /\ passed[x] + Cardinality(Ahead(k, x)) <= N - 1
    BY <2>1 DEF AInv, Passing
  <2>4. Ahead(k, x) \in SUBSET Actors /\ Cardinality(Ahead(k, x)) \in Nat
    BY <2>1, AheadType DEF AInv
  <2>5. Ahead(k, x)' = Ahead(k, x) \ (IF k = h THEN {a} ELSE {})
    BY <1>1, <1>4 DEF Ahead
  <2>6. CASE x \in Aged(h, clk[h])
    <3>1. x \in bl[h] /\ k = h /\ clk[h] - stamp[x] > Tau
      BY <2>1, <2>6 DEF Aged, AInv, Apart
    <3>2. a \in Ahead(h, x)
      BY <1>1, <2>1, <3>1, PickOldest DEF AInv, Ahead
    <3>3. Cardinality(Ahead(k, x)') = Cardinality(Ahead(k, x)) - 1
      BY <2>4, <2>5, <3>1, <3>2, ActorSets
    <3>4. passed'[x] = passed[x] + 1
      BY <1>1, <2>1, <2>6
    <3> QED BY <1>1, <1>2, <2>2, <2>3, <2>4, <3>1, <3>3, <3>4
  <2>7. CASE x \notin Aged(h, clk[h])
    <3>1. passed'[x] = passed[x]
      BY <1>1, <2>1, <2>2, <2>7
    <3>2. Ahead(k, x)' \in SUBSET Ahead(k, x) /\ Ahead(k, x)' \in SUBSET Actors
      BY <2>4, <2>5
    <3>3. /\ Cardinality(Ahead(k, x)') <= Cardinality(Ahead(k, x))
          /\ Cardinality(Ahead(k, x)') \in Nat
      BY <2>4, <3>2, ActorSets
    <3> QED BY <1>1, <1>2, <2>2, <2>3, <2>4, <3>1, <3>3
  <2> QED BY <2>6, <2>7
<1> QED BY <1>3, <1>5, <1>6, <1>7 DEF AInv, Passing

(* The steps that change no backlog: deq, a_kill, and a stutter. *)
LEMMA QuietStep ==
  ASSUME AInv, \/ \E h \in Harts : Deq(h)
               \/ \E a \in Actors : Kill(a)
               \/ UNCHANGED vars
  PROVE  AInv'
<1>1. UNCHANGED <<bl, stamp, passed, ring, adm, maxWait, clk>>
  BY DEF Deq, Kill, entry, clocks, vars
<1>2. bl' \in [Harts -> SUBSET Actors] /\ clk' \in [Harts -> Nat \cup {NoScan}]
  BY <1>1 DEF AInv, Types
<1> QED BY <1>1, <1>2, FewerStep

LEMMA AStart == Init => AInv
<1> SUFFICES ASSUME Init PROVE AInv
  OBVIOUS
<1>1. Types /\ Apart /\ Past
  BY DEF Init, Types, Apart, Past, NoScan
<1>2. Passing
  BY DEF Init, Passing
<1> QED BY <1>1, <1>2 DEF AInv

LEMMA AStep ==
  ASSUME AInv, Prio = {}, [Next]_vars PROVE AInv'
<1>1. ASSUME NEW h \in Harts, HartStep(h) PROVE AInv'
  <2>1. CASE Scan(h)
    BY <2>1, ScanStep
  <2>2. CASE Deq(h)
    BY <2>2, QuietStep
  <2>3. CASE Steal(h)
    BY <2>3, StealStep
  <2>4. ASSUME NEW a \in Actors, Ready(h, a) PROVE AInv'
    BY <2>4, ReadyStep
  <2>5. ASSUME NEW a \in Actors, Admit(h, a) PROVE AInv'
    BY <2>5, AdmitStep
  <2> QED BY <1>1, <2>1, <2>2, <2>3, <2>4, <2>5 DEF HartStep
<1>2. CASE \E a \in Actors : Kill(a)
  BY <1>2, QuietStep
<1>3. CASE UNCHANGED vars
  BY <1>3, QuietStep
<1> QED BY <1>1, <1>2, <1>3 DEF Next

(* Whatever the number of harts, donation and stealing included: an actor  *)
(* that is older than tau sees its hart admit fewer others than there are  *)
(* actors before it is admitted itself.                                    *)
THEOREM AgedPassedOnce == Prio = {} => (Spec => []AgedBound)
<1> SUFFICES ASSUME Prio = {} PROVE Spec => []AgedBound
  OBVIOUS
<1>1. Init => AInv
  BY AStart
<1>2. AInv /\ [Next]_vars => AInv'
  BY AStep
<1>3. AInv => AgedBound
  <2> SUFFICES ASSUME AInv, NEW h \in Harts, NEW a \in bl[h] PROVE passed[a] < N
    BY DEF AgedBound
  <2>1. a \in Actors /\ passed[a] \in Nat /\ N \in Nat
    BY ActorSets DEF AInv, Types
  <2>2. Cardinality(Ahead(h, a)) \in Nat
    BY <2>1, AheadType DEF AInv
  <2> QED BY <2>1, <2>2 DEF AInv, Passing
<1> QED BY <1>1, <1>2, <1>3, PTL DEF Spec

----------------------------------------------------------------------------
(* One hart: the clock moves only when this hart admits, so an entry's age *)
(* and the number still ahead of it together stay below tau + residents.   *)
Solo == \A h, k \in Harts : h = k
WaitsKept ==
  /\ \A h \in Harts : clk[h] # NoScan => clk[h] = adm
  /\ \A h \in Harts : \A a \in bl[h] : adm - stamp[a] + Cardinality(Ahead(h, a)) <= Tau + N - 1
  /\ maxWait <= Tau + N
WInv == AInv /\ WaitsKept

(* What an entry that stays in its backlog keeps, when the clock stands.   *)
LEMMA WaitingKept ==
  ASSUME WInv, AInv', adm' = adm, maxWait' = maxWait,
         \A k \in Harts : clk'[k] \in {clk[k], NoScan, adm},
         \A k \in Harts : \A x \in bl'[k] :
           stamp'[x] = adm \/ (x \in bl[k] /\ stamp'[x] = stamp[x]),
         \A k \in Harts : \A x \in bl'[k] : stamp'[x] < adm => Ahead(k, x)' \subseteq Ahead(k, x)
  PROVE  WInv'
<1>1. ASSUME NEW k \in Harts, NEW x \in bl'[k]
      PROVE  adm' - stamp'[x] + Cardinality(Ahead(k, x)') <= Tau + N - 1
  <2>1. x \in Actors /\ stamp'[x] \in Nat /\ adm \in Nat /\ stamp'[x] <= adm /\ N \in Nat
    BY ActorSets DEF WInv, AInv, Types, Past
  <2>2. Ahead(k, x)' \in SUBSET (Actors \ {x}) /\ Cardinality(Ahead(k, x)') \in Nat
    <3>1. Ahead(k, x)' \in SUBSET (Actors \ {x})
      BY DEF AInv, Types, Ahead
    <3> QED BY <3>1, ActorSets
  <2>3. CASE stamp'[x] = adm
    BY <2>1, <2>2, <2>3, Others
  <2>4. CASE stamp'[x] # adm
    <3>1. x \in bl[k] /\ stamp'[x] = stamp[x] /\ Ahead(k, x)' \subseteq Ahead(k, x)
      BY <2>1, <2>4
    <3>2. Ahead(k, x) \in SUBSET Actors /\ Cardinality(Ahead(k, x)) \in Nat
      BY <2>1, AheadType DEF WInv, AInv
    <3>3. Cardinality(Ahead(k, x)') <= Cardinality(Ahead(k, x))
      BY <3>1, <3>2, ActorSets
    <3>4. adm - stamp[x] + Cardinality(Ahead(k, x)) <= Tau + N - 1
      BY <3>1 DEF WInv, WaitsKept
    <3> QED BY <2>1, <2>2, <3>1, <3>2, <3>3, <3>4
  <2> QED BY <2>3, <2>4
<1>2. \A k \in Harts : clk'[k] # NoScan => clk'[k] = adm'
  BY DEF WInv, WaitsKept
<1>3. maxWait' <= Tau + N
  BY DEF WInv, WaitsKept
<1> QED BY <1>1, <1>2, <1>3 DEF WInv, WaitsKept

LEMMA WaitingListed ==
  ASSUME WInv, AInv', Prio = {}, NEW h \in Harts, NEW a \in Actors,
         Stamped(a), adm' = adm, maxWait' = maxWait, clk' = clk,
         bl'[h] \subseteq bl[h] \cup {a}, \A k \in Harts \ {h} : bl'[k] = bl[k],
         \A k \in Harts : a \notin bl[k]
  PROVE  WInv'
<1>1. \A x \in Actors : stamp'[x] = IF x = a THEN adm ELSE stamp[x]
  BY DEF Stamped, WInv, AInv, Types
<1>2. ASSUME NEW k \in Harts, NEW x \in bl'[k]
      PROVE  /\ stamp'[x] = adm \/ (x \in bl[k] /\ stamp'[x] = stamp[x])
             /\ stamp'[x] < adm => Ahead(k, x)' \subseteq Ahead(k, x)
  <2>1. x \in Actors /\ (x = a \/ x \in bl[k]) /\ adm \in Nat /\ stamp'[x] \in Nat
    BY DEF WInv, AInv, Types
  <2>2. stamp'[x] = adm \/ (x \in bl[k] /\ stamp'[x] = stamp[x])
    BY <1>1, <2>1
  <2>3. ASSUME stamp'[x] < adm, NEW b \in Ahead(k, x)' PROVE b \in Ahead(k, x)
    <3>1. b \in bl'[k] /\ b # x /\ stamp'[b] <= stamp'[x] /\ b \in Actors
      BY DEF AInv, Types, Ahead
    <3>2. x # a /\ b # a
      BY <1>1, <2>1, <2>3, <3>1
    <3> QED BY <1>1, <2>1, <3>1, <3>2 DEF Ahead
  <2> QED BY <2>2, <2>3
<1>3. \A k \in Harts : clk'[k] \in {clk[k], NoScan, adm}
  OBVIOUS
<1> QED BY <1>2, <1>3, WaitingKept

LEMMA WaitingAdmit ==
  ASSUME WInv, AInv', Prio = {}, Solo, NEW h \in Harts, NEW a \in Actors, Admit(h, a)
  PROVE  WInv'
<1>1. /\ clk[h] # NoScan /\ a \in bl[h] /\ Pick(h, a) /\ adm' = adm + 1 /\ stamp' = stamp
      /\ bl' = [bl EXCEPT ![h] = bl[h] \ {a}]
      /\ clk' = [clk EXCEPT ![h] = NoScan]
      /\ maxWait' = IF adm' - stamp[a] > maxWait THEN adm' - stamp[a] ELSE maxWait
  BY DEF Admit
<1>2. bl'[h] = bl[h] \ {a} /\ clk'[h] = NoScan /\ clk[h] = adm /\ adm \in Nat /\ N \in Nat
  BY <1>1, ActorSets DEF WInv, WaitsKept, AInv, Types
<1>3. ASSUME NEW k \in Harts, NEW x \in bl'[k]
      PROVE  adm' - stamp'[x] + Cardinality(Ahead(k, x)') <= Tau + N - 1
  <2>1. k = h /\ x \in Actors /\ x \in bl[h] /\ x # a /\ stamp[x] \in Nat
    BY <1>1, <1>2 DEF Solo, WInv, AInv, Types
  <2>2. Ahead(h, x)' = Ahead(h, x) \ {a}
    BY <1>1, <1>2 DEF Ahead
  <2>3. Ahead(h, x) \in SUBSET (Actors \ {x}) /\ Cardinality(Ahead(h, x)) \in Nat
    BY <2>1, AheadType DEF WInv, AInv
  <2>4. CASE adm - stamp[x] > Tau
    <3>1. a \in Ahead(h, x)
      BY <1>1, <1>2, <2>1, <2>4, PickOldest DEF WInv, AInv, Ahead
    <3>2. Cardinality(Ahead(h, x)') = Cardinality(Ahead(h, x)) - 1
      BY <2>2, <2>3, <3>1, ActorSets
    <3>3. adm - stamp[x] + Cardinality(Ahead(h, x)) <= Tau + N - 1
      BY <2>1 DEF WInv, WaitsKept
    <3> QED BY <1>1, <1>2, <2>1, <2>3, <3>2, <3>3
  <2>5. CASE adm - stamp[x] <= Tau
    <3>1. Ahead(h, x)' \in SUBSET (Actors \ {x, a}) /\ Ahead(h, x)' \in SUBSET Actors
      BY <2>2, <2>3
    <3>2. Cardinality(Ahead(h, x)') <= N - 2 /\ Cardinality(Ahead(h, x)') \in Nat
      BY <2>1, <3>1, Others, ActorSets
    <3> QED BY <1>1, <1>2, <2>1, <2>5, <3>2
  <2> QED BY <1>2, <2>1, <2>4, <2>5
<1>4. \A k \in Harts : clk'[k] = NoScan
  BY <1>2 DEF Solo
<1>5. maxWait' <= Tau + N
  <2>1. stamp[a] \in Nat /\ adm - stamp[a] + Cardinality(Ahead(h, a)) <= Tau + N - 1
    BY <1>1 DEF WInv, WaitsKept, AInv, Types
  <2>2. Cardinality(Ahead(h, a)) \in Nat
    BY AheadType DEF WInv, AInv
  <2>3. maxWait \in Nat /\ maxWait <= Tau + N
    BY DEF WInv, WaitsKept, AInv, Types
  <2> QED BY <1>1, <1>2, <2>1, <2>2, <2>3
<1> QED BY <1>3, <1>4, <1>5 DEF WInv, WaitsKept

LEMMA WaitingOther ==
  ASSUME WInv, AInv', Prio = {},
         \/ \E h \in Harts : Scan(h) \/ Deq(h) \/ Steal(h) \/ \E a \in Actors : Ready(h, a)
         \/ \E a \in Actors : Kill(a)
         \/ UNCHANGED vars
  PROVE  WInv'
<1>1. ASSUME NEW h \in Harts, Scan(h) PROVE WInv'
  <2>1. /\ bl' = [bl EXCEPT ![h] = bl[h] \ dead]
        /\ UNCHANGED <<stamp, adm, maxWait>>
        /\ clk' = [clk EXCEPT ![h] = IF bl[h] \subseteq dead THEN NoScan ELSE adm]
    BY <1>1 DEF Scan, clocks
  <2>2. /\ \A k \in Harts : bl'[k] \subseteq bl[k]
        /\ \A k \in Harts : clk'[k] \in {clk[k], NoScan, adm}
    BY <2>1 DEF WInv, AInv, Types
  <2>3. \A k \in Harts : \A x \in bl'[k] : Ahead(k, x)' \subseteq Ahead(k, x)
    BY <2>1, <2>2 DEF Ahead
  <2> QED BY <2>1, <2>2, <2>3, WaitingKept
<1>2. ASSUME \/ \E h \in Harts : Deq(h)
             \/ \E a \in Actors : Kill(a)
             \/ UNCHANGED vars
      PROVE  WInv'
  <2>1. UNCHANGED <<bl, stamp, adm, maxWait, clk>>
    BY <1>2 DEF Deq, Kill, entry, clocks, vars
  <2>2. \A k \in Harts : \A x \in bl'[k] : Ahead(k, x)' \subseteq Ahead(k, x)
    BY <2>1 DEF Ahead
  <2> QED BY <2>1, <2>2, WaitingKept
<1>3. ASSUME NEW h \in Harts, Steal(h) PROVE WInv'
  <2> DEFINE a == Head(ring)
  <2>1. /\ ring # <<>> /\ Stamped(a) /\ bl' = [bl EXCEPT ![h] = {a}]
        /\ adm' = adm /\ maxWait' = maxWait /\ clk' = clk
    BY <1>3 DEF Steal, clocks
  <2>2. a \in Actors /\ a = ring[1] /\ 1 \in DOMAIN ring
    BY <2>1 DEF WInv, AInv, Types
  <2>3. \A k \in Harts : a \notin bl[k]
    BY <2>2 DEF WInv, AInv, Apart
  <2>4. (\A k \in Harts \ {h} : bl'[k] = bl[k]) /\ bl'[h] = {a}
    BY <2>1 DEF WInv, AInv, Types
  <2> HIDE DEF a
  <2>5. bl'[h] \subseteq bl[h] \cup {a}
    BY <2>4
  <2> QED BY <2>1, <2>2, <2>3, <2>4, <2>5, WaitingListed
<1>4. ASSUME NEW h \in Harts, NEW a \in Actors, Ready(h, a) PROVE WInv'
  <2>1. PICK running \in {{}, {a}} : BacklogAdd(h, a, running)
    BY <1>4 DEF Ready
  <2>2. Stamped(a) /\ adm' = adm /\ maxWait' = maxWait /\ clk' = clk
    BY <1>4, <2>1 DEF BacklogAdd, Ready, clocks
  <2>3. \A k \in Harts : a \notin bl[k]
    BY <1>4 DEF Ready, Listed
  <2>4. \/ bl' = [bl EXCEPT ![h] = bl[h] \cup {a}]
        \/ \E d \in bl[h] \cup {a} : bl' = [bl EXCEPT ![h] = (bl[h] \cup {a}) \ {d}]
    BY <2>1 DEF BacklogAdd
  <2>5. bl'[h] \subseteq bl[h] \cup {a} /\ \A k \in Harts \ {h} : bl'[k] = bl[k]
    BY <2>4 DEF WInv, AInv, Types
  <2> QED BY <2>2, <2>3, <2>5, WaitingListed
<1> QED BY <1>1, <1>2, <1>3, <1>4

(* On a machine of one hart schedMaxWait never exceeds tau + residents,    *)
(* whatever is killed, and although an actor may give itself to the FIFO.  *)
THEOREM WaitIsBounded == Solo /\ Prio = {} => (Spec => []WaitBound)
<1> SUFFICES ASSUME Solo, Prio = {} PROVE Spec => []WaitBound
  OBVIOUS
<1>1. Init => WInv
  <2> SUFFICES ASSUME Init PROVE WaitsKept
    BY AStart DEF WInv
  <2> QED BY ActorSets DEF Init, WaitsKept
<1>2. WInv /\ [Next]_vars => WInv'
  <2> SUFFICES ASSUME WInv, [Next]_vars PROVE WInv'
    OBVIOUS
  <2>1. AInv'
    BY AStep DEF WInv
  <2>2. ASSUME NEW h \in Harts, NEW a \in Actors, Admit(h, a) PROVE WInv'
    BY <2>1, <2>2, WaitingAdmit
  <2>3. CASE ~ \E h \in Harts, a \in Actors : Admit(h, a)
    <3>1. \/ \E h \in Harts : Scan(h) \/ Deq(h) \/ Steal(h) \/ \E a \in Actors : Ready(h, a)
          \/ \E a \in Actors : Kill(a)
          \/ UNCHANGED vars
      BY <2>3 DEF Next, HartStep
    <3> QED BY <2>1, <3>1, WaitingOther
  <2> QED BY <2>2, <2>3
<1>3. WInv => WaitBound
  BY DEF WInv, WaitsKept, WaitBound
<1> QED BY <1>1, <1>2, <1>3, PTL DEF Spec
=============================================================================

-------------------------------- MODULE Virtq --------------------------------
(* The split virtqueues of virt/net.c: a receive ring of QSZ posted buffers *)
(* and a transmit ring with one buffer, shared with a device that runs on   *)
(* its own.  Indices are 16-bit and wrap; a handled frame may be answered   *)
(* before its buffer is posted again.                                       *)
EXTENDS Integers, Sequences

CONSTANTS
  QSZ, IdxMod,        \* descriptors, 2^16 (a multiple of QSZ)
  Patient,            \* the spin of nic_tx outlasts the device
  MaxRx, MaxTx        \* BOUND: frames that arrive, frames sent

(* An index says which descriptors are out only if it does not come round   *)
(* within QSZ steps.                                                        *)
QueueSizes == /\ QSZ \in Nat \ {0} /\ IdxMod \in Nat /\ IdxMod > QSZ /\ IdxMod % QSZ = 0

VARIABLES
  rxAvail, rxUsed,    \* [ring, idx]: written by the driver, by the device
  rxSeen, lastUsed,   \* the device's place in avail, the driver's in used
  rxBufs,             \* buffer -> frame
  cur,                \* buffer of the frame being handled, or -1
  txBuf, txAvail, txUsed, before,  \* tx_buf, both indices, nic_tx's "before" (-1: not spinning)
  arrived, taken, handled,  \* frames: number on the wire, taken by the device, handled
  sent, wire          \* frames assembled, frames the device transmitted
vvars == <<rxAvail, rxUsed, rxSeen, lastUsed, rxBufs, cur, txBuf, txAvail, txUsed, before, arrived, taken, handled, sent, wire>>
rxvars == <<rxAvail, rxUsed, rxSeen, lastUsed, rxBufs, cur, arrived, taken, handled>>
txvars == <<txBuf, txAvail, txUsed, before, sent, wire>>

Bufs == 0..(QSZ - 1)
Next16(i) == (i + 1) % IdxMod
(* av->ring[shadow % QSZ] = i; av->idx = ++shadow *)
Put(q, i) == [ring |-> [q.ring EXCEPT ![q.idx % QSZ] = i], idx |-> Next16(q.idx)]
VInit == /\ rxAvail = [ring |-> [i \in Bufs |-> i], idx |-> QSZ % IdxMod]   \* rx_post of every buffer
         /\ rxUsed = [ring |-> [i \in Bufs |-> 0], idx |-> 0]
         /\ rxSeen = 0 /\ lastUsed = 0 /\ rxBufs = [i \in Bufs |-> 0] /\ cur = -1
         /\ txBuf = 0 /\ txAvail = 0 /\ txUsed = 0 /\ before = -1
         /\ arrived = 0 /\ taken = <<>> /\ handled = <<>> /\ sent = 0 /\ wire = <<>>

(* the device fills the next posted buffer, or drops the frame *)
Arrive ==
  /\ arrived < MaxRx /\ arrived' = arrived + 1
  /\ IF rxSeen = rxAvail.idx THEN UNCHANGED <<rxUsed, rxSeen, rxBufs, taken>>
     ELSE LET b == rxAvail.ring[rxSeen % QSZ] IN
          /\ rxSeen' = Next16(rxSeen) /\ rxBufs' = [rxBufs EXCEPT ![b] = arrived + 1]
          /\ rxUsed' = Put(rxUsed, b) /\ taken' = Append(taken, arrived + 1)
  /\ UNCHANGED <<rxAvail, lastUsed, cur, handled, txvars>>

RxPost(i) == rxAvail' = Put(rxAvail, i)
(* net_pump: one element of the used ring, posted again when it is done with *)
ConsumedAll == rxUsed.idx
Consumed == Next16(lastUsed)
NetPump ==
  /\ before = -1 /\ cur = -1 /\ lastUsed # rxUsed.idx
  /\ LET b == rxUsed.ring[lastUsed % QSZ] IN
     /\ handled' = Append(handled, rxBufs[b]) /\ lastUsed' = Consumed
     /\ \/ RxPost(b) /\ UNCHANGED <<cur, txvars>>
        \/ cur' = b /\ UNCHANGED <<rxAvail, txvars>>       \* answered first: tcp_send, handle_arp
  /\ UNCHANGED <<rxUsed, rxSeen, rxBufs, arrived, taken>>

(* nic_tx: the one descriptor is posted and the used index watched *)
NicTx ==
  /\ before = -1 /\ sent < MaxTx /\ sent' = sent + 1 /\ txBuf' = sent + 1
  /\ before' = txUsed /\ txAvail' = Next16(txAvail)
  /\ UNCHANGED <<txUsed, wire, rxvars>>
CompletedAtOnce == TRUE
Completed == txUsed # before
SpinEnds ==
  /\ before # -1 /\ (Completed \/ ~Patient) /\ before' = -1
  /\ IF cur = -1 THEN UNCHANGED <<rxAvail, cur>> ELSE RxPost(cur) /\ cur' = -1
  /\ UNCHANGED <<txBuf, txAvail, txUsed, sent, wire, rxUsed, rxSeen, lastUsed, rxBufs, arrived, taken, handled>>
Transmit ==
  /\ txUsed # txAvail /\ txUsed' = Next16(txUsed) /\ wire' = Append(wire, txBuf)
  /\ UNCHANGED <<txBuf, txAvail, before, sent, rxvars>>

VNext == Arrive \/ NetPump \/ NicTx \/ SpinEnds \/ Transmit
VSpec == VInit /\ [][VNext]_vvars

(* Every frame the device accepted is handled once and in order: the frames *)
(* handled, then those in the used ring, are the frames taken, however the  *)
(* indices wrap (rx_post, net_pump).                                        *)
Waiting == (rxUsed.idx - lastUsed) % IdxMod
RxExact == handled \o [i \in 1..Waiting |-> rxBufs[rxUsed.ring[(lastUsed + i - 1) % QSZ]]] = taken

(* Every frame put on the wire is the one that was assembled for that place *)
(* in the order: the single tx_buf is not refilled under the device.        *)
TxTrue == wire = [i \in DOMAIN wire |-> i]
=============================================================================

----------------------------- MODULE Admission -----------------------------
(***************************************************************************)
(* Who runs next, and how long it waits: the stamps of the machine-wide    *)
(* admission clock g_adm, the aged and the weighted tier of select_backlog,*)
(* and what donation and stealing do to an actor's age (hal/core/actors.c, *)
(* backlog_add .. deq).                                                    *)
(*                                                                         *)
(* Abstraction.  The weighted tier may pick anyone: its randomness "touches*)
(* no worst case".  An actor that is in no list runs, or is parked, on its *)
(* hart; when it gets there again is open.  A backlog is a set with each   *)
(* entry's place in it; refill's scan reads the clock entry by entry, so   *)
(* it is a step that starts and a step that ends.  The status word and the *)
(* wake rings are module Sched.                                            *)
(***************************************************************************)
EXTENDS Integers, Sequences, FiniteSets, SequencesExt

CONSTANTS
  Actors, Harts,
  Home,      \* [Actors -> Harts]: where each actor is placed
  Pin,       \* acb_t.pin
  Prio,      \* acb_t.prio: the memory actor
  Tau,       \* g_tau
  RQCap,     \* RQ_CAP
  DonateHi,  \* DONATE_HI
  SCap,      \* SCAP
  Mortal,    \* BOUND: the actors that may be killed
  MaxAdm     \* BOUND: admissions

ASSUME AdmissionAssumption ==
  /\ IsFiniteSet(Actors) /\ Home \in [Actors -> Harts]
  /\ Pin \subseteq Actors /\ Prio \subseteq Actors /\ Mortal \subseteq Actors
  /\ Tau \in Nat /\ RQCap \in Nat \ {0} /\ DonateHi \in Nat \ {0}
  /\ SCap \in Nat /\ MaxAdm \in Nat

VARIABLES
  bl,       \* per hart: the backlog
  stamp,    \* acb_t.ready_at
  place,    \* the order in which entries were appended
  nextp,    \* the next place
  rq,       \* per hart: the run queue
  ring,     \* steal_ring
  hart,     \* acb_t.hart
  clk,      \* per hart: g_adm when its scan began, or NoScan
  adm,      \* g_adm
  maxWait,  \* g_max_wait
  dead,     \* the actors whose status word is ST_DEAD
  since,    \* history: g_adm when the actor became ready
  longest,  \* history: the longest time from ready to admitted
  passed    \* history: admissions of its hart since an actor is aged

vars == <<bl, stamp, place, nextp, rq, ring, hart, clk, adm, maxWait, dead, since,
          longest, passed>>
entry == <<bl, stamp, place, nextp, ring, passed>>
clocks == <<adm, maxWait, longest>>

NoScan == -1
N == Cardinality(Actors)

Init ==
  /\ bl = [h \in Harts |-> {}]
  /\ stamp = [a \in Actors |-> 0]
  /\ place = [a \in Actors |-> 0] /\ nextp = 1
  /\ rq = [h \in Harts |-> <<>>]
  /\ ring = <<>>
  /\ hart = Home
  /\ clk = [h \in Harts |-> NoScan]
  /\ adm = 0 /\ maxWait = 0
  /\ dead = {}
  /\ since = [a \in Actors |-> 0] /\ longest = 0
  /\ passed = [a \in Actors |-> 0]

----------------------------------------------------------------------------
(* The entry of S at the head of the list. *)
Foremost(S) == {a \in S : \A b \in S : place[a] <= place[b]}

(* backlog_add: stamped and appended; past DONATE_HI the foremost entry    *)
(* that may move goes to the steal FIFO.  The running actor may not.       *)
Stamped(a) ==
  /\ stamp' = [stamp EXCEPT ![a] = IF a \in Prio THEN 0 ELSE adm]
  /\ place' = [place EXCEPT ![a] = nextp] /\ nextp' = nextp + 1
  /\ passed' = [passed EXCEPT ![a] = 0]
BacklogAdd(h, a, running) ==
  LET q == bl[h] \cup {a}
      D == {d \in q : d \notin Pin \cup dead \cup running}
  IN /\ Stamped(a)
     /\ IF Cardinality(q) > DonateHi /\ D # {} /\ Len(ring) < SCap
        THEN \E d \in D : /\ d \in Foremost(D \ {a}) \/ D = {a}
                          /\ bl' = [bl EXCEPT ![h] = q \ {d}]
                          /\ ring' = Append(ring, d)
        ELSE bl' = [bl EXCEPT ![h] = q] /\ UNCHANGED ring

Listed(a) ==
  a \in ToSet(ring) \/ \E h \in Harts : a \in bl[h] \/ a \in ToSet(rq[h])

(* An actor becomes ready on its hart: it is woken, or it runs and yields. *)
Ready(h, a) ==
  /\ hart[a] = h /\ a \notin dead /\ ~Listed(a) /\ clk[h] = NoScan
  /\ since' = [since EXCEPT ![a] = adm]
  /\ \E running \in {{}, {a}} : BacklogAdd(h, a, running)
  /\ UNCHANGED <<rq, hart, clk, clocks, dead>>

(* refill, while the run queue has room: select_backlog's scan unlinks the *)
(* dead and finds the oldest aged entry -- or, if there is none, any.      *)
Aged(h, t) == {a \in bl[h] : a \in Prio \/ t - stamp[a] > Tau}
(* MUTANT of Oldest: the comparison of the stamps is the wrong way round. *)
Youngest(S) ==
  {a \in S : \A b \in S : stamp[a] > stamp[b] \/ (stamp[a] = stamp[b] /\ place[a] <= place[b])}
Oldest(S) ==
  {a \in S : \A b \in S : stamp[a] < stamp[b] \/ (stamp[a] = stamp[b] /\ place[a] <= place[b])}
(* MUTANT of Scan: the length of the run queue is not looked at. *)
ScanNoRoom(h) ==
  /\ clk[h] = NoScan /\ bl[h] # {}
  /\ bl' = [bl EXCEPT ![h] = @ \ dead]
  /\ clk' = [clk EXCEPT ![h] = IF bl[h] \subseteq dead THEN NoScan ELSE adm]
  /\ UNCHANGED <<stamp, place, nextp, ring, passed, rq, hart, clocks, dead, since>>
Scan(h) ==
  /\ clk[h] = NoScan /\ Len(rq[h]) < RQCap /\ bl[h] # {}
  /\ bl' = [bl EXCEPT ![h] = @ \ dead]
  /\ clk' = [clk EXCEPT ![h] = IF bl[h] \subseteq dead THEN NoScan ELSE adm]
  /\ UNCHANGED <<stamp, place, nextp, ring, passed, rq, hart, clocks, dead, since>>
(* MUTANT of Pick: the scan does not look at the ages. *)
PickUnaged(h, a) == a \in bl[h]
Pick(h, a) ==
  \E S \in SUBSET Aged(h, adm) :
    /\ Aged(h, clk[h]) \subseteq S
    /\ a \in (IF S # {} THEN Oldest(S) ELSE bl[h])
Admit(h, a) ==
  /\ clk[h] # NoScan /\ a \in bl[h] /\ adm < MaxAdm
  /\ Pick(h, a)
  /\ adm' = adm + 1
  /\ maxWait' = IF adm' - stamp[a] > maxWait THEN adm' - stamp[a] ELSE maxWait
  /\ longest' = IF adm' - since[a] > longest THEN adm' - since[a] ELSE longest
  /\ passed' = [b \in Actors |-> passed[b] + (IF b \in Aged(h, clk[h]) \ {a} THEN 1 ELSE 0)]
  /\ bl' = [bl EXCEPT ![h] = @ \ {a}]
  /\ rq' = [rq EXCEPT ![h] = Append(@, a)]
  /\ clk' = [clk EXCEPT ![h] = NoScan]
  /\ UNCHANGED <<stamp, place, nextp, ring, hart, dead, since>>

(* deq: the head of the run queue runs, or is skipped dead *)
Deq(h) ==
  /\ clk[h] = NoScan /\ rq[h] # <<>>
  /\ rq' = [rq EXCEPT ![h] = Tail(@)]
  /\ UNCHANGED <<entry, hart, clk, clocks, dead, since>>

(* hart_loop: nothing local, so steal the head of the FIFO; it is listed   *)
(* here by backlog_add.                                                    *)
Steal(h) ==
  /\ clk[h] = NoScan /\ bl[h] = {} /\ rq[h] = <<>> /\ ring # <<>>
  /\ LET a == Head(ring) IN
       /\ hart' = [hart EXCEPT ![a] = h]
       /\ bl' = [bl EXCEPT ![h] = {a}]
       /\ Stamped(a)
  /\ ring' = Tail(ring)
  /\ UNCHANGED <<rq, clk, clocks, dead, since>>

Kill(a) ==
  /\ a \in Mortal \ dead /\ dead' = dead \cup {a}
  /\ UNCHANGED <<entry, rq, hart, clk, clocks, since>>

HartStep(h) == Scan(h) \/ Deq(h) \/ Steal(h) \/ \E a \in Actors : Ready(h, a) \/ Admit(h, a)
Next == (\E h \in Harts : HartStep(h)) \/ \E a \in Actors : Kill(a)

Spec == Init /\ [][Next]_vars

----------------------------------------------------------------------------
(* Types, and the capacities of the run queues and of the steal FIFO. *)
TypeOK ==
  /\ bl \in [Harts -> SUBSET Actors] /\ rq \in [Harts -> Seq(Actors)] /\ ring \in Seq(Actors)
  /\ stamp \in [Actors -> Nat] /\ place \in [Actors -> Nat] /\ nextp \in Nat
  /\ hart \in [Actors -> Harts] /\ clk \in [Harts -> Nat \cup {NoScan}]
  /\ adm \in Nat /\ maxWait \in Nat /\ longest \in Nat /\ dead \subseteq Actors
  /\ since \in [Actors -> Nat] /\ passed \in [Actors -> Nat]
  /\ \A h \in Harts : Len(rq[h]) <= RQCap
  /\ Len(ring) <= SCap

(* "Only actors with an EARLIER stamp can be admitted ahead of it": once an*)
(* actor is aged its hart admits every other actor at most once before it. *)
AgedBound == \A h \in Harts : \A a \in bl[h] : passed[a] < N

(* "tau bounds worst-case backlog wait (tau + residents admissions)": what *)
(* schedMaxWait measures is within it.                                     *)
WaitBound == maxWait <= Tau + N

(* schedMaxWait is the "max observed backlog wait": somebody waited so     *)
(* long.                                                                   *)
MaxWaitObserved == maxWait <= longest

(* "the migrated actor keeps its age", "migration never resets aging" *)
KeepsAge == \A h \in Harts : \A a \in bl[h] \ Prio : stamp[a] = since[a]

(* "Donation/stealing only tightens this": the bound holds in the FIFO too *)
DonatedBound == \A a \in ToSet(ring) : adm - since[a] <= Tau + N
=============================================================================

------------------------------- MODULE Sched -------------------------------
(***************************************************************************)
(* The scheduler plane of hal/core/actors.c: every hart's loop, its        *)
(* backlog and run queue with the in_bl / in_rq flags, the matrix of wake  *)
(* rings, donation and stealing, and what an actor does to them: spawn,    *)
(* wake, ship, block_unless, yield and fuel exhaustion, kill, return.      *)
(*                                                                         *)
(* Abstraction.  A mailbox is the number of messages waiting in it.  Which *)
(* READY entry select_backlog picks is left open (the aged tier and the    *)
(* weights are module Admission).  A hart that finds nothing goes round    *)
(* its loop again: the sleep in wfi is module HartSleep.  Lists and flags  *)
(* belong to the hart that runs the step; what crosses harts -- a status   *)
(* word, a wake ring, the steal FIFO, a->hart -- is accessed by steps of   *)
(* its own.                                                                *)
(***************************************************************************)
EXTENDS Integers, Sequences, FiniteSets, SequencesExt

CONSTANTS
  Actors, Harts,
  None,       \* no actor: fpr_hart_t.current of a hart in its loop
  Home,       \* [Actors -> Harts]: the hart an actor is placed on
  Pin,        \* acb_t.pin: actor 0 and the spawnOn placements
  Listed,     \* [Harts -> Seq(Actors)]: the backlogs at the start
  Parked,     \* the actors parked in receive at the start; others unborn
  RQCap,      \* RQ_CAP
  DonateHi,   \* DONATE_HI
  SCap,       \* SCAP
  XCap,       \* XCAP
  Ops,        \* [Actors -> Nat] BOUND: sends, spawns, yields, kills of each
  Does,       \* the operations in use
  Main        \* actor 0, whose return ends the program

Starting == UNION {ToSet(Listed[h]) : h \in Harts}

ASSUME SchedAssumption ==
  /\ IsFiniteSet(Actors) /\ None \notin Actors /\ Pin \subseteq Actors /\ Main \in Pin
  /\ Home \in [Actors -> Harts]
  /\ Listed \in [Harts -> Seq(Actors)]
  /\ \A h \in Harts : \A i, j \in DOMAIN Listed[h] :
       Home[Listed[h][i]] = h /\ (Listed[h][i] = Listed[h][j] => i = j)
  /\ Parked \subseteq Actors \ Starting
  /\ RQCap \in Nat \ {0} /\ DonateHi \in Nat \ {0}
  /\ SCap \in Nat \ {0} /\ XCap \in Nat \ {0}
  /\ Ops \in [Actors -> Nat]

VARIABLES
  var,      \* acb_t.var: the status word
  hart,     \* acb_t.hart: the owner hart
  inbl,     \* acb_t.in_bl
  inrq,     \* acb_t.in_rq
  bl, rq,   \* per hart: backlog and run queue
  xr,       \* xr[src][dst]: the wake rings
  ring,     \* steal_ring
  current,  \* fpr_hart_t.current
  hpc,      \* where each hart is in its loop
  pc, to,   \* where each actor is, and the actor it is waking
  dst,      \* xpush's dst: the owner hart as ship read it
  mail,     \* how many messages wait for each actor
  reaped,   \* the actors whose stack and pool went home
  blocked,  \* g_blocked
  ops       \* operations performed (BOUND by Ops)

vars == <<var, hart, inbl, inrq, bl, rq, xr, ring, current, hpc, pc, to, dst, mail,
          reaped, blocked, ops>>
lists == <<inbl, bl, ring>>

Init ==
  /\ var = [a \in Actors |-> IF a \in Parked THEN "BLOCKED" ELSE "READY"]
  /\ hart = Home
  /\ inbl = [a \in Actors |-> a \in Starting]
  /\ inrq = [a \in Actors |-> FALSE]
  /\ bl = Listed
  /\ rq = [h \in Harts |-> <<>>]
  /\ xr = [h \in Harts |-> [k \in Harts |-> <<>>]]
  /\ ring = <<>>
  /\ current = [h \in Harts |-> None]
  /\ hpc = [h \in Harts |-> "drain"]
  /\ pc = [a \in Actors |-> IF a \in Starting THEN "user"
                            ELSE IF a \in Parked THEN "parked" ELSE "unborn"]
  /\ to = [a \in Actors |-> a]
  /\ dst = Home
  /\ mail = [a \in Actors |-> 0]
  /\ reaped = {}
  /\ blocked = Cardinality(Parked)
  /\ ops = [a \in Actors |-> 0]

----------------------------------------------------------------------------
(* backlog_add and donate.  A listed actor is not listed again.  A backlog *)
(* past DONATE_HI gives its oldest entry that is unpinned, READY and not   *)
(* the running actor to the steal FIFO, if that has room.                  *)
DonatablePinned(h, q) == {i \in DOMAIN q : q[i] # current[h] /\ var[q[i]] = "READY"}
DonatableRunning(h, q) == {i \in DOMAIN q : q[i] \notin Pin /\ var[q[i]] = "READY"}
Donatable(h, q) ==
  {i \in DOMAIN q : q[i] \notin Pin /\ q[i] # current[h] /\ var[q[i]] = "READY"}
Oldest(S) == {i \in S : \A j \in S : i <= j}
EnqTwice(h, a) == bl' = [bl EXCEPT ![h] = Append(@, a)]
  /\ inbl' = [inbl EXCEPT ![a] = TRUE] /\ UNCHANGED ring
EnqGives(h, a, room, left) ==
  LET q == Append(bl[h], a)
      D == Donatable(h, q)
  IN IF inbl[a] \/ inrq[a] THEN UNCHANGED lists
     ELSE IF Len(q) > DonateHi /\ D # {}
     THEN \E i \in Oldest(D) :
          /\ bl' = [bl EXCEPT ![h] = RemoveAt(q, i)]
          /\ inbl' = [inbl EXCEPT ![a] = TRUE, ![q[i]] = left]
          /\ ring' = IF room THEN Append(ring, q[i]) ELSE ring
     ELSE bl' = [bl EXCEPT ![h] = q] /\ inbl' = [inbl EXCEPT ![a] = TRUE] /\ UNCHANGED ring
EnqDropsWhenFull(h, a) == EnqGives(h, a, Len(ring) < SCap, FALSE)
EnqKeepsFlag(h, a) == EnqGives(h, a, TRUE, TRUE)
Enq(h, a) ==
  LET q == Append(bl[h], a)
      D == Donatable(h, q)
  IN IF inbl[a] \/ inrq[a] THEN UNCHANGED lists
     ELSE IF Len(q) > DonateHi /\ D # {} /\ Len(ring) < SCap
     THEN \E i \in Oldest(D) :
          /\ bl' = [bl EXCEPT ![h] = RemoveAt(q, i)]
          /\ inbl' = [inbl EXCEPT ![a] = TRUE, ![q[i]] = FALSE]
          /\ ring' = Append(ring, q[i])
     ELSE /\ bl' = [bl EXCEPT ![h] = q]
          /\ inbl' = [inbl EXCEPT ![a] = TRUE]
          /\ UNCHANGED ring

----------------------------------------------------------------------------
(* The hart loop *)
HAt(h, l) == current[h] = None /\ hpc[h] = l
HGoto(h, l) == hpc' = [hpc EXCEPT ![h] = l]
Inbound(h) == {s \in Harts : xr[s][h] # <<>>}
actors == <<var, pc, to, dst, mail, blocked, ops>>

(* drain: every inbound ring into the backlog *)
Drain(h) ==
  /\ HAt(h, "drain")
  /\ \E s \in Inbound(h) :
       /\ Enq(h, Head(xr[s][h]))
       /\ xr' = [xr EXCEPT ![s][h] = Tail(@)]
  /\ UNCHANGED <<hart, inrq, rq, current, hpc, actors, reaped>>
Drained(h) ==
  /\ HAt(h, "drain") /\ Inbound(h) = {}
  /\ HGoto(h, "refill")
  /\ UNCHANGED <<hart, inrq, rq, xr, lists, current, actors, reaped>>

(* refill / select_backlog, while the run queue has room: an entry seen   *)
(* not READY is unlinked, and reaped if dead; a READY one is admitted.     *)
(* Every entry's status is read at a moment of its own, so an entry that   *)
(* turned stale behind the scan is still there when another is admitted.   *)
Room(h) == Len(rq[h]) < RQCap
UnlinkReaps(h) ==
  /\ HAt(h, "refill") /\ Room(h)
  /\ \E i \in DOMAIN bl[h] :
       LET a == bl[h][i] IN
       /\ var[a] # "READY"
       /\ bl' = [bl EXCEPT ![h] = RemoveAt(@, i)]
       /\ inbl' = [inbl EXCEPT ![a] = FALSE]
       /\ reaped' = reaped \cup {a}
  /\ UNCHANGED <<hart, inrq, rq, xr, ring, current, hpc, actors>>
Unlink(h) ==
  /\ HAt(h, "refill") /\ Room(h)
  /\ \E i \in DOMAIN bl[h] :
       LET a == bl[h][i] IN
       /\ var[a] # "READY"
       /\ bl' = [bl EXCEPT ![h] = RemoveAt(@, i)]
       /\ inbl' = [inbl EXCEPT ![a] = FALSE]
       /\ reaped' = IF var[a] = "DEAD" THEN reaped \cup {a} ELSE reaped
  /\ UNCHANGED <<hart, inrq, rq, xr, ring, current, hpc, actors>>
Admit(h) ==
  /\ HAt(h, "refill") /\ Room(h)
  /\ \E i \in DOMAIN bl[h] :
       LET a == bl[h][i] IN
       /\ var[a] = "READY"
       /\ bl' = [bl EXCEPT ![h] = RemoveAt(@, i)]
       /\ inbl' = [inbl EXCEPT ![a] = FALSE]
       /\ rq' = [rq EXCEPT ![h] = Append(@, a)]
       /\ inrq' = [inrq EXCEPT ![a] = TRUE]
  /\ UNCHANGED <<hart, xr, ring, current, hpc, actors, reaped>>
Refilled(h) ==
  /\ HAt(h, "refill") /\ (~Room(h) \/ bl[h] = <<>>)
  /\ HGoto(h, "deq")
  /\ UNCHANGED <<hart, inrq, rq, xr, lists, current, actors, reaped>>

(* deq: the head of the run queue; a stale entry is skipped.  READY: the   *)
(* context switch, and block_unless's decrement of g_blocked if the actor  *)
(* was parked.                                                             *)
Deq(h) ==
  LET a == Head(rq[h]) IN
  /\ HAt(h, "deq") /\ rq[h] # <<>>
  /\ rq' = [rq EXCEPT ![h] = Tail(@)]
  /\ inrq' = [inrq EXCEPT ![a] = FALSE]
  /\ IF var[a] = "READY"
     THEN /\ current' = [current EXCEPT ![h] = a]
          /\ pc' = [pc EXCEPT ![a] = IF @ = "parked" THEN "user" ELSE @]
          /\ blocked' = IF pc[a] = "parked" THEN blocked - 1 ELSE blocked
          /\ UNCHANGED reaped
     ELSE /\ reaped' = IF var[a] = "DEAD" THEN reaped \cup {a} ELSE reaped
          /\ UNCHANGED <<current, pc, blocked>>
  /\ UNCHANGED <<var, hart, lists, xr, hpc, to, dst, mail, ops>>
DeqEmpty(h) ==
  /\ HAt(h, "deq") /\ rq[h] = <<>>
  /\ HGoto(h, "steal")
  /\ UNCHANGED <<hart, inrq, rq, xr, lists, current, actors, reaped>>

(* steal: the head of the FIFO migrates here *)
Steal(h) ==
  LET a == Head(ring) IN
  /\ HAt(h, "steal") /\ ring # <<>>
  /\ hart' = [hart EXCEPT ![a] = h]
  /\ ring' = Tail(ring)
  /\ IF inbl[a] \/ inrq[a] THEN UNCHANGED <<bl, inbl>>
     ELSE /\ bl' = [bl EXCEPT ![h] = Append(@, a)]
          /\ inbl' = [inbl EXCEPT ![a] = TRUE]
  /\ HGoto(h, "drain")
  /\ UNCHANGED <<inrq, rq, xr, current, actors, reaped>>
NoSteal(h) ==
  /\ HAt(h, "steal") /\ ring = <<>>
  /\ HGoto(h, "drain")
  /\ UNCHANGED <<hart, inrq, rq, xr, lists, current, actors, reaped>>

(* back from the actor's context: to_sched, then the reap of a dead one *)
SwitchOut(h) ==
  LET a == current[h] IN
  /\ a # None /\ pc[a] \in {"leave", "parking"}
  /\ current' = [current EXCEPT ![h] = None]
  /\ pc' = [pc EXCEPT ![a] = IF @ = "parking" THEN "parked" ELSE "user"]
  /\ reaped' = IF var[a] = "DEAD" THEN reaped \cup {a} ELSE reaped
  /\ HGoto(h, "drain")
  /\ UNCHANGED <<var, hart, inrq, rq, xr, lists, to, dst, mail, blocked, ops>>

LoopStep(h) ==
  Drain(h) \/ Drained(h) \/ Unlink(h) \/ Admit(h) \/ Refilled(h) \/ Deq(h)
    \/ DeqEmpty(h) \/ Steal(h) \/ NoSteal(h) \/ SwitchOut(h)

----------------------------------------------------------------------------
(* What the actor running on hart h does *)
At(h, l) == current[h] # None /\ pc[current[h]] = l
Goto(a, l) == pc' = [pc EXCEPT ![a] = l]
Spend(h, op) ==
  /\ At(h, "user") /\ op \in Does /\ ops[current[h]] < Ops[current[h]]
  /\ ops' = [ops EXCEPT ![current[h]] = @ + 1]
plane == <<hart, inrq, rq, xr, lists, current, hpc, reaped>>

(* send: the message is published; nothing happens to a dead target *)
Send(h) ==
  LET a == current[h] IN
  /\ Spend(h, "send")
  /\ \E b \in Actors \ {a} :
       /\ pc[b] # "unborn" /\ var[b] # "DEAD"
       /\ mail' = [mail EXCEPT ![b] = @ + 1]
       /\ to' = [to EXCEPT ![a] = b]
  /\ Goto(a, "wake")
  /\ UNCHANGED <<var, dst, blocked, plane>>
(* wake: CAS(BLOCKED -> READY), whose winner ships *)
Wake(h) ==
  LET a == current[h]
      b == to[a]
  IN /\ At(h, "wake")
     /\ IF var[b] = "BLOCKED"
        THEN var' = [var EXCEPT ![b] = "READY"] /\ Goto(a, "ship")
        ELSE Goto(a, "user") /\ UNCHANGED var
     /\ UNCHANGED <<to, dst, mail, blocked, ops, plane>>
(* ship: to our own backlog, or through the ring to the owner hart *)
ShipHere(h) ==
  /\ At(h, "ship") /\ Enq(h, to[current[h]]) /\ Goto(current[h], "user")
  /\ UNCHANGED <<var, hart, inrq, rq, xr, current, hpc, to, dst, mail, reaped, blocked, ops>>
Ship(h) ==
  LET a == current[h]
      b == to[a]
  IN /\ At(h, "ship")
     /\ IF hart[b] = h
        THEN Enq(h, b) /\ Goto(a, "user") /\ UNCHANGED dst
        ELSE Goto(a, "xpush") /\ dst' = [dst EXCEPT ![a] = hart[b]] /\ UNCHANGED lists
     /\ UNCHANGED <<var, hart, inrq, rq, xr, current, hpc, to, mail, reaped, blocked, ops>>
(* xpush spins while the ring is full *)
Xpush(h) ==
  LET a == current[h] IN
  /\ At(h, "xpush") /\ Len(xr[h][dst[a]]) < XCap
  /\ xr' = [xr EXCEPT ![h][dst[a]] = Append(@, to[a])]
  /\ Goto(a, "user")
  /\ UNCHANGED <<var, hart, inrq, rq, lists, current, hpc, to, dst, mail, reaped, blocked, ops>>

(* spawn / spawnOn: a fresh actor, shipped to its hart *)
Spawn(h) ==
  LET a == current[h] IN
  /\ Spend(h, "spawn")
  /\ \E b \in Actors :
       /\ pc[b] = "unborn"
       /\ hart' = [hart EXCEPT ![b] = IF b \in Pin THEN Home[b] ELSE h]
       /\ pc' = [pc EXCEPT ![b] = "user", ![a] = "ship"]
       /\ to' = [to EXCEPT ![a] = b]
  /\ UNCHANGED <<var, inrq, rq, xr, lists, current, hpc, dst, mail, reaped, blocked>>

(* receive: the scan, then block_unless: the CAS READY -> BLOCKED (lost    *)
(* only to a kill), the re-scan, and either back to READY or parked.       *)
Receive(h) ==
  LET a == current[h] IN
  /\ At(h, "user") /\ "receive" \in Does
  /\ IF mail[a] > 0
     THEN mail' = [mail EXCEPT ![a] = @ - 1] /\ UNCHANGED pc
     ELSE Goto(a, "block") /\ UNCHANGED mail
  /\ UNCHANGED <<var, to, dst, blocked, ops, plane>>
BlockCas(h) ==
  LET a == current[h] IN
  /\ At(h, "block")
  /\ IF var[a] = "READY"
     THEN var' = [var EXCEPT ![a] = "BLOCKED"] /\ Goto(a, "rescan")
     ELSE Goto(a, "leave") /\ UNCHANGED var
  /\ UNCHANGED <<to, dst, mail, blocked, ops, plane>>
RescanUncounted(h) ==
  LET a == current[h] IN
  /\ At(h, "rescan")
  /\ IF mail[a] > 0
     THEN var' = [var EXCEPT ![a] = IF @ = "BLOCKED" THEN "READY" ELSE @] /\ Goto(a, "user")
     ELSE Goto(a, "parking") /\ UNCHANGED var
  /\ UNCHANGED <<to, dst, mail, blocked, ops, plane>>
NoRescan(h) ==
  LET a == current[h] IN
  /\ At(h, "rescan") /\ blocked' = blocked + 1 /\ Goto(a, "parking")
  /\ UNCHANGED <<var, to, dst, mail, ops, plane>>
Rescan(h) ==
  LET a == current[h] IN
  /\ At(h, "rescan")
  /\ IF mail[a] > 0
     THEN /\ var' = [var EXCEPT ![a] = IF @ = "BLOCKED" THEN "READY" ELSE @]
          /\ Goto(a, "user")
          /\ UNCHANGED blocked
     ELSE /\ blocked' = blocked + 1
          /\ Goto(a, "parking")
          /\ UNCHANGED var
  /\ UNCHANGED <<to, dst, mail, ops, plane>>

(* yield, and the fuel check's preemption: the running actor is enqueued   *)
(* while its context is still live.                                        *)
Yield(h) ==
  LET a == current[h] IN
  /\ Spend(h, "yield")
  /\ Enq(h, a)
  /\ Goto(a, "leave")
  /\ UNCHANGED <<var, hart, inrq, rq, xr, current, hpc, to, dst, mail, reaped, blocked>>

(* kill, and the body's return: the status word; oneself leaves at once *)
Kill(h) ==
  LET a == current[h] IN
  /\ Spend(h, "kill")
  /\ \E b \in Actors \ {Main} :
       /\ pc[b] # "unborn"
       /\ var' = [var EXCEPT ![b] = "DEAD"]
       /\ IF b = a THEN Goto(a, "leave") ELSE UNCHANGED pc
  /\ UNCHANGED <<to, dst, mail, blocked, plane>>
Exit(h) ==
  LET a == current[h] IN
  /\ At(h, "user") /\ "exit" \in Does /\ a # Main
  /\ var' = [var EXCEPT ![a] = "DEAD"]
  /\ Goto(a, "leave")
  /\ UNCHANGED <<to, dst, mail, blocked, ops, plane>>

ActorStep(h) ==
  Send(h) \/ Wake(h) \/ Ship(h) \/ Xpush(h) \/ Spawn(h) \/ Receive(h) \/ BlockCas(h)
    \/ Rescan(h) \/ Yield(h) \/ Kill(h) \/ Exit(h)

Next == \E h \in Harts : LoopStep(h) \/ ActorStep(h)

Spec == Init /\ [][Next]_vars

----------------------------------------------------------------------------
Pcs == {"unborn", "user", "wake", "ship", "xpush", "block", "rescan", "parking",
        "parked", "leave"}

TypeOK ==
  /\ var \in [Actors -> {"READY", "BLOCKED", "DEAD"}]
  /\ hart \in [Actors -> Harts]
  /\ inbl \in [Actors -> BOOLEAN] /\ inrq \in [Actors -> BOOLEAN]
  /\ bl \in [Harts -> Seq(Actors)] /\ rq \in [Harts -> Seq(Actors)]
  /\ xr \in [Harts -> [Harts -> Seq(Actors)]]
  /\ ring \in Seq(Actors)
  /\ current \in [Harts -> Actors \cup {None}]
  /\ hpc \in [Harts -> {"drain", "refill", "deq", "steal"}]
  /\ pc \in [Actors -> Pcs] /\ to \in [Actors -> Actors]
  /\ dst \in [Actors -> Harts]
  /\ mail \in [Actors -> Nat] /\ reaped \subseteq Actors
  /\ blocked \in Nat /\ ops \in [Actors -> Nat]

(* "An actor runs on exactly one hart at a time." *)
OneHart ==
  \A h, k \in Harts : current[h] = current[k] /\ current[h] # None => h = k

(* A pinned actor is listed, shipped and run only on the hart it was       *)
(* placed on: donation and stealing never move it.                         *)
PinnedStay ==
  \A a \in Pin, h \in Harts :
    /\ \/ current[h] = a \/ a \in ToSet(bl[h]) \/ a \in ToSet(rq[h])
       \/ \E s \in Harts : a \in ToSet(xr[s][h])
       => h = Home[a]
    /\ a \notin ToSet(ring)

(* "One entry is the invariant": over all backlogs and run queues an actor *)
(* is listed at most once, and its flags say where.                        *)
Entries(q, a) == UNION {{<<h, i>> : i \in {j \in DOMAIN q[h] : q[h][j] = a}} : h \in Harts}
OneEntry ==
  \A a \in Actors :
    /\ Cardinality(Entries(bl, a)) = (IF inbl[a] THEN 1 ELSE 0)
    /\ Cardinality(Entries(rq, a)) = (IF inrq[a] THEN 1 ELSE 0)
    /\ ~(inbl[a] /\ inrq[a])

(* Nobody runnable is forgotten: a READY actor that is not running is in a *)
(* list, a wake ring or the steal FIFO, or a waker that won its CAS is     *)
(* about to ship it; a parked, BLOCKED actor with mail has a sender that   *)
(* is about to try the CAS.                                                *)
Waking(a, l) == \E h \in Harts : At(h, l) /\ to[current[h]] = a
Runs(a) == \E h \in Harts : current[h] = a
Found(a) ==
  \/ \E h \in Harts : \/ a \in ToSet(bl[h]) \/ a \in ToSet(rq[h])
                      \/ \E s \in Harts : a \in ToSet(xr[s][h])
  \/ a \in ToSet(ring)
  \/ Waking(a, "ship") \/ Waking(a, "xpush")
NobodyLost ==
  \A a \in Actors :
    /\ pc[a] # "unborn" /\ var[a] = "READY" /\ ~Runs(a) => Found(a)
    /\ pc[a] = "parked" /\ var[a] = "BLOCKED" /\ mail[a] > 0 => Waking(a, "wake")

(* The stack and the slabs of an actor go home only when it is dead and    *)
(* off every hart, for good.                                               *)
ReapedAreGone ==
  \A a \in reaped : var[a] = "DEAD" /\ ~Runs(a)

(* What the lists are for: no listing, wake, kill, exit, spawn, donation   *)
(* or steal duplicates an actor on them, loses a runnable one, or reaps    *)
(* one that may still run.                                                 *)
ListsKeep == OneEntry /\ NobodyLost /\ ReapedAreGone

(* The hart that spins in xpush waits for a consumer that can drain: no    *)
(* two harts spin on each other's full ring.                               *)
Spinning(h, k) == At(h, "xpush") /\ dst[current[h]] = k /\ Len(xr[h][k]) = XCap
NoCrossSpin == \A h, k \in Harts : h # k => ~(Spinning(h, k) /\ Spinning(k, h))
=============================================================================

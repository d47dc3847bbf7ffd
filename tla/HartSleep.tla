----------------------------- MODULE HartSleep -----------------------------
(***************************************************************************)
(* How the harts of hal/core/actors.c go to sleep and are woken: the two   *)
(* passes of hart_loop around the clearing of the doorbell, the idle flag  *)
(* and its Dekker with donate, Sys.sleepUs and its sleeper lists, the one  *)
(* armed timer deadline of the irq hart, and the deadlock detector of      *)
(* hart 0.                                                                 *)
(*                                                                         *)
(* Abstraction.  The status word's handshake and the order of the lists    *)
(* are modules Mailbox and Sched: here a receive parks, and a send         *)
(* publishes and wins the CAS, in one step, and a list is the set of its   *)
(* entries, a sleeper list how often it has each.  The wake rings to a     *)
(* hart are one set, never full; what a hart ships to itself goes through  *)
(* it too, to be listed in the same pass.                                  *)
(* Time is what it makes true: a deadline passes at any moment after it is *)
(* set.                                                                    *)
(***************************************************************************)
EXTENDS Integers, FiniteSets, FiniteSetsExt, Functions

CONSTANTS
  NHarts,      \* fpr_live_harts
  Actors,
  None,        \* no actor
  TimerActor,  \* tmr_act, the actor bound by Sys.timerBind, or None
  Pin,         \* acb_t.pin
  Placed,      \* [Actors -> 0 .. NHarts - 1]: where each actor is placed
  Ready0,      \* the actors listed at the start; the others are parked
  DonateHi,    \* DONATE_HI
  SCap,        \* SCAP
  Quiet,       \* DETECT_QUIET
  Ops,         \* BOUND: operations each actor performs
  Does         \* the operations each actor uses

HartIds == 0 .. NHarts - 1
IrqHart == NHarts - 1   \* fpr_irq_hart: the last live hart
Detector == 0

ASSUME HartSleepAssumption ==
  /\ NHarts \in Nat \ {0} /\ IsFiniteSet(Actors) /\ None \notin Actors
  /\ TimerActor \in Actors \cup {None} /\ Pin \subseteq Actors
  /\ Placed \in [Actors -> HartIds] /\ Ready0 \subseteq Actors
  /\ DonateHi \in Nat \ {0} /\ SCap \in Nat /\ Quiet \in Nat /\ Ops \in Nat

VARIABLES
  st,        \* the status word
  hart,      \* acb_t.hart
  mail,      \* how many messages wait
  napping,   \* the actors inside Sys.sleepUs
  due,       \* the actors whose wake_at has passed
  ready,     \* per hart: backlog and run queue
  inbox,     \* per hart: what the wake rings to it hold
  ring,      \* steal_ring
  slp,       \* per hart: how often its sleeper list has each actor
  current,   \* fpr_hart_t.current
  at, ret,   \* where each hart is, and where it returns to
  pass,      \* the first or the second look of a loop turn
  tgt,       \* the hart it is about to ring, or looks at
  idle,      \* fpr_hart_t.idle
  msip,      \* the doorbells
  timer,     \* tmr_deadline: off, armed, or passed
  mtimecmp,  \* what the comparator of each hart is set for
  inPark,    \* the actors between the two g_blocked updates of block_unless
  moved,     \* g_activity differs from the detector's last_act
  stable,    \* quiet samples in a row
  turned,    \* how far each hart got through its loop since the lull began
  panic,     \* the detector stopped the machine
  ops        \* operations performed (BOUND by Ops)

work == <<st, hart, mail, napping, due>>
lists == <<ready, ring>>
clock == <<timer, mtimecmp>>
watch == <<moved, stable, turned, panic>>
bell == <<idle, msip>>
vars == <<work, lists, inbox, slp, current, at, ret, pass, tgt, bell, clock, inPark,
          watch, ops>>

Init ==
  /\ st = [a \in Actors |-> IF a \in Ready0 THEN "ready" ELSE "parked"]
  /\ hart = Placed
  /\ mail = [a \in Actors |-> 0]
  /\ napping = {} /\ due = {}
  /\ ready = [h \in HartIds |-> {a \in Ready0 : Placed[a] = h}]
  /\ inbox = [h \in HartIds |-> {}]
  /\ ring = {}
  /\ slp = [h \in HartIds |-> [a \in Actors |-> 0]]
  /\ current = [h \in HartIds |-> None]
  /\ at = [h \in HartIds |-> "top"]
  /\ ret = [h \in HartIds |-> "top"]
  /\ pass = [h \in HartIds |-> 1]
  /\ tgt = [h \in HartIds |-> 0]
  /\ idle = [h \in HartIds |-> FALSE]
  /\ msip = [h \in HartIds |-> FALSE]
  /\ timer = "off" /\ mtimecmp = [h \in HartIds |-> "none"]
  /\ inPark = Actors \ Ready0
  /\ moved = FALSE /\ stable = 0 /\ turned = [h \in HartIds |-> 0] /\ panic = FALSE
  /\ ops = [a \in Actors |-> 0]

----------------------------------------------------------------------------
At(h, l) == ~panic /\ at[h] = l
Goto(h, l) == at' = [at EXCEPT ![h] = l]

(* The counters are what they count: g_blocked every block_unless that has *)
(* not come back, g_sleepers every entry of the sleeper lists.             *)
g_blocked == Cardinality(inPark)
Sleepers(h) == {a \in Actors : slp[h][a] # 0}
g_sleepers == MapThenSumSet(LAMBDA h : SumFunction(slp[h]), HartIds)

(* backlog_add, then on to l; and donate, when the backlog -- which is at  *)
(* most what is listed -- is past DONATE_HI: one entry that is unpinned,   *)
(* READY and not running goes to the steal FIFO.                           *)
List(h, a, l) ==
  LET q == ready[h] \cup {a}
      D == {d \in q : d \notin Pin /\ d # current[h] /\ st'[d] = "ready"}
  IN \/ /\ ready' = [ready EXCEPT ![h] = q]
        /\ Goto(h, l)
        /\ UNCHANGED <<ring, ret, tgt>>
     \/ /\ a \notin ready[h] /\ Cardinality(q) > DonateHi /\ Cardinality(ring) < SCap
        /\ \E d \in D : ready' = [ready EXCEPT ![h] = q \ {d}] /\ ring' = ring \cup {d}
        /\ Goto(h, "scan")
        /\ ret' = [ret EXCEPT ![h] = l] /\ tgt' = [tgt EXCEPT ![h] = 0]

(* MUTANT of Scan: the loop over the harts ends at the donor itself. *)
ScanStopsAtSelf(h) ==
  LET i == tgt[h] IN
  /\ At(h, "scan")
  /\ IF i = NHarts \/ i = h THEN Goto(h, ret[h]) /\ UNCHANGED <<tgt, msip>>
     ELSE IF idle[i]
     THEN msip' = [msip EXCEPT ![i] = TRUE] /\ Goto(h, ret[h]) /\ UNCHANGED tgt
     ELSE tgt' = [tgt EXCEPT ![h] = i + 1] /\ UNCHANGED <<at, msip>>
  /\ UNCHANGED <<work, lists, inbox, slp, current, ret, pass, idle, clock, inPark, watch, ops>>
(* donate's doorbell: the first other hart whose idle flag is up *)
Scan(h) ==
  LET i == tgt[h] IN
  /\ At(h, "scan")
  /\ IF i = NHarts THEN Goto(h, ret[h]) /\ UNCHANGED <<tgt, msip>>
     ELSE IF i # h /\ idle[i]
     THEN msip' = [msip EXCEPT ![i] = TRUE] /\ Goto(h, ret[h]) /\ UNCHANGED tgt
     ELSE tgt' = [tgt EXCEPT ![h] = i + 1] /\ UNCHANGED <<at, msip>>
  /\ UNCHANGED <<work, lists, inbox, slp, current, ret, pass, idle, clock, inPark, watch, ops>>

----------------------------------------------------------------------------
(* The loop.  tmr_drain, on the irq hart: the deadline is read, and if it  *)
(* has passed taken back and delivered -- in two steps, a timerArm on      *)
(* another hart may fall between them.                                     *)
Fires(h) == h = IrqHart /\ timer = "due"
TmrLook(h) ==
  /\ At(h, "top") /\ Fires(h)
  /\ Goto(h, "fire")
  /\ UNCHANGED <<work, lists, inbox, slp, current, ret, pass, tgt, bell, clock, inPark, watch, ops>>
ParkTimer(h) == mtimecmp' = IF h = Detector THEN mtimecmp ELSE [mtimecmp EXCEPT ![h] = "none"]
(* wake and ship, by the loop of hart h, of those of S that are parked *)
WakeAll(h, S) ==
  LET up == {a \in S : st[a] = "parked"} IN
  /\ st' = [a \in Actors |-> IF a \in up THEN "ready" ELSE st[a]]
  /\ inbox' = [k \in HartIds |-> inbox[k] \cup {a \in up : hart[a] = k}]
  /\ msip' = [k \in HartIds |-> msip[k] \/ (k # h /\ \E a \in up : hart[a] = k)]
  /\ moved' = (moved \/ up # {})
TmrFire(h) ==
  /\ At(h, "fire")
  /\ timer' = "off" /\ ParkTimer(h)
  /\ IF st[TimerActor] = "dead" THEN UNCHANGED mail
     ELSE mail' = [mail EXCEPT ![TimerActor] = @ + 1]
  /\ WakeAll(h, {TimerActor})
  /\ Goto(h, "slp")
  /\ UNCHANGED <<hart, napping, due, lists, slp, current, ret, pass, tgt, idle, inPark,
                 stable, turned, panic, ops>>
(* slp_drain: the entries whose deadline passed, and the dead, come off *)
SlpDrain(h) ==
  LET gone == {a \in Sleepers(h) : a \in due \/ st[a] = "dead"} IN
  /\ At(h, "slp") \/ (At(h, "top") /\ ~Fires(h))
  /\ WakeAll(h, gone)
  /\ slp' = [slp EXCEPT ![h] = [a \in Actors |-> IF a \in gone THEN 0 ELSE @[a]]]
  /\ IF gone = {} THEN UNCHANGED mtimecmp ELSE ParkTimer(h)
  /\ turned' = [turned EXCEPT ![h] = IF @ = 0 THEN 1 ELSE @]
  /\ Goto(h, "drain")
  /\ UNCHANGED <<hart, mail, napping, due, lists, current, ret, pass, tgt, idle, timer, inPark,
                 stable, panic, ops>>

(* drain: the wake rings into the backlog *)
Drain(h) ==
  /\ At(h, "drain")
  /\ UNCHANGED work
  /\ IF inbox[h] = {} THEN Goto(h, "deq") /\ UNCHANGED <<lists, inbox, ret, tgt>>
     ELSE \E a \in inbox[h] : /\ inbox' = [inbox EXCEPT ![h] = @ \ {a}]
                              /\ List(h, a, "drain")
  /\ UNCHANGED <<slp, current, pass, bell, clock, inPark, watch, ops>>

(* deq, and the context switch; nothing: the second pass, or idle *)
Deq(h) ==
  LET live == {a \in ready[h] : st[a] = "ready"} IN
  /\ At(h, "deq")
  /\ turned' = [turned EXCEPT ![h] = IF @ = 1 THEN 2 ELSE @]
  /\ IF live # {}
     THEN \E n \in live :
            /\ current' = [current EXCEPT ![h] = n]
            /\ ready' = [ready EXCEPT ![h] = live \ {n}]
            /\ inPark' = inPark \ {n}
            /\ idle' = [idle EXCEPT ![h] = FALSE]
            /\ stable' = IF h = Detector THEN 0 ELSE stable
            /\ Goto(h, "run")
     ELSE /\ ready' = [ready EXCEPT ![h] = {}]
          /\ Goto(h, IF pass[h] = 1 THEN "clear" ELSE "idle")
          /\ UNCHANGED <<current, inPark, idle, stable>>
  /\ UNCHANGED <<work, ring, inbox, slp, ret, pass, tgt, msip, clock, moved, panic, ops>>

(* MUTANT of Clear: no second look. *)
ClearOnly(h) ==
  /\ At(h, "clear")
  /\ msip' = [msip EXCEPT ![h] = FALSE]
  /\ Goto(h, "idle")
  /\ UNCHANGED <<work, lists, inbox, slp, current, ret, pass, tgt, idle, clock, inPark, watch, ops>>
(* the doorbell is cleared, and everything is looked at again *)
Clear(h) ==
  /\ At(h, "clear")
  /\ msip' = [msip EXCEPT ![h] = FALSE]
  /\ pass' = [pass EXCEPT ![h] = 2]
  /\ Goto(h, "top")
  /\ UNCHANGED <<work, lists, inbox, slp, current, ret, tgt, idle, clock, inPark, watch, ops>>

(* MUTANT of Idle: the doorbell is cleared here too, after the looks. *)
IdleClears(h) ==
  /\ At(h, "idle")
  /\ idle' = [idle EXCEPT ![h] = TRUE]
  /\ msip' = [msip EXCEPT ![h] = FALSE]
  /\ Goto(h, "steal")
  /\ UNCHANGED <<work, lists, inbox, slp, current, ret, pass, tgt, clock, inPark, watch, ops>>
(* idle goes up before the steal FIFO is looked at *)
Idle(h) ==
  /\ At(h, "idle")
  /\ idle' = [idle EXCEPT ![h] = TRUE]
  /\ Goto(h, "steal")
  /\ UNCHANGED <<work, lists, inbox, slp, current, ret, pass, tgt, msip, clock, inPark, watch, ops>>
Steal(h) ==
  /\ At(h, "steal")
  /\ UNCHANGED <<st, mail, napping, due>>
  /\ IF ring = {}
     THEN /\ Goto(h, IF h = Detector THEN "detect" ELSE "arm")
          /\ UNCHANGED <<hart, lists, ret, tgt, pass, idle>>
     ELSE \E a \in ring :
            /\ hart' = [hart EXCEPT ![a] = h]
            /\ ring' = ring \ {a}
            /\ ready' = [ready EXCEPT ![h] = @ \cup {a}]
            /\ idle' = [idle EXCEPT ![h] = FALSE]
            /\ pass' = [pass EXCEPT ![h] = 1]
            /\ Goto(h, "top")
            /\ UNCHANGED <<ret, tgt>>
  /\ UNCHANGED <<inbox, slp, current, msip, clock, inPark, watch, ops>>

(* MUTANT of Arm: the sleepers' deadlines are not armed. *)
ArmTimerOnly(h) ==
  /\ At(h, "arm")
  /\ mtimecmp' = IF h = IrqHart /\ timer # "off" THEN [mtimecmp EXCEPT ![h] = "timer"]
                 ELSE mtimecmp
  /\ Goto(h, "wfi")
  /\ UNCHANGED <<work, lists, inbox, slp, current, ret, pass, tgt, bell, timer, inPark, watch, ops>>
(* tmr_wfi_arm, then slp_wfi_arm, which sets the same comparator *)
Arm(h) ==
  /\ At(h, "arm")
  /\ mtimecmp' = IF Sleepers(h) # {} THEN [mtimecmp EXCEPT ![h] = "sleeper"]
                 ELSE IF h = IrqHart /\ timer # "off" THEN [mtimecmp EXCEPT ![h] = "timer"]
                 ELSE mtimecmp
  /\ Goto(h, "wfi")
  /\ UNCHANGED <<work, lists, inbox, slp, current, ret, pass, tgt, bell, timer, inPark, watch, ops>>

(* wfi falls through on the doorbell, and when the comparator is reached;  *)
(* on hart 0 that is at the latest the detector's next sample.             *)
Wakes(h) ==
  \/ msip[h] \/ h = Detector
  \/ mtimecmp[h] = "sleeper" /\ Sleepers(h) \cap due # {}
  \/ mtimecmp[h] = "timer" /\ timer = "due"
Wfi(h) ==
  /\ At(h, "wfi") /\ Wakes(h)
  /\ pass' = [pass EXCEPT ![h] = 1]
  /\ Goto(h, "top")
  /\ UNCHANGED <<work, lists, inbox, slp, current, ret, tgt, bell, clock, inPark, watch, ops>>

----------------------------------------------------------------------------
(* The detector: a sample is quiet when every hart is idle, more actors    *)
(* are blocked than asleep and nothing was shipped since the last sample.  *)
(* More than DETECT_QUIET quiet samples and DETECT_WINDOW of lull stop the *)
(* machine.  The window is two seconds: long enough for a hart that is not *)
(* asleep to get once through its loop (Settled).                          *)
Settled == \A k \in HartIds \ {Detector} : turned[k] = 2 \/ (at[k] = "wfi" /\ ~Wakes(k))
(* MUTANT of QuietSample: the idle flags are not looked at. *)
QuietAwake == g_blocked > g_sleepers /\ ~moved
QuietSample == (\A k \in HartIds : idle[k]) /\ g_blocked > g_sleepers /\ ~moved
(* MUTANT of Detect: last_act is not brought up to date. *)
DetectForgets ==
  /\ At(Detector, "detect")
  /\ IF QuietSample
     THEN /\ turned' = IF stable = 0 THEN [k \in HartIds |-> 0] ELSE turned
          /\ panic' = (stable >= Quiet /\ stable > 0 /\ Settled)
          /\ stable' = IF stable > Quiet THEN stable ELSE stable + 1
     ELSE stable' = 0 /\ UNCHANGED <<turned, panic>>
  /\ UNCHANGED moved
  /\ Goto(Detector, "arm")
  /\ UNCHANGED <<work, lists, inbox, slp, current, ret, pass, tgt, bell, clock, inPark, ops>>
Detect ==
  /\ At(Detector, "detect")
  /\ IF QuietSample
     THEN /\ turned' = IF stable = 0 THEN [k \in HartIds |-> 0] ELSE turned
          /\ panic' = (stable >= Quiet /\ stable > 0 /\ Settled)
          /\ stable' = IF stable > Quiet THEN stable ELSE stable + 1
          /\ UNCHANGED moved
     ELSE stable' = 0 /\ moved' = FALSE /\ UNCHANGED <<turned, panic>>
  /\ Goto(Detector, "arm")
  /\ UNCHANGED <<work, lists, inbox, slp, current, ret, pass, tgt, bell, clock, inPark, ops>>

LoopStep(h) ==
  Scan(h) \/ TmrLook(h) \/ TmrFire(h) \/ SlpDrain(h) \/ Drain(h) \/ Deq(h) \/ Clear(h) \/ Idle(h) \/ Steal(h) \/ Arm(h) \/ Wfi(h)

----------------------------------------------------------------------------
(* The running actor *)
Runs(h) == At(h, "run") /\ current[h] \notin napping
Spend(h, op) ==
  /\ Runs(h) /\ op \in Does[current[h]] /\ ops[current[h]] < Ops
  /\ ops' = [ops EXCEPT ![current[h]] = @ + 1]
(* MUTANT of Leave: h->current keeps the actor that left. *)
LeaveCurrent(h) ==
  /\ UNCHANGED current
  /\ pass' = [pass EXCEPT ![h] = 1]
  /\ Goto(h, "top")
Leave(h) ==
  /\ current' = [current EXCEPT ![h] = None]
  /\ pass' = [pass EXCEPT ![h] = 1]
  /\ Goto(h, "top")

(* send: published; a parked target is woken and shipped -- listed here, or *)
(* pushed on the ring to its hart, whose doorbell is rung after that        *)
Send(h) ==
  /\ Spend(h, "send")
  /\ \E b \in Actors \ {current[h]} :
       /\ st[b] # "dead"
       /\ mail' = [mail EXCEPT ![b] = @ + 1]
       /\ st' = [st EXCEPT ![b] = "ready"]
       /\ moved' = (moved \/ st[b] = "parked")
       /\ IF st[b] # "parked" THEN UNCHANGED <<lists, inbox, at, ret, tgt>>
          ELSE IF hart[b] = h THEN List(h, b, "run") /\ UNCHANGED inbox
          ELSE /\ inbox' = [inbox EXCEPT ![hart[b]] = @ \cup {b}]
               /\ tgt' = [tgt EXCEPT ![h] = hart[b]]
               /\ Goto(h, "ipi")
               /\ UNCHANGED <<lists, ret>>
  /\ UNCHANGED <<hart, napping, due, slp, current, pass, bell, clock, inPark, stable, turned, panic>>
(* MUTANT of Ipi: a hart whose idle flag is down is not rung. *)
IpiIdle(h) ==
  /\ At(h, "ipi")
  /\ msip' = [msip EXCEPT ![tgt[h]] = @ \/ idle[tgt[h]]]
  /\ Goto(h, "run")
  /\ UNCHANGED <<work, lists, inbox, slp, current, ret, pass, tgt, idle, clock, inPark, watch, ops>>
Ipi(h) ==
  /\ At(h, "ipi")
  /\ msip' = [msip EXCEPT ![tgt[h]] = TRUE]
  /\ Goto(h, "run")
  /\ UNCHANGED <<work, lists, inbox, slp, current, ret, pass, tgt, idle, clock, inPark, watch, ops>>

(* block_unless: the park, unless the actor was killed under its feet *)
Block(h) ==
  LET a == current[h] IN
  /\ IF st[a] = "dead" THEN UNCHANGED <<st, inPark>>
     ELSE st' = [st EXCEPT ![a] = "parked"] /\ inPark' = inPark \cup {a}
  /\ Leave(h)
(* receive: a message, or the park *)
Receive(h) ==
  LET a == current[h] IN
  /\ Runs(h) /\ "receive" \in Does[current[h]]
  /\ IF mail[a] > 0
     THEN mail' = [mail EXCEPT ![a] = @ - 1] /\ UNCHANGED <<st, inPark, current, pass, at>>
     ELSE Block(h) /\ UNCHANGED mail
  /\ UNCHANGED <<hart, napping, due, lists, inbox, slp, ret, tgt, bell, clock, watch, ops>>

(* yield and fuel exhaustion *)
Yield(h) ==
  LET a == current[h] IN
  /\ Spend(h, "yield")
  /\ UNCHANGED work
  /\ List(h, a, "switch")
  /\ UNCHANGED <<inbox, slp, current, pass, bell, clock, inPark, watch>>
Switch(h) ==
  /\ At(h, "switch") /\ Leave(h)
  /\ UNCHANGED <<work, lists, inbox, slp, ret, tgt, bell, clock, inPark, watch, ops>>

(* Sys.sleepUs: onto this hart's sleeper list, then parked until the       *)
(* deadline; woken early by a message it parks again                       *)
SleepUs(h) ==
  LET a == current[h] IN
  /\ Spend(h, "sleep")
  /\ due' = due \ {a} /\ napping' = napping \cup {a}
  /\ slp' = [slp EXCEPT ![h][a] = @ + 1]
  /\ UNCHANGED <<st, hart, mail, lists, inbox, current, at, ret, pass, tgt, bell, clock,
                 inPark, watch>>
Nap(h) ==
  LET a == current[h] IN
  /\ At(h, "run") /\ a \in napping
  /\ IF a \in due THEN napping' = napping \ {a} /\ UNCHANGED <<st, inPark, current, pass, at>>
     ELSE Block(h) /\ UNCHANGED napping
  /\ UNCHANGED <<hart, mail, due, lists, inbox, slp, ret, tgt, bell, clock, watch, ops>>

(* MUTANT of TimerArm: the irq hart is not rung. *)
TimerArmQuiet(h) ==
  /\ Spend(h, "timer") /\ current[h] = TimerActor
  /\ timer' = "armed"
  /\ mtimecmp' = [k \in HartIds |-> IF mtimecmp[k] = "timer" THEN "none" ELSE mtimecmp[k]]
  /\ UNCHANGED <<work, lists, inbox, slp, current, at, ret, pass, tgt, bell, inPark, watch>>
(* Sys.timerArm, by the timer service: one deadline, and the irq hart's    *)
(* doorbell so that it arms its comparator for it; whatever the comparator *)
(* was set for is no longer the timer's deadline                           *)
TimerArm(h) ==
  /\ Spend(h, "timer") /\ current[h] = TimerActor
  /\ timer' = "armed"
  /\ mtimecmp' = [k \in HartIds |-> IF mtimecmp[k] = "timer" THEN "none" ELSE mtimecmp[k]]
  /\ IF h = IrqHart THEN UNCHANGED <<at, tgt>>
     ELSE Goto(h, "ipi") /\ tgt' = [tgt EXCEPT ![h] = IrqHart]
  /\ UNCHANGED <<work, lists, inbox, slp, current, ret, pass, bell, inPark, watch>>

(* kill: a status word; the body's return *)
Kill(h) ==
  /\ Spend(h, "kill")
  /\ \E b \in Actors \ {current[h]} : st' = [st EXCEPT ![b] = "dead"]
  /\ UNCHANGED <<hart, mail, napping, due, lists, inbox, slp, current, at, ret, pass, tgt, bell,
                 clock, inPark, watch>>
Exit(h) ==
  /\ Runs(h) /\ "exit" \in Does[current[h]]
  /\ st' = [st EXCEPT ![current[h]] = "dead"]
  /\ Leave(h)
  /\ UNCHANGED <<hart, mail, napping, due, lists, inbox, slp, ret, tgt, bell, clock, inPark, watch, ops>>

ActorStep(h) ==
  Send(h) \/ Ipi(h) \/ Receive(h) \/ Yield(h) \/ Switch(h) \/ SleepUs(h) \/ Nap(h)
    \/ TimerArm(h) \/ Kill(h) \/ Exit(h)

(* a deadline passes *)
Elapse ==
  /\ ~panic
  /\ \/ \E h \in HartIds : \E a \in Sleepers(h) \ due :
          due' = due \cup {a} /\ UNCHANGED timer
     \/ timer = "armed" /\ timer' = "due" /\ UNCHANGED due
  /\ UNCHANGED <<st, hart, mail, napping, lists, inbox, slp, current, at, ret, pass, tgt, bell, mtimecmp,
                 inPark, watch, ops>>

HartStep(h) == LoopStep(h) \/ (h = Detector /\ Detect) \/ ActorStep(h)
Next == Elapse \/ \E h \in HartIds : HartStep(h)

Spec == Init /\ [][Next]_vars

(* Every hart keeps executing -- hart threads on a host, harts on the      *)
(* machine, which the runtime never stops -- and time passes.              *)
FairSpec == Spec /\ WF_vars(Elapse) /\ \A h \in HartIds : WF_vars(HartStep(h))

----------------------------------------------------------------------------
(* Types, and the bounds. *)
TypeOK ==
  /\ st \in [Actors -> {"ready", "parked", "dead"}]
  /\ hart \in [Actors -> HartIds] /\ mail \in [Actors -> Nat]
  /\ napping \subseteq Actors /\ due \subseteq Actors /\ inPark \subseteq Actors
  /\ ready \in [HartIds -> SUBSET Actors] /\ inbox \in [HartIds -> SUBSET Actors]
  /\ ring \subseteq Actors /\ Cardinality(ring) <= SCap
  /\ slp \in [HartIds -> [Actors -> Nat]]
  /\ current \in [HartIds -> Actors \cup {None}]
  /\ \A h \in HartIds : (current[h] = None) = (at[h] \notin {"run", "ipi", "switch"}
                                             /\ ~(at[h] = "scan" /\ ret[h] \in {"run", "switch"}))
  /\ pass \in [HartIds -> {1, 2}] /\ tgt \in [HartIds -> 0 .. NHarts]
  /\ idle \in [HartIds -> BOOLEAN] /\ msip \in [HartIds -> BOOLEAN]
  /\ timer \in {"off", "armed", "due"}
  /\ mtimecmp \in [HartIds -> {"none", "timer", "sleeper"}]
  /\ moved \in BOOLEAN /\ stable \in 0 .. Quiet + 1 /\ turned \in [HartIds -> 0 .. 2]
  /\ panic \in BOOLEAN /\ ops \in [Actors -> 0 .. Ops]

(* No hart sleeps on work shipped to it: a hart in wfi whose wake ring     *)
(* holds an entry has its doorbell up, or the sender is just about to      *)
(* raise it (ship publishes, then rings; hart_loop clears, then looks).    *)
Ringing(h) == \E k \in HartIds : at[k] = "ipi" /\ tgt[k] = h
DoorbellPending ==
  \A h \in HartIds : at[h] = "wfi" /\ inbox[h] # {} => msip[h] \/ Ringing(h)

(* "a donated actor is never left in the ring under a sleeping hart"       *)
(* (hart_loop): while the steal FIFO holds an actor and a hart sleeps,     *)
(* some hart is between its work and the FIFO, the donor about to ring     *)
(* included -- they are not all running actors of their own or asleep.     *)
Asleep(h) == at[h] = "wfi" /\ ~msip[h]
DonatedSeen ==
  ring # {} /\ (\E h \in HartIds : Asleep(h)) => \E k \in HartIds : ~Asleep(k) /\ at[k] # "run"

(* The irq hart sleeps no longer than to the deadline timerArm set: its    *)
(* comparator is set for it, or its doorbell is up or about to be.         *)
TimerHeard ==
  at[IrqHart] = "wfi" /\ timer # "off"
    => IrqHart = Detector \/ mtimecmp[IrqHart] = "timer" \/ msip[IrqHart] \/ Ringing(IrqHart)

(* "a stable window is a real deadlock, not a race": when the detector     *)
(* stops the machine no actor is runnable, on its way to a hart, or going  *)
(* to be woken by a deadline.                                              *)
NoFalseAlarm ==
  panic => /\ \A a \in Actors : st[a] # "ready"
           /\ timer = "off" \/ st[TimerActor] = "dead"
           /\ \A h \in HartIds : \A a \in Sleepers(h) : st[a] = "dead"

(* A sleeper is on one list, once: "parked with a deadline on the hart's   *)
(* own list (only this hart touches it)".  The links are in the actor, so  *)
(* a second entry makes the list a cycle.                                  *)
SleepersOnce ==
  \A a \in Actors :
    /\ \A h, k \in HartIds : a \in Sleepers(h) \cap Sleepers(k) => h = k
    /\ \A h \in HartIds : slp[h][a] <= 1

(* Whoever is woken, by a message or its deadline, gets to run: no order   *)
(* of doorbells, idle flags and second looks loses the wake.               *)
WokenRuns ==
  \A a \in Actors : st[a] = "ready" ~> (st[a] = "dead" \/ \E h \in HartIds : current[h] = a)

(* Sys.sleepUs comes back: the hart of the list wakes up in time for it.   *)
SleepEnds == \A a \in Actors : a \in napping ~> (a \notin napping \/ st[a] = "dead" \/ panic)

(* When everyone left is parked and nothing is on its way, the detector    *)
(* says so.                                                                *)
Deadlocked ==
  /\ \A h \in HartIds : current[h] = None
  /\ \A a \in Actors : st[a] # "ready"
  /\ \E a \in Actors : st[a] = "parked"
  /\ \A h \in HartIds : Sleepers(h) = {}
  /\ timer = "off"
DeadlockFound == Deadlocked ~> panic
=============================================================================

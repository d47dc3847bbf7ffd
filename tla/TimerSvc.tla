----------------------------- MODULE TimerSvc -----------------------------
(* The time service, timer.fpr, over its two backends: the bridge of        *)
(* actors.c (one armed deadline, drained by the irq hart) on bare metal,    *)
(* sleeper children on a host.  The clock runs between any two steps.       *)
EXTENDS Integers, Sequences, FiniteSets

CONSTANTS
  Clients,
  Delays,       \* what they ask for, in milliseconds
  TicksPerMs,   \* 10000
  LowWord,      \* 2^32: the service reads the low word of mtime
  MaxAsks,      \* BOUND: requests of one client
  Horizon       \* BOUND: the clock stops there, and what lies beyond is due there

TimerSizes == /\ Delays \subseteq Nat /\ TicksPerMs \in Nat \ {0} /\ LowWord \in Nat \ {0}
              /\ MaxAsks \in Nat /\ Horizon \in Nat \ {0}

VARIABLES
  nat,      \* Sys.timerBind's answer: the machine has a timer
  now,      \* mtime
  box,      \* the requests in the service's mailbox, by sender
  pokes,    \* the bare Ints in it
  pend,     \* the pending list: <<deadline, who>>, sorted
  spot,     \* the service's place; "arm" stands before the store of timerArm
  delta,    \* its argument
  then,     \* what follows the arm
  armed,    \* tmr_deadline, 0: unarmed
  drain,    \* tmr_drain's place on the irq hart
  kids,     \* how many sleepers wake at each time
  owed,     \* history: when each request of a client is due
  fires     \* the TFires sent to each client
tivars == <<nat, now, box, pokes, pend, spot, delta, then, armed, drain, kids, owed, fires>>
mine == <<pend, spot, delta, then>>

Times == 0..Horizon
Until(t) == IF t > Horizon THEN Horizon ELSE t
Clock == now % LowWord
TimerInit ==
  /\ nat \in BOOLEAN /\ now = 0 /\ box = [c \in Clients |-> <<>>] /\ pokes = 0
  /\ pend = <<>> /\ spot = "loop" /\ delta = 0 /\ then = "loop" /\ armed = 0 /\ drain = "idle"
  /\ kids = [t \in Times |-> 0]
  /\ owed = [c \in Clients |-> <<>>] /\ fires = [c \in Clients |-> 0]

TimePasses == /\ now < Horizon /\ now' = now + 1
              /\ UNCHANGED <<nat, box, pokes, mine, armed, drain, kids, owed, fires>>
(* std.timer.after: one send *)
After(c, ms) ==
  /\ Len(owed[c]) < MaxAsks
  /\ box' = [box EXCEPT ![c] = Append(@, ms)]
  /\ owed' = [owed EXCEPT ![c] = Append(@, Until(now + ms * TicksPerMs))]
  /\ UNCHANGED <<nat, now, pokes, mine, armed, drain, kids, fires>>

----------------------------------------------------------------------------
InOrder(dl, who) ==
  LET k == Cardinality({i \in DOMAIN pend : pend[i][1] <= dl}) IN
  SubSeq(pend, 1, k) \o << <<dl, who>> >> \o SubSeq(pend, k + 1, Len(pend))
Nearest == Head(pend)[1]
(* sleepChild: Sys.sleepUs returns at once for what is not positive *)
Sleeper(ms) == LET t == Until(IF ms > 0 THEN now + ms * TicksPerMs ELSE now)
               IN kids' = [kids EXCEPT ![t] = @ + 1]

DoAfter(c) ==
  LET ms == Head(box[c]) IN
  /\ spot = "loop" /\ box[c] # <<>>
  /\ box' = [box EXCEPT ![c] = Tail(@)]
  /\ pend' = InOrder(Until(Clock + ms * TicksPerMs), c)
  /\ IF nat THEN spot' = "near" /\ UNCHANGED kids ELSE spot' = "fire" /\ Sleeper(ms)
  /\ UNCHANGED <<nat, now, pokes, delta, then, armed, drain, owed, fires>>
Poked ==
  /\ spot = "loop" /\ pokes > 0 /\ pokes' = pokes - 1 /\ spot' = "fire"
  /\ UNCHANGED <<nat, now, box, pend, delta, then, armed, drain, kids, owed, fires>>
ArmNearest ==
  /\ spot = "near" /\ spot' = "arm" /\ delta' = Nearest - Clock /\ then' = "fire"
  /\ UNCHANGED <<nat, now, box, pokes, pend, armed, drain, kids, owed, fires>>
(* a_timer_arm *)
BridgeArm ==
  /\ spot = "arm" /\ spot' = then /\ then' = "loop" /\ delta' = 0
  /\ armed' = Until(now + (IF delta < 1 THEN 1 ELSE delta))
  /\ UNCHANGED <<nat, now, box, pokes, pend, drain, kids, owed, fires>>
(* mutant: what is left is not armed for *)
FireOnly ==
  /\ spot = "fire"
  /\ IF pend # <<>> /\ Clock >= Nearest
     THEN /\ fires' = [fires EXCEPT ![Head(pend)[2]] = @ + 1] /\ pend' = Tail(pend) /\ spot' = spot
     ELSE spot' = "loop" /\ UNCHANGED <<pend, fires>>
  /\ UNCHANGED <<nat, now, box, pokes, delta, then, armed, drain, kids, owed>>
FireDue ==
  /\ spot = "fire"
  /\ IF pend = <<>> THEN spot' = "loop" /\ UNCHANGED <<pend, fires>>
     ELSE IF Clock >= Nearest
     THEN /\ fires' = [fires EXCEPT ![Head(pend)[2]] = @ + 1] /\ pend' = Tail(pend) /\ spot' = spot
     ELSE spot' = "rearm" /\ UNCHANGED <<pend, fires>>
  /\ UNCHANGED <<nat, now, box, pokes, delta, then, armed, drain, kids, owed>>
(* The clock is read again; integer division goes towards zero. *)
Whole(d) == IF d < 0 THEN -((-d) \div TicksPerMs) ELSE d \div TicksPerMs
Rearm ==
  /\ spot = "rearm"
  /\ IF nat THEN spot' = "arm" /\ delta' = Nearest - Clock /\ UNCHANGED kids
     ELSE spot' = "loop" /\ Sleeper(Whole(Nearest - Clock) + 1) /\ UNCHANGED delta
  /\ UNCHANGED <<nat, now, box, pokes, pend, then, armed, drain, owed, fires>>
ServiceStep == Poked \/ ArmNearest \/ BridgeArm \/ FireDue \/ Rearm \/ \E c \in Clients : DoAfter(c)

----------------------------------------------------------------------------
(* tmr_drain: the deadline is read, cleared, and told to the service. *)
DrainDue ==
  /\ drain = "idle" /\ armed # 0 /\ now >= armed /\ drain' = "clear"
  /\ UNCHANGED <<nat, now, box, pokes, mine, armed, kids, owed, fires>>
DrainClear ==
  /\ drain = "clear" /\ armed' = 0 /\ drain' = "send"
  /\ UNCHANGED <<nat, now, box, pokes, mine, kids, owed, fires>>
DrainSend ==
  /\ drain = "send" /\ pokes' = pokes + 1 /\ drain' = "idle"
  /\ UNCHANGED <<nat, now, box, mine, armed, kids, owed, fires>>
DrainStep == DrainDue \/ DrainClear \/ DrainSend
SleeperPokes(t) ==
  /\ kids[t] > 0 /\ now >= t /\ kids' = [kids EXCEPT ![t] = @ - 1] /\ pokes' = pokes + 1
  /\ UNCHANGED <<nat, now, box, mine, armed, drain, owed, fires>>

SleeperStep == \E t \in Times : SleeperPokes(t)

TimerNext == \/ TimePasses \/ ServiceStep \/ DrainStep
             \/ \E c \in Clients, ms \in Delays : After(c, ms)
             \/ SleeperStep
TimerSpec == TimerInit /\ [][TimerNext]_tivars
(* The clock runs, the irq hart goes round (HartSleep), the sleepers and the *)
(* service get their turns.                                                  *)
TimerFair == /\ WF_tivars(TimePasses) /\ WF_tivars(ServiceStep) /\ WF_tivars(DrainStep)
             /\ WF_tivars(SleeperStep)

----------------------------------------------------------------------------
(* Nobody is told early (timer.fpr: "When the deadline passes"). *)
NeverEarly == \A c \in Clients : fires[c] <= Cardinality({i \in DOMAIN owed[c] : owed[c][i] <= now})

(* While somebody waits, the service runs, or will be poked: a message is in *)
(* its mailbox, the bridge is armed or about to tell it, or a child sleeps.  *)
(* tmr_drain's clear may take a deadline armed after it looked, and then     *)
(* tells the service all the same.                                           *)
SomethingComes ==
  pend # <<>> => \/ spot # "loop" \/ pokes > 0 \/ armed # 0 \/ drain # "idle"
                 \/ \E t \in Times : kids[t] > 0

(* A timer somebody waits for will be heard of, and not before its time: the *)
(* list, the deadline armed for it, the drain under way.                     *)
TimersKept == NeverEarly /\ SomethingComes

(* Every request is answered (timer.fpr: "Timer.qa sends TFire"). *)
AllTold == \A c \in Clients : \A n \in 1..MaxAsks : Len(owed[c]) >= n ~> fires[c] >= n
============================================================================

------------------------------ MODULE SchedMC ------------------------------
(* Instances of Sched, and of what works with it: the scheduler on placements *)
(* a cfg chooses; the same with donation, the lists (Sched) and the sleep of  *)
(* the hart that should take the donated actor up (HartSleep); and what a     *)
(* send from two harts does before it wakes anybody, the shared ring of       *)
(* Mailbox.  A behaviour is about one of them, chosen in world.               *)
EXTENDS Sched, TLC

CONSTANTS main, a1, a2, a3, a4, a5, h1, h2, h3
CONSTANT Worlds   \* of "plain", "donate", "doorbell", "shared"

(* main and a2 on h1, a1 on h2: wakes cross harts both ways. *)
TwoHarts == [a \in Actors |-> IF a \in {a1, a3} THEN h2 ELSE h1]
AllReady == [h \in Harts |-> IF h = h1 THEN <<main, a2>> ELSE IF h = h2 THEN <<a1>> ELSE <<>>]
(* a2 on h1 and a1 on h2 are ready, main is parked. *)
MainParked == [h \in Harts |-> IF h = h1 THEN <<a2>> ELSE <<a1>>]
OneHartHome == [a \in Actors |-> h1]
(* main and a1 are ready on h1; a2 and a3 are spawned, h2 has to steal. *)
MainAndOne == [h \in Harts |-> IF h = h1 THEN <<main, a1>> ELSE <<>>]
(* main wakes a1 and a2, parked on h2; a5 wakes a3 and a4, parked on h1. *)
CrossHarts == [a \in Actors |-> IF a \in {a1, a2, a5} THEN h2 ELSE h1]
MainAndFive == [h \in Harts |-> IF h = h1 THEN <<main>> ELSE <<a5>>]
StaleShip == [a \in Actors |-> IF a = a1 THEN 2 ELSE IF a = a2 THEN 1 ELSE 0]
TwoOps == [a \in Actors |-> 2]
OneOp == [a \in Actors |-> 1]

VARIABLES
  world,   \* what this behaviour is about
  d_var, d_hart, d_inbl, d_inrq, d_bl, d_rq, d_xr, d_ring, d_current, d_hpc, d_pc, d_to, d_dst,
  d_mail, d_reaped, d_blocked, d_ops,
  st, s_hart, s_mail, napping, due, ready, inbox, s_ring, slp, s_current, at, ret, pass, tgt,
  idle, msip, timer, mtimecmp, inPark, moved, stable, turned, panic, s_ops,
  key, rh, rt, rv, m_ring, lock, status, dead, on, snd, nth, rcv, scan, pub, got

donateVars == <<d_var, d_hart, d_inbl, d_inrq, d_bl, d_rq, d_xr, d_ring, d_current, d_hpc,
                d_pc, d_to, d_dst, d_mail, d_reaped, d_blocked, d_ops>>
sleepVars == <<st, s_hart, s_mail, napping, due, ready, inbox, s_ring, slp, s_current, at, ret,
               pass, tgt, idle, msip, timer, mtimecmp, inPark, moved, stable, turned, panic,
               s_ops>>
ringVars == <<key, rh, rt, rv, m_ring, lock, status, dead, on, snd, nth, rcv, scan, pub, got>>

(* main and a1 are ready on h1; a2 and a3 are spawned, h2 has to steal. *)
Spawners == {main, a1, a2, a3}
SpawnersHome == [a \in Spawners |-> h1]
SpawnersListed == h1 :> <<main, a1>> @@ h2 :> <<>>
SpawnersOps == [a \in Spawners |-> 2]
Workers == {a1, a2}
WorkersDo == [a \in Workers |-> {"send", "receive", "yield", "kill"}]
WorkersPlaced == [a \in Workers |-> 0]
(* a2 has the dedicated slot of a4's mailbox; main, on a4's hart, and a1 and *)
(* a3, on the other, share the overflow ring.                                *)
Producers == {main, a1, a2, a3}
ProducersApart == [a \in Producers \cup {a4} |-> IF a \in {a4, main} THEN h2 ELSE h1]
SlotTaken == [i \in {0} |-> a2]

D == INSTANCE Sched WITH Actors <- Spawners, Harts <- {h1, h2}, Home <- SpawnersHome,
                         Pin <- {main}, Listed <- SpawnersListed, Parked <- {}, RQCap <- 1,
                         DonateHi <- 1, SCap <- 1, XCap <- 3, Ops <- SpawnersOps,
                         Does <- {"spawn", "yield", "exit"}, Main <- main, var <- d_var,
                         hart <- d_hart, inbl <- d_inbl, inrq <- d_inrq, bl <- d_bl,
                         rq <- d_rq, xr <- d_xr, ring <- d_ring, current <- d_current,
                         hpc <- d_hpc, pc <- d_pc, to <- d_to, dst <- d_dst, mail <- d_mail,
                         reaped <- d_reaped, blocked <- d_blocked, ops <- d_ops
S == INSTANCE HartSleep WITH NHarts <- 2, Actors <- Workers, TimerActor <- None, Pin <- {a1},
                             Placed <- WorkersPlaced, Ready0 <- Workers, DonateHi <- 1,
                             SCap <- 1, Quiet <- 1, Ops <- 1,
                             Does <- WorkersDo, hart <- s_hart,
                             mail <- s_mail, ring <- s_ring, current <- s_current, ops <- s_ops
M == INSTANCE Mailbox WITH Senders <- Producers, Recv <- a4, NoKey <- None,
                           SharedKey <- "shared", Idle <- "idle", Harts <- {h1, h2},
                           HartOf <- ProducersApart, SHIDX <- 1, Bound <- SlotTaken,
                           Cap0 <- 1, RingMax <- 2, Dyn <- TRUE, CW <- 4, Start <- 3,
                           Sends <- 1, Results <- {}, Kinds <- {"any"}, Mortal <- {},
                           ring <- m_ring

AllInit ==
  /\ world \in Worlds
  /\ Init /\ D!Init /\ S!Init /\ M!Init
AllNext ==
  /\ UNCHANGED world
  /\ \/ world = "plain" /\ Next /\ UNCHANGED <<donateVars, sleepVars, ringVars>>
     \/ world = "donate" /\ D!Next /\ UNCHANGED <<vars, sleepVars, ringVars>>
     \/ world = "doorbell" /\ S!Next /\ UNCHANGED <<vars, donateVars, ringVars>>
     \/ world = "shared" /\ M!Next /\ UNCHANGED <<vars, donateVars, sleepVars>>
allvars == <<world, vars, donateVars, sleepVars, ringVars>>
AllSpec == AllInit /\ [][AllNext]_allvars

(* Donating and stealing (donate, steal) neither duplicate nor lose an      *)
(* actor, run it twice or move a pinned one; no donated actor is left under *)
(* harts that all sleep or run something else (the idle flag is set before  *)
(* the last look at the steal FIFO); and the detector stops no machine in   *)
(* which somebody can still run.                                            *)
DonatedRuns ==
  /\ world = "donate" => D!OneHart /\ D!ListsKeep /\ D!PinnedStay
  /\ world = "doorbell" => S!TypeOK /\ S!DoorbellPending /\ S!DonatedSeen /\ S!NoFalseAlarm
(* Three producers on two harts push into one ring, which grows under them:  *)
(* shlock leaves one of them at a time between the room check and the        *)
(* publication (ring_push), and what was answered Ok is queued once.         *)
SharedRing == world = "shared" => M!OneWriter /\ M!OkMeansQueuedOnce

============================================================================

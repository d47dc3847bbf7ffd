---------------------------- MODULE LiveMC ----------------------------
(* What must happen in the end: a request to the memory actor is answered,   *)
(* a qosp run comes back to the shell, a sleep ends, a timer fires.  And the *)
(* table that counts who shares an object, as the map it is.  A behaviour is *)
(* about one of them, chosen in world.                                       *)
EXTENDS MemActor, QosBoot, HartSleep, TimerSvc, ArcTable, TLC

CONSTANTS c1, c2, b1, hk, m1, m2, m3

VARIABLE world   \* the component this behaviour is about

meall == <<mfree, held, reply, mq, mscan, msrv, mst, mpc>>
qoall == <<stage, qa, granted, prot, caps, thr, wakes, pushTo, pushed, finished>>
haall == <<st, hart, mail, napping, due, ready, inbox, ring, slp, current, at, ret, pass, tgt,
           idle, msip, timer, mtimecmp, inPark, moved, stable, turned, panic, ops>>

(* Three archives that run and every way for each of them to fall short. *)
Plain == [magic |-> TRUE, sha |-> "none", id |-> "app", mode |-> "process", abi |-> "", built |-> "12",
          perms |-> <<>>, xend |-> 4, rw |-> 8, memsz |-> 10]
Asking == [Plain EXCEPT !.sha = "good", !.abi = "12", !.mode = "", !.xend = 3, !.rw = 4,
             !.perms = <<[url |-> "a", required |-> TRUE], [url |-> "b", required |-> FALSE]>>]
Uneven == [Plain EXCEPT !.sha = "good", !.xend = 5]
ArchivesNamed == UNION {
  {q, [q EXCEPT !.magic = FALSE], [q EXCEPT !.sha = "bad"], [q EXCEPT !.id = ""], [q EXCEPT !.mode = "dispatch"],
   [q EXCEPT !.abi = "11"], [q EXCEPT !.built = "11"], [q EXCEPT !.memsz = 0], [q EXCEPT !.rw = q.xend]}
  : q \in {Plain, Asking, Uneven}}
(* c1 on hart 0, c2 on the last hart *)
Apart == [a \in Actors |-> IF a = c1 THEN 0 ELSE IrqHart]
HashOf == m1 :> 0 @@ m2 :> 4 @@ m3 :> 1    \* m1 and m2 collide in every table, m3 is in the way
SleepersSend == [a \in Actors |-> {"sleep", "send", "exit"}]

Worlds == {"blocks", "boot", "sleepers", "timers", "table"}
AllInit == /\ world \in Worlds /\ MInit
                               /\ BInit /\ (world # "boot" => qa = CHOOSE q \in ArchivesNamed : TRUE)
                               /\ Init
                               /\ TimerInit /\ (world # "timers" => nat)
                               /\ TableInit
AllNext ==
  /\ UNCHANGED world
  /\ \/ world = "blocks" /\ MNext /\ UNCHANGED <<qoall, haall, tivars, tvars>>
     \/ world = "boot" /\ BootNext /\ UNCHANGED <<meall, haall, tivars, tvars>>
     \/ world = "sleepers" /\ Next /\ UNCHANGED <<meall, qoall, tivars, tvars>>
     \/ world = "timers" /\ TimerNext /\ UNCHANGED <<meall, qoall, haall, tvars>>
     \/ world = "table" /\ TableNext /\ UNCHANGED <<meall, qoall, haall, tivars>>
allvars == <<world, meall, qoall, haall, tivars, tvars>>
AllSpec == AllInit /\ [][AllNext]_allvars

(* The fairness of each component: every actor and every hart get their turns, *)
(* a thread of qosp runs, time passes.  At rest, as in the other worlds, nothing *)
(* of MFair and BootFair is enabled.                                             *)
AllFair == /\ MFair /\ BootFair
           /\ WF_tivars(world = "timers" /\ TimePasses)
           /\ WF_tivars(world = "timers" /\ ServiceStep)
           /\ WF_tivars(world = "timers" /\ DrainStep)
           /\ WF_tivars(world = "timers" /\ SleeperStep)
           /\ WF_vars(world = "sleepers" /\ Elapse)
           /\ \A h \in HartIds : WF_vars(world = "sleepers" /\ HartStep(h))
AllFairSpec == AllSpec /\ AllFair

(* Whoever waits for the clock is told in the end: a sleeper (actors.c,     *)
(* slp_drain), a client of the time service (timer.fpr).                    *)
WaitsEnd == SleepEnds /\ AllTold

ASSUME Sizes == TimerSizes /\ TableSizes
======================================================================

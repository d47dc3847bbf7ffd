----------------------------- MODULE ChanBlocks -----------------------------
(***************************************************************************)
(* The life of an actor's memory in hal/core/actors.c: the acb carved from *)
(* the bump arena, the channel block it is given, the reap that parks the  *)
(* block in limbo under the stamp of every hart's epoch, and its next      *)
(* owner.  Against it runs fpr_send_as, which checks the status word of an *)
(* acb (immortal) and only then touches its channels (not immortal).       *)
(* A task is an actor that spawns, kills or sends; a step inside a task is *)
(* one access another hart can race with.  A stamp is kept as the number   *)
(* of loop passes each hart has made since, up to the two that matter.     *)
(***************************************************************************)
EXTENDS Integers, Sequences, FiniteSets, SequencesExt

CONSTANTS
  LHarts, Tasks,
  TaskHart,    \* [Tasks -> LHarts]
  Acbs, ChBlocks, NoAcb, NoBlk, Nobody,
  PerRefill,   \* acbs carved from one big block (16 in the code)
  PerCarve,    \* channel blocks in one carve (4 in the code)
  ParkInSend   \* fpr_msg_copy may wait for the memory actor

ASSUME ChanAssumption ==
  /\ LHarts # {} /\ TaskHart \in [Tasks -> LHarts]
  /\ IsFiniteSet(Acbs) /\ IsFiniteSet(ChBlocks) /\ Tasks \cap Acbs = {}
  /\ Nobody \notin Tasks \cup Acbs /\ NoAcb \notin Acbs /\ NoBlk \notin ChBlocks
  /\ PerRefill \in Nat \ {0} /\ PerCarve \in Nat \ {0} /\ ParkInSend \in BOOLEAN

VARIABLES
  run,      \* fpr_hart_t.current: a task, an actor, or Nobody (the loop)
  tk,       \* each task's registers
  status,   \* acb.var: none (not carved), new, READY, DEAD
  chOf,     \* acb.ch
  homeOf,   \* acb.hart
  stk,      \* acb.stack is set
  arena,    \* acb_hp .. acb_end
  unused,   \* acbs in memory no refill has asked for yet
  limbo,    \* chb_limbo, newest first: [b, passes]
  extras,   \* chb_fl
  raw       \* channel blocks in memory no carve has asked for yet
cbvars == <<run, tk, status, chOf, homeOf, stk, arena, unused, limbo, extras,
            raw>>

FirstOf(S) == CHOOSE x \in S : TRUE
AnyOf(S, n) == CHOOSE g \in SUBSET S : Cardinality(g) = n
Off == [pc |-> "off", acb |-> NoAcb, blk |-> NoBlk, grp |-> {}]
CInit ==
  /\ run = [h \in LHarts |-> Nobody] /\ tk = [t \in Tasks |-> Off]
  /\ status = [a \in Acbs |-> "none"] /\ chOf = [a \in Acbs |-> NoBlk]
  /\ homeOf = [a \in Acbs |-> FirstOf(LHarts)] /\ stk = [a \in Acbs |-> FALSE]
  /\ arena = {} /\ unused = Acbs /\ limbo = <<>> /\ extras = {}
  /\ raw = ChBlocks

----------------------------------------------------------------------------
(* hart_loop: every pass bumps the epoch, with or without work. *)
Older(h) == [k \in DOMAIN limbo |->
  [limbo[k] EXCEPT !.passes[h] = IF @ = 2 THEN 2 ELSE @ + 1]]
Pass(h) ==
  /\ run[h] = Nobody /\ limbo' = Older(h) /\ Older(h) # limbo
  /\ UNCHANGED <<run, tk, status, chOf, homeOf, stk, arena, unused, extras,
                 raw>>
Runs(h, who) == run[h] = Nobody /\ run' = [run EXCEPT ![h] = who]
                /\ limbo' = Older(h)
Yield(h) == run' = [run EXCEPT ![h] = Nobody]
On(t, pc) == run[TaskHart[t]] = t /\ tk[t].pc = pc
Step(t, r) == tk' = [tk EXCEPT ![t] = r]

(* A task is resumed wherever it left its hart. *)
Resumed(t) ==
  /\ Runs(TaskHart[t], t)
  /\ Step(t, IF tk[t].pc = "off" THEN [tk[t] EXCEPT !.pc = "idle"] ELSE tk[t])
  /\ UNCHANGED <<status, chOf, homeOf, stk, arena, unused, extras, raw>>
(* It gives the hart up between operations, or waiting for memory. *)
Parks(t) ==
  /\ \E pc \in {"idle", "refill", "chan", "got"} \cup
               (IF ParkInSend THEN {"copy"} ELSE {}) : On(t, pc)
  /\ Yield(TaskHart[t])
  /\ UNCHANGED <<tk, status, chOf, homeOf, stk, arena, unused, limbo, extras,
                 raw>>

----------------------------------------------------------------------------
(* spawn_on_pid_cap: acb_block, stack_block, chb_take, ship *)
SpawnCarves(t) ==
  /\ On(t, "idle") \/ (On(t, "got") /\ tk[t].grp = {})
  /\ IF arena # {}
     THEN LET a == FirstOf(arena) IN
          /\ arena' = arena \ {a} /\ status' = [status EXCEPT ![a] = "new"]
          /\ stk' = [stk EXCEPT ![a] = TRUE]
          /\ homeOf' = [homeOf EXCEPT ![a] = TaskHart[t]]
          /\ Step(t, [Off EXCEPT !.pc = "chan", !.acb = a])
     ELSE /\ unused # {} /\ Step(t, [Off EXCEPT !.pc = "refill"])
          /\ UNCHANGED <<arena, status, stk, homeOf>>
  /\ UNCHANGED <<run, chOf, unused, limbo, extras, raw>>
Refills(t) ==
  /\ On(t, "refill") /\ Cardinality(unused) >= PerRefill
  /\ LET g == AnyOf(unused, PerRefill) IN
     unused' = unused \ g /\ Step(t, [Off EXCEPT !.pc = "got", !.grp = g])
  /\ UNCHANGED <<run, status, chOf, homeOf, stk, arena, limbo, extras, raw>>
(* Under the lock again: still empty, install ours; else give ours back. *)
InstallOver(t) ==   \* mutant: no second look
  /\ On(t, "got") /\ tk[t].grp # {}
  /\ arena' = tk[t].grp /\ Step(t, [tk[t] EXCEPT !.grp = {}])
  /\ UNCHANGED <<run, status, chOf, homeOf, stk, unused, limbo, extras, raw>>
Installs(t) ==
  /\ On(t, "got") /\ tk[t].grp # {}
  /\ IF arena = {} THEN arena' = tk[t].grp /\ UNCHANGED unused
     ELSE unused' = unused \cup tk[t].grp /\ UNCHANGED arena
  /\ Step(t, [tk[t] EXCEPT !.grp = {}])
  /\ UNCHANGED <<run, status, chOf, homeOf, stk, limbo, extras, raw>>

(* chb_take: the first matured block of limbo, the free list, a new carve. *)
MaturedHere(e) == \E h \in LHarts : e.passes[h] = 2   \* mutant: one hart's say
Matured(e) == \A h \in LHarts : e.passes[h] = 2
Ripe == {k \in DOMAIN limbo : Matured(limbo[k])}
NextRipe == CHOOSE k \in Ripe : \A j \in Ripe : k <= j
Ships(t, b) ==
  LET a == tk[t].acb IN
  /\ chOf' = [chOf EXCEPT ![a] = b]
  /\ status' = [status EXCEPT ![a] = "READY"] /\ Step(t, [Off EXCEPT !.pc = "idle"])
TakesBlock(t) ==
  /\ On(t, "chan")
  /\ \/ /\ Ripe # {} /\ Ships(t, limbo[NextRipe].b)
        /\ limbo' = RemoveAt(limbo, NextRipe)
        /\ UNCHANGED <<extras, raw>>
     \/ /\ Ripe = {} /\ extras # {} /\ Ships(t, FirstOf(extras))
        /\ extras' = extras \ {FirstOf(extras)} /\ UNCHANGED <<limbo, raw>>
     \/ /\ Ripe = {} /\ extras = {}
        /\ Cardinality(raw) >= PerCarve
        /\ LET g == AnyOf(raw, PerCarve) IN
           /\ raw' = raw \ g /\ extras' = g \ {FirstOf(g)}
           /\ Ships(t, FirstOf(g))
        /\ UNCHANGED limbo
  /\ UNCHANGED <<run, homeOf, stk, arena, unused>>

----------------------------------------------------------------------------
(* Death: the trampoline's or kill's store, then the loop's reap, once. *)
ActorRuns(a) ==
  /\ status[a] = "READY" /\ Runs(homeOf[a], a)
  /\ UNCHANGED <<tk, status, chOf, homeOf, stk, arena, unused, extras, raw>>
ActorStops(a) ==
  /\ run[homeOf[a]] = a /\ status[a] = "READY"
  /\ \/ status' = [status EXCEPT ![a] = "DEAD"] /\ UNCHANGED run
     \/ Yield(homeOf[a]) /\ UNCHANGED status
  /\ UNCHANGED <<tk, chOf, homeOf, stk, arena, unused, limbo, extras, raw>>
TaskKills(t, a) ==
  /\ On(t, "idle") /\ status[a] = "READY"
  /\ status' = [status EXCEPT ![a] = "DEAD"]
  /\ UNCHANGED <<run, tk, chOf, homeOf, stk, arena, unused, limbo, extras,
                 raw>>
ReapOf(a) ==
  LET h == homeOf[a] IN
  /\ status[a] = "DEAD" /\ stk[a] /\ run[h] \in {Nobody, a}
  /\ stk' = [stk EXCEPT ![a] = FALSE] /\ chOf' = [chOf EXCEPT ![a] = NoBlk]
  /\ limbo' = <<[b |-> chOf[a], passes |-> [g \in LHarts |-> 0]]>> \o limbo
  /\ Yield(h)
  /\ UNCHANGED <<tk, status, homeOf, arena, unused, extras, raw>>

----------------------------------------------------------------------------
(* fpr_send_as: the status word, the channels, the copy, the push. *)
SendChecks(t, a) ==
  /\ On(t, "idle") /\ status[a] = "READY"
  /\ Step(t, [Off EXCEPT !.pc = "look", !.acb = a])
  /\ UNCHANGED <<run, status, chOf, homeOf, stk, arena, unused, limbo, extras,
                 raw>>
SendClaims(t) ==
  /\ On(t, "look")
  /\ Step(t, [tk[t] EXCEPT !.pc = "copy", !.blk = chOf[tk[t].acb]])
  /\ UNCHANGED <<run, status, chOf, homeOf, stk, arena, unused, limbo, extras,
                 raw>>
SendPushes(t) ==
  /\ On(t, "copy") /\ Step(t, [Off EXCEPT !.pc = "idle"])
  /\ UNCHANGED <<run, status, chOf, homeOf, stk, arena, unused, limbo, extras,
                 raw>>

TaskStep(t) ==
  \/ Resumed(t) \/ Parks(t) \/ SpawnCarves(t) \/ Refills(t) \/ Installs(t)
  \/ TakesBlock(t) \/ SendClaims(t) \/ SendPushes(t)
  \/ \E a \in Acbs : TaskKills(t, a) \/ SendChecks(t, a)
CNext ==
  \/ \E t \in Tasks : TaskStep(t)
  \/ \E h \in LHarts : Pass(h)
  \/ \E a \in Acbs : ActorRuns(a) \/ ActorStops(a) \/ ReapOf(a)
CSpec == CInit /\ [][CNext]_cbvars

----------------------------------------------------------------------------
Writing(t) == run[TaskHart[t]] = t /\ tk[t].pc = "copy"

(* A send that is about to write into a channel block writes into its      *)
(* target's, or into one that nobody owns yet: the epochs keep a reaped    *)
(* block from the next actor for as long as a send that saw the old owner  *)
(* alive can still be under way.                                           *)
NeverAnothers == \A t \in Tasks : Writing(t) =>
  \A a \in Acbs : chOf[a] # NoBlk /\ chOf[a] = tk[t].blk => a = tk[t].acb

(* No acb and no channel block is lost or handed out twice, whichever      *)
(* spawn's refill arrives first and wherever a spawn parks.                *)
NoBlockLost ==
  /\ \A a \in Acbs :
       LET ins == {t \in Tasks : a \in tk[t].grp} IN
       Cardinality(ins) + (IF a \in arena THEN 1 ELSE 0)
         + (IF a \in unused THEN 1 ELSE 0)
         + (IF status[a] # "none" THEN 1 ELSE 0) = 1
  /\ \A b \in ChBlocks :
       Cardinality({a \in Acbs : chOf[a] = b})
         + Cardinality({k \in DOMAIN limbo : limbo[k].b = b})
         + (IF b \in extras THEN 1 ELSE 0) + (IF b \in raw THEN 1 ELSE 0) = 1

(* A sender never writes into the channel block of another actor, and no   *)
(* block is lost to the free chain.                                        *)
BlocksOfChannels == NeverAnothers /\ NoBlockLost

(* "a racing access reads well-formed channel memory": the block a send    *)
(* found is a block.                                                       *)
ReadsABlock == \A t \in Tasks : Writing(t) => tk[t].blk # NoBlk
=============================================================================

-------------------------- MODULE HartSleepProofs --------------------------
(***************************************************************************)
(* Theorems about HartSleep for any number of harts and actors, wherever   *)
(* they are placed and whatever they do: types; no hart sleeps over its    *)
(* wake ring; the irq hart hears the timer's deadline; with two harts no   *)
(* donated actor is left under a sleeping one.  Then about the time        *)
(* service on top of it: nobody is told early, and nobody is forgotten.    *)
(***************************************************************************)
EXTENDS HartSleep, TimerSvc, FiniteSetTheorems, SequenceTheorems, TLAPS

(* The names of the places, and the parts of the type invariant.  A timer  *)
(* that is set was set by an actor.                                        *)
Places == {"top", "fire", "slp", "drain", "deq", "clear", "idle", "steal", "detect", "arm",
           "wfi", "scan", "ipi", "run", "switch"}
Serving(h) == at[h] \in {"run", "ipi", "switch"} \/ (at[h] = "scan" /\ ret[h] \in {"run", "switch"})

WorkTypes ==
  /\ st \in [Actors -> {"ready", "parked", "dead"}]
  /\ hart \in [Actors -> HartIds] /\ mail \in [Actors -> Nat]
  /\ napping \subseteq Actors /\ due \subseteq Actors /\ inPark \subseteq Actors
ListTypes ==
  /\ ready \in [HartIds -> SUBSET Actors] /\ inbox \in [HartIds -> SUBSET Actors]
  /\ ring \subseteq Actors /\ slp \in [HartIds -> [Actors -> Nat]]
LoopTypes ==
  /\ at \in [HartIds -> Places] /\ ret \in [HartIds -> {"top", "drain", "run", "switch"}]
  /\ pass \in [HartIds -> {1, 2}] /\ tgt \in [HartIds -> 0 .. NHarts]
  /\ idle \in [HartIds -> BOOLEAN] /\ msip \in [HartIds -> BOOLEAN]
  /\ current \in [HartIds -> Actors \cup {None}]
  /\ \A h \in HartIds : (current[h] = None) = ~Serving(h)
ClockTypes ==
  /\ timer \in {"off", "armed", "due"}
  /\ mtimecmp \in [HartIds -> {"none", "timer", "sleeper"}]
  /\ moved \in BOOLEAN /\ stable \in 0 .. Quiet + 1 /\ turned \in [HartIds -> 0 .. 2]
  /\ panic \in BOOLEAN /\ ops \in [Actors -> 0 .. Ops]
Fits == Cardinality(ring) <= SCap
TimerBound ==
  /\ timer # "off" => TimerActor \in Actors
  /\ \A h \in HartIds : at[h] = "fire" => TimerActor \in Actors
TypeInv == WorkTypes /\ ListTypes /\ LoopTypes /\ ClockTypes /\ Fits /\ TimerBound

(* The parts together are the type invariant of HartSleep. *)
LEMMA TypeInvImplies == TypeInv => TypeOK
BY DEF TypeInv, WorkTypes, ListTypes, LoopTypes, ClockTypes, Fits, TypeOK, Serving

(* The initial state has them. *)
LEMMA InitTypes == Init => TypeInv
<1> SUFFICES ASSUME Init PROVE TypeInv
  OBVIOUS
<1>1. WorkTypes
  BY HartSleepAssumption DEF Init, WorkTypes
<1>2. ListTypes
  BY HartSleepAssumption DEF Init, ListTypes
<1>3. LoopTypes
  BY HartSleepAssumption DEF Init, LoopTypes, Serving, Places, HartIds
<1>4. ClockTypes
  <2>1. timer \in {"off", "armed", "due"}
    BY HartSleepAssumption DEF Init
  <2>2. mtimecmp \in [HartIds -> {"none", "timer", "sleeper"}]
    BY HartSleepAssumption DEF Init
  <2>3. stable \in 0 .. Quiet + 1
    BY HartSleepAssumption DEF Init
  <2>4. turned \in [HartIds -> 0 .. 2]
    BY HartSleepAssumption DEF Init
  <2>5. ops \in [Actors -> 0 .. Ops]
    BY HartSleepAssumption DEF Init
  <2>6. panic \in BOOLEAN /\ moved \in BOOLEAN
    BY HartSleepAssumption DEF Init
  <2> QED BY <2>1, <2>2, <2>3, <2>4, <2>5, <2>6 DEF ClockTypes
<1>5. Fits
  BY FS_EmptySet, HartSleepAssumption DEF Init, Fits
<1>6. TimerBound
  BY DEF Init, TimerBound
<1> QED
  BY <1>1, <1>2, <1>3, <1>4, <1>5, <1>6 DEF TypeInv

(* Who runs is an actor. *)
LEMMA RunsActor ==
  ASSUME TypeInv, NEW h \in HartIds, Serving(h)
  PROVE  current[h] \in Actors
BY DEF TypeInv, LoopTypes

(* Status words, homes and mail, by action. *)
LEMMA WorkStep ==
  ASSUME TypeInv, NEW h \in HartIds, HartStep(h)
  PROVE  WorkTypes'
<1> USE DEF TypeInv, WorkTypes
<1>1. CASE TmrFire(h)
  <2>1. mail' \in [Actors -> Nat]
    BY <1>1 DEF TmrFire
  <2>2. st' \in [Actors -> {"ready", "parked", "dead"}]
    BY <1>1 DEF TmrFire, WakeAll
  <2>3. UNCHANGED <<hart, napping, due, inPark>>
    BY <1>1 DEF TmrFire
  <2> QED BY <2>1, <2>2, <2>3
<1>2. CASE SlpDrain(h)
  BY <1>2 DEF SlpDrain, WakeAll
<1>3. CASE Deq(h)
  BY <1>3 DEF Deq, work
<1>4. CASE Steal(h)
  BY <1>4 DEF Steal
<1>5. CASE Send(h)
  BY <1>5 DEF Send, Spend, Runs
<1>6. CASE Receive(h) \/ Nap(h)
  <2>1. current[h] \in Actors
    BY <1>6, RunsActor DEF Receive, Nap, Runs, At, Serving
  <2>2. CASE Receive(h)
    BY <2>1, <2>2 DEF Receive, Block
  <2>3. CASE Nap(h)
    BY <2>1, <2>3 DEF Nap, Block
  <2> QED BY <1>6, <2>2, <2>3
<1>7. CASE SleepUs(h)
  BY <1>7, RunsActor DEF SleepUs, Spend, Runs, At, Serving
<1>8. CASE Kill(h)
  BY <1>8 DEF Kill
<1>9. CASE Exit(h)
  BY <1>9, RunsActor DEF Exit, Runs, At, Serving
<1>10. CASE Scan(h) \/ TmrLook(h) \/ Drain(h) \/ Clear(h) \/ Idle(h) \/ Arm(h) \/ Wfi(h) \/ Detect
             \/ Ipi(h) \/ Yield(h) \/ Switch(h) \/ TimerArm(h)
  BY <1>10 DEF Scan, TmrLook, Drain, Clear, Idle, Arm, Wfi, Detect, Ipi, Yield, Switch, TimerArm, work
<1> QED
  BY <1>1, <1>2, <1>3, <1>4, <1>5, <1>6, <1>7, <1>8, <1>9, <1>10 DEF HartStep, LoopStep, ActorStep

(* The FIFO is finite, and takes one more. *)
LEMMA RingSize ==
  ASSUME ListTypes, NEW d
  PROVE  /\ Cardinality(ring) \in Nat
         /\ Cardinality(ring \cup {d}) \in Nat /\ Cardinality(ring \cup {d}) <= Cardinality(ring) + 1
         /\ Cardinality(ring \ {d}) \in Nat /\ Cardinality(ring \ {d}) <= Cardinality(ring)
<1>1. IsFiniteSet(ring)
  BY FS_Subset, HartSleepAssumption DEF ListTypes
<1>2. IsFiniteSet(ring \cup {d}) /\ IsFiniteSet(ring \ {d})
  BY <1>1, FS_AddElement, FS_RemoveElement
<1>3. Cardinality(ring) \in Nat /\ Cardinality(ring \cup {d}) \in Nat /\ Cardinality(ring \ {d}) \in Nat
  BY <1>1, <1>2, FS_CardinalityType
<1>4. Cardinality(ring \cup {d}) = IF d \in ring THEN Cardinality(ring) ELSE Cardinality(ring) + 1
  BY <1>1, FS_AddElement
<1>5. Cardinality(ring \ {d}) = IF d \in ring THEN Cardinality(ring) - 1 ELSE Cardinality(ring)
  BY <1>1, FS_RemoveElement
<1> QED BY <1>3, <1>4, <1>5

(* What List does: one entry more, or one moved on to the FIFO; and where  *)
(* the hart goes.                                                          *)
LEMMA ListEffect ==
  ASSUME ListTypes, LoopTypes, Fits, NEW h \in HartIds, NEW a \in Actors,
         NEW l \in {"drain", "run", "switch"}, List(h, a, l)
  PROVE  /\ ready' \in [HartIds -> SUBSET Actors] /\ ring' \subseteq Actors /\ Fits'
         /\ ret' \in [HartIds -> {"top", "drain", "run", "switch"}] /\ tgt' \in [HartIds -> 0 .. NHarts]
         /\ \/ at' = [at EXCEPT ![h] = l] /\ UNCHANGED <<ret, tgt, ring>>
            \/ /\ at' = [at EXCEPT ![h] = "scan"] /\ ret' = [ret EXCEPT ![h] = l]
               /\ tgt' = [tgt EXCEPT ![h] = 0]
         /\ \A k \in HartIds : k # h => ready'[k] = ready[k]
         /\ ready'[h] \subseteq ready[h] \cup {a}
         /\ ring' \subseteq ring \cup ((ready[h] \cup {a}) \ Pin)
         /\ ring' # ring => at'[h] = "scan" /\ tgt'[h] = 0
<1> DEFINE q == ready[h] \cup {a}
           D == {d \in q : d \notin Pin /\ d # current[h] /\ st'[d] = "ready"}
<1>1. q \subseteq Actors
  BY DEF ListTypes
<1>2. CASE /\ ready' = [ready EXCEPT ![h] = q]
           /\ Goto(h, l)
           /\ UNCHANGED <<ring, ret, tgt>>
  <2> HIDE DEF q
  <2>1. ready' \in [HartIds -> SUBSET Actors] /\ \A k \in HartIds : ready'[k] = IF k = h THEN q ELSE ready[k]
    BY <1>1, <1>2 DEF ListTypes
  <2> QED BY <1>2, <2>1 DEF ListTypes, LoopTypes, Fits, Goto, q
<1>3. CASE /\ a \notin ready[h] /\ Cardinality(q) > DonateHi /\ Cardinality(ring) < SCap
           /\ \E d \in D : ready' = [ready EXCEPT ![h] = q \ {d}] /\ ring' = ring \cup {d}
           /\ Goto(h, "scan")
           /\ ret' = [ret EXCEPT ![h] = l] /\ tgt' = [tgt EXCEPT ![h] = 0]
  <2>1. PICK d \in D : ready' = [ready EXCEPT ![h] = q \ {d}] /\ ring' = ring \cup {d}
    BY <1>3
  <2>2. d \in q
    OBVIOUS
  <2>7. d \notin Pin
    OBVIOUS
  <2>3. Fits'
    <3>1. ring' = ring \cup {d} /\ Cardinality(ring) < SCap
      BY <1>3, <2>1
    <3>2. Cardinality(ring) \in Nat /\ Cardinality(ring \cup {d}) \in Nat
          /\ Cardinality(ring \cup {d}) <= Cardinality(ring) + 1
      BY RingSize
    <3> QED BY <3>1, <3>2, HartSleepAssumption DEF Fits
  <2> HIDE DEF q, D
  <2>4. ready' \in [HartIds -> SUBSET Actors] /\ ring' \subseteq Actors
    BY <1>1, <2>1, <2>2 DEF ListTypes
  <2>5. \A k \in HartIds : k # h => ready'[k] = ready[k]
    BY <2>1 DEF ListTypes
  <2>6. ring' \subseteq ring \cup (q \ Pin) /\ ready'[h] \subseteq q
    BY <2>1, <2>2, <2>7 DEF ListTypes
  <2> QED
    BY <1>3, <2>3, <2>4, <2>5, <2>6, HartSleepAssumption DEF LoopTypes, Goto, q
<1> QED
  BY <1>2, <1>3 DEF List

(* The lists, by action. *)
LEMMA ListStep ==
  ASSUME TypeInv, NEW h \in HartIds, HartStep(h)
  PROVE  ListTypes' /\ Fits'
<1> USE DEF TypeInv
<1>1. CASE TmrFire(h)
  <2>1. inbox' \in [HartIds -> SUBSET Actors]
    <3> DEFINE up == {a \in {TimerActor} : st[a] = "parked"}
    <3>1. inbox' = [k \in HartIds |-> inbox[k] \cup {a \in up : hart[a] = k}]
      BY <1>1 DEF TmrFire, WakeAll
    <3>2. \A k \in HartIds : inbox[k] \subseteq Actors
      BY DEF ListTypes
    <3>3. up \subseteq Actors
      BY <1>1 DEF TmrFire, At, TimerBound
    <3> HIDE DEF up
    <3> QED BY <3>1, <3>2, <3>3
  <2>2. UNCHANGED <<lists, slp>>
    BY <1>1 DEF TmrFire
  <2> QED BY <2>1, <2>2 DEF lists, ListTypes, Fits
<1>2. CASE SlpDrain(h)
  <2>1. slp' \in [HartIds -> [Actors -> Nat]]
    BY <1>2 DEF SlpDrain, ListTypes
  <2> QED BY <1>2, <2>1 DEF SlpDrain, WakeAll, lists, ListTypes, Fits, Sleepers
<1>3. CASE Drain(h)
  <2>1. CASE inbox[h] = {}
    BY <1>3, <2>1 DEF Drain, lists, ListTypes, Fits
  <2>2. CASE inbox[h] # {}
    <3>1. PICK a \in inbox[h] : inbox' = [inbox EXCEPT ![h] = @ \ {a}] /\ List(h, a, "drain")
      BY <1>3, <2>2 DEF Drain
    <3>2. a \in Actors
      BY DEF ListTypes
    <3> QED BY <1>3, <3>1, <3>2, ListEffect DEF Drain, ListTypes
  <2> QED BY <2>1, <2>2
<1>4. CASE Deq(h)
  <2>1. ready' \in [HartIds -> SUBSET Actors]
    BY <1>4 DEF Deq, ListTypes
  <2> QED BY <1>4, <2>1 DEF Deq, ListTypes, Fits
<1>5. CASE Steal(h)
  <2>1. CASE ring = {}
    BY <1>5, <2>1 DEF Steal, lists, ListTypes, Fits
  <2>2. CASE ring # {}
    <3>1. PICK a \in ring : ring' = ring \ {a} /\ ready' = [ready EXCEPT ![h] = @ \cup {a}]
      BY <1>5, <2>2 DEF Steal
    <3>4. Fits'
      <4>1. Cardinality(ring) \in Nat /\ Cardinality(ring \ {a}) \in Nat
            /\ Cardinality(ring \ {a}) <= Cardinality(ring)
        BY RingSize
      <4> QED BY <3>1, <4>1, HartSleepAssumption DEF Fits
    <3> QED BY <1>5, <3>1, <3>4 DEF Steal, ListTypes
  <2> QED BY <2>1, <2>2
<1>6. CASE Send(h)
  <2>1. PICK b \in Actors \ {current[h]} :
          IF st[b] # "parked" THEN UNCHANGED <<lists, inbox, at, ret, tgt>>
          ELSE IF hart[b] = h THEN List(h, b, "run") /\ UNCHANGED inbox
          ELSE /\ inbox' = [inbox EXCEPT ![hart[b]] = @ \cup {b}]
               /\ tgt' = [tgt EXCEPT ![h] = hart[b]]
               /\ Goto(h, "ipi")
               /\ UNCHANGED <<lists, ret>>
    BY <1>6 DEF Send
  <2>2. UNCHANGED slp
    BY <1>6 DEF Send
  <2>3. CASE st[b] = "parked" /\ hart[b] = h
    BY <2>1, <2>2, <2>3, ListEffect DEF ListTypes
  <2>4. CASE ~(st[b] = "parked" /\ hart[b] = h)
    BY <2>1, <2>2, <2>4 DEF lists, ListTypes, Fits
  <2> QED BY <2>3, <2>4
<1>7. CASE Yield(h)
  <2>1. current[h] \in Actors
    BY <1>7, RunsActor DEF Yield, Spend, Runs, At, Serving
  <2> QED BY <1>7, <2>1, ListEffect DEF Yield, ListTypes
<1>8. CASE SleepUs(h)
  <2>1. current[h] \in Actors
    BY <1>8, RunsActor DEF SleepUs, Spend, Runs, At, Serving
  <2> QED BY <1>8, <2>1 DEF SleepUs, lists, ListTypes, Fits
<1>9. CASE Scan(h) \/ TmrLook(h) \/ Clear(h) \/ Idle(h) \/ Arm(h) \/ Wfi(h) \/ Detect
             \/ Ipi(h) \/ Receive(h) \/ Switch(h) \/ Nap(h) \/ TimerArm(h) \/ Kill(h) \/ Exit(h)
  BY <1>9 DEF Scan, TmrLook, Clear, Idle, Arm, Wfi, Detect, Ipi, Receive, Switch, Nap, TimerArm, Kill,
     Exit, lists, ListTypes, Fits
<1> QED
  BY <1>1, <1>2, <1>3, <1>4, <1>5, <1>6, <1>7, <1>8, <1>9 DEF HartStep, LoopStep, ActorStep

(* A hart that goes on from a place where it serves nobody to another, or  *)
(* from one where it serves to another, keeps whom it serves.              *)
LEMMA GoesOn ==
  ASSUME LoopTypes, NEW h \in HartIds, NEW l \in Places \ {"scan"}, at' = [at EXCEPT ![h] = l],
         Serving(h) <=> l \in {"run", "ipi", "switch"}, UNCHANGED <<ret, current>>
  PROVE  at' \in [HartIds -> Places] /\ \A k \in HartIds : (current'[k] = None) = ~Serving(k)'
BY DEF LoopTypes, Serving

(* Where each hart is and whom it serves, by action. *)
LEMMA LoopTypesStep ==
  ASSUME TypeInv, NEW h \in HartIds, HartStep(h)
  PROVE  LoopTypes'
<1> USE DEF TypeInv
<1> DEFINE Serves == \A k \in HartIds : (current'[k] = None) = ~Serving(k)'
<1>1. CASE Scan(h)
  <2>1. tgt' \in [HartIds -> 0 .. NHarts] /\ msip' \in [HartIds -> BOOLEAN]
    <3>1. tgt[h] \in 0 .. NHarts /\ (tgt[h] # NHarts => tgt[h] + 1 \in 0 .. NHarts)
      BY HartSleepAssumption DEF LoopTypes
    <3>2. UNCHANGED tgt \/ (tgt[h] # NHarts /\ tgt' = [tgt EXCEPT ![h] = tgt[h] + 1])
      BY <1>1 DEF Scan
    <3>3. UNCHANGED msip \/ \E i \in 0 .. NHarts : msip' = [msip EXCEPT ![i] = TRUE]
      BY <1>1, <3>1 DEF Scan
    <3>4. tgt' \in [HartIds -> 0 .. NHarts]
      BY <3>1, <3>2 DEF LoopTypes
    <3>5. msip' \in [HartIds -> BOOLEAN]
      BY <3>3 DEF LoopTypes
    <3> QED BY <3>4, <3>5
  <2>2. at' \in [HartIds -> Places] /\ Serves
    <3>1. CASE UNCHANGED at
      BY <1>1, <3>1 DEF Scan, LoopTypes, Serving
    <3>2. CASE Goto(h, ret[h])
      BY <1>1, <3>2, GoesOn DEF Scan, LoopTypes, Serving, Places, At, Goto
    <3> QED BY <1>1, <3>1, <3>2 DEF Scan
  <2> QED BY <1>1, <2>1, <2>2 DEF Scan, LoopTypes
<1>2. CASE TmrLook(h)
  BY <1>2, GoesOn DEF TmrLook, Goto, At, LoopTypes, Places, Serving, bell
<1>3. CASE TmrFire(h)
  <2>1. msip' \in [HartIds -> BOOLEAN]
    BY <1>3 DEF TmrFire, WakeAll, LoopTypes
  <2>2. at' \in [HartIds -> Places] /\ Serves
    BY <1>3, GoesOn DEF TmrFire, Goto, At, Places, Serving
  <2> QED BY <1>3, <2>1, <2>2 DEF TmrFire, LoopTypes
<1>4. CASE SlpDrain(h)
  <2>1. msip' \in [HartIds -> BOOLEAN]
    BY <1>4 DEF SlpDrain, WakeAll, LoopTypes
  <2>2. at' \in [HartIds -> Places] /\ Serves
    BY <1>4, GoesOn DEF SlpDrain, Goto, At, Places, Serving
  <2> QED BY <1>4, <2>1, <2>2 DEF SlpDrain, LoopTypes
<1>5. CASE Drain(h)
  <2>1. CASE inbox[h] = {}
    BY <1>5, <2>1, GoesOn DEF Drain, Goto, At, LoopTypes, Places, Serving, bell
  <2>2. CASE inbox[h] # {}
    <3>1. PICK a \in inbox[h] : List(h, a, "drain")
      BY <1>5, <2>2 DEF Drain
    <3>2. a \in Actors
      BY DEF ListTypes
    <3>3. UNCHANGED <<current, pass, idle, msip>> /\ at[h] = "drain"
      BY <1>5 DEF Drain, bell, At
    <3> QED BY <3>1, <3>2, <3>3, ListEffect DEF LoopTypes, Places, Serving
  <2> QED BY <2>1, <2>2
<1>6. CASE Deq(h)
  <2>1. idle' \in [HartIds -> BOOLEAN] /\ current' \in [HartIds -> Actors \cup {None}]
    <3>1. CASE UNCHANGED <<current, idle>>
      BY <3>1 DEF LoopTypes
    <3>2. CASE /\ \E n \in Actors : current' = [current EXCEPT ![h] = n]
               /\ idle' = [idle EXCEPT ![h] = FALSE]
      BY <3>2 DEF LoopTypes
    <3> QED BY <1>6, <3>1, <3>2 DEF Deq, ListTypes
  <2>2. at' \in [HartIds -> Places] /\ Serves
    <3>1. CASE \E n \in Actors : current' = [current EXCEPT ![h] = n] /\ Goto(h, "run")
      BY <1>6, <3>1, HartSleepAssumption DEF Deq, Goto, At, LoopTypes, Places, Serving
    <3>2. CASE UNCHANGED current /\ \E l \in {"clear", "idle"} : Goto(h, l)
      BY <1>6, <3>2, GoesOn DEF Deq, Goto, At, Places, Serving
    <3> QED BY <1>6, <3>1, <3>2 DEF Deq, ListTypes
  <2> QED BY <1>6, <2>1, <2>2 DEF Deq, LoopTypes
<1>7. CASE Clear(h) \/ Idle(h) \/ Arm(h) \/ Wfi(h) \/ Detect
  <2>1. CASE Clear(h)
    BY <2>1, GoesOn DEF Clear, Goto, At, LoopTypes, Places, Serving
  <2>2. CASE Idle(h)
    BY <2>2, GoesOn DEF Idle, Goto, At, LoopTypes, Places, Serving
  <2>3. CASE Arm(h)
    BY <2>3, GoesOn DEF Arm, Goto, At, LoopTypes, Places, Serving, bell
  <2>4. CASE Wfi(h)
    BY <2>4, GoesOn DEF Wfi, Goto, At, LoopTypes, Places, Serving, bell
  <2>5. CASE Detect
    <3>1. Detector \in HartIds
      BY HartSleepAssumption DEF Detector, HartIds
    <3> QED BY <2>5, <3>1, GoesOn DEF Detect, Goto, At, LoopTypes, Places, Serving, bell
  <2> QED BY <1>7, <2>1, <2>2, <2>3, <2>4, <2>5
<1>8. CASE Steal(h)
  <2>1. CASE ring = {}
    BY <1>8, <2>1, GoesOn DEF Steal, Goto, At, LoopTypes, Places, Serving
  <2>2. CASE ring # {}
    <3>1. /\ idle' = [idle EXCEPT ![h] = FALSE] /\ pass' = [pass EXCEPT ![h] = 1]
          /\ Goto(h, "top") /\ UNCHANGED <<ret, tgt, current, msip>> /\ at[h] = "steal"
      BY <1>8, <2>2 DEF Steal, At
    <3> QED BY <3>1, GoesOn DEF Goto, LoopTypes, Places, Serving
  <2> QED BY <2>1, <2>2
<1>9. CASE Send(h)
  <2>1. PICK b \in Actors \ {current[h]} :
          IF st[b] # "parked" THEN UNCHANGED <<lists, inbox, at, ret, tgt>>
          ELSE IF hart[b] = h THEN List(h, b, "run") /\ UNCHANGED inbox
          ELSE /\ inbox' = [inbox EXCEPT ![hart[b]] = @ \cup {b}]
               /\ tgt' = [tgt EXCEPT ![h] = hart[b]]
               /\ Goto(h, "ipi")
               /\ UNCHANGED <<lists, ret>>
    BY <1>9 DEF Send
  <2>2. UNCHANGED <<current, pass, idle, msip>> /\ at[h] = "run"
    BY <1>9 DEF Send, bell, Spend, Runs, At
  <2>3. CASE st[b] # "parked"
    BY <2>1, <2>2, <2>3 DEF LoopTypes, Serving
  <2>4. CASE st[b] = "parked" /\ hart[b] = h
    BY <2>1, <2>2, <2>4, ListEffect DEF LoopTypes, Places, Serving
  <2>5. CASE st[b] = "parked" /\ hart[b] # h
    <3>1. at' \in [HartIds -> Places] /\ Serves
      BY <2>1, <2>2, <2>5, GoesOn DEF Goto, Places, Serving
    <3>2. tgt' \in [HartIds -> 0 .. NHarts]
      <4>1. HartIds \subseteq 0 .. NHarts
        BY HartSleepAssumption DEF HartIds
      <4>2. hart[b] \in HartIds
        BY DEF WorkTypes
      <4> QED BY <2>1, <2>5, <4>1, <4>2 DEF LoopTypes
    <3> QED BY <2>1, <2>2, <2>5, <3>1, <3>2 DEF LoopTypes
  <2> QED BY <2>3, <2>4, <2>5
<1>10. CASE Ipi(h)
  BY <1>10, GoesOn DEF Ipi, Goto, At, LoopTypes, Places, Serving
<1>11. CASE Yield(h)
  <2>1. current[h] \in Actors
    BY <1>11, RunsActor DEF Yield, Spend, Runs, At, Serving
  <2>2. UNCHANGED <<current, pass, idle, msip>> /\ at[h] = "run"
    BY <1>11 DEF Yield, bell, Spend, Runs, At
  <2> QED BY <1>11, <2>1, <2>2, ListEffect DEF Yield, LoopTypes, Places, Serving
<1>12. CASE Leave(h) /\ UNCHANGED <<ret, tgt, bell>>
  BY <1>12 DEF Leave, Goto, LoopTypes, Places, Serving, bell
<1>13. CASE UNCHANGED <<current, pass, at, ret, tgt, bell>>
  BY <1>13 DEF LoopTypes, Serving, bell
<1>14. CASE TimerArm(h)
  <2>1. CASE h = IrqHart
    BY <1>14, <2>1, <1>13 DEF TimerArm
  <2>2. CASE h # IrqHart
    <3>1. IrqHart \in 0 .. NHarts
      BY HartSleepAssumption DEF IrqHart
    <3> QED BY <1>14, <2>2, <3>1, GoesOn DEF TimerArm, Spend, Runs, At, Goto, LoopTypes, Places, Serving, bell
  <2> QED BY <2>1, <2>2
<1>15. CASE Receive(h) \/ Switch(h) \/ SleepUs(h) \/ Nap(h) \/ Kill(h) \/ Exit(h)
  <2>1. (Leave(h) \/ UNCHANGED <<current, pass, at>>) /\ UNCHANGED <<ret, tgt, bell>>
    BY <1>15 DEF Receive, Switch, SleepUs, Nap, Kill, Exit, Block
  <2> QED BY <2>1, <1>12, <1>13
<1> QED
  BY <1>1, <1>2, <1>3, <1>4, <1>5, <1>6, <1>7, <1>8, <1>9, <1>10, <1>11, <1>14, <1>15
  DEF HartStep, LoopStep, ActorStep

(* The timer, the comparators and the detector, by action. *)
LEMMA ClockStep ==
  ASSUME TypeInv, NEW h \in HartIds, HartStep(h)
  PROVE  ClockTypes' /\ TimerBound'
<1> USE DEF TypeInv
<1>1. CASE TmrFire(h)
  <2>1. mtimecmp' \in [HartIds -> {"none", "timer", "sleeper"}] /\ timer' = "off" /\ moved' \in BOOLEAN
    BY <1>1 DEF TmrFire, WakeAll, ParkTimer, ClockTypes
  <2>2. \A k \in HartIds : at'[k] # "fire" \/ at[k] = "fire"
    BY <1>1 DEF TmrFire, Goto, LoopTypes
  <2> QED BY <1>1, <2>1, <2>2 DEF TmrFire, ClockTypes, TimerBound
<1>2. CASE SlpDrain(h)
  <2>1. mtimecmp' \in [HartIds -> {"none", "timer", "sleeper"}] /\ moved' \in BOOLEAN
    BY <1>2 DEF SlpDrain, WakeAll, ParkTimer, ClockTypes
  <2>2. turned' \in [HartIds -> 0 .. 2]
    BY <1>2 DEF SlpDrain, ClockTypes
  <2>3. \A k \in HartIds : at'[k] # "fire" \/ at[k] = "fire"
    BY <1>2 DEF SlpDrain, Goto, LoopTypes
  <2> QED BY <1>2, <2>1, <2>2, <2>3 DEF SlpDrain, ClockTypes, TimerBound
<1>3. CASE Deq(h)
  <2>1. stable' \in 0 .. Quiet + 1
    BY <1>3, HartSleepAssumption DEF Deq, ClockTypes
  <2>2. turned' \in [HartIds -> 0 .. 2]
    BY <1>3 DEF Deq, ClockTypes
  <2>3. \A k \in HartIds : at'[k] # "fire" \/ at[k] = "fire"
    BY <1>3 DEF Deq, Goto, LoopTypes
  <2> QED BY <1>3, <2>1, <2>2, <2>3 DEF Deq, clock, ClockTypes, TimerBound
<1>4. CASE Detect
  <2>1. stable' \in 0 .. Quiet + 1
    BY <1>4, HartSleepAssumption DEF Detect, ClockTypes
  <2>2. turned' \in [HartIds -> 0 .. 2]
    BY <1>4 DEF Detect, ClockTypes
  <2>3. panic' \in BOOLEAN /\ moved' \in BOOLEAN /\ UNCHANGED <<timer, mtimecmp, ops>>
    <3>1. (stable >= Quiet /\ stable > 0 /\ Settled) \in BOOLEAN
      OBVIOUS
    <3> QED BY <1>4, <3>1 DEF Detect, ClockTypes, clock
  <2>4. \A k \in HartIds : at'[k] # "fire" \/ at[k] = "fire"
    BY <1>4 DEF Detect, Goto, LoopTypes
  <2> QED BY <2>1, <2>2, <2>3, <2>4 DEF ClockTypes, TimerBound
<1>5. CASE TmrLook(h)
  BY <1>5 DEF TmrLook, Fires, Goto, LoopTypes, clock, watch, ClockTypes, TimerBound
<1>6. CASE TimerArm(h)
  <2>1. current[h] \in Actors /\ ops' \in [Actors -> 0 .. Ops]
    <3>1. current[h] \in Actors
      BY <1>6, RunsActor DEF TimerArm, Spend, Runs, At, Serving
    <3> QED BY <1>6, <3>1, HartSleepAssumption DEF TimerArm, Spend, ClockTypes
  <2>2. timer' = "armed" /\ mtimecmp' \in [HartIds -> {"none", "timer", "sleeper"}] /\ UNCHANGED watch
    BY <1>6 DEF TimerArm, ClockTypes
  <2>3. TimerActor \in Actors
    BY <1>6, <2>1 DEF TimerArm
  <2> QED BY <2>1, <2>2, <2>3 DEF ClockTypes, TimerBound, watch
<1>7. CASE Arm(h)
  <2>1. mtimecmp' \in [HartIds -> {"none", "timer", "sleeper"}]
    BY <1>7 DEF Arm, ClockTypes
  <2> QED BY <1>7, <2>1 DEF Arm, Goto, LoopTypes, watch, ClockTypes, TimerBound
<1>8. CASE Send(h) \/ Yield(h) \/ SleepUs(h) \/ Kill(h)
  <2>1. Spend(h, "send") \/ Spend(h, "yield") \/ Spend(h, "sleep") \/ Spend(h, "kill")
    BY <1>8 DEF Send, Yield, SleepUs, Kill
  <2>2. ops' \in [Actors -> 0 .. Ops]
    <3>1. current[h] \in Actors
      BY <2>1, RunsActor DEF Spend, Runs, At, Serving
    <3> QED BY <2>1, <3>1, HartSleepAssumption DEF Spend, ClockTypes
  <2>3. UNCHANGED <<clock, stable, turned, panic>> /\ moved' \in BOOLEAN
    BY <1>8 DEF Send, Yield, SleepUs, Kill, watch, ClockTypes
  <2>4. \A k \in HartIds : at'[k] # "fire" \/ at[k] = "fire"
    <3>1. CASE UNCHANGED at
      BY <3>1
    <3>2. CASE \E l \in {"run", "switch", "ipi", "scan"} : Goto(h, l)
      BY <3>2 DEF Goto, LoopTypes
    <3> QED BY <1>8, <3>1, <3>2 DEF Send, Yield, SleepUs, Kill, List
  <2> QED BY <2>2, <2>3, <2>4 DEF clock, ClockTypes, TimerBound
<1>9. CASE Scan(h) \/ Drain(h) \/ Clear(h) \/ Idle(h) \/ Steal(h) \/ Wfi(h) \/ Ipi(h) \/ Receive(h)
            \/ Switch(h) \/ Nap(h) \/ Exit(h)
  <2>1. UNCHANGED <<clock, watch, ops>>
    BY <1>9 DEF Scan, Drain, Clear, Idle, Steal, Wfi, Ipi, Receive, Switch, Nap, Exit
  <2>2. \A k \in HartIds : at'[k] # "fire" \/ at[k] = "fire"
    <3>1. CASE UNCHANGED at
      BY <3>1
    <3>2. CASE \E l \in Places \ {"fire"} : Goto(h, l)
      BY <3>2 DEF Goto, LoopTypes
    <3>3. ret[h] \in Places \ {"fire"}
      BY DEF LoopTypes, Places
    <3> QED
      BY <1>9, <3>1, <3>2, <3>3
      DEF Scan, Drain, Clear, Idle, Steal, Wfi, Ipi, Receive, Switch, Nap, Exit, List, Block, Leave, Places
  <2> QED BY <2>1, <2>2 DEF clock, watch, ClockTypes, TimerBound
<1> QED
  BY <1>1, <1>2, <1>3, <1>4, <1>5, <1>6, <1>7, <1>8, <1>9 DEF HartStep, LoopStep, ActorStep

(* Time passing touches no type. *)
LEMMA ElapseTypes ==
  ASSUME TypeInv, Elapse
  PROVE  TypeInv'
BY DEF Elapse, TypeInv, WorkTypes, ListTypes, LoopTypes, ClockTypes, Fits, TimerBound, Serving,
  lists, bell, watch, Sleepers

(* Every step keeps the types. *)
LEMMA TypeStep == TypeInv /\ [Next]_vars => TypeInv'
<1> SUFFICES ASSUME TypeInv, [Next]_vars PROVE TypeInv'
  OBVIOUS
<1>1. CASE UNCHANGED vars
  BY <1>1 DEF vars, work, lists, clock, watch, bell, TypeInv, WorkTypes, ListTypes, LoopTypes,
     ClockTypes, Fits, TimerBound, Serving
<1>2. CASE Elapse
  BY <1>2, ElapseTypes
<1>3. CASE \E h \in HartIds : HartStep(h)
  BY <1>3, WorkStep, ListStep, LoopTypesStep, ClockStep DEF TypeInv
<1> QED BY <1>1, <1>2, <1>3 DEF Next

(* The state of the sleep and wake protocol always has its types: who a    *)
(* hart serves is an actor exactly where it serves one, and the steal FIFO *)
(* never holds more than SCAP.                                             *)
THEOREM SleepTypeCorrect == Spec => []TypeOK
<1>1. TypeInv => TypeOK
  BY TypeInvImplies
<1> QED BY InitTypes, TypeStep, <1>1, PTL DEF Spec

----------------------------------------------------------------------------
(* What a step of one hart leaves alone of the others. *)
LEMMA HartFrame ==
  ASSUME TypeInv, NEW h \in HartIds, HartStep(h), NEW k \in HartIds, k # h
  PROVE  /\ at'[k] = at[k] /\ tgt'[k] = tgt[k] /\ idle'[k] = idle[k]
         /\ msip[k] => msip'[k]
<1> USE DEF TypeInv, LoopTypes
<1>1. CASE TmrFire(h) \/ SlpDrain(h)
  BY <1>1 DEF TmrFire, SlpDrain, WakeAll, Goto
<1>2. CASE Drain(h)
  BY <1>2 DEF Drain, List, Goto, bell
<1>3. CASE Send(h)
  BY <1>3 DEF Send, List, Goto, bell
<1>4. CASE Yield(h)
  BY <1>4 DEF Yield, List, Goto, bell
<1>5. CASE Scan(h) \/ Ipi(h)
  BY <1>5 DEF Scan, Ipi, Goto
<1>6. CASE h = Detector /\ Detect
  BY <1>6 DEF Detect, Goto, bell
<1>7. CASE Deq(h) \/ Steal(h)
  BY <1>7 DEF Deq, Steal, Goto
<1>8. CASE TmrLook(h) \/ Clear(h) \/ Idle(h) \/ Arm(h) \/ Wfi(h) \/ TimerArm(h)
  BY <1>8 DEF TmrLook, Clear, Idle, Arm, Wfi, TimerArm, Goto, bell
<1>9. CASE Receive(h) \/ Switch(h) \/ SleepUs(h) \/ Nap(h) \/ Kill(h) \/ Exit(h)
  BY <1>9 DEF Receive, Switch, SleepUs, Nap, Kill, Exit, Block, Leave, Goto, bell
<1> QED
  BY <1>1, <1>2, <1>3, <1>4, <1>5, <1>6, <1>7, <1>8, <1>9 DEF HartStep, LoopStep, ActorStep

(* Who puts something in a wake ring: hart h in its own before it drains,  *)
(* or in another's whose doorbell it rings, at once or at the next step.   *)
LEMMA Inboxes ==
  ASSUME TypeInv, NEW h \in HartIds, HartStep(h), NEW k \in HartIds
  PROVE  \/ inbox'[k] \subseteq inbox[k]
         \/ k = h /\ at'[h] \in {"slp", "drain"}
         \/ k # h /\ (msip'[k] \/ (at'[h] = "ipi" /\ tgt'[h] = k))
<1> USE DEF TypeInv, ListTypes, LoopTypes
<1>1. CASE TmrFire(h)
  BY <1>1 DEF TmrFire, WakeAll, Goto
<1>2. CASE SlpDrain(h)
  BY <1>2 DEF SlpDrain, WakeAll, Goto
<1>3. CASE Drain(h)
  BY <1>3 DEF Drain
<1>4. CASE Send(h)
  <2>1. PICK b \in Actors \ {current[h]} :
          IF st[b] # "parked" THEN UNCHANGED <<lists, inbox, at, ret, tgt>>
          ELSE IF hart[b] = h THEN List(h, b, "run") /\ UNCHANGED inbox
          ELSE /\ inbox' = [inbox EXCEPT ![hart[b]] = @ \cup {b}]
               /\ tgt' = [tgt EXCEPT ![h] = hart[b]]
               /\ Goto(h, "ipi")
               /\ UNCHANGED <<lists, ret>>
    BY <1>4 DEF Send
  <2>2. CASE st[b] = "parked" /\ hart[b] # h
    BY <2>1, <2>2 DEF Goto
  <2> QED BY <2>1, <2>2
<1>5. CASE UNCHANGED inbox
  BY <1>5
<1>6. CASE Scan(h) \/ TmrLook(h) \/ Deq(h) \/ Clear(h) \/ Idle(h) \/ Steal(h) \/ Arm(h) \/ Wfi(h) \/ Detect
             \/ Ipi(h) \/ Receive(h) \/ Yield(h) \/ Switch(h) \/ SleepUs(h) \/ Nap(h) \/ TimerArm(h)
             \/ Kill(h) \/ Exit(h)
  BY <1>5, <1>6 DEF Scan, TmrLook, Deq, Clear, Idle, Steal, Arm, Wfi, Detect, Ipi, Receive, Yield, Switch,
     SleepUs, Nap, TimerArm, Kill, Exit
<1> QED
  BY <1>1, <1>2, <1>3, <1>4, <1>6 DEF HartStep, LoopStep, ActorStep

(* The places past the drain of the wake ring. *)
Deep == {"deq", "idle", "steal", "detect", "arm", "wfi"}

(* Where a hart comes to a place past the drain of its wake ring, and what *)
(* it may have done to its doorbell and to another's.                      *)
LEMMA ToDeep ==
  ASSUME TypeInv, NEW h \in HartIds, HartStep(h)
  PROVE  /\ at'[h] \in Deep => at[h] \in Deep \/ (at[h] = "drain" /\ inbox[h] = {} /\ inbox' = inbox)
         /\ at'[h] \in Deep => (msip[h] => msip'[h])
         /\ at[h] = "ipi" => at'[h] = "run" /\ msip' = [msip EXCEPT ![tgt[h]] = TRUE]
<1> USE DEF TypeInv, LoopTypes
<1>1. CASE TmrFire(h) \/ SlpDrain(h)
  BY <1>1 DEF TmrFire, SlpDrain, Goto, Deep, At
<1>2. CASE Drain(h)
  BY <1>2 DEF Drain, List, Goto, bell, Deep, At
<1>3. CASE Send(h)
  BY <1>3 DEF Send, Spend, Runs, List, Goto, bell, Deep, At
<1>4. CASE Yield(h)
  BY <1>4 DEF Yield, Spend, Runs, List, Goto, bell, Deep, At
<1>5. CASE Scan(h) \/ Ipi(h)
  BY <1>5 DEF Scan, Ipi, Goto, Deep, At
<1>6. CASE h = Detector /\ Detect
  BY <1>6 DEF Detect, Goto, bell, Deep, At
<1>7. CASE Deq(h) \/ Steal(h)
  BY <1>7 DEF Deq, Steal, Goto, Deep, At
<1>8. CASE TmrLook(h) \/ Clear(h) \/ Idle(h) \/ Arm(h) \/ Wfi(h) \/ TimerArm(h)
  BY <1>8 DEF TmrLook, Clear, Idle, Arm, Wfi, TimerArm, Spend, Runs, Goto, bell, Deep, At
<1>9. CASE Receive(h) \/ Switch(h) \/ SleepUs(h) \/ Nap(h) \/ Kill(h) \/ Exit(h)
  BY <1>9 DEF Receive, Switch, SleepUs, Nap, Kill, Exit, Spend, Runs, Block, Leave, Goto, bell, Deep, At
<1> QED
  BY <1>1, <1>2, <1>3, <1>4, <1>5, <1>6, <1>7, <1>8, <1>9 DEF HartStep, LoopStep, ActorStep

(* The doorbell's inductive invariant: past the drain, whatever the wake   *)
(* ring holds has been announced or is about to be.                        *)
Announced == \A k \in HartIds : at[k] \in Deep /\ inbox[k] # {} => msip[k] \/ Ringing(k)
DoorInv == TypeInv /\ Announced

(* Whoever had rung, or was about to, has rung now. *)
LEMMA AnnouncedStep ==
  ASSUME DoorInv, NEW h \in HartIds, HartStep(h)
  PROVE  Announced'
<1> SUFFICES ASSUME NEW k \in HartIds, at'[k] \in Deep, inbox'[k] # {}
             PROVE  msip'[k] \/ Ringing(k)'
  BY DEF Announced
<1> USE DEF DoorInv
<1>1. CASE at[k] \in Deep /\ inbox[k] # {}
  <2>1. CASE msip[k]
    BY <2>1, HartFrame, ToDeep
  <2>2. CASE Ringing(k)
    <3>1. PICK j \in HartIds : at[j] = "ipi" /\ tgt[j] = k
      BY <2>2 DEF Ringing
    <3>2. CASE j = h
      BY <3>1, <3>2, ToDeep DEF TypeInv, LoopTypes
    <3>3. CASE j # h
      BY <3>1, <3>3, HartFrame DEF Ringing
    <3> QED BY <3>2, <3>3
  <2> QED BY <1>1, <2>1, <2>2 DEF Announced
<1>2. CASE inbox[k] = {}
  <2>1. ~(inbox'[k] \subseteq inbox[k])
    BY <1>2
  <2>2. k # h /\ (msip'[k] \/ (at'[h] = "ipi" /\ tgt'[h] = k))
    BY <2>1, Inboxes DEF Deep
  <2> QED BY <2>2 DEF Ringing
<1>3. CASE at[k] \notin Deep /\ inbox[k] # {}
  <2>1. k = h
    BY <1>3, HartFrame
  <2> QED BY <1>3, <2>1, ToDeep
<1> QED BY <1>1, <1>2, <1>3

(* No hart goes to sleep over its wake ring: whatever is in it when the    *)
(* hart waits for an interrupt has rung its doorbell, or its sender is     *)
(* about to (ship, hart_loop).                                             *)
THEOREM NoSleepOnWork == Spec => []DoorbellPending
<1>1. Init => DoorInv
  BY InitTypes DEF Init, DoorInv, Announced
<1>2. DoorInv /\ [Next]_vars => DoorInv'
  <2> SUFFICES ASSUME DoorInv, [Next]_vars PROVE Announced'
    BY TypeStep DEF DoorInv
  <2>1. CASE UNCHANGED vars \/ Elapse
    BY <2>1 DEF vars, bell, Elapse, DoorInv, Announced, Ringing
  <2> QED BY <2>1, AnnouncedStep DEF Next
<1>3. DoorInv => DoorbellPending
  BY DEF DoorInv, Announced, DoorbellPending, Deep
<1> QED BY <1>1, <1>2, <1>3, PTL DEF Spec

----------------------------------------------------------------------------
(* The timer's condition: who uses Sys.sleepUs is pinned, and not to the   *)
(* irq hart.  Without it slp_wfi_arm sets the comparator over the timer's  *)
(* deadline (README, section 5, entry 12).                                 *)
SleepersElsewhere ==
  \A a \in Actors : "sleep" \in Does[a] => a \in Pin /\ Placed[a] # IrqHart

(* A pinned actor is never anywhere but at home. *)
AtHome(a) ==
  /\ hart[a] = Placed[a] /\ a \notin ring
  /\ \A h \in HartIds : a \in ready[h] \cup inbox[h] \/ current[h] = a => h = Placed[a]
PinnedHome == \A a \in Pin : AtHome(a)
IrqHasNone == \A a \in Actors : slp[IrqHart][a] = 0
TimerInv == TypeInv /\ PinnedHome /\ IrqHasNone /\ TimerHeard

(* Nothing but Steal moves an actor, and List never offers a pinned one. *)
LEMMA PinnedHomeStep ==
  ASSUME TypeInv, PinnedHome, NEW h \in HartIds, HartStep(h)
  PROVE  PinnedHome'
<1> SUFFICES ASSUME NEW a \in Pin PROVE AtHome(a)'
  BY DEF PinnedHome
<1>a. a \in Actors /\ AtHome(a)
  BY HartSleepAssumption DEF PinnedHome
<1> USE DEF TypeInv, ListTypes
<1>1. CASE TmrFire(h) \/ SlpDrain(h)
  BY <1>a, <1>1 DEF TmrFire, SlpDrain, WakeAll, lists, AtHome, Sleepers
<1>2. CASE Drain(h)
  <2>1. CASE inbox[h] = {}
    BY <1>a, <1>2, <2>1 DEF Drain, lists, work, AtHome
  <2>2. CASE inbox[h] # {}
    <3>1. PICK b \in inbox[h] : inbox' = [inbox EXCEPT ![h] = @ \ {b}] /\ List(h, b, "drain")
      BY <1>2, <2>2 DEF Drain
    <3>2. b \in Actors /\ UNCHANGED <<hart, current>>
      BY <1>2 DEF Drain, work
    <3>3. a \notin ring' /\ \A k \in HartIds : ready'[k] \subseteq ready[k] \cup inbox[k]
      BY <1>a, <3>1, <3>2, ListEffect DEF AtHome
    <3> QED BY <1>a, <3>1, <3>2, <3>3 DEF AtHome
  <2> QED BY <2>1, <2>2
<1>3. CASE Deq(h)
  BY <1>a, <1>3 DEF Deq, work, AtHome, LoopTypes
<1>4. CASE Steal(h)
  <2>1. CASE ring = {}
    BY <1>a, <1>4, <2>1 DEF Steal, lists, AtHome
  <2>2. CASE ring # {}
    <3>1. PICK b \in ring : /\ hart' = [hart EXCEPT ![b] = h] /\ ring' = ring \ {b}
                            /\ ready' = [ready EXCEPT ![h] = @ \cup {b}] /\ UNCHANGED <<inbox, current>>
      BY <1>4, <2>2 DEF Steal
    <3>2. a # b /\ hart'[a] = hart[a]
      BY <1>a, <3>1 DEF AtHome, WorkTypes
    <3>3. \A k \in HartIds : a \in ready'[k] => a \in ready[k]
      BY <3>1, <3>2
    <3> QED BY <1>a, <3>1, <3>2, <3>3 DEF AtHome
  <2> QED BY <2>1, <2>2
<1>5. CASE Send(h)
  <2>1. PICK b \in Actors \ {current[h]} :
          IF st[b] # "parked" THEN UNCHANGED <<lists, inbox, at, ret, tgt>>
          ELSE IF hart[b] = h THEN List(h, b, "run") /\ UNCHANGED inbox
          ELSE /\ inbox' = [inbox EXCEPT ![hart[b]] = @ \cup {b}]
               /\ tgt' = [tgt EXCEPT ![h] = hart[b]]
               /\ Goto(h, "ipi")
               /\ UNCHANGED <<lists, ret>>
    BY <1>5 DEF Send
  <2>2. UNCHANGED <<hart, current>>
    BY <1>5 DEF Send
  <2>3. CASE st[b] = "parked" /\ hart[b] = h
    <3>1. UNCHANGED inbox /\ List(h, b, "run")
      BY <2>1, <2>3
    <3>2. a \notin ring' /\ \A k \in HartIds : a \in ready'[k] => a \in ready[k] \/ (k = h /\ a = b)
      BY <1>a, <3>1, ListEffect DEF AtHome
    <3> QED BY <1>a, <2>2, <2>3, <3>1, <3>2 DEF AtHome
  <2>4. CASE ~(st[b] = "parked" /\ hart[b] = h)
    BY <1>a, <2>1, <2>2, <2>4 DEF lists, AtHome
  <2> QED BY <2>3, <2>4
<1>6. CASE Yield(h)
  <2>1. current[h] \in Actors
    BY <1>6, RunsActor DEF Yield, Spend, Runs, At, Serving
  <2>2. UNCHANGED <<hart, current, inbox>> /\ List(h, current[h], "switch")
    BY <1>6 DEF Yield, work
  <2>3. a \notin ring' /\ \A k \in HartIds : a \in ready'[k] => a \in ready[k] \/ (k = h /\ a = current[h])
    BY <1>a, <2>1, <2>2, ListEffect DEF AtHome
  <2> QED BY <1>a, <2>2, <2>3 DEF AtHome
<1>7. CASE Receive(h) \/ Switch(h) \/ Nap(h) \/ Exit(h)
  <2>1. UNCHANGED <<hart, lists, inbox>> /\ \A k \in HartIds : current'[k] \in {current[k], None}
    BY <1>7 DEF Receive, Switch, Nap, Exit, Block, Leave, work, LoopTypes
  <2> QED BY <1>a, <2>1, HartSleepAssumption DEF lists, AtHome
<1>8. CASE Scan(h) \/ TmrLook(h) \/ Clear(h) \/ Idle(h) \/ Arm(h) \/ Wfi(h) \/ Detect \/ Ipi(h)
            \/ SleepUs(h) \/ TimerArm(h) \/ Kill(h)
  <2>1. UNCHANGED <<hart, lists, inbox, current>>
    BY <1>8 DEF Scan, TmrLook, Clear, Idle, Arm, Wfi, Detect, Ipi, SleepUs, TimerArm, Kill, work
  <2> QED BY <1>a, <2>1 DEF lists, AtHome
<1> QED
  BY <1>1, <1>2, <1>3, <1>4, <1>5, <1>6, <1>7, <1>8 DEF HartStep, LoopStep, ActorStep

(* Only Sys.sleepUs adds to a sleeper list, the one of the hart it runs on. *)
LEMMA IrqHasNoneStep ==
  ASSUME SleepersElsewhere, TypeInv, PinnedHome, IrqHasNone, NEW h \in HartIds, HartStep(h)
  PROVE  IrqHasNone'
<1>1. IrqHart \in HartIds
  BY HartSleepAssumption DEF IrqHart, HartIds
<1>2. CASE SlpDrain(h)
  BY <1>1, <1>2 DEF SlpDrain, IrqHasNone, TypeInv, ListTypes
<1>3. CASE SleepUs(h)
  <2>1. current[h] \in Pin /\ Placed[current[h]] # IrqHart
    BY <1>3, RunsActor DEF SleepUs, Spend, Runs, At, Serving, SleepersElsewhere
  <2>2. h # IrqHart
    BY <2>1 DEF PinnedHome, AtHome
  <2> QED BY <1>1, <1>3, <2>2 DEF SleepUs, IrqHasNone, TypeInv, ListTypes
<1>4. CASE UNCHANGED slp
  BY <1>4 DEF IrqHasNone
<1>5. CASE ~SlpDrain(h) /\ ~SleepUs(h)
  BY <1>4, <1>5 DEF HartStep, LoopStep, ActorStep, Scan, TmrLook, TmrFire, Drain, Deq, Clear, Idle, Steal,
     Arm, Wfi, Detect, Send, Ipi, Receive, Yield, Switch, Nap, TimerArm, Kill, Exit
<1> QED BY <1>2, <1>3, <1>5

(* Who may change another hart's comparator, or start the timer. *)
LEMMA Comparators ==
  ASSUME TypeInv, NEW h \in HartIds, HartStep(h)
  PROVE  \/ TimerArm(h)
         \/ /\ timer' # "off" => timer' = timer
            /\ \A k \in HartIds : k # h => mtimecmp'[k] = mtimecmp[k]
<1> USE DEF TypeInv, ClockTypes
<1>1. CASE TmrFire(h) \/ SlpDrain(h)
  BY <1>1 DEF TmrFire, SlpDrain, ParkTimer
<1>2. CASE Arm(h)
  BY <1>2 DEF Arm
<1>3. CASE UNCHANGED clock
  BY <1>3 DEF clock
<1>4. CASE ~TmrFire(h) /\ ~SlpDrain(h) /\ ~Arm(h) /\ ~TimerArm(h)
  BY <1>3, <1>4 DEF HartStep, LoopStep, ActorStep, Scan, TmrLook, Drain, Deq, Clear, Idle, Steal, Wfi, Detect,
     Send, Ipi, Receive, Yield, Switch, SleepUs, Nap, Kill, Exit
<1> QED BY <1>1, <1>2, <1>4

(* The irq hart arms for the deadline before it sleeps; a later timerArm    *)
(* rings it.                                                               *)
LEMMA TimerHeardStep ==
  ASSUME TimerInv, NEW h \in HartIds, HartStep(h)
  PROVE  TimerHeard'
<1> SUFFICES ASSUME at'[IrqHart] = "wfi", timer' # "off", IrqHart # Detector
             PROVE  mtimecmp'[IrqHart] = "timer" \/ msip'[IrqHart] \/ Ringing(IrqHart)'
  BY DEF TimerHeard
<1> USE DEF TimerInv
<1>1. IrqHart \in HartIds
  BY HartSleepAssumption DEF IrqHart, HartIds
<1>2. CASE h = IrqHart
  <2>1. Arm(h)
    <3>1. at[h] = "wfi" => at'[h] = "top"
      BY <1>2 DEF HartStep, LoopStep, ActorStep, Scan, TmrLook, TmrFire, SlpDrain, Drain, Deq, Clear, Idle,
         Steal, Arm, Wfi, Detect, Send, Ipi, Receive, Yield, Switch, SleepUs, Nap, TimerArm, Kill, Exit,
         Spend, Runs, At, Goto, TypeInv, LoopTypes
    <3>3. at'[h] # at[h]
      BY <1>2, <3>1
    <3>4. CASE Drain(h) \/ Send(h) \/ Yield(h)
      BY <1>2, <3>3, <3>4 DEF Drain, Send, Yield, List, Goto, TypeInv, LoopTypes
    <3>5. CASE Scan(h)
      BY <1>2, <3>3, <3>5 DEF Scan, Goto, TypeInv, LoopTypes
    <3>6. CASE Receive(h) \/ Nap(h) \/ Exit(h) \/ Switch(h)
      BY <1>2, <3>3, <3>6 DEF Receive, Nap, Exit, Switch, Block, Leave, Goto, TypeInv, LoopTypes
    <3>7. CASE TmrLook(h) \/ TmrFire(h) \/ SlpDrain(h) \/ Deq(h) \/ Clear(h) \/ Idle(h) \/ Steal(h) \/ Wfi(h)
               \/ Ipi(h) \/ SleepUs(h) \/ TimerArm(h) \/ Kill(h)
      BY <1>2, <3>3, <3>7 DEF TmrLook, TmrFire, SlpDrain, Deq, Clear, Idle, Steal, Wfi, Ipi, SleepUs,
         TimerArm, Kill, Goto, TypeInv, LoopTypes
    <3> QED BY <1>2, <3>4, <3>5, <3>6, <3>7 DEF HartStep, LoopStep, ActorStep
  <2>2. Sleepers(h) = {}
    BY <1>2 DEF IrqHasNone, Sleepers
  <2> QED BY <1>1, <1>2, <2>1, <2>2 DEF Arm, TypeInv, ClockTypes
<1>3. CASE h # IrqHart
  <2>1. at[IrqHart] = "wfi"
    BY <1>1, <1>3, HartFrame
  <2>2. CASE TimerArm(h)
    <3>1. at' = [at EXCEPT ![h] = "ipi"] /\ tgt' = [tgt EXCEPT ![h] = IrqHart]
      BY <1>3, <2>2 DEF TimerArm, Goto
    <3> QED BY <3>1 DEF Ringing, TypeInv, LoopTypes
  <2>3. CASE ~TimerArm(h)
    <3>1. timer # "off" /\ mtimecmp'[IrqHart] = mtimecmp[IrqHart]
      BY <1>1, <1>3, <2>3, Comparators
    <3>2. CASE mtimecmp[IrqHart] = "timer"
      BY <3>1, <3>2
    <3>3. CASE msip[IrqHart]
      BY <1>1, <1>3, <3>3, HartFrame
    <3>4. CASE Ringing(IrqHart)
      <4>1. PICK j \in HartIds : at[j] = "ipi" /\ tgt[j] = IrqHart
        BY <3>4 DEF Ringing
      <4>2. CASE j = h
        BY <1>1, <4>1, <4>2, ToDeep DEF TypeInv, LoopTypes
      <4>3. CASE j # h
        BY <4>1, <4>3, HartFrame DEF Ringing
      <4> QED BY <4>2, <4>3
    <3> QED BY <2>1, <3>1, <3>2, <3>3, <3>4 DEF TimerHeard
  <2> QED BY <2>2, <2>3
<1> QED BY <1>2, <1>3

(* The irq hart never sleeps past the deadline that Sys.timerArm set, if    *)
(* nobody sleeps in its own list (tmr_wfi_arm, slp_wfi_arm, a_timer_arm).   *)
THEOREM DeadlineHeard == SleepersElsewhere => (Spec => []TimerHeard)
<1> SUFFICES ASSUME SleepersElsewhere PROVE Spec => []TimerHeard
  OBVIOUS
<1>1. Init => TimerInv
  <2> SUFFICES ASSUME Init PROVE PinnedHome /\ IrqHasNone /\ TimerHeard
    BY InitTypes DEF TimerInv
  <2>1. PinnedHome
    BY HartSleepAssumption DEF Init, PinnedHome, AtHome
  <2>2. IrqHart \in HartIds
    BY HartSleepAssumption DEF IrqHart, HartIds
  <2> QED BY <2>1, <2>2 DEF Init, IrqHasNone, TimerHeard
<1>2. TimerInv /\ [Next]_vars => TimerInv'
  <2> SUFFICES ASSUME TimerInv, [Next]_vars PROVE (PinnedHome /\ IrqHasNone /\ TimerHeard)'
    BY TypeStep DEF TimerInv
  <2>1. CASE UNCHANGED vars
    BY <2>1 DEF vars, work, lists, clock, bell, TimerInv, PinnedHome, AtHome, IrqHasNone, TimerHeard, Ringing
  <2>2. CASE Elapse
    BY <2>2 DEF Elapse, lists, bell, TimerInv, PinnedHome, AtHome, IrqHasNone, TimerHeard, Ringing
  <2>3. CASE \E h \in HartIds : HartStep(h)
    BY <2>3, PinnedHomeStep, IrqHasNoneStep, TimerHeardStep DEF TimerInv
  <2> QED BY <2>1, <2>2, <2>3 DEF Next
<1>3. TimerInv => TimerHeard
  BY DEF TimerInv
<1> QED BY <1>1, <1>2, <1>3, PTL DEF Spec

----------------------------------------------------------------------------
(* A hart past its look at the steal FIFO has its idle flag up, and what is *)
(* put in the FIFO then is announced to it by the donor's scan.  With two   *)
(* harts that is the only hart the scan can stop at.                        *)
Resting == {"detect", "arm", "wfi"}
FlagUp == \A k \in HartIds : at[k] \in Resting \cup {"steal"} => idle[k]
Offered(k) == msip[k] \/ \E j \in HartIds \ {k} : at[j] = "scan" /\ tgt[j] <= k
DonorScans == ring # {} => \A k \in HartIds : at[k] \in Resting => Offered(k)
DonateInv == TypeInv /\ FlagUp /\ DonorScans

(* The flag is up from Idle to the next actor or the next look. *)
LEMMA FlagUpStep ==
  ASSUME TypeInv, FlagUp, NEW h \in HartIds, HartStep(h)
  PROVE  FlagUp'
<1> SUFFICES ASSUME NEW k \in HartIds, at'[k] \in Resting \cup {"steal"} PROVE idle'[k]
  BY DEF FlagUp
<1> USE DEF TypeInv, LoopTypes
<1>1. CASE k # h
  BY <1>1, HartFrame DEF FlagUp
<1>2. CASE k = h
  <2>1. CASE Idle(h)
    BY <1>2, <2>1 DEF Idle
  <2>2. CASE Steal(h)
    BY <1>2, <2>2 DEF Steal, At, Goto, FlagUp, Resting
  <2>3. CASE Arm(h) \/ (h = Detector /\ Detect) \/ TmrLook(h) \/ Clear(h) \/ Wfi(h) \/ Ipi(h) \/ TimerArm(h)
    BY <1>2, <2>3 DEF Arm, Detect, TmrLook, Clear, Wfi, Ipi, TimerArm, Spend, Runs, At, Goto, FlagUp, Resting, bell
  <2>4. CASE Deq(h) \/ TmrFire(h) \/ SlpDrain(h)
    BY <1>2, <2>4 DEF Deq, TmrFire, SlpDrain, Goto, Resting
  <2>5. CASE Drain(h) \/ Send(h) \/ Yield(h)
    BY <1>2, <2>5 DEF Drain, Send, Yield, Spend, Runs, At, List, Goto, Resting
  <2>6. CASE Scan(h)
    BY <1>2, <2>6 DEF Scan, At, Goto, Resting
  <2>7. CASE Receive(h) \/ Switch(h) \/ SleepUs(h) \/ Nap(h) \/ Kill(h) \/ Exit(h)
    BY <1>2, <2>7 DEF Receive, Switch, SleepUs, Nap, Kill, Exit, Spend, Runs, Block, Leave, At, Goto, Resting
  <2> QED
    BY <2>1, <2>2, <2>3, <2>4, <2>5, <2>6, <2>7 DEF HartStep, LoopStep, ActorStep
<1> QED BY <1>1, <1>2

(* Who fills the FIFO scans next; who comes to rest found it empty, or was  *)
(* at rest before.                                                          *)
LEMMA Fifo ==
  ASSUME TypeInv, NEW h \in HartIds, HartStep(h)
  PROVE  /\ ring' \subseteq ring \/ (at'[h] = "scan" /\ tgt'[h] = 0)
         /\ at'[h] \in Resting => at[h] \in Resting \/ (ring = {} /\ ring' = {})
<1> USE DEF TypeInv, LoopTypes
<1>1. CASE Steal(h)
  BY <1>1 DEF Steal, At, Goto, Resting, lists
<1>2. CASE Drain(h)
  <2>1. CASE inbox[h] = {}
    BY <1>2, <2>1 DEF Drain, lists, Goto, Resting
  <2>2. CASE inbox[h] # {}
    <3>1. PICK a \in inbox[h] : List(h, a, "drain")
      BY <1>2, <2>2 DEF Drain
    <3>2. a \in Actors
      BY DEF ListTypes
    <3> QED BY <3>1, <3>2, ListEffect DEF Resting
  <2> QED BY <2>1, <2>2
<1>3. CASE Send(h)
  <2>1. PICK b \in Actors \ {current[h]} :
          IF st[b] # "parked" THEN UNCHANGED <<lists, inbox, at, ret, tgt>>
          ELSE IF hart[b] = h THEN List(h, b, "run") /\ UNCHANGED inbox
          ELSE /\ inbox' = [inbox EXCEPT ![hart[b]] = @ \cup {b}]
               /\ tgt' = [tgt EXCEPT ![h] = hart[b]]
               /\ Goto(h, "ipi")
               /\ UNCHANGED <<lists, ret>>
    BY <1>3 DEF Send
  <2>2. CASE st[b] = "parked" /\ hart[b] = h
    BY <2>1, <2>2, ListEffect DEF Resting
  <2>3. CASE ~(st[b] = "parked" /\ hart[b] = h)
    BY <1>3, <2>1, <2>3 DEF Send, Spend, Runs, At, lists, Goto, Resting
  <2> QED BY <2>2, <2>3
<1>4. CASE Yield(h)
  <2>1. current[h] \in Actors /\ List(h, current[h], "switch")
    BY <1>4, RunsActor DEF Yield, Spend, Runs, At, Serving
  <2> QED BY <2>1, ListEffect DEF Resting
<1>5. CASE Arm(h) \/ (h = Detector /\ Detect) \/ TmrLook(h) \/ Clear(h) \/ Wfi(h) \/ Ipi(h) \/ TimerArm(h)
  BY <1>5 DEF Arm, Detect, TmrLook, Clear, Wfi, Ipi, TimerArm, Spend, Runs, At, Goto, Resting, lists
<1>6. CASE Deq(h) \/ TmrFire(h) \/ SlpDrain(h) \/ Idle(h)
  BY <1>6 DEF Deq, TmrFire, SlpDrain, Idle, Goto, Resting, lists
<1>7. CASE Scan(h)
  BY <1>7 DEF Scan, At, Goto, Resting, lists
<1>8. CASE Receive(h) \/ Switch(h) \/ SleepUs(h) \/ Nap(h) \/ Kill(h) \/ Exit(h)
  BY <1>8 DEF Receive, Switch, SleepUs, Nap, Kill, Exit, Spend, Runs, Block, Leave, At, Goto, Resting, lists
<1> QED
  BY <1>1, <1>2, <1>3, <1>4, <1>5, <1>6, <1>7, <1>8 DEF HartStep, LoopStep, ActorStep

(* The donor rings the other hart, whose flag is up, before it goes on. *)
LEMMA DonorScansStep ==
  ASSUME NHarts = 2, DonateInv, NEW h \in HartIds, HartStep(h)
  PROVE  DonorScans'
<1> SUFFICES ASSUME ring' # {}, NEW k \in HartIds, at'[k] \in Resting PROVE Offered(k)'
  BY DEF DonorScans
<1> USE DEF DonateInv, TypeInv, LoopTypes
<1>a. k \in 0 .. 1 /\ h \in 0 .. 1 /\ k < NHarts
  BY DEF HartIds
<1>1. CASE k = h
  <2>1. at[k] \in Resting /\ ring # {}
    BY <1>1, Fifo DEF Resting
  <2>2. CASE msip[k]
    BY <1>1, <2>2, ToDeep DEF Deep, Resting, Offered
  <2>3. CASE ~msip[k]
    <3>1. PICK j \in HartIds \ {k} : at[j] = "scan" /\ tgt[j] <= k
      BY <2>1, <2>3 DEF DonorScans, Offered
    <3>2. at'[j] = at[j] /\ tgt'[j] = tgt[j]
      BY <1>1, <3>1, HartFrame
    <3> QED BY <3>1, <3>2 DEF Offered
  <2> QED BY <2>2, <2>3
<1>2. CASE k # h
  <2>1. at[k] \in Resting /\ idle[k] /\ (msip[k] => msip'[k])
    BY <1>2, HartFrame DEF FlagUp
  <2>2. CASE msip[k]
    BY <2>1, <2>2 DEF Offered
  <2>3. CASE ~msip[k] /\ ring = {}
    <3>1. at'[h] = "scan" /\ tgt'[h] = 0
      BY <2>3, Fifo
    <3> QED BY <1>a, <1>2, <3>1 DEF Offered
  <2>4. CASE ~msip[k] /\ ring # {}
    <3>1. at[h] = "scan" /\ tgt[h] <= k
      BY <1>a, <1>2, <2>1, <2>4 DEF DonorScans, Offered, HartIds
    <3>2. Scan(h)
      BY <3>1 DEF HartStep, LoopStep, ActorStep, TmrLook, TmrFire, SlpDrain, Drain, Deq, Clear, Idle, Steal,
         Arm, Wfi, Detect, Send, Ipi, Receive, Yield, Switch, SleepUs, Nap, TimerArm, Kill, Exit, Spend, Runs, At
    <3>3. tgt[h] \in 0 .. 2
      BY DEF HartIds
    <3>4. CASE tgt[h] = k
      BY <1>a, <1>2, <2>1, <3>2, <3>4 DEF Scan, Offered
    <3>5. CASE tgt[h] # k
      <4>1. tgt[h] = h /\ tgt[h] < k
        BY <1>a, <1>2, <3>1, <3>3, <3>5
      <4>2. at'[h] = "scan" /\ tgt'[h] = tgt[h] + 1
        BY <1>a, <3>1, <3>2, <4>1 DEF Scan
      <4> QED BY <1>a, <1>2, <3>3, <4>1, <4>2 DEF Offered
    <3> QED BY <3>4, <3>5
  <2> QED BY <2>2, <2>3, <2>4
<1> QED BY <1>1, <1>2

(* With two harts, "a donated actor is never left in the ring under a       *)
(* sleeping hart" (hart_loop): the donor is about to ring, or has rung.     *)
(* With three it may be left (README, section 5, entry 9).                 *)
THEOREM TwoHartsDonate == NHarts = 2 => (Spec => []DonatedSeen)
<1> SUFFICES ASSUME NHarts = 2 PROVE Spec => []DonatedSeen
  OBVIOUS
<1>1. Init => DonateInv
  BY InitTypes DEF Init, DonateInv, FlagUp, DonorScans, Resting
<1>2. DonateInv /\ [Next]_vars => DonateInv'
  <2> SUFFICES ASSUME DonateInv, [Next]_vars PROVE (FlagUp /\ DonorScans)'
    BY TypeStep DEF DonateInv
  <2>1. CASE UNCHANGED vars
    BY <2>1 DEF vars, lists, bell, DonateInv, FlagUp, DonorScans, Offered
  <2>2. CASE Elapse
    BY <2>2 DEF Elapse, lists, bell, DonateInv, FlagUp, DonorScans, Offered
  <2>3. CASE \E h \in HartIds : HartStep(h)
    BY <2>3, FlagUpStep, DonorScansStep DEF DonateInv
  <2> QED BY <2>1, <2>2, <2>3 DEF Next
<1>3. DonateInv => DonatedSeen
  BY DEF DonateInv, DonorScans, Offered, DonatedSeen, Asleep, Resting
<1> QED BY <1>1, <1>2, <1>3, PTL DEF Spec

----------------------------------------------------------------------------
(* The time service: types, and the places where the list is not empty. *)
TimerPlaces == {"loop", "near", "arm", "fire", "rearm"}
TimerTypes ==
  /\ nat \in BOOLEAN /\ now \in Times
  /\ box \in [Clients -> Seq(Delays)] /\ owed \in [Clients -> Seq(Times)]
  /\ pokes \in Nat /\ pend \in Seq(Times \X Clients) /\ fires \in [Clients -> Nat]
  /\ spot \in TimerPlaces /\ then \in {"loop", "fire"} /\ delta \in Int
  /\ armed \in Times /\ drain \in {"idle", "clear", "send"} /\ kids \in [Times -> Nat]
  /\ spot \in {"near", "rearm"} => pend # <<>>

(* The requests a client has left in the mailbox are due no later than if it *)
(* asked now; those the service has taken are on the list or were told; and, *)
(* at any time to come, those that are not due are on the list, under a time *)
(* the clock's low word will not have shown.                                 *)
Taken(c) == Len(owed[c]) - Len(box[c])
Lag == \A c \in Clients :
         /\ Len(box[c]) <= Len(owed[c])
         /\ \A k \in 1 .. Len(box[c]) :
              owed[c][Taken(c) + k] <= Until(now + box[c][k] * TicksPerMs)
HowMany(p, P) == Cardinality({i \in 1 .. Len(p) : p[i] \in P})
Of(c) == {x \in Times \X Clients : x[2] = c}
Waits(c, t) == {x \in Of(c) : \A n \in now .. t : n % LowWord < x[1]}
Late(c, t) == {i \in 1 .. Taken(c) : owed[c][i] > t}
Told == \A c \in Clients : HowMany(pend, Of(c)) + fires[c] = Taken(c)
HeldBack == \A c \in Clients : \A t \in now .. Horizon :
              Cardinality(Late(c, t)) <= HowMany(pend, Waits(c, t))
ServiceInv == TimerTypes /\ Lag /\ Told /\ HeldBack /\ SomethingComes

(* Positions of a sequence. *)
LEMMA ManyIsNat ==
  ASSUME NEW S, NEW p \in Seq(S), NEW P
  PROVE  /\ IsFiniteSet({i \in 1 .. Len(p) : p[i] \in P}) /\ HowMany(p, P) \in Nat
         /\ HowMany(p, P) <= Len(p)
<1>1. Len(p) \in Nat
  OBVIOUS
<1>2. IsFiniteSet(1 .. Len(p)) /\ Cardinality(1 .. Len(p)) = Len(p)
  BY <1>1, FS_Interval
<1>3. PICK A : A = {i \in 1 .. Len(p) : p[i] \in P}
  OBVIOUS
<1>4. A \subseteq 1 .. Len(p)
  BY <1>3
<1>5. IsFiniteSet(A) /\ Cardinality(A) <= Len(p)
  BY ONLY <1>2, <1>4, FS_Subset
<1>6. Cardinality(A) \in Nat
  BY <1>5, FS_CardinalityType
<1> QED BY <1>3, <1>5, <1>6 DEF HowMany

LEMMA ManyGrows ==
  ASSUME NEW S, NEW p \in Seq(S), NEW P, NEW Q, \A x \in S : x \in P => x \in Q
  PROVE  HowMany(p, P) <= HowMany(p, Q)
<1>1. \A i \in 1 .. Len(p) : p[i] \in S
  OBVIOUS
<1>2. {i \in 1 .. Len(p) : p[i] \in P} \subseteq {i \in 1 .. Len(p) : p[i] \in Q}
  BY <1>1
<1>3. PICK A, B : A = {i \in 1 .. Len(p) : p[i] \in P} /\ B = {i \in 1 .. Len(p) : p[i] \in Q}
  OBVIOUS
<1>4. IsFiniteSet(B)
  BY <1>3, ManyIsNat
<1>5. Cardinality(A) <= Cardinality(B)
  BY ONLY <1>2, <1>3, <1>4, FS_Subset
<1> QED BY <1>3, <1>5 DEF HowMany

(* One element more, behind the first k. *)
OneMore(q, p, k) ==
  /\ k \in 0 .. Len(p) /\ Len(q) = Len(p) + 1
  /\ \A i \in 1 .. k : q[i] = p[i]
  /\ \A i \in k + 1 .. Len(p) : q[i + 1] = p[i]
LEMMA OneMoreCounts ==
  ASSUME NEW S, NEW p \in Seq(S), NEW q \in Seq(S), NEW k, OneMore(q, p, k), NEW P
  PROVE  HowMany(q, P) = HowMany(p, P) + (IF q[k + 1] \in P THEN 1 ELSE 0)
<1> DEFINE A == {i \in 1 .. Len(p) : p[i] \in P}
           B == {i \in 1 .. Len(q) : q[i] \in P}
           C == B \ {k + 1}
           f == [i \in A |-> IF i <= k THEN i ELSE i + 1]
<1>1. Len(p) \in Nat /\ k \in 0 .. Len(p) /\ Len(q) = Len(p) + 1 /\ k \in Nat
      /\ (\A i \in 1 .. k : q[i] = p[i]) /\ \A i \in k + 1 .. Len(p) : q[i + 1] = p[i]
  BY DEF OneMore
<1>2. f \in Bijection(A, C)
  <2>1. ASSUME NEW i \in A PROVE f[i] \in C
    <3>1. i \in 1 .. Len(p) /\ p[i] \in P
      OBVIOUS
    <3>2. CASE i <= k
      BY ONLY <1>1, <3>1, <3>2
    <3>3. CASE ~(i <= k)
      BY ONLY <1>1, <3>1, <3>3
    <3> QED BY <3>2, <3>3
  <2>2. ASSUME NEW i \in A, NEW j \in A, f[i] = f[j] PROVE i = j
    BY ONLY <1>1, <2>2
  <2>3. ASSUME NEW j \in C PROVE \E i \in A : f[i] = j
    <3>1. j \in 1 .. Len(p) + 1 /\ q[j] \in P /\ j # k + 1
      BY ONLY <1>1, <2>3
    <3>2. CASE j <= k
      <4>1. j \in A /\ f[j] = j
        BY ONLY <1>1, <3>1, <3>2
      <4> QED BY <4>1
    <3>3. CASE ~(j <= k)
      <4>1. j - 1 \in k + 1 .. Len(p) /\ (j - 1) + 1 = j
        BY ONLY <1>1, <3>1, <3>3
      <4>2. q[j] = p[j - 1]
        BY ONLY <1>1, <4>1
      <4>3. j - 1 \in A /\ f[j - 1] = j
        BY ONLY <1>1, <3>1, <4>1, <4>2
      <4> QED BY <4>3
    <3> QED BY <3>2, <3>3
  <2>4. f \in [A -> C]
    BY <2>1
  <2> QED BY <2>2, <2>3, <2>4 DEF Bijection, Injection, Surjection, IsInjective
<1>3. IsFiniteSet(A) /\ Cardinality(A) \in Nat /\ IsFiniteSet(B) /\ Cardinality(B) \in Nat
  BY ManyIsNat DEF HowMany
<1>4. Cardinality(C) = Cardinality(A)
  <2>1. ExistsBijection(A, C)
    BY ONLY <1>2 DEF ExistsBijection
  <2> QED BY <1>3, <2>1, FS_Bijection
<1>5. k + 1 \in B <=> q[k + 1] \in P
  BY ONLY <1>1
<1>6. Cardinality(C) = IF k + 1 \in B THEN Cardinality(B) - 1 ELSE Cardinality(B)
  BY <1>3, FS_RemoveElement
<1>7. HowMany(p, P) = Cardinality(A) /\ HowMany(q, P) = Cardinality(B)
  BY DEF HowMany
<1>8. PICK a, b \in Nat : a = HowMany(p, P) /\ b = HowMany(q, P)
  BY <1>3, <1>7
<1>9. a = IF q[k + 1] \in P THEN b - 1 ELSE b
  BY ONLY <1>4, <1>5, <1>6, <1>7, <1>8
<1> QED BY ONLY <1>8, <1>9

PutIn(q, p, k, e) == q = SubSeq(p, 1, k) \o <<e>> \o SubSeq(p, k + 1, Len(p))
LEMMA InsertIsOneMore ==
  ASSUME NEW S, NEW p \in Seq(S), NEW k \in 0 .. Len(p), NEW e \in S, NEW q, PutIn(q, p, k, e)
  PROVE  q \in Seq(S) /\ OneMore(q, p, k) /\ q[k + 1] = e
<1>1. Len(p) \in Nat /\ k \in Nat /\ k <= Len(p)
  OBVIOUS
<1>2. PICK a, b, d, m : a = SubSeq(p, 1, k) /\ b = SubSeq(p, k + 1, Len(p)) /\ d = <<e>> /\ m = a \o d
  OBVIOUS
<1>3. a \in Seq(S) /\ Len(a) = k /\ \A i \in 1 .. k : a[i] = p[i]
  BY <1>1, <1>2
<1>4. b \in Seq(S) /\ Len(b) = Len(p) - k /\ \A i \in 1 .. Len(p) - k : b[i] = p[k + i]
  BY <1>1, <1>2
<1>5. d \in Seq(S) /\ Len(d) = 1 /\ d[1] = e
  BY <1>2
<1>6. m \in Seq(S) /\ Len(m) = k + 1
      /\ \A i \in 1 .. k + 1 : m[i] = IF i <= k THEN a[i] ELSE d[i - k]
  <2>1. /\ a \o d \in Seq(S) /\ Len(a \o d) = Len(a) + Len(d)
        /\ \A i \in 1 .. Len(a) + Len(d) : (a \o d)[i] = IF i <= Len(a) THEN a[i] ELSE d[i - Len(a)]
    BY ONLY <1>3, <1>5, ConcatProperties
  <2> QED BY ONLY <1>2, <1>3, <1>5, <2>1
<1>7. (\A i \in 1 .. k : m[i] = p[i]) /\ m[k + 1] = e
  <2>1. \A i \in 1 .. k : m[i] = p[i]
    BY ONLY <1>1, <1>3, <1>6
  <2>2. k + 1 \in 1 .. k + 1 /\ ~(k + 1 <= k) /\ (k + 1) - k = 1
    BY ONLY <1>1
  <2> QED BY ONLY <1>5, <1>6, <2>1, <2>2
<1>8. q \in Seq(S) /\ Len(q) = Len(p) + 1
      /\ \A i \in 1 .. Len(p) + 1 : q[i] = IF i <= k + 1 THEN m[i] ELSE b[i - (k + 1)]
  <2>1. /\ m \o b \in Seq(S) /\ Len(m \o b) = Len(m) + Len(b)
        /\ \A i \in 1 .. Len(m) + Len(b) : (m \o b)[i] = IF i <= Len(m) THEN m[i] ELSE b[i - Len(m)]
    BY ONLY <1>4, <1>6, ConcatProperties
  <2>2. Len(m) + Len(b) = Len(p) + 1
    BY ONLY <1>1, <1>4, <1>6
  <2>3. q = m \o b
    BY <1>2 DEF PutIn
  <2> QED BY ONLY <1>6, <2>1, <2>2, <2>3
<1>9. \A i \in 1 .. k : q[i] = p[i]
  BY ONLY <1>1, <1>7, <1>8
<1>10. q[k + 1] = e
  BY ONLY <1>1, <1>7, <1>8
<1>11. ASSUME NEW i \in k + 1 .. Len(p) PROVE q[i + 1] = p[i]
  <2>1. i + 1 \in 1 .. Len(p) + 1 /\ ~(i + 1 <= k + 1) /\ (i + 1) - (k + 1) = i - k
        /\ i - k \in 1 .. Len(p) - k /\ k + (i - k) = i
    BY ONLY <1>1, i \in k + 1 .. Len(p)
  <2>2. q[i + 1] = b[i - k]
    BY ONLY <1>8, <2>1
  <2>3. b[i - k] = p[i]
    BY ONLY <1>4, <2>1
  <2> QED BY ONLY <2>2, <2>3
<1> QED BY ONLY <1>1, <1>8, <1>9, <1>10, <1>11 DEF OneMore

LEMMA TailIsOneLess ==
  ASSUME NEW S, NEW p \in Seq(S), p # <<>>
  PROVE  Tail(p) \in Seq(S) /\ OneMore(p, Tail(p), 0) /\ p[1] = Head(p) /\ Head(p) \in S
<1>1. /\ Tail(p) \in Seq(S) /\ Len(Tail(p)) = Len(p) - 1 /\ Head(p) = p[1] /\ Head(p) \in S
      /\ \A i \in 1 .. Len(Tail(p)) : Tail(p)[i] = p[i + 1]
  BY HeadTailProperties
<1>2. Len(p) \in Nat /\ Len(p) >= 1
  OBVIOUS
<1> QED BY <1>1, <1>2 DEF OneMore

(* The clock's low word is slower than the clock. *)
LEMMA LowWordSlow ==
  ASSUME NEW m \in Nat \ {0}, NEW a \in Nat, NEW b \in Nat, b >= a
  PROVE  b % m <= (a % m) + (b - a)
OBVIOUS
LEMMA LowWordLow ==
  ASSUME NEW m \in Nat \ {0}, NEW a \in Nat
  PROVE  a % m \in Nat /\ a % m <= a
OBVIOUS
LEMMA UntilIs ==
  ASSUME TimerSizes, NEW a \in Nat
  PROVE  /\ Until(a) \in Times /\ Until(a) <= a /\ Until(a) <= Horizon
         /\ \A b \in Nat : b >= a => Until(b) >= Until(a)
         /\ \A t \in Nat : t < Until(a) => t < a /\ t < Horizon
         /\ a > 0 => Until(a) > 0
BY DEF TimerSizes, Until, Times
LEMMA Ticks ==
  ASSUME TimerSizes, NEW ms \in Delays
  PROVE  ms \in Nat /\ ms * TicksPerMs \in Nat
BY DEF TimerSizes
LEMMA WholeIsInt == ASSUME TimerSizes, NEW d \in Int PROVE Whole(d) \in Int
BY DEF TimerSizes, Whole
LEMMA NowIsNat ==
  ASSUME TimerSizes, TimerTypes
  PROVE  now \in Nat /\ now <= Horizon /\ Horizon \in Nat /\ Horizon > 0
         /\ Clock \in Nat /\ Clock <= now
<1>1. now \in Nat /\ now <= Horizon /\ Horizon \in Nat /\ Horizon > 0 /\ LowWord \in Nat \ {0}
  BY DEF TimerSizes, TimerTypes, Times
<1>2. now % LowWord \in Nat /\ now % LowWord <= now
  BY <1>1, LowWordLow
<1> QED BY <1>1, <1>2 DEF Clock

LEMMA Starts == ASSUME TimerSizes, TimerInit PROVE TimerTypes /\ Lag /\ SomethingComes
<1>1. TimerTypes
  <2>1. 0 \in Times
    BY DEF TimerSizes, Times
  <2> QED BY <2>1 DEF TimerInit, TimerTypes, TimerPlaces
<1>2. Lag
  BY DEF TimerInit, Lag
<1>3. SomethingComes
  BY DEF TimerInit, SomethingComes
<1> QED BY <1>1, <1>2, <1>3

(* A child that is set to sleep will poke. *)
LEMMA SleeperComes ==
  ASSUME TimerSizes, TimerTypes, NEW ms \in Int, Sleeper(ms)
  PROVE  kids' \in [Times -> Nat] /\ \E t \in Times : kids'[t] > 0
<1>1. PICK w : w = IF ms > 0 THEN now + ms * TicksPerMs ELSE now
  OBVIOUS
<1>2. w \in Nat
  <2>1. CASE ms > 0
    <3>1. ms \in Nat /\ TicksPerMs \in Nat
      BY <2>1 DEF TimerSizes
    <3>2. ms * TicksPerMs \in Nat
      BY <3>1
    <3> QED BY <1>1, <2>1, <3>2, NowIsNat
  <2>2. CASE ~(ms > 0)
    BY <1>1, <2>2, NowIsNat
  <2> QED BY <2>1, <2>2
<1>3. PICK t \in Times : t = Until(w)
  BY <1>2, UntilIs
<1>4. kids' = [kids EXCEPT ![t] = @ + 1]
  BY <1>1, <1>3 DEF Sleeper
<1>5. kids[t] \in Nat
  BY DEF TimerTypes
<1> QED BY <1>4, <1>5 DEF TimerTypes

(* The bridge is armed for a time to come. *)
LEMMA ArmComes ==
  ASSUME TimerSizes, TimerTypes, BridgeArm
  PROVE  armed' \in Times /\ armed' # 0
<1>1. PICK w : w = now + (IF delta < 1 THEN 1 ELSE delta)
  OBVIOUS
<1>2. w \in Nat /\ w > 0
  <2>1. delta \in Int /\ now \in Nat
    BY NowIsNat DEF TimerTypes
  <2> QED BY ONLY <1>1, <2>1
<1>3. armed' = Until(w)
  BY <1>1 DEF BridgeArm
<1> QED BY <1>2, <1>3, UntilIs DEF Times

(* The list after a request was put on it, and after one was told. *)
LEMMA Puts ==
  ASSUME TimerSizes, TimerTypes, NEW c \in Clients, DoAfter(c)
  PROVE  \E dl \in Times, k \in Nat :
           /\ dl = Until(Clock + Head(box[c]) * TicksPerMs)
           /\ pend' \in Seq(Times \X Clients) /\ OneMore(pend', pend, k)
           /\ pend'[k + 1] = <<dl, c>> /\ pend' # <<>>
<1>1. Head(box[c]) \in Delays
  BY DEF DoAfter, TimerTypes
<1>2. PICK d \in Nat : d = Head(box[c]) * TicksPerMs
  BY <1>1, Ticks
<1>3. PICK dl \in Times : dl = Until(Clock + d)
  BY <1>2, NowIsNat, UntilIs
<1>4. pend \in Seq(Times \X Clients) /\ Len(pend) \in Nat
  BY DEF TimerTypes
<1>5. PICK A : A = {i \in DOMAIN pend : pend[i][1] <= dl}
  OBVIOUS
<1>6. A \subseteq 1 .. Len(pend)
  BY <1>4, <1>5
<1>7. IsFiniteSet(1 .. Len(pend)) /\ Cardinality(1 .. Len(pend)) = Len(pend)
  BY <1>4, FS_Interval
<1>8. Cardinality(A) \in Nat /\ Cardinality(A) <= Len(pend)
  BY ONLY <1>6, <1>7, FS_Subset, FS_CardinalityType
<1>9. PICK k \in Nat : k = Cardinality(A) /\ k \in 0 .. Len(pend)
  BY <1>4, <1>8
<1>10. pend' = SubSeq(pend, 1, k) \o << <<dl, c>> >> \o SubSeq(pend, k + 1, Len(pend))
  BY <1>2, <1>3, <1>5, <1>9 DEF DoAfter, InOrder
<1>11. <<dl, c>> \in Times \X Clients
  OBVIOUS
<1>12. pend' \in Seq(Times \X Clients) /\ OneMore(pend', pend, k) /\ pend'[k + 1] = <<dl, c>>
  <2>1. PICK q, e : q = pend' /\ e = <<dl, c>>
    OBVIOUS
  <2>2. PutIn(q, pend, k, e) /\ e \in Times \X Clients
    BY <1>10, <1>11, <2>1 DEF PutIn
  <2>3. PICK S : S = Times \X Clients
    OBVIOUS
  <2>4. pend \in Seq(S) /\ e \in S /\ k \in 0 .. Len(pend)
    BY <1>4, <1>9, <2>2, <2>3
  <2>5. q \in Seq(S) /\ OneMore(q, pend, k) /\ q[k + 1] = e
    BY ONLY <2>2, <2>4, InsertIsOneMore
  <2> QED BY <2>1, <2>3, <2>5
<1>13. pend' # <<>>
  <2>1. Len(pend') = Len(pend) + 1
    BY <1>12 DEF OneMore
  <2> QED BY <1>4, <2>1
<1> QED BY <1>2, <1>3, <1>12, <1>13

Tells(e) == /\ pend # <<>> /\ e = Head(pend) /\ Clock >= e[1]
            /\ fires' = [fires EXCEPT ![e[2]] = @ + 1] /\ pend' = Tail(pend) /\ spot' = "fire"
            /\ UNCHANGED <<nat, now, box, pokes, delta, then, armed, drain, kids, owed>>
LEMMA TellsOne ==
  ASSUME TimerTypes, NEW e, Tells(e)
  PROVE  /\ e \in Times \X Clients /\ pend' \in Seq(Times \X Clients)
         /\ OneMore(pend, pend', 0) /\ pend[1] = e
<1>1. pend \in Seq(Times \X Clients) /\ pend # <<>> /\ pend' = Tail(pend) /\ e = Head(pend)
  BY DEF TimerTypes, Tells
<1> QED BY <1>1, TailIsOneLess

(* Steps that leave the requests, the list and the clock alone. *)
Aside == UNCHANGED <<now, box, pend, owed, fires>>
LEMMA TimerSteps ==
  ASSUME [TimerNext]_tivars
  PROVE  \/ Aside \/ TimePasses
         \/ (\E c \in Clients, ms \in Delays : After(c, ms)) \/ (\E c \in Clients : DoAfter(c))
         \/ \E e : Tells(e)
<1>1. CASE TimePasses
  BY <1>1
<1>2. CASE ServiceStep
  <2>1. CASE FireDue
    <3>1. CASE pend # <<>> /\ Clock >= Nearest
      <4>1. Tells(Head(pend))
        BY <2>1, <3>1 DEF FireDue, Tells, Nearest
      <4> QED BY <4>1
    <3>2. CASE ~(pend # <<>> /\ Clock >= Nearest)
      BY <2>1, <3>2 DEF FireDue, Aside
    <3> QED BY <3>1, <3>2
  <2>2. CASE Poked \/ ArmNearest \/ BridgeArm \/ Rearm
    BY <2>2 DEF Poked, ArmNearest, BridgeArm, Rearm, Aside
  <2>3. CASE \E c \in Clients : DoAfter(c)
    BY <2>3
  <2>4. Poked \/ ArmNearest \/ BridgeArm \/ FireDue \/ Rearm \/ \E c \in Clients : DoAfter(c)
    BY <1>2 DEF ServiceStep
  <2> QED BY <2>1, <2>2, <2>3, <2>4
<1>3. CASE DrainStep \/ SleeperStep \/ UNCHANGED tivars
  BY <1>3 DEF DrainStep, DrainDue, DrainClear, DrainSend, SleeperStep, SleeperPokes, mine, tivars, Aside
<1>4. CASE \E c \in Clients, ms \in Delays : After(c, ms)
  BY <1>4
<1>5. \/ TimePasses \/ ServiceStep \/ DrainStep \/ SleeperStep \/ UNCHANGED tivars
      \/ \E c \in Clients, ms \in Delays : After(c, ms)
  BY DEF TimerNext
<1> QED BY <1>1, <1>2, <1>3, <1>4, <1>5

LEMMA TimerTypesStep ==
  ASSUME TimerSizes, TimerTypes, [TimerNext]_tivars PROVE TimerTypes'
<1>1. CASE TimePasses
  <2>1. now' \in Times
    BY <1>1, NowIsNat DEF TimePasses, Times
  <2> QED BY <1>1, <2>1 DEF TimePasses, TimerTypes, mine
<1>2. ASSUME NEW c \in Clients, NEW ms \in Delays, After(c, ms) PROVE TimerTypes'
  <2>1. PICK d \in Times : d = Until(now + ms * TicksPerMs)
    BY Ticks, NowIsNat, UntilIs
  <2>2. box' = [box EXCEPT ![c] = Append(box[c], ms)] /\ owed' = [owed EXCEPT ![c] = Append(owed[c], d)]
    BY <1>2, <2>1 DEF After
  <2>3. Append(box[c], ms) \in Seq(Delays) /\ Append(owed[c], d) \in Seq(Times)
    <3>1. box[c] \in Seq(Delays) /\ owed[c] \in Seq(Times)
      BY DEF TimerTypes
    <3> QED BY <3>1, AppendProperties
  <2>4. box' \in [Clients -> Seq(Delays)] /\ owed' \in [Clients -> Seq(Times)]
    BY <2>2, <2>3 DEF TimerTypes
  <2> QED BY <1>2, <2>4 DEF After, TimerTypes, mine
<1>3. ASSUME NEW c \in Clients, DoAfter(c) PROVE TimerTypes'
  <2>1. pend' \in Seq(Times \X Clients) /\ pend' # <<>>
    BY <1>3, Puts
  <2>2. Head(box[c]) \in Int /\ Tail(box[c]) \in Seq(Delays)
    <3>1. box[c] \in Seq(Delays) /\ box[c] # <<>>
      BY <1>3 DEF DoAfter, TimerTypes
    <3>2. Head(box[c]) \in Delays /\ Tail(box[c]) \in Seq(Delays)
      BY <3>1, HeadTailProperties
    <3>3. Delays \subseteq Int
      BY DEF TimerSizes
    <3> QED BY ONLY <3>2, <3>3
  <2>3. box' \in [Clients -> Seq(Delays)]
    BY <1>3, <2>2 DEF DoAfter, TimerTypes
  <2>4. kids' \in [Times -> Nat]
    BY <1>3, <2>2, SleeperComes DEF DoAfter, TimerTypes
  <2>5. spot' \in {"near", "fire"}
    BY <1>3 DEF DoAfter
  <2> QED BY <1>3, <2>1, <2>3, <2>4, <2>5 DEF DoAfter, TimerTypes, TimerPlaces
<1>4. ASSUME NEW e, Tells(e) PROVE TimerTypes'
  <2>1. e[2] \in Clients /\ pend' \in Seq(Times \X Clients)
    BY <1>4, TellsOne
  <2>2. fires' \in [Clients -> Nat]
    <3>1. fires \in [Clients -> Nat] /\ fires' = [fires EXCEPT ![e[2]] = fires[e[2]] + 1]
      BY <1>4 DEF Tells, TimerTypes
    <3> QED BY ONLY <2>1, <3>1
  <2> QED BY <1>4, <2>1, <2>2 DEF Tells, TimerTypes, TimerPlaces
<1>5. CASE FireDue /\ ~(pend # <<>> /\ Clock >= Nearest)
  BY <1>5 DEF FireDue, TimerTypes, TimerPlaces
<1>6. CASE Poked
  BY <1>6 DEF Poked, TimerTypes, TimerPlaces
<1>7. ASSUME pend # <<>> PROVE Nearest - Clock \in Int
  <2>1. Head(pend) \in Times \X Clients
    BY <1>7 DEF TimerTypes
  <2> QED BY <2>1, NowIsNat DEF Nearest, Times
<1>8. CASE ArmNearest
  BY <1>7, <1>8 DEF ArmNearest, TimerTypes, TimerPlaces
<1>9. CASE BridgeArm
  BY <1>9, ArmComes DEF BridgeArm, TimerTypes, TimerPlaces
<1>10. CASE Rearm
  <2>1. Nearest - Clock \in Int
    BY <1>7, <1>10 DEF Rearm, TimerTypes
  <2>2. Whole(Nearest - Clock) + 1 \in Int
    BY <2>1, WholeIsInt
  <2>3. kids' \in [Times -> Nat]
    BY <1>10, <2>2, SleeperComes DEF Rearm, TimerTypes
  <2> QED BY <1>10, <2>1, <2>3 DEF Rearm, TimerTypes, TimerPlaces
<1>11. CASE DrainStep
  <2>1. UNCHANGED <<nat, now, box, pend, spot, delta, then, kids, owed, fires>>
    BY <1>11 DEF DrainStep, DrainDue, DrainClear, DrainSend, mine
  <2>2. 0 \in Times
    BY NowIsNat DEF Times
  <2>3. armed' \in Times /\ drain' \in {"idle", "clear", "send"} /\ pokes' \in Nat
    BY <1>11, <2>2 DEF DrainStep, DrainDue, DrainClear, DrainSend, TimerTypes
  <2> QED BY <2>1, <2>3 DEF TimerTypes
<1>12. ASSUME NEW t \in Times, SleeperPokes(t) PROVE TimerTypes'
  <2>1. kids[t] - 1 \in Nat
    BY <1>12 DEF SleeperPokes, TimerTypes
  <2>2. kids' \in [Times -> Nat]
    BY <1>12, <2>1 DEF SleeperPokes, TimerTypes
  <2> QED BY <1>12, <2>2 DEF SleeperPokes, TimerTypes, mine
<1>13. CASE UNCHANGED tivars
  BY <1>13 DEF tivars, TimerTypes
<1>14. FireDue => (FireDue /\ ~(pend # <<>> /\ Clock >= Nearest)) \/ \E e : Tells(e)
  <2>1. FireDue /\ pend # <<>> /\ Clock >= Nearest => Tells(Head(pend))
    BY DEF FireDue, Tells, Nearest
  <2> QED BY <2>1
<1> QED BY <1>1, <1>2, <1>3, <1>4, <1>5, <1>6, <1>8, <1>9, <1>10, <1>11, <1>12, <1>13, <1>14
       DEF TimerNext, ServiceStep, SleeperStep

(* While somebody waits, something comes. *)
LEMMA ComesStep ==
  ASSUME TimerSizes, TimerTypes, SomethingComes, [TimerNext]_tivars PROVE SomethingComes'
<1>1. CASE TimePasses \/ (\E c \in Clients, ms \in Delays : After(c, ms)) \/ UNCHANGED tivars
  BY <1>1 DEF TimePasses, After, mine, tivars, SomethingComes
<1>2. ASSUME NEW c \in Clients, DoAfter(c) PROVE SomethingComes'
  BY <1>2 DEF DoAfter, SomethingComes
<1>3. CASE Poked \/ ArmNearest \/ FireDue
  BY <1>3 DEF Poked, ArmNearest, FireDue, SomethingComes
<1>4. CASE BridgeArm
  BY <1>4, ArmComes DEF SomethingComes
<1>5. CASE Rearm
  <2>1. Nearest - Clock \in Int
    <3>1. Head(pend) \in Times \X Clients
      BY <1>5 DEF Rearm, TimerTypes
    <3> QED BY <3>1, NowIsNat DEF Nearest, Times
  <2>2. Whole(Nearest - Clock) + 1 \in Int
    BY <2>1, WholeIsInt
  <2>3. spot' # "loop" \/ \E t \in Times : kids'[t] > 0
    BY <1>5, <2>2, SleeperComes DEF Rearm
  <2> QED BY <2>3 DEF SomethingComes
<1>6. CASE DrainStep
  BY <1>6 DEF DrainStep, DrainDue, DrainClear, DrainSend, TimerTypes, mine, SomethingComes
<1>7. ASSUME NEW t \in Times, SleeperPokes(t) PROVE SomethingComes'
  BY <1>7 DEF SleeperPokes, TimerTypes, SomethingComes
<1> QED BY <1>1, <1>2, <1>3, <1>4, <1>5, <1>6, <1>7 DEF TimerNext, ServiceStep, SleeperStep

(* What the service has taken of a client's requests. *)
LEMMA TakenIs ==
  ASSUME TimerTypes, Lag, NEW c \in Clients
  PROVE  /\ box[c] \in Seq(Delays) /\ owed[c] \in Seq(Times)
         /\ Len(box[c]) \in Nat /\ Len(owed[c]) \in Nat
         /\ Taken(c) \in Nat /\ Taken(c) + Len(box[c]) = Len(owed[c])
<1>1. box[c] \in Seq(Delays) /\ owed[c] \in Seq(Times)
  BY DEF TimerTypes
<1>2. Len(box[c]) \in Nat /\ Len(owed[c]) \in Nat /\ Len(box[c]) <= Len(owed[c])
  BY <1>1 DEF Lag
<1> QED BY <1>1, <1>2 DEF Taken
LEMMA LateIsFinite ==
  ASSUME NEW S, NEW n \in Nat, S \subseteq 1 .. n
  PROVE  IsFiniteSet(S) /\ Cardinality(S) \in Nat
<1>1. IsFiniteSet(1 .. n)
  BY FS_Interval
<1> QED BY <1>1, FS_Subset, FS_CardinalityType

LEMMA AsksMore ==
  ASSUME TimerSizes, TimerTypes, Lag, NEW c \in Clients, NEW ms \in Delays, After(c, ms),
         NEW d \in Clients
  PROVE  /\ Taken(d)' = Taken(d)
         /\ \A i \in 1 .. Len(owed[d]) : owed'[d][i] = owed[d][i]
         /\ \A i \in 1 .. Len(box[d]) : box'[d][i] = box[d][i]
         /\ d # c => box'[d] = box[d]
         /\ d = c => /\ Len(box'[d]) = Len(box[d]) + 1
                     /\ box'[d][Len(box[d]) + 1] = ms
                     /\ owed'[d][Len(owed[d]) + 1] = Until(now + ms * TicksPerMs)
<1>1. PICK dl \in Times : dl = Until(now + ms * TicksPerMs)
  BY Ticks, NowIsNat, UntilIs
<1>2. /\ box' = [box EXCEPT ![c] = Append(box[c], ms)]
      /\ owed' = [owed EXCEPT ![c] = Append(owed[c], dl)]
  BY <1>1 DEF After
<1>3. CASE d # c
  <2>1. box'[d] = box[d] /\ owed'[d] = owed[d]
    BY <1>2, <1>3 DEF TimerTypes
  <2> QED BY <1>3, <2>1 DEF Taken
<1>4. CASE d = c
  <2>1. box'[c] = Append(box[c], ms) /\ owed'[c] = Append(owed[c], dl)
    BY <1>2 DEF TimerTypes
  <2>2. /\ Len(box'[c]) = Len(box[c]) + 1 /\ box'[c][Len(box[c]) + 1] = ms
        /\ \A i \in 1 .. Len(box[c]) : box'[c][i] = box[c][i]
    BY <2>1, TakenIs, AppendProperties
  <2>3. /\ Len(owed'[c]) = Len(owed[c]) + 1 /\ owed'[c][Len(owed[c]) + 1] = dl
        /\ \A i \in 1 .. Len(owed[c]) : owed'[c][i] = owed[c][i]
    BY <2>1, TakenIs, AppendProperties
  <2>4. Taken(c)' = Taken(c)
    BY <2>2, <2>3, TakenIs DEF Taken
  <2> QED BY <1>1, <1>4, <2>2, <2>3, <2>4
<1> QED BY <1>3, <1>4

LEMMA TakesOne ==
  ASSUME TimerSizes, TimerTypes, Lag, NEW c \in Clients, DoAfter(c), NEW d \in Clients
  PROVE  /\ Taken(d)' = Taken(d) + (IF d = c THEN 1 ELSE 0)
         /\ d # c => box'[d] = box[d]
         /\ d = c => /\ Len(box[d]) >= 1 /\ Head(box[d]) = box[d][1] /\ Head(box[d]) \in Delays
                     /\ Len(box'[d]) = Len(box[d]) - 1
                     /\ \A i \in 1 .. Len(box'[d]) : box'[d][i] = box[d][i + 1]
<1>1. box' = [box EXCEPT ![c] = Tail(box[c])] /\ owed' = owed /\ box[c] # <<>>
  BY DEF DoAfter
<1>2. CASE d # c
  <2>1. box'[d] = box[d]
    BY <1>1, <1>2 DEF TimerTypes
  <2> QED BY <1>1, <1>2, <2>1, TakenIs DEF Taken
<1>3. CASE d = c
  <2>1. box'[c] = Tail(box[c])
    BY <1>1 DEF TimerTypes
  <2>2. /\ Head(box[c]) \in Delays /\ Head(box[c]) = box[c][1]
        /\ Len(Tail(box[c])) = Len(box[c]) - 1
        /\ \A i \in 1 .. Len(Tail(box[c])) : Tail(box[c])[i] = box[c][i + 1]
    BY <1>1, TakenIs, HeadTailProperties
  <2>3. Len(box[c]) >= 1
    BY <1>1, TakenIs
  <2>4. Taken(c)' = Taken(c) + 1
    <3>1. Len(box[c]) \in Nat /\ Len(owed[c]) \in Nat
      BY TakenIs
    <3>2. Len(box'[c]) = Len(box[c]) - 1 /\ Len(owed'[c]) = Len(owed[c])
      BY <1>1, <2>1, <2>2
    <3> QED BY ONLY <3>1, <3>2 DEF Taken
  <2> QED BY <1>3, <2>1, <2>2, <2>3, <2>4
<1> QED BY <1>2, <1>3

LEMMA LagStep == ASSUME TimerSizes, TimerTypes, Lag, [TimerNext]_tivars PROVE Lag'
<1>1. ASSUME NEW c \in Clients, NEW k \in 1 .. Len(box[c])
      PROVE  /\ owed[c][Taken(c) + k] <= Until(now + box[c][k] * TicksPerMs)
             /\ box[c][k] \in Delays /\ box[c][k] * TicksPerMs \in Nat
             /\ owed[c][Taken(c) + k] \in Times
             /\ Taken(c) + k \in 1 .. Len(owed[c])
  <2>1. box[c][k] \in Delays
    BY TakenIs
  <2>2. Taken(c) + k \in 1 .. Len(owed[c])
    BY TakenIs
  <2>3. box[c][k] * TicksPerMs \in Nat
    BY <2>1, Ticks
  <2>4. owed[c][Taken(c) + k] \in Times
    BY <2>2, TakenIs
  <2>5. owed[c][Taken(c) + k] <= Until(now + box[c][k] * TicksPerMs)
    BY DEF Lag
  <2> QED BY <2>1, <2>2, <2>3, <2>4, <2>5
<1>2. CASE Aside \/ \E e : Tells(e)
  <2>1. box' = box /\ owed' = owed /\ now' = now
    BY <1>2 DEF Aside, Tells
  <2> QED BY <2>1 DEF Lag, Taken
<1>3. CASE TimePasses
  <2>1. box' = box /\ owed' = owed /\ now' = now + 1
    BY <1>3 DEF TimePasses
  <2>2. ASSUME NEW c \in Clients, NEW k \in 1 .. Len(box[c])
        PROVE  owed[c][Taken(c) + k] <= Until(now + 1 + box[c][k] * TicksPerMs)
    <3>1. PICK x \in Nat : x = box[c][k] * TicksPerMs
      BY <1>1
    <3>2. now + x \in Nat /\ now + 1 + x \in Nat /\ now + 1 + x >= now + x
      BY NowIsNat
    <3>3. Until(now + 1 + x) >= Until(now + x) /\ Until(now + x) \in Times /\ Until(now + 1 + x) \in Times
      BY <3>2, UntilIs
    <3>4. owed[c][Taken(c) + k] <= Until(now + x) /\ owed[c][Taken(c) + k] \in Times
      BY <1>1, <3>1
    <3>5. Times \subseteq Nat
      BY NowIsNat DEF Times
    <3>6. PICK a, b, g \in Nat : a = owed[c][Taken(c) + k] /\ b = Until(now + x) /\ g = Until(now + 1 + x)
      BY <3>3, <3>4, <3>5
    <3>7. a <= g
      BY ONLY <3>3, <3>4, <3>6
    <3> QED BY <3>1, <3>6, <3>7
  <2> QED BY <2>1, <2>2 DEF Lag, Taken
<1>4. ASSUME NEW c \in Clients, NEW ms \in Delays, After(c, ms) PROVE Lag'
  <2>1. now' = now
    BY <1>4 DEF After
  <2>2. ASSUME NEW d \in Clients
        PROVE  /\ Len(box'[d]) <= Len(owed'[d])
               /\ \A k \in 1 .. Len(box'[d]) :
                    owed'[d][Taken(d) + k] <= Until(now + box'[d][k] * TicksPerMs)
    <3>1. TimerTypes'
      BY TimerTypesStep
    <3>2. /\ Taken(d)' = Taken(d)
          /\ \A i \in 1 .. Len(owed[d]) : owed'[d][i] = owed[d][i]
          /\ \A i \in 1 .. Len(box[d]) : box'[d][i] = box[d][i]
          /\ d # c => box'[d] = box[d]
          /\ d = c => /\ Len(box'[d]) = Len(box[d]) + 1
                      /\ box'[d][Len(box[d]) + 1] = ms
                      /\ owed'[d][Len(owed[d]) + 1] = Until(now + ms * TicksPerMs)
      BY <1>4, AsksMore
    <3>3. Len(box'[d]) \in Nat /\ Len(owed'[d]) \in Nat
      <4>1. box'[d] \in Seq(Delays) /\ owed'[d] \in Seq(Times)
        BY <3>1 DEF TimerTypes, Times
      <4> QED BY <4>1
    <3>4. Len(box'[d]) <= Len(owed'[d])
      <4>1. Len(box[d]) \in Nat /\ Len(owed[d]) \in Nat /\ Len(box[d]) <= Len(owed[d])
        BY TakenIs DEF Lag
      <4>2. Len(owed'[d]) - Len(box'[d]) = Len(owed[d]) - Len(box[d])
        BY <3>2 DEF Taken
      <4>3. PICK x, y, u, w \in Nat : /\ x = Len(box[d]) /\ y = Len(owed[d])
                                   /\ u = Len(box'[d]) /\ w = Len(owed'[d])
        BY <3>3, <4>1
      <4>4. w - u = y - x /\ x <= y
        BY ONLY <4>1, <4>2, <4>3
      <4>5. u <= w
        BY ONLY <4>4, x \in Nat, y \in Nat, u \in Nat, w \in Nat
      <4> QED BY <4>3, <4>5
    <3>5. ASSUME NEW k \in 1 .. Len(box[d])
          PROVE  owed'[d][Taken(d) + k] <= Until(now + box'[d][k] * TicksPerMs)
      BY <1>1, <3>2
    <3>6. ASSUME d = c, NEW k, k = Len(box[d]) + 1
          PROVE  owed'[d][Taken(d) + k] <= Until(now + box'[d][k] * TicksPerMs)
      <4>1. Taken(d) + k = Len(owed[d]) + 1
        <5>1. Taken(d) \in Nat /\ Len(box[d]) \in Nat /\ Taken(d) + Len(box[d]) = Len(owed[d])
          BY TakenIs
        <5> QED BY ONLY <3>6, <5>1
      <4>2. now + ms * TicksPerMs \in Nat
        BY NowIsNat, Ticks
      <4>3. Until(now + ms * TicksPerMs) \in Int
        BY <4>2, UntilIs, NowIsNat DEF Times
      <4> QED BY <3>2, <3>6, <4>1, <4>3
    <3>7. ASSUME NEW k \in 1 .. Len(box'[d])
          PROVE  k \in 1 .. Len(box[d]) \/ (d = c /\ k = Len(box[d]) + 1)
      BY <3>2, TakenIs
    <3> QED BY <3>4, <3>5, <3>6, <3>7
  <2>3. \A d \in Clients : Taken(d)' = Taken(d)
    BY <1>4, AsksMore
  <2> QED BY <2>1, <2>2, <2>3 DEF Lag
<1>5. ASSUME NEW c \in Clients, DoAfter(c) PROVE Lag'
  <2>1. now' = now /\ owed' = owed
    BY <1>5 DEF DoAfter
  <2>2. ASSUME NEW d \in Clients
        PROVE  /\ Len(box'[d]) <= Len(owed[d])
               /\ \A k \in 1 .. Len(box'[d]) :
                    owed[d][Taken(d)' + k] <= Until(now + box'[d][k] * TicksPerMs)
    <3>1. CASE d # c
      <4>1. box'[d] = box[d] /\ Taken(d)' = Taken(d)
        BY <1>5, <3>1, TakesOne, TakenIs
      <4> QED BY <4>1 DEF Lag
    <3>2. CASE d = c
      <4>1. /\ Taken(d)' = Taken(d) + 1 /\ Len(box[d]) >= 1
            /\ Len(box'[d]) = Len(box[d]) - 1
            /\ \A i \in 1 .. Len(box'[d]) : box'[d][i] = box[d][i + 1]
        BY <1>5, <3>2, TakesOne
      <4>2. Len(box'[d]) <= Len(owed[d])
        BY <4>1, TakenIs
      <4>3. ASSUME NEW k \in 1 .. Len(box'[d])
            PROVE  owed[d][Taken(d)' + k] <= Until(now + box'[d][k] * TicksPerMs)
        <5>1. k + 1 \in 1 .. Len(box[d]) /\ Taken(d)' + k = Taken(d) + (k + 1)
          <6>1. Taken(d) \in Nat /\ Len(box[d]) \in Nat
            BY TakenIs
          <6>2. PICK x, y \in Nat : x = Taken(d) /\ y = Len(box[d])
            BY <6>1
          <6>3. k \in 1 .. y - 1 /\ Taken(d)' = x + 1
            BY <4>1, <6>2
          <6>4. k + 1 \in 1 .. y /\ (x + 1) + k = x + (k + 1)
            BY ONLY <6>2, <6>3
          <6> QED BY <6>2, <6>3, <6>4
        <5> QED BY <1>1, <4>1, <5>1
      <4> QED BY <4>2, <4>3
    <3> QED BY <3>1, <3>2
  <2> QED BY <2>1, <2>2 DEF Lag
<1> QED BY <1>2, <1>3, <1>4, <1>5, TimerSteps

LEMMA ToldStep == ASSUME TimerSizes, TimerTypes, Lag, Told, [TimerNext]_tivars PROVE Told'
<1>1. CASE Aside \/ TimePasses
  <2>1. box' = box /\ owed' = owed /\ pend' = pend /\ fires' = fires
    BY <1>1 DEF Aside, TimePasses, mine
  <2> QED BY <2>1 DEF Told, Taken
<1>2. ASSUME NEW c \in Clients, NEW ms \in Delays, After(c, ms) PROVE Told'
  <2>1. pend' = pend /\ fires' = fires
    BY <1>2 DEF After, mine
  <2>2. \A d \in Clients : Taken(d)' = Taken(d)
    BY <1>2, AsksMore
  <2> QED BY <2>1, <2>2 DEF Told
<1>3. pend \in Seq(Times \X Clients) /\ \A d \in Clients : HowMany(pend, Of(d)) \in Nat /\ fires[d] \in Nat
  BY ManyIsNat DEF TimerTypes
<1>4. ASSUME NEW c \in Clients, DoAfter(c) PROVE Told'
  <2>1. PICK dl \in Times, k \in Nat : pend' \in Seq(Times \X Clients) /\ OneMore(pend', pend, k)
                              /\ pend'[k + 1] = <<dl, c>>
    BY <1>4, Puts
  <2>2. ASSUME NEW d \in Clients PROVE HowMany(pend', Of(d)) + fires[d] = Taken(d)'
    <3>1. HowMany(pend', Of(d)) = HowMany(pend, Of(d)) + (IF pend'[k + 1] \in Of(d) THEN 1 ELSE 0)
      <4>1. PICK S : S = Times \X Clients
        OBVIOUS
      <4>2. PICK q \in Seq(S) : q = pend'
        BY <2>1, <4>1
      <4>3. pend \in Seq(S) /\ OneMore(q, pend, k)
        BY <1>3, <2>1, <4>1, <4>2
      <4>4. HowMany(q, Of(d)) = HowMany(pend, Of(d)) + (IF q[k + 1] \in Of(d) THEN 1 ELSE 0)
        BY ONLY <4>2, <4>3, OneMoreCounts
      <4> QED BY <4>2, <4>4
    <3>2. pend'[k + 1] \in Of(d) <=> d = c
      BY <2>1 DEF Of
    <3>3. Taken(d)' = Taken(d) + (IF d = c THEN 1 ELSE 0)
      BY <1>4, TakesOne
    <3>4. HowMany(pend, Of(d)) + fires[d] = Taken(d)
      BY DEF Told
    <3> QED BY <1>3, <3>1, <3>2, <3>3, <3>4
  <2>3. fires' = fires
    BY <1>4 DEF DoAfter
  <2> QED BY <2>2, <2>3 DEF Told
<1>5. ASSUME NEW e, Tells(e) PROVE Told'
  <2>1. e \in Times \X Clients /\ pend' \in Seq(Times \X Clients) /\ OneMore(pend, pend', 0) /\ pend[1] = e
    BY <1>5, TellsOne
  <2>2. box' = box /\ owed' = owed /\ fires' = [fires EXCEPT ![e[2]] = fires[e[2]] + 1]
    BY <1>5 DEF Tells
  <2>3. ASSUME NEW d \in Clients PROVE HowMany(pend', Of(d)) + fires'[d] = Taken(d)
    <3>1. HowMany(pend, Of(d)) = HowMany(pend', Of(d)) + (IF pend[0 + 1] \in Of(d) THEN 1 ELSE 0)
      BY <1>3, <2>1, OneMoreCounts
    <3>2. pend[0 + 1] \in Of(d) <=> d = e[2]
      BY <2>1 DEF Of
    <3>3. fires'[d] = fires[d] + (IF d = e[2] THEN 1 ELSE 0)
      <4>1. fires \in [Clients -> Nat] /\ e[2] \in Clients
        BY <2>1 DEF TimerTypes
      <4> QED BY ONLY <2>2, <4>1, d \in Clients
    <3>4. HowMany(pend, Of(d)) + fires[d] = Taken(d) /\ HowMany(pend', Of(d)) \in Nat
      BY <2>1, ManyIsNat DEF Told
    <3> QED BY ONLY <1>3, d \in Clients, <3>1, <3>2, <3>3, <3>4
  <2>4. \A d \in Clients : Taken(d)' = Taken(d)
    BY <2>2 DEF Taken
  <2> QED BY <2>3, <2>4 DEF Told
<1> QED BY <1>1, <1>2, <1>4, <1>5, TimerSteps

(* A request that is put on the list is not told before it is due. *)
LEMMA NotBefore ==
  ASSUME TimerSizes, TimerTypes, NEW d \in Nat, NEW t \in now .. Horizon, NEW o \in Times,
         o <= Until(now + d), t < o, NEW n \in now .. t
  PROVE  n % LowWord < Until(Clock + d)
<1>1. /\ now \in Nat /\ Horizon \in Nat /\ Clock \in Nat /\ t \in Nat /\ n \in Nat
      /\ n >= now /\ n <= t /\ LowWord \in Nat \ {0} /\ Clock = now % LowWord /\ o \in Nat
  BY NowIsNat DEF Clock, TimerSizes, Times
<1>2. t < now + d /\ t < Horizon
  <2>1. PICK u \in Nat : u = Until(now + d) /\ (u <= now + d) /\ u <= Horizon
    BY <1>1, UntilIs DEF Times
  <2>2. t < u
    BY ONLY <1>1, <2>1, o <= Until(now + d), t < o
  <2> QED BY ONLY <1>1, <2>1, <2>2, d \in Nat
<1>3. PICK m \in Nat : m = n % LowWord
  BY <1>1, LowWordLow
<1>4. m <= Clock + (n - now)
  BY <1>1, <1>3, LowWordSlow
<1>5. m <= n
  BY <1>1, <1>3, LowWordLow
<1>6. m < Clock + d /\ m < Horizon
  BY ONLY <1>1, <1>2, <1>3, <1>4, <1>5, d \in Nat
<1>7. m < Until(Clock + d)
  BY <1>6 DEF Until
<1> QED BY <1>3, <1>7

LEMMA HeldBackStep ==
  ASSUME TimerSizes, TimerTypes, Lag, HeldBack, [TimerNext]_tivars PROVE HeldBack'
<1>1. pend \in Seq(Times \X Clients) /\ now \in Nat /\ Horizon \in Nat /\ Times \subseteq Nat
  BY NowIsNat DEF TimerTypes, Times
<1>2. ASSUME NEW c \in Clients, NEW t \in now .. Horizon
      PROVE  /\ Cardinality(Late(c, t)) <= HowMany(pend, Waits(c, t)) /\ HowMany(pend, Waits(c, t)) \in Nat
             /\ IsFiniteSet(Late(c, t)) /\ Cardinality(Late(c, t)) \in Nat
  <2>1. IsFiniteSet(Late(c, t)) /\ Cardinality(Late(c, t)) \in Nat
    <3>1. Late(c, t) \subseteq 1 .. Taken(c)
      BY DEF Late
    <3> QED BY <3>1, TakenIs, LateIsFinite
  <2>2. HowMany(pend, Waits(c, t)) \in Nat
    BY <1>1, ManyIsNat
  <2> QED BY <2>1, <2>2 DEF HeldBack
<1>3. CASE Aside
  BY <1>3 DEF Aside, HeldBack, Late, Taken, Waits
<1>4. CASE TimePasses
  <2>1. box' = box /\ owed' = owed /\ pend' = pend /\ now' = now + 1
    BY <1>4 DEF TimePasses, mine
  <2>2. ASSUME NEW c \in Clients, NEW t \in now + 1 .. Horizon
        PROVE  Cardinality(Late(c, t))' <= HowMany(pend, Waits(c, t)')
    <3>1. Late(c, t)' = Late(c, t)
      BY <2>1 DEF Late, Taken
    <3>2. t \in now .. Horizon
      BY <1>1
    <3>3. now + 1 .. t \subseteq now .. t
      BY <1>1
    <3>4. \A x \in Times \X Clients : x \in Waits(c, t) => x \in Waits(c, t)'
      BY <2>1, <3>3 DEF Waits, Of
    <3>5. PICK P, Q : P = Waits(c, t) /\ Q = Waits(c, t)'
      OBVIOUS
    <3>6. HowMany(pend, P) <= HowMany(pend, Q) /\ HowMany(pend, Q) \in Nat
      BY <1>1, <3>4, <3>5, ManyGrows, ManyIsNat
    <3>7. PICK i, j, k \in Nat : i = Cardinality(Late(c, t)) /\ j = HowMany(pend, P) /\ k = HowMany(pend, Q)
      BY <1>2, <3>2, <3>5, <3>6
    <3>8. i <= j /\ j <= k
      BY <1>2, <3>2, <3>5, <3>6, <3>7
    <3>9. i <= k
      BY ONLY <3>8, i \in Nat, j \in Nat, k \in Nat
    <3> QED BY <3>1, <3>5, <3>7, <3>9
  <2> QED BY <2>1, <2>2 DEF HeldBack
<1>5. ASSUME NEW c \in Clients, NEW ms \in Delays, After(c, ms) PROVE HeldBack'
  <2>1. pend' = pend /\ now' = now
    BY <1>5 DEF After, mine
  <2>2. ASSUME NEW d \in Clients, NEW t PROVE Late(d, t)' = Late(d, t)
    <3>1. Taken(d)' = Taken(d) /\ \A i \in 1 .. Len(owed[d]) : owed'[d][i] = owed[d][i]
      BY <1>5, AsksMore
    <3>2. 1 .. Taken(d) \subseteq 1 .. Len(owed[d])
      BY TakenIs
    <3> QED BY <3>1, <3>2 DEF Late
  <2>3. \A d, t : Waits(d, t)' = Waits(d, t)
    BY <2>1 DEF Waits
  <2> QED BY <2>1, <2>2, <2>3 DEF HeldBack
<1>6. ASSUME NEW c \in Clients, DoAfter(c) PROVE HeldBack'
  <2>1. PICK ms \in Delays : ms = Head(box[c])
    BY <1>6, TakesOne
  <2>2. PICK w \in Nat : w = ms * TicksPerMs
    BY Ticks
  <2>3. PICK dl \in Times, k \in Nat : /\ dl = Until(Clock + w)
                               /\ pend' \in Seq(Times \X Clients) /\ OneMore(pend', pend, k)
                               /\ pend'[k + 1] = <<dl, c>>
    BY <1>6, <2>1, <2>2, Puts
  <2>4. now' = now /\ owed' = owed
    BY <1>6 DEF DoAfter
  <2>5. \A d, t : Waits(d, t)' = Waits(d, t)
    BY <2>4 DEF Waits
  <2>6. PICK q : q = pend'
    OBVIOUS
  <2>7. ASSUME NEW d \in Clients, NEW t \in now .. Horizon
        PROVE  Cardinality(Late(d, t)') <= HowMany(q, Waits(d, t))
    <3>1. PICK P : P = Waits(d, t)
      OBVIOUS
    <3>2. PICK L, M : L = Late(d, t) /\ M = Late(d, t)'
      OBVIOUS
    <3>3. PICK h \in Nat : h = HowMany(pend, P)
      BY <1>2, <3>1
    <3>4. IsFiniteSet(L) /\ Cardinality(L) \in Nat /\ Cardinality(L) <= h
      BY <1>2, <3>1, <3>2, <3>3
    <3>5. HowMany(q, P) = h + (IF <<dl, c>> \in P THEN 1 ELSE 0)
      <4>1. PICK S : S = Times \X Clients
        OBVIOUS
      <4>2. q \in Seq(S) /\ pend \in Seq(S) /\ OneMore(q, pend, k) /\ q[k + 1] = <<dl, c>>
        BY <1>1, <2>3, <2>6, <4>1
      <4>3. HowMany(q, P) = HowMany(pend, P) + (IF q[k + 1] \in P THEN 1 ELSE 0)
        BY ONLY <4>2, OneMoreCounts
      <4> QED BY ONLY <3>3, <4>2, <4>3
    <3>6. Taken(d)' = Taken(d) + (IF d = c THEN 1 ELSE 0) /\ Taken(d) \in Nat
      BY <1>6, TakesOne, TakenIs
    <3>7. M = {i \in 1 .. Taken(d)' : owed[d][i] > t}
      BY <2>4, <3>2 DEF Late
    <3>8. CASE M \subseteq L
      <4>1. Cardinality(M) <= Cardinality(L) /\ Cardinality(M) \in Nat
        BY ONLY <3>4, <3>8, FS_Subset, FS_CardinalityType
      <4>2. Cardinality(M) <= h + (IF <<dl, c>> \in P THEN 1 ELSE 0)
        BY ONLY <3>4, <4>1, h \in Nat
      <4> QED BY <3>1, <3>2, <3>5, <4>2
    <3>9. CASE ~(M \subseteq L)
      <4>1. PICK i \in M : i \notin L
        BY <3>9
      <4>2. d = c /\ i = Taken(d) + 1 /\ owed[d][i] > t /\ M = L \cup {i}
        <5>1. i \in 1 .. Taken(d)' /\ owed[d][i] > t
          BY <3>7, <4>1
        <5>2. L = {j \in 1 .. Taken(d) : owed[d][j] > t}
          BY <3>2 DEF Late
        <5>3. d = c /\ i = Taken(d) + 1
          BY <3>6, <4>1, <5>1, <5>2
        <5>4. 1 .. Taken(d)' = 1 .. Taken(d) \cup {i}
          BY <3>6, <5>3
        <5>5. M = L \cup {i}
          BY ONLY <3>7, <5>1, <5>2, <5>4
        <5> QED BY <5>1, <5>3, <5>5
      <4>3. Cardinality(M) = Cardinality(L) + 1
        BY ONLY <3>4, <4>1, <4>2, FS_AddElement
      <4>4. <<dl, c>> \in P
        <5>1. owed[c][i] <= Until(now + w) /\ owed[c][i] \in Times
          <6>1. 1 \in 1 .. Len(box[c]) /\ box[c][1] = ms
            BY <1>6, <2>1, TakesOne, TakenIs
          <6>2. owed[c][i] <= Until(now + w)
            BY <2>2, <4>2, <6>1 DEF Lag
          <6>3. i \in 1 .. Len(owed[c])
            BY <4>2, <6>1, TakenIs
          <6> QED BY <6>2, <6>3, TakenIs
        <5>2. \A n \in now .. t : n % LowWord < dl
          BY <2>3, <4>2, <5>1, NotBefore
        <5> QED BY <3>1, <4>2, <5>2 DEF Waits, Of
      <4>5. Cardinality(M) <= h + 1
        BY ONLY <3>4, <4>3, h \in Nat
      <4> QED BY <3>1, <3>2, <3>5, <4>4, <4>5
    <3> QED BY <3>8, <3>9
  <2> QED BY <2>4, <2>5, <2>6, <2>7 DEF HeldBack
<1>7. ASSUME NEW e, Tells(e) PROVE HeldBack'
  <2>1. e \in Times \X Clients /\ pend' \in Seq(Times \X Clients) /\ OneMore(pend, pend', 0) /\ pend[1] = e
    BY <1>7, TellsOne
  <2>2. box' = box /\ owed' = owed /\ now' = now /\ Clock >= e[1]
    BY <1>7 DEF Tells
  <2>3. \A d, t : Waits(d, t)' = Waits(d, t) /\ Late(d, t)' = Late(d, t)
    BY <2>2 DEF Waits, Late, Taken
  <2>4. ASSUME NEW d \in Clients, NEW t \in now .. Horizon
        PROVE  HowMany(pend', Waits(d, t)) = HowMany(pend, Waits(d, t))
    <3>1. PICK q, S, P : q = pend' /\ S = Times \X Clients /\ P = Waits(d, t)
      OBVIOUS
    <3>2. e \notin P
      <4>1. now \in now .. t /\ Clock = now % LowWord
        BY <1>1 DEF Clock
      <4>2. e[1] \in Nat /\ Clock \in Nat
        BY <1>1, <2>1, NowIsNat
      <4>3. ~(now % LowWord < e[1])
        BY ONLY <2>2, <4>1, <4>2
      <4> QED BY <3>1, <4>1, <4>3 DEF Waits
    <3>3. q \in Seq(S) /\ pend \in Seq(S) /\ OneMore(pend, q, 0) /\ pend[0 + 1] = e
      BY <1>1, <2>1, <3>1
    <3>4. HowMany(pend, P) = HowMany(q, P) + (IF pend[0 + 1] \in P THEN 1 ELSE 0) /\ HowMany(q, P) \in Nat
      <4>1. HowMany(q, P) \in Nat
        BY ONLY <3>3, ManyIsNat
      <4>2. HowMany(pend, P) = HowMany(q, P) + (IF pend[0 + 1] \in P THEN 1 ELSE 0)
        BY <3>3, OneMoreCounts
      <4> QED BY <4>1, <4>2
    <3>5. HowMany(pend, P) = HowMany(q, P)
      BY ONLY <3>2, <3>3, <3>4
    <3> QED BY <3>1, <3>5
  <2> QED BY <2>2, <2>3, <2>4 DEF HeldBack
<1> QED BY <1>3, <1>4, <1>5, <1>6, <1>7, TimerSteps

(* So nobody was told before the time. *)
LEMMA NobodyEarly == ASSUME TimerSizes, TimerTypes, Lag, Told, HeldBack PROVE NeverEarly
<1> SUFFICES ASSUME NEW c \in Clients
             PROVE  fires[c] <= Cardinality({i \in DOMAIN owed[c] : owed[c][i] <= now})
  BY DEF NeverEarly
<1>1. PICK N \in Nat : N = Taken(c) /\ N <= Len(owed[c]) /\ Len(owed[c]) \in Nat
  BY TakenIs
<1>2. PICK A, B, L : /\ A = {i \in DOMAIN owed[c] : owed[c][i] <= now}
                     /\ L = {i \in 1 .. N : owed[c][i] > now} /\ B = (1 .. N) \ L
  OBVIOUS
<1>3. DOMAIN owed[c] = 1 .. Len(owed[c]) /\ \A i \in 1 .. Len(owed[c]) : owed[c][i] \in Nat
  BY TakenIs, NowIsNat DEF Times
<1>4. A \subseteq 1 .. Len(owed[c]) /\ B \subseteq A
  BY <1>1, <1>2, <1>3, NowIsNat
<1>5. IsFiniteSet(1 .. N) /\ Cardinality(1 .. N) = N /\ IsFiniteSet(A) /\ Cardinality(A) \in Nat
      /\ IsFiniteSet(L) /\ Cardinality(L) \in Nat
  <2>1. IsFiniteSet(1 .. N) /\ Cardinality(1 .. N) = N
    BY FS_Interval
  <2>2. L \subseteq 1 .. N
    BY <1>2
  <2> QED BY <1>1, <1>4, <2>1, <2>2, LateIsFinite
<1>6. Cardinality(B) = N - Cardinality(L)
  <2>1. (1 .. N) \cap L = L
    BY <1>2
  <2>2. PICK D : D = 1 .. N
    OBVIOUS
  <2>3. Cardinality(D \ L) = Cardinality(D) - Cardinality(D \cap L)
    BY <1>5, <2>2, FS_Difference
  <2> QED BY ONLY <1>2, <1>5, <2>1, <2>2, <2>3
<1>7. Cardinality(B) <= Cardinality(A)
  BY ONLY <1>4, <1>5, FS_Subset
<1>8. PICK P, Q : P = Waits(c, now) /\ Q = Of(c)
  OBVIOUS
<1>9. now \in now .. Horizon /\ L = Late(c, now)
  BY <1>1, <1>2, NowIsNat DEF Late
<1>10. pend \in Seq(Times \X Clients) /\ \A x \in Times \X Clients : x \in P => x \in Q
  BY <1>8 DEF TimerTypes, Waits
<1>11. PICK h, m \in Nat : h = HowMany(pend, P) /\ m = HowMany(pend, Q) /\ h <= m
  BY <1>10, ManyGrows, ManyIsNat
<1>12. Cardinality(L) <= h
  BY <1>8, <1>9, <1>11 DEF HeldBack
<1>13. m + fires[c] = N /\ fires[c] \in Nat
  BY <1>1, <1>8, <1>11 DEF Told, TimerTypes
<1>14. fires[c] <= Cardinality(B)
  BY ONLY <1>5, <1>6, <1>11, <1>12, <1>13, N \in Nat
<1>15. fires[c] <= Cardinality(A)
  BY ONLY <1>5, <1>6, <1>7, <1>13, <1>14, N \in Nat
<1> QED BY <1>2, <1>15

(* Whatever the clients ask for, over both backends and with a clock of any  *)
(* width: nobody is told before the request is due, and while somebody waits *)
(* the service runs, is armed for, or will be poked.                         *)
THEOREM TimersNeverEarly == ASSUME TimerSizes PROVE TimerSpec => []TimersKept
<1>1. TimerInit => ServiceInv
  <2> SUFFICES ASSUME TimerInit PROVE ServiceInv
    OBVIOUS
  <2>1. TimerTypes /\ Lag /\ SomethingComes
    BY Starts
  <2>2. \A c \in Clients : box[c] = <<>> /\ owed[c] = <<>> /\ fires[c] = 0 /\ pend = <<>>
    BY DEF TimerInit
  <2>3. \A c \in Clients : Taken(c) = 0
    BY <2>2 DEF Taken
  <2>4. \A P : HowMany(pend, P) = 0
    <3>1. \A P : {i \in 1 .. Len(pend) : pend[i] \in P} = {}
      BY DEF TimerInit
    <3> QED BY <3>1, FS_EmptySet DEF HowMany
  <2>5. Told
    BY <2>2, <2>3, <2>4 DEF Told
  <2>6. \A c \in Clients : \A t : Cardinality(Late(c, t)) = 0
    <3>1. \A c \in Clients : \A t : Late(c, t) = {}
      BY <2>3 DEF Late
    <3> QED BY <3>1, FS_EmptySet
  <2>7. HeldBack
    BY <2>4, <2>6 DEF HeldBack
  <2> QED BY <2>1, <2>5, <2>7 DEF ServiceInv
<1>2. ServiceInv /\ [TimerNext]_tivars => ServiceInv'
  BY TimerTypesStep, ComesStep, LagStep, ToldStep, HeldBackStep DEF ServiceInv
<1>3. ServiceInv => TimersKept
  BY NobodyEarly DEF ServiceInv, TimersKept
<1> QED BY <1>1, <1>2, <1>3, PTL DEF TimerSpec
=============================================================================

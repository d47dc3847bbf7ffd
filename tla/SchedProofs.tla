---------------------------- MODULE SchedProofs ----------------------------
(***************************************************************************)
(* Theorems about the scheduler plane, for any number of actors and harts  *)
(* and any lengths of its queues: type correctness, which includes that    *)
(* g_blocked never goes below zero; pinned actors never leave their hart;  *)
(* and so, when everybody is pinned, an actor runs on one hart at a time.  *)
(* Then the lists: every actor has one entry at most, migrating or not;    *)
(* and, when everybody is pinned, or nobody waits in receive, no runnable  *)
(* actor is forgotten and none is reaped that may run.  Actors that wait   *)
(* and migrate do not keep the rest: run sc_migrates.                      *)
(***************************************************************************)
EXTENDS Sched, FiniteSetTheorems, TLAPS

USE SchedAssumption

----------------------------------------------------------------------------
(* Sequences: what a queue holds after one operation on it.                *)

LEMMA Updated ==
  ASSUME NEW D, NEW R, NEW f \in [D -> R], NEW d \in D, NEW e \in R
  PROVE  /\ [f EXCEPT ![d] = e] \in [D -> R]
         /\ \A x \in D : [f EXCEPT ![d] = e][x] = IF x = d THEN e ELSE f[x]
OBVIOUS

LEMMA AppendHolds ==
  ASSUME NEW S, NEW s \in Seq(S), NEW e \in S
  PROVE  /\ Append(s, e) \in Seq(S)
         /\ ToSet(Append(s, e)) \subseteq ToSet(s) \cup {e}
BY DEF ToSet

LEMMA HeadTailHold ==
  ASSUME NEW S, NEW s \in Seq(S), s # <<>>
  PROVE  /\ Head(s) \in S /\ Head(s) \in ToSet(s)
         /\ Tail(s) \in Seq(S) /\ ToSet(Tail(s)) \subseteq ToSet(s)
BY DEF ToSet

LEMMA RemoveAtHolds ==
  ASSUME NEW S, NEW s \in Seq(S), NEW i \in DOMAIN s
  PROVE  /\ s[i] \in S /\ s[i] \in ToSet(s)
         /\ RemoveAt(s, i) \in Seq(S)
         /\ ToSet(RemoveAt(s, i)) \subseteq ToSet(s)
<1>1. i \in 1..Len(s) /\ Len(s) \in Nat
  OBVIOUS
<1>2. SubSeq(s, 1, i - 1) \in Seq(S) /\ SubSeq(s, i + 1, Len(s)) \in Seq(S)
  BY <1>1
<1>3. ToSet(SubSeq(s, 1, i - 1)) \subseteq ToSet(s)
  BY <1>1 DEF ToSet
<1>4. ToSet(SubSeq(s, i + 1, Len(s))) \subseteq ToSet(s)
  BY <1>1 DEF ToSet
<1>5. /\ RemoveAt(s, i) \in Seq(S)
      /\ ToSet(RemoveAt(s, i)) \subseteq
           ToSet(SubSeq(s, 1, i - 1)) \cup ToSet(SubSeq(s, i + 1, Len(s)))
  <2> DEFINE u == SubSeq(s, 1, i - 1)
             v == SubSeq(s, i + 1, Len(s))
  <2>1. u \in Seq(S) /\ v \in Seq(S)
    BY <1>2
  <2>2. RemoveAt(s, i) = u \o v
    BY DEF RemoveAt
  <2> HIDE DEF u, v
  <2>3. u \o v \in Seq(S) /\ ToSet(u \o v) \subseteq ToSet(u) \cup ToSet(v)
    BY <2>1 DEF ToSet
  <2> QED BY <2>2, <2>3 DEF u, v
<1>6. s[i] \in S /\ s[i] \in ToSet(s)
  BY <1>1 DEF ToSet
<1> QED
  BY <1>3, <1>4, <1>5, <1>6

----------------------------------------------------------------------------
(* The inductive invariant.  Placed: the hart word, and the copy of it     *)
(* that ship read, of a pinned actor are its home, and so is every hart it *)
(* is found on.  Counted: g_blocked is the number of parked actors, those  *)
(* still on their way to the scheduler included.                           *)
AtHome ==
  /\ \A a \in Pin : hart[a] = Home[a]
  /\ \A a \in Actors : pc[a] = "xpush" /\ to[a] \in Pin => dst[a] = Home[to[a]]
Placed == AtHome /\ PinnedStay
IsParked == {a \in Actors : pc[a] \in {"parking", "parked"}}
Counted == blocked = Cardinality(IsParked)

SchedInv == TypeOK /\ Placed /\ Counted

(* What the lists must satisfy, apart from the rest of the state. *)
ListsOK ==
  /\ inbl \in [Actors -> BOOLEAN] /\ bl \in [Harts -> Seq(Actors)]
  /\ ring \in Seq(Actors)
  /\ \A a \in Pin : a \notin ToSet(ring)
                    /\ \A h \in Harts : a \in ToSet(bl[h]) => h = Home[a]

Statuses == {"READY", "BLOCKED", "DEAD"}

LEMMA Types ==
  ASSUME SchedInv
  PROVE  /\ var \in [Actors -> Statuses] /\ mail \in [Actors -> Nat]
         /\ ops \in [Actors -> Nat] /\ pc \in [Actors -> Pcs] /\ to \in [Actors -> Actors]
         /\ hart \in [Actors -> Harts] /\ dst \in [Actors -> Harts]
BY DEF SchedInv, TypeOK, Statuses

LEMMA ListTypes ==
  ASSUME SchedInv
  PROVE  /\ bl \in [Harts -> Seq(Actors)] /\ rq \in [Harts -> Seq(Actors)]
         /\ xr \in [Harts -> [Harts -> Seq(Actors)]] /\ ring \in Seq(Actors)
         /\ inbl \in [Actors -> BOOLEAN] /\ inrq \in [Actors -> BOOLEAN]
         /\ reaped \subseteq Actors
BY DEF SchedInv, TypeOK

LEMMA ActorSetFinite ==
  ASSUME NEW S, S \subseteq Actors
  PROVE  IsFiniteSet(S) /\ Cardinality(S) \in Nat
<1>1. IsFiniteSet(S)
  BY FS_Subset
<1> QED BY <1>1, FS_CardinalityType

LEMMA IsParkedFinite == IsFiniteSet(IsParked) /\ Cardinality(IsParked) \in Nat
<1>1. IsParked \subseteq Actors
  BY DEF IsParked
<1> QED BY <1>1, ActorSetFinite

(* Listing an actor on its own hart, donation included. *)
LEMMA EnqLists ==
  ASSUME TypeOK, Placed, NEW h \in Harts, NEW a \in Actors,
         a \in Pin => h = Home[a], Enq(h, a)
  PROVE  ListsOK'
<1> DEFINE q == Append(bl[h], a)
           D == Donatable(h, q)
<1>1. /\ bl \in [Harts -> Seq(Actors)] /\ bl[h] \in Seq(Actors)
      /\ inbl \in [Actors -> BOOLEAN] /\ ring \in Seq(Actors)
  BY DEF TypeOK
<1>2. \A x \in Pin : x \notin ToSet(ring) /\ \A k \in Harts : x \in ToSet(bl[k]) => k = Home[x]
  BY DEF Placed, PinnedStay
<1>3. q \in Seq(Actors) /\ ToSet(q) \subseteq ToSet(bl[h]) \cup {a}
  BY <1>1, AppendHolds
<1>4. \A x \in Pin : x \in ToSet(q) => h = Home[x]
  BY <1>2, <1>3
<1> HIDE DEF q, D
<1>5. CASE UNCHANGED lists
  BY <1>1, <1>2, <1>5 DEF ListsOK, lists
<1>6. CASE /\ bl' = [bl EXCEPT ![h] = q]
           /\ inbl' = [inbl EXCEPT ![a] = TRUE]
           /\ UNCHANGED ring
  BY <1>1, <1>2, <1>3, <1>4, <1>6, SMTT(30) DEF ListsOK
<1>7. CASE \E i \in Oldest(D) :
             /\ bl' = [bl EXCEPT ![h] = RemoveAt(q, i)]
             /\ inbl' = [inbl EXCEPT ![a] = TRUE, ![q[i]] = FALSE]
             /\ ring' = Append(ring, q[i])
  <2>1. PICK i \in Oldest(D) : /\ bl' = [bl EXCEPT ![h] = RemoveAt(q, i)]
                               /\ inbl' = [inbl EXCEPT ![a] = TRUE, ![q[i]] = FALSE]
                               /\ ring' = Append(ring, q[i])
    BY <1>7
  <2>2. i \in DOMAIN q /\ q[i] \notin Pin
    BY DEF Oldest, D, Donatable
  <2>3. /\ q[i] \in Actors /\ RemoveAt(q, i) \in Seq(Actors)
        /\ ToSet(RemoveAt(q, i)) \subseteq ToSet(q)
    BY <1>3, <2>2, RemoveAtHolds
  <2>4. ring' \in Seq(Actors) /\ ToSet(ring') \subseteq ToSet(ring) \cup {q[i]}
    BY <1>1, <2>1, <2>3, AppendHolds
  <2>5. inbl' \in [Actors -> BOOLEAN] /\ bl' \in [Harts -> Seq(Actors)]
    BY <1>1, <2>1, <2>3
  <2>6. \A x \in Pin, k \in Harts : x \in ToSet(bl'[k]) => k = Home[x]
    BY <1>1, <1>2, <1>4, <2>1, <2>3, SMTT(30)
  <2> QED BY <1>2, <2>2, <2>4, <2>5, <2>6 DEF ListsOK
<1> QED BY <1>5, <1>6, <1>7 DEF Enq, q, D

----------------------------------------------------------------------------
LEMMA SchedInit == Init => SchedInv
<1> SUFFICES ASSUME Init PROVE SchedInv
  OBVIOUS
<1>1. IsParked = Parked
  BY DEF Init, IsParked
<1>2. blocked = Cardinality(IsParked)
  BY <1>1 DEF Init
<1>3. TypeOK
  BY <1>2, IsParkedFinite DEF Init, TypeOK, Pcs
<1>4. \A h \in Harts : \A x \in ToSet(Listed[h]) : Home[x] = h
  BY DEF ToSet
<1>5. ToSet(<<>>) = {}
  BY DEF ToSet
<1>6. PinnedStay
  BY <1>4, <1>5 DEF Init, PinnedStay
<1>7. AtHome
  BY DEF Init, AtHome
<1> QED BY <1>2, <1>3, <1>6, <1>7 DEF SchedInv, Placed, Counted

----------------------------------------------------------------------------
(* One lemma per action of a hart's loop. *)

(* An actor that moves between labels that are not parked. *)
LEMMA StillParked ==
  ASSUME TypeOK, Counted, NEW a \in Actors, NEW l \in Pcs,
         pc' = [pc EXCEPT ![a] = l] \/ pc' = pc, blocked' = blocked,
         pc[a] \notin {"parking", "parked"}, l \notin {"parking", "parked"}
  PROVE  Counted'
<1>1. pc \in [Actors -> Pcs]
  BY DEF TypeOK
<1>2. \A b \in Actors : pc'[b] = pc[b] \/ (b = a /\ pc'[b] = l)
  BY <1>1
<1>3. IsParked' = IsParked
  BY <1>1, <1>2 DEF IsParked
<1> QED BY <1>3 DEF Counted

LEMMA CountedFrame ==
  ASSUME Counted, UNCHANGED <<pc, blocked>> PROVE Counted'
BY DEF Counted, IsParked

LEMMA LoopTurn ==
  ASSUME SchedInv, NEW h \in Harts, Drained(h) \/ Refilled(h) \/ DeqEmpty(h) \/ NoSteal(h)
  PROVE  SchedInv'
<1>1. /\ UNCHANGED <<hart, inrq, rq, xr, lists, current, actors, reaped>>
      /\ \E l \in {"drain", "refill", "deq", "steal"} : hpc' = [hpc EXCEPT ![h] = l]
  BY DEF Drained, Refilled, DeqEmpty, NoSteal, HGoto
<1>2. TypeOK'
  <2>1. PICK l \in {"drain", "refill", "deq", "steal"} : hpc' = [hpc EXCEPT ![h] = l]
    BY <1>1
  <2>2. hpc' \in [Harts -> {"drain", "refill", "deq", "steal"}]
    BY <2>1 DEF SchedInv, TypeOK
  <2> QED BY <1>1, <2>2 DEF SchedInv, TypeOK, actors, lists
<1>3. Placed'
  BY <1>1 DEF SchedInv, Placed, AtHome, PinnedStay, actors, lists
<1>4. Counted'
  BY <1>1, CountedFrame DEF SchedInv, actors
<1> QED BY <1>2, <1>3, <1>4 DEF SchedInv

LEMMA DrainStep ==
  ASSUME SchedInv, NEW h \in Harts, Drain(h) PROVE SchedInv'
<1>1. PICK s \in Inbound(h) :
        Enq(h, Head(xr[s][h])) /\ xr' = [xr EXCEPT ![s][h] = Tail(@)]
  BY DEF Drain
<1>2. s \in Harts /\ xr[s][h] # <<>> /\ xr[s][h] \in Seq(Actors)
  BY DEF Inbound, SchedInv, TypeOK
<1> DEFINE a == Head(xr[s][h])
<1>3. /\ a \in Actors /\ a \in ToSet(xr[s][h])
      /\ Tail(xr[s][h]) \in Seq(Actors) /\ ToSet(Tail(xr[s][h])) \subseteq ToSet(xr[s][h])
  BY <1>2, HeadTailHold
<1>4. a \in Pin => h = Home[a]
  BY <1>2, <1>3 DEF SchedInv, Placed, PinnedStay
<1>5. ListsOK'
  BY <1>1, <1>3, <1>4, EnqLists DEF SchedInv
<1>6. UNCHANGED <<hart, inrq, rq, current, hpc, actors, reaped>>
  BY DEF Drain
<1>7. /\ xr' \in [Harts -> [Harts -> Seq(Actors)]]
      /\ \A j, k \in Harts : ToSet(xr'[j][k]) \subseteq ToSet(xr[j][k])
  <2>0. xr \in [Harts -> [Harts -> Seq(Actors)]]
    BY ListTypes
  <2>1. xr' = [xr EXCEPT ![s] = [xr[s] EXCEPT ![h] = Tail(xr[s][h])]]
    BY <1>1
  <2>2. [xr[s] EXCEPT ![h] = Tail(xr[s][h])] \in [Harts -> Seq(Actors)]
    BY <2>0, <1>2, <1>3
  <2>3. xr' \in [Harts -> [Harts -> Seq(Actors)]]
    BY <2>0, <2>1, <2>2
  <2>4. \A j, k \in Harts : xr'[j][k] = IF j = s /\ k = h THEN Tail(xr[s][h]) ELSE xr[j][k]
    <3>1. \A j \in Harts : xr'[j] = IF j = s THEN [xr[s] EXCEPT ![h] = Tail(xr[s][h])] ELSE xr[j]
      BY <2>0, <2>1
    <3>2. xr[s] \in [Harts -> Seq(Actors)]
      BY <2>0, <1>2
    <3>3. \A k \in Harts : [xr[s] EXCEPT ![h] = Tail(xr[s][h])][k]
                            = IF k = h THEN Tail(xr[s][h]) ELSE xr[s][k]
      BY <3>2, <1>3, Updated, SMTT(30)
    <3> QED BY <3>1, <3>3
  <2> QED BY <2>3, <2>4, <1>3
<1>8. TypeOK'
  BY <1>5, <1>6, <1>7 DEF SchedInv, TypeOK, ListsOK, actors
<1>9. AtHome'
  BY <1>6 DEF SchedInv, Placed, AtHome, actors
<1>10. PinnedStay'
  BY <1>5, <1>6, <1>7 DEF SchedInv, Placed, PinnedStay, ListsOK
<1>11. Counted'
  BY <1>6, CountedFrame DEF SchedInv, actors
<1> QED BY <1>8, <1>9, <1>10, <1>11 DEF SchedInv, Placed

LEMMA UnlinkStep ==
  ASSUME SchedInv, NEW h \in Harts, Unlink(h) PROVE SchedInv'
<1>1. PICK i \in DOMAIN bl[h] :
        /\ bl' = [bl EXCEPT ![h] = RemoveAt(@, i)]
        /\ inbl' = [inbl EXCEPT ![bl[h][i]] = FALSE]
        /\ reaped' = IF var[bl[h][i]] = "DEAD" THEN reaped \cup {bl[h][i]} ELSE reaped
  BY DEF Unlink
<1>2. UNCHANGED <<hart, inrq, rq, xr, ring, current, hpc, actors>>
  BY DEF Unlink
<1>3. bl \in [Harts -> Seq(Actors)] /\ bl[h] \in Seq(Actors)
  BY ListTypes
<1>4. /\ bl[h][i] \in Actors /\ RemoveAt(bl[h], i) \in Seq(Actors)
      /\ ToSet(RemoveAt(bl[h], i)) \subseteq ToSet(bl[h])
  BY <1>3, RemoveAtHolds
<1>5. bl' \in [Harts -> Seq(Actors)] /\ \A k \in Harts : ToSet(bl'[k]) \subseteq ToSet(bl[k])
  <2>1. bl' = [bl EXCEPT ![h] = RemoveAt(bl[h], i)]
    BY <1>1
  <2>2. /\ bl' \in [Harts -> Seq(Actors)]
        /\ \A k \in Harts : bl'[k] = IF k = h THEN RemoveAt(bl[h], i) ELSE bl[k]
    BY <1>3, <1>4, <2>1, Updated
  <2>3. \A k \in Harts : ToSet(bl'[k]) \subseteq ToSet(bl[k])
    <3> SUFFICES ASSUME NEW k \in Harts PROVE ToSet(bl'[k]) \subseteq ToSet(bl[k])
      OBVIOUS
    <3>1. CASE k = h
      BY <3>1, <2>2, <1>4
    <3>2. CASE k # h
      BY <3>2, <2>2
    <3> QED BY <3>1, <3>2
  <2> QED BY <2>2, <2>3
<1>6. TypeOK'
  BY <1>1, <1>2, <1>4, <1>5 DEF SchedInv, TypeOK, actors
<1>7. Placed'
  BY <1>2, <1>5 DEF SchedInv, Placed, AtHome, PinnedStay, actors
<1>8. Counted'
  BY <1>2, CountedFrame DEF SchedInv, actors
<1> QED BY <1>6, <1>7, <1>8 DEF SchedInv

LEMMA AdmitStep ==
  ASSUME SchedInv, NEW h \in Harts, Admit(h) PROVE SchedInv'
<1>1. PICK i \in DOMAIN bl[h] :
        /\ bl' = [bl EXCEPT ![h] = RemoveAt(@, i)]
        /\ inbl' = [inbl EXCEPT ![bl[h][i]] = FALSE]
        /\ rq' = [rq EXCEPT ![h] = Append(@, bl[h][i])]
        /\ inrq' = [inrq EXCEPT ![bl[h][i]] = TRUE]
  BY DEF Admit
<1>2. UNCHANGED <<hart, xr, ring, current, hpc, actors, reaped>>
  BY DEF Admit
<1>3. /\ bl \in [Harts -> Seq(Actors)] /\ bl[h] \in Seq(Actors)
      /\ rq \in [Harts -> Seq(Actors)] /\ rq[h] \in Seq(Actors)
  BY ListTypes, ZenonT(40)
<1>4. /\ bl[h][i] \in Actors /\ RemoveAt(bl[h], i) \in Seq(Actors)
      /\ bl[h][i] \in ToSet(bl[h]) /\ ToSet(RemoveAt(bl[h], i)) \subseteq ToSet(bl[h])
  BY <1>3, RemoveAtHolds
<1>5. bl' \in [Harts -> Seq(Actors)] /\ \A k \in Harts : ToSet(bl'[k]) \subseteq ToSet(bl[k])
  <2>1. bl' = [bl EXCEPT ![h] = RemoveAt(bl[h], i)]
    BY <1>1
  <2>2. /\ bl' \in [Harts -> Seq(Actors)]
        /\ \A k \in Harts : bl'[k] = IF k = h THEN RemoveAt(bl[h], i) ELSE bl[k]
    BY <1>3, <1>4, <2>1, Updated
  <2>3. \A k \in Harts : ToSet(bl'[k]) \subseteq ToSet(bl[k])
    <3> SUFFICES ASSUME NEW k \in Harts PROVE ToSet(bl'[k]) \subseteq ToSet(bl[k])
      OBVIOUS
    <3>1. CASE k = h
      BY <3>1, <2>2, <1>4
    <3>2. CASE k # h
      BY <3>2, <2>2
    <3> QED BY <3>1, <3>2
  <2> QED BY <2>2, <2>3
<1>6. /\ Append(rq[h], bl[h][i]) \in Seq(Actors)
      /\ ToSet(Append(rq[h], bl[h][i])) \subseteq ToSet(rq[h]) \cup {bl[h][i]}
  BY <1>3, <1>4, AppendHolds
<1>7. /\ rq' \in [Harts -> Seq(Actors)]
      /\ \A k \in Harts : \A x \in ToSet(rq'[k]) :
           x \in ToSet(rq[k]) \/ (k = h /\ x \in ToSet(bl[h]))
  <2>1. rq' = [rq EXCEPT ![h] = Append(rq[h], bl[h][i])]
    BY <1>1
  <2>2. rq' \in [Harts -> Seq(Actors)]
        /\ \A k \in Harts : rq'[k] = IF k = h THEN Append(rq[h], bl[h][i]) ELSE rq[k]
    BY <1>3, <1>6, <2>1, Updated
  <2>3. \A k \in Harts : \A x \in ToSet(rq'[k]) :
          x \in ToSet(rq[k]) \/ (k = h /\ x = bl[h][i])
    <3> SUFFICES ASSUME NEW k \in Harts, NEW x \in ToSet(rq'[k])
                 PROVE  x \in ToSet(rq[k]) \/ (k = h /\ x = bl[h][i])
      OBVIOUS
    <3>1. CASE k = h
      BY <3>1, <2>2, <1>6
    <3>2. CASE k # h
      BY <3>2, <2>2
    <3> QED BY <3>1, <3>2
  <2> QED BY <1>4, <2>2, <2>3
<1>8. TypeOK'
  BY <1>1, <1>2, <1>4, <1>5, <1>7 DEF SchedInv, TypeOK, actors
<1>9. Placed'
  BY <1>2, <1>5, <1>7, SMTT(30) DEF SchedInv, Placed, AtHome, PinnedStay, actors
<1>10. Counted'
  BY <1>2, CountedFrame DEF SchedInv, actors
<1> QED BY <1>8, <1>9, <1>10 DEF SchedInv

LEMMA DeqStep ==
  ASSUME SchedInv, NEW h \in Harts, Deq(h) PROVE SchedInv'
<1> DEFINE a == Head(rq[h])
<1>1. rq \in [Harts -> Seq(Actors)] /\ rq[h] \in Seq(Actors) /\ rq[h] # <<>>
  BY ListTypes DEF Deq
<1>2. /\ a \in Actors /\ a \in ToSet(rq[h])
      /\ Tail(rq[h]) \in Seq(Actors) /\ ToSet(Tail(rq[h])) \subseteq ToSet(rq[h])
  BY <1>1, HeadTailHold
<1> HIDE DEF a
<1>3. /\ rq' = [rq EXCEPT ![h] = Tail(@)]
      /\ inrq' = [inrq EXCEPT ![a] = FALSE]
      /\ UNCHANGED <<var, hart, lists, xr, hpc, to, dst, mail, ops>>
  BY DEF Deq, a
<1>4. rq' \in [Harts -> Seq(Actors)] /\ \A k \in Harts : ToSet(rq'[k]) \subseteq ToSet(rq[k])
  BY <1>1, <1>2, <1>3, SMTT(30)
<1>5. CASE var[a] = "READY"
  <2>1. /\ current' = [current EXCEPT ![h] = a]
        /\ pc' = [pc EXCEPT ![a] = IF @ = "parked" THEN "user" ELSE @]
        /\ blocked' = IF pc[a] = "parked" THEN blocked - 1 ELSE blocked
        /\ UNCHANGED reaped
    BY <1>5 DEF Deq, a
  <2>2. Counted'
    <3>1. CASE pc[a] = "parked"
      <4>1. IsParked' = IsParked \ {a} /\ a \in IsParked
        <5>1. pc \in [Actors -> Pcs]
          BY Types
        <5>2. \A b \in Actors : pc'[b] = IF b = a THEN "user" ELSE pc[b]
          BY <5>1, <1>2, <2>1, <3>1
        <5> QED BY <5>2, <1>2, <3>1 DEF IsParked
      <4> QED
        BY <2>1, <3>1, <4>1, IsParkedFinite, FS_RemoveElement DEF SchedInv, Counted
    <3>2. CASE pc[a] # "parked"
      <4>1. pc' = pc /\ blocked' = blocked
        BY <1>2, <2>1, <3>2 DEF SchedInv, TypeOK
      <4> QED BY <4>1, CountedFrame DEF SchedInv
    <3> QED BY <3>1, <3>2
  <2>3. blocked' \in Nat
    <3>1. IsParked' \subseteq Actors
      BY DEF IsParked
    <3> QED BY <2>2, <3>1, ActorSetFinite DEF Counted
  <2>4. TypeOK'
    <3>1. pc' \in [Actors -> Pcs]
      <4>1. pc \in [Actors -> Pcs] /\ (IF pc[a] = "parked" THEN "user" ELSE pc[a]) \in Pcs
        <5>1. pc \in [Actors -> Pcs] /\ pc[a] \in Pcs
          BY <1>2, Types
        <5>2. "user" \in Pcs
          BY DEF Pcs
        <5> QED BY ONLY <5>1, <5>2, Zenon
      <4> QED BY <4>1, <1>2, <2>1, Updated
    <3>2. current' \in [Harts -> Actors \cup {None}] /\ inrq' \in [Actors -> BOOLEAN]
      BY <1>2, <1>3, <2>1 DEF SchedInv, TypeOK
    <3> QED BY <1>3, <1>4, <2>1, <2>3, <3>1, <3>2 DEF SchedInv, TypeOK, lists
  <2>5. \A b \in Actors : pc'[b] = "xpush" => pc[b] = "xpush"
    BY <1>2, <2>1 DEF SchedInv, TypeOK
  <2>6. AtHome'
    BY <1>3, <2>5 DEF SchedInv, Placed, AtHome
  <2>7. \A k \in Harts : current'[k] = current[k] \/ (k = h /\ current'[k] \in ToSet(rq[h]))
    BY <1>2, <2>1 DEF SchedInv, TypeOK
  <2>8. PinnedStay'
    <3>1. PinnedStay
      BY DEF SchedInv, Placed
    <3>2. bl' = bl /\ xr' = xr /\ ring' = ring
      BY <1>3 DEF lists
    <3>3. \A x \in Pin, k \in Harts : current'[k] = x => k = Home[x]
      <4>1. \A x \in Pin, k \in Harts :
              (current[k] = x => k = Home[x]) /\ (x \in ToSet(rq[k]) => k = Home[x])
        BY <3>1 DEF PinnedStay
      <4> QED BY ONLY <2>7, <4>1
    <3>4. \A x \in Pin, k \in Harts : x \in ToSet(rq'[k]) => k = Home[x]
      BY <1>4, <3>1 DEF PinnedStay
    <3> QED BY <3>1, <3>2, <3>3, <3>4 DEF PinnedStay
  <2> QED BY <2>2, <2>4, <2>6, <2>8 DEF SchedInv, Placed
<1>6. CASE var[a] # "READY"
  <2>1. /\ reaped' = IF var[a] = "DEAD" THEN reaped \cup {a} ELSE reaped
        /\ UNCHANGED <<current, pc, blocked>>
    BY <1>6 DEF Deq, a
  <2>2. TypeOK'
    BY <1>2, <1>3, <1>4, <2>1 DEF SchedInv, TypeOK, lists
  <2>3. Placed'
    BY <1>3, <1>4, <2>1 DEF SchedInv, Placed, AtHome, PinnedStay, lists
  <2>4. Counted'
    BY <2>1, CountedFrame DEF SchedInv
  <2> QED BY <2>2, <2>3, <2>4 DEF SchedInv
<1> QED BY <1>5, <1>6

LEMMA StealStep ==
  ASSUME SchedInv, NEW h \in Harts, Steal(h) PROVE SchedInv'
<1> DEFINE a == Head(ring)
<1>1. /\ a \in Actors /\ a \in ToSet(ring)
      /\ Tail(ring) \in Seq(Actors) /\ ToSet(Tail(ring)) \subseteq ToSet(ring)
  BY HeadTailHold, ListTypes DEF Steal
<1> HIDE DEF a
<1>2. /\ hart' = [hart EXCEPT ![a] = h]
      /\ ring' = Tail(ring)
      /\ hpc' = [hpc EXCEPT ![h] = "drain"]
      /\ UNCHANGED <<inrq, rq, xr, current, actors, reaped>>
      /\ \/ UNCHANGED <<bl, inbl>>
         \/ /\ bl' = [bl EXCEPT ![h] = Append(@, a)]
            /\ inbl' = [inbl EXCEPT ![a] = TRUE]
  BY DEF Steal, HGoto, a
<1>3. a \notin Pin
  BY <1>1 DEF SchedInv, Placed, PinnedStay
<1>4. /\ bl' \in [Harts -> Seq(Actors)] /\ inbl' \in [Actors -> BOOLEAN]
      /\ \A k \in Harts : ToSet(bl'[k]) \subseteq ToSet(bl[k]) \cup {a}
  <2>1. bl \in [Harts -> Seq(Actors)] /\ inbl \in [Actors -> BOOLEAN] /\ bl[h] \in Seq(Actors)
    BY ListTypes
  <2>2. CASE UNCHANGED <<bl, inbl>>
    BY <2>1, <2>2
  <2>3. CASE /\ bl' = [bl EXCEPT ![h] = Append(@, a)] /\ inbl' = [inbl EXCEPT ![a] = TRUE]
    <3>1. /\ Append(bl[h], a) \in Seq(Actors)
          /\ ToSet(Append(bl[h], a)) \subseteq ToSet(bl[h]) \cup {a}
      BY <1>1, <2>1, AppendHolds
    <3>2. /\ bl' \in [Harts -> Seq(Actors)]
          /\ \A k \in Harts : bl'[k] = IF k = h THEN Append(bl[h], a) ELSE bl[k]
      BY <2>1, <2>3, <3>1, Updated
    <3> QED BY <1>1, <2>1, <2>3, <3>1, <3>2
  <2> QED BY <1>2, <2>2, <2>3
<1>5. TypeOK'
  <2>1. hart' \in [Actors -> Harts] /\ hpc' \in [Harts -> {"drain", "refill", "deq", "steal"}]
    BY <1>2 DEF SchedInv, TypeOK
  <2> QED BY <1>1, <1>2, <1>4, <2>1 DEF SchedInv, TypeOK, actors
<1>6. Placed'
  <2>1. \A x \in Pin : hart'[x] = hart[x]
    BY <1>2, <1>3 DEF SchedInv, TypeOK
  <2>2. AtHome'
    BY <1>2, <2>1 DEF SchedInv, Placed, AtHome, actors
  <2>3. \A x \in Pin, k \in Harts : x \in ToSet(bl'[k]) => x \in ToSet(bl[k])
    BY <1>3, <1>4
  <2>4. PinnedStay'
    BY <1>1, <1>2, <2>3 DEF SchedInv, Placed, PinnedStay
  <2> QED BY <2>2, <2>4 DEF Placed
<1>7. Counted'
  BY <1>2, CountedFrame DEF SchedInv, actors
<1> QED BY <1>5, <1>6, <1>7 DEF SchedInv

LEMMA SwitchOutStep ==
  ASSUME SchedInv, NEW h \in Harts, SwitchOut(h) PROVE SchedInv'
<1> DEFINE a == current[h]
<1>1. a \in Actors /\ pc[a] \in {"leave", "parking"} /\ pc \in [Actors -> Pcs]
  BY DEF SchedInv, TypeOK, SwitchOut
<1>2. /\ current' = [current EXCEPT ![h] = None]
      /\ pc' = [pc EXCEPT ![a] = IF @ = "parking" THEN "parked" ELSE "user"]
      /\ reaped' = reaped \/ reaped' = reaped \cup {a}
      /\ hpc' = [hpc EXCEPT ![h] = "drain"]
      /\ UNCHANGED <<var, hart, inrq, rq, xr, lists, to, dst, mail, blocked, ops>>
  BY DEF SwitchOut, HGoto
<1> HIDE DEF a
<1>3. /\ pc' \in [Actors -> Pcs]
      /\ \A b \in Actors : pc'[b] = IF b = a THEN (IF pc[a] = "parking" THEN "parked" ELSE "user")
                                   ELSE pc[b]
  <2>1. (IF pc[a] = "parking" THEN "parked" ELSE "user") \in Pcs
    BY DEF Pcs
  <2> QED BY <1>1, <1>2, <2>1, Updated
<1>4. IsParked' = IsParked
  BY <1>1, <1>3 DEF IsParked
<1>5. Counted'
  BY <1>2, <1>4 DEF SchedInv, Counted
<1>6. TypeOK'
  <2>1. current' \in [Harts -> Actors \cup {None}]
        /\ hpc' \in [Harts -> {"drain", "refill", "deq", "steal"}]
    BY <1>2 DEF SchedInv, TypeOK
  <2>2. reaped' \subseteq Actors
    <3>1. reaped \subseteq Actors
      BY ListTypes
    <3> QED BY ONLY <1>1, <1>2, <3>1, Zenon
  <2> QED BY <1>2, <1>3, <2>1, <2>2 DEF SchedInv, TypeOK, lists
<1>7. Placed'
  <2>1. \A b \in Actors : pc'[b] = "xpush" => pc[b] = "xpush"
    BY <1>3
  <2>2. \A k \in Harts : current'[k] = current[k] \/ current'[k] = None
    BY <1>2 DEF SchedInv, TypeOK
  <2>3. AtHome'
    BY <1>2, <2>1 DEF SchedInv, Placed, AtHome
  <2>4. PinnedStay'
    BY <1>2, <2>2 DEF SchedInv, Placed, PinnedStay, lists
  <2> QED BY <2>3, <2>4 DEF Placed
<1> QED BY <1>5, <1>6, <1>7 DEF SchedInv

LEMMA LoopPreserves ==
  ASSUME SchedInv, NEW h \in Harts, LoopStep(h) PROVE SchedInv'
BY LoopTurn, DrainStep, UnlinkStep, AdmitStep, DeqStep, StealStep, SwitchOutStep DEF LoopStep

----------------------------------------------------------------------------
(* The actions of the actor that runs on a hart.  Those that touch no list *)
(* and no ring change only status words, labels, mailboxes and counts.     *)

LEMMA Running ==
  ASSUME SchedInv, NEW h \in Harts, NEW l, At(h, l), l \in Pcs
  PROVE  current[h] \in Actors /\ pc[current[h]] = l
BY DEF At, SchedInv, TypeOK

LEMMA PlaneFrame ==
  ASSUME SchedInv, plane' = plane, dst' = dst,
         \A a \in Actors : pc'[a] = "xpush" => pc[a] = "xpush" /\ to'[a] = to[a]
  PROVE  Placed'
<1>1. AtHome /\ PinnedStay
  BY DEF SchedInv, Placed
<1>2. /\ hart' = hart /\ bl' = bl /\ rq' = rq /\ xr' = xr /\ ring' = ring
      /\ current' = current
  BY DEF plane, lists
<1>3. PinnedStay'
  BY <1>1, <1>2 DEF PinnedStay
<1>4. \A x \in Actors : pc'[x] = "xpush" /\ to'[x] \in Pin => dst'[x] = Home[to'[x]]
  BY <1>1 DEF AtHome
<1>5. AtHome'
  BY <1>1, <1>2, <1>4 DEF AtHome
<1> QED BY <1>3, <1>5 DEF Placed

LEMMA SendStep ==
  ASSUME SchedInv, NEW h \in Harts, Send(h) PROVE SchedInv'
<1> DEFINE a == current[h]
<1>1. a \in Actors /\ pc[a] = "user"
  BY Running DEF Send, Spend, Pcs
<1> HIDE DEF a
<1>2. PICK b \in Actors : /\ mail' = [mail EXCEPT ![b] = @ + 1]
                          /\ to' = [to EXCEPT ![a] = b]
  BY DEF Send, a
<1>3. /\ pc' = [pc EXCEPT ![a] = "wake"] /\ ops' = [ops EXCEPT ![a] = @ + 1]
      /\ UNCHANGED <<var, dst, blocked, plane>>
  BY DEF Send, Spend, Goto, a
<1>4. TypeOK'
  <2>1. mail' \in [Actors -> Nat] /\ ops' \in [Actors -> Nat]
    <3>1. mail \in [Actors -> Nat] /\ ops \in [Actors -> Nat]
      BY Types
    <3>2. mail[b] + 1 \in Nat /\ ops[a] + 1 \in Nat
      BY <1>1, <3>1, SMTT(30)
    <3> QED BY <1>1, <1>2, <1>3, <3>1, <3>2, Updated
  <2>2. to' \in [Actors -> Actors] /\ pc' \in [Actors -> Pcs]
    BY <1>1, <1>2, <1>3 DEF SchedInv, TypeOK, Pcs
  <2> QED BY <1>3, <2>1, <2>2 DEF SchedInv, TypeOK, plane, lists
<1>5. \A x \in Actors : pc'[x] = "xpush" => pc[x] = "xpush" /\ to'[x] = to[x]
  BY <1>1, <1>2, <1>3 DEF SchedInv, TypeOK
<1>6. Placed'
  BY <1>3, <1>5, PlaneFrame
<1>7. Counted'
  BY <1>1, <1>3, StillParked DEF SchedInv, Pcs
<1> QED BY <1>4, <1>6, <1>7 DEF SchedInv

(* An actor that touches only its label, status words, mail and counts. *)
LEMMA Quiet ==
  ASSUME SchedInv, NEW a \in Actors, NEW l \in Pcs,
         pc[a] \notin {"parking", "parked"}, l \notin {"parking", "parked", "xpush"},
         pc' = [pc EXCEPT ![a] = l] \/ pc' = pc,
         UNCHANGED <<to, dst, blocked, plane>>,
         var' \in [Actors -> Statuses], mail' \in [Actors -> Nat], ops' \in [Actors -> Nat]
  PROVE  SchedInv'
<1>1. pc \in [Actors -> Pcs]
  BY Types
<1>2. pc' \in [Actors -> Pcs] /\ \A x \in Actors : pc'[x] = "xpush" => pc[x] = "xpush"
  <2>1. CASE pc' = pc
    BY <1>1, <2>1
  <2>2. CASE pc' = [pc EXCEPT ![a] = l]
    <3>1. pc' \in [Actors -> Pcs] /\ \A x \in Actors : pc'[x] = IF x = a THEN l ELSE pc[x]
      BY <1>1, <2>2, Updated
    <3> QED BY <3>1
  <2> QED BY <2>1, <2>2
<1>3. TypeOK'
  BY <1>2 DEF SchedInv, TypeOK, plane, lists, Statuses
<1>4. Placed'
  BY <1>2, PlaneFrame
<1>5. Counted'
  BY StillParked DEF SchedInv
<1> QED BY <1>3, <1>4, <1>5 DEF SchedInv

LEMMA SpendOps ==
  ASSUME SchedInv, NEW h \in Harts, NEW op, Spend(h, op)
  PROVE  /\ current[h] \in Actors /\ pc[current[h]] = "user"
         /\ ops' \in [Actors -> Nat]
<1>1. current[h] \in Actors /\ pc[current[h]] = "user"
  BY Running DEF Spend, Pcs
<1>2. ops' = [ops EXCEPT ![current[h]] = ops[current[h]] + 1]
  BY DEF Spend
<1>3. PICK a \in Actors : a = current[h]
  BY <1>1
<1>4. ops \in [Actors -> Nat]
  BY Types
<1>5. PICK n \in Nat : n = ops[a] + 1
  BY ONLY <1>4, a \in Actors
<1>6. ops' = [ops EXCEPT ![a] = n]
  BY <1>2, <1>3, <1>5
<1>7. ops' \in [Actors -> Nat]
  BY ONLY <1>4, <1>6, a \in Actors, n \in Nat
<1> QED BY <1>1, <1>7

LEMMA WakeStep ==
  ASSUME SchedInv, NEW h \in Harts, Wake(h) PROVE SchedInv'
<1> DEFINE a == current[h]
<1>1. a \in Actors /\ pc[a] = "wake" /\ to[a] \in Actors
  <2>1. a \in Actors /\ pc[a] = "wake"
    BY Running DEF Wake, Pcs
  <2> QED BY <2>1, Types
<1> HIDE DEF a
<1>2. UNCHANGED <<to, dst, mail, blocked, ops, plane>>
  BY DEF Wake
<1>3. CASE var[to[a]] = "BLOCKED"
  <2>1. var' = [var EXCEPT ![to[a]] = "READY"] /\ pc' = [pc EXCEPT ![a] = "ship"]
    BY <1>3 DEF Wake, Goto, a
  <2>2. var' \in [Actors -> Statuses]
    BY <1>1, <2>1, Types DEF Statuses
  <2> QED BY <1>1, <1>2, <2>1, <2>2, Quiet, Types DEF Pcs
<1>4. CASE var[to[a]] # "BLOCKED"
  <2>1. var' = var /\ pc' = [pc EXCEPT ![a] = "user"]
    BY <1>4 DEF Wake, Goto, a
  <2> QED BY <1>1, <1>2, <2>1, Quiet, Types DEF Pcs
<1> QED BY <1>3, <1>4

LEMMA ReceiveStep ==
  ASSUME SchedInv, NEW h \in Harts, Receive(h) PROVE SchedInv'
<1> DEFINE a == current[h]
<1>1. a \in Actors /\ pc[a] = "user"
  BY Running DEF Receive, Pcs
<1> HIDE DEF a
<1>2. UNCHANGED <<var, to, dst, blocked, ops, plane>>
  BY DEF Receive
<1>3. CASE mail[a] > 0
  <2>1. mail' = [mail EXCEPT ![a] = mail[a] - 1] /\ pc' = pc
    BY <1>3 DEF Receive, a
  <2>2. mail[a] - 1 \in Nat
    BY <1>1, <1>3, Types
  <2>3. mail' \in [Actors -> Nat]
    BY <1>1, <2>1, <2>2, Types, Updated
  <2> QED BY <1>1, <1>2, <2>1, <2>3, Quiet, Types DEF Pcs
<1>4. CASE ~(mail[a] > 0)
  <2>1. mail' = mail /\ pc' = [pc EXCEPT ![a] = "block"]
    BY <1>4 DEF Receive, Goto, a
  <2> QED BY <1>1, <1>2, <2>1, Quiet, Types DEF Pcs
<1> QED BY <1>3, <1>4

LEMMA BlockCasStep ==
  ASSUME SchedInv, NEW h \in Harts, BlockCas(h) PROVE SchedInv'
<1> DEFINE a == current[h]
<1>1. a \in Actors /\ pc[a] = "block"
  BY Running DEF BlockCas, Pcs
<1> HIDE DEF a
<1>2. UNCHANGED <<to, dst, mail, blocked, ops, plane>>
  BY DEF BlockCas
<1>3. CASE var[a] = "READY"
  <2>1. var' = [var EXCEPT ![a] = "BLOCKED"] /\ pc' = [pc EXCEPT ![a] = "rescan"]
    BY <1>3 DEF BlockCas, Goto, a
  <2>2. var' \in [Actors -> Statuses]
    BY <1>1, <2>1, Types DEF Statuses
  <2> QED BY <1>1, <1>2, <2>1, <2>2, Quiet, Types DEF Pcs
<1>4. CASE var[a] # "READY"
  <2>1. var' = var /\ pc' = [pc EXCEPT ![a] = "leave"]
    BY <1>4 DEF BlockCas, Goto, a
  <2> QED BY <1>1, <1>2, <2>1, Quiet, Types DEF Pcs
<1> QED BY <1>3, <1>4

LEMMA RescanStep ==
  ASSUME SchedInv, NEW h \in Harts, Rescan(h) PROVE SchedInv'
<1> DEFINE a == current[h]
<1>1. a \in Actors /\ pc[a] = "rescan"
  BY Running DEF Rescan, Pcs
<1> HIDE DEF a
<1>2. UNCHANGED <<to, dst, mail, ops, plane>>
  BY DEF Rescan
<1>3. CASE mail[a] > 0
  <2>1. /\ var' = [var EXCEPT ![a] = IF var[a] = "BLOCKED" THEN "READY" ELSE var[a]]
        /\ pc' = [pc EXCEPT ![a] = "user"] /\ blocked' = blocked
    BY <1>3 DEF Rescan, Goto, a
  <2>2. (IF var[a] = "BLOCKED" THEN "READY" ELSE var[a]) \in Statuses
    BY <1>1, Types DEF Statuses
  <2>3. var' \in [Actors -> Statuses]
    BY <1>1, <2>1, <2>2, Types, Updated
  <2> QED BY <1>1, <1>2, <2>1, <2>3, Quiet, Types DEF Pcs
<1>4. CASE ~(mail[a] > 0)
  <2>1. var' = var /\ pc' = [pc EXCEPT ![a] = "parking"] /\ blocked' = blocked + 1
    BY <1>4 DEF Rescan, Goto, a
  <2>2. pc' \in [Actors -> Pcs] /\ \A x \in Actors : pc'[x] = IF x = a THEN "parking" ELSE pc[x]
    BY <1>1, <2>1, Types DEF Pcs
  <2>3. IsParked' = IsParked \cup {a} /\ a \notin IsParked
    BY <1>1, <2>2 DEF IsParked
  <2>4. Counted'
    BY <2>1, <2>3, IsParkedFinite, FS_AddElement DEF SchedInv, Counted
  <2>5. blocked' \in Nat
    BY <2>1 DEF SchedInv, TypeOK
  <2>6. TypeOK'
    BY <1>2, <2>1, <2>2, <2>5 DEF SchedInv, TypeOK, plane, lists
  <2>7. Placed'
    BY <1>2, <2>2, PlaneFrame
  <2> QED BY <2>4, <2>6, <2>7 DEF SchedInv
<1> QED BY <1>3, <1>4

LEMMA KillStep ==
  ASSUME SchedInv, NEW h \in Harts, Kill(h) PROVE SchedInv'
<1> DEFINE a == current[h]
<1>1. a \in Actors /\ pc[a] = "user" /\ ops' \in [Actors -> Nat]
  BY SpendOps DEF Kill
<1>2. PICK b \in Actors : /\ var' = [var EXCEPT ![b] = "DEAD"]
                          /\ pc' = [pc EXCEPT ![a] = "leave"] \/ pc' = pc
  BY DEF Kill, Goto
<1> HIDE DEF a
<1>3. UNCHANGED <<to, dst, mail, blocked, plane>>
  BY DEF Kill
<1>4. var' \in [Actors -> Statuses]
  BY <1>2, Types DEF Statuses
<1> QED BY <1>1, <1>2, <1>3, <1>4, Quiet, Types DEF Pcs

LEMMA ExitStep ==
  ASSUME SchedInv, NEW h \in Harts, Exit(h) PROVE SchedInv'
<1> DEFINE a == current[h]
<1>1. a \in Actors /\ pc[a] = "user"
  BY Running DEF Exit, Pcs
<1>2. /\ var' = [var EXCEPT ![a] = "DEAD"] /\ pc' = [pc EXCEPT ![a] = "leave"]
      /\ UNCHANGED <<to, dst, mail, blocked, ops, plane>>
  BY DEF Exit, Goto
<1> HIDE DEF a
<1>3. var' \in [Actors -> Statuses]
  BY <1>1, <1>2, Types DEF Statuses
<1> QED BY <1>1, <1>2, <1>3, Quiet, Types DEF Pcs

----------------------------------------------------------------------------
(* The actions that ship: the list is the owner's, or the ring to it. *)

LEMMA YieldStep ==
  ASSUME SchedInv, NEW h \in Harts, Yield(h) PROVE SchedInv'
<1> DEFINE a == current[h]
<1>1. a \in Actors /\ pc[a] = "user" /\ ops' \in [Actors -> Nat]
  BY SpendOps DEF Yield
<1>2. a \in Pin => h = Home[a]
  BY DEF SchedInv, Placed, PinnedStay
<1>3. ListsOK'
  BY <1>1, <1>2, EnqLists DEF SchedInv, Yield
<1>4. /\ pc' = [pc EXCEPT ![a] = "leave"]
      /\ UNCHANGED <<var, hart, inrq, rq, xr, current, hpc, to, dst, mail, reaped, blocked>>
  BY DEF Yield, Goto
<1> HIDE DEF a
<1>5. pc' \in [Actors -> Pcs] /\ \A x \in Actors : pc'[x] = "xpush" => pc[x] = "xpush"
  BY <1>1, <1>4, Types DEF Pcs
<1>6. TypeOK'
  BY <1>1, <1>3, <1>4, <1>5 DEF SchedInv, TypeOK, ListsOK
<1>7. AtHome'
  BY <1>4, <1>5 DEF SchedInv, Placed, AtHome
<1>8. PinnedStay'
  BY <1>3, <1>4 DEF SchedInv, Placed, PinnedStay, ListsOK
<1>9. Counted'
  BY <1>1, <1>4, StillParked DEF SchedInv, Pcs
<1> QED BY <1>6, <1>7, <1>8, <1>9 DEF SchedInv, Placed

LEMMA ShipStep ==
  ASSUME SchedInv, NEW h \in Harts, Ship(h) PROVE SchedInv'
<1> DEFINE a == current[h]
           b == to[a]
<1>1. a \in Actors /\ pc[a] = "ship" /\ b \in Actors
  BY Running, Types DEF Ship, Pcs
<1>2. b \in Pin => hart[b] = Home[b]
  BY DEF SchedInv, Placed, AtHome
<1>3. UNCHANGED <<var, hart, inrq, rq, xr, current, hpc, to, mail, reaped, blocked, ops>>
  BY DEF Ship
<1>4. CASE hart[b] = h
  <2>1. Enq(h, b) /\ pc' = [pc EXCEPT ![a] = "user"] /\ dst' = dst
    BY <1>4 DEF Ship, Goto
  <2>2. ListsOK'
    BY <1>1, <1>2, <1>4, <2>1, EnqLists DEF SchedInv
  <2> HIDE DEF a, b
  <2>3. pc' \in [Actors -> Pcs] /\ \A x \in Actors : pc'[x] = "xpush" => pc[x] = "xpush"
    BY <1>1, <2>1, Types DEF Pcs
  <2>4. TypeOK'
    BY <1>3, <2>1, <2>2, <2>3 DEF SchedInv, TypeOK, ListsOK
  <2>5. AtHome'
    BY <1>3, <2>1, <2>3 DEF SchedInv, Placed, AtHome
  <2>6. PinnedStay'
    BY <1>3, <2>2 DEF SchedInv, Placed, PinnedStay, ListsOK
  <2>7. Counted'
    BY <1>1, <1>3, <2>1, StillParked DEF SchedInv, Pcs
  <2> QED BY <2>4, <2>5, <2>6, <2>7 DEF SchedInv, Placed
<1>5. CASE hart[b] # h
  <2>1. /\ pc' = [pc EXCEPT ![a] = "xpush"] /\ dst' = [dst EXCEPT ![a] = hart[b]]
        /\ UNCHANGED lists
    BY <1>5 DEF Ship, Goto
  <2> HIDE DEF b
  <2>b. b = to[a]
    BY DEF b
  <2> HIDE DEF a
  <2>2. /\ pc' \in [Actors -> Pcs] /\ dst' \in [Actors -> Harts]
        /\ \A x \in Actors : x # a => pc'[x] = pc[x] /\ dst'[x] = dst[x]
        /\ dst'[a] = hart[b]
    <3>1. pc \in [Actors -> Pcs] /\ dst \in [Actors -> Harts] /\ hart[b] \in Harts
      BY <1>1, Types
    <3>2. "xpush" \in Pcs
      BY DEF Pcs
    <3>3. pc' \in [Actors -> Pcs] /\ \A x \in Actors : x # a => pc'[x] = pc[x]
      BY <1>1, <2>1, <3>1, <3>2, Updated
    <3>4. /\ dst' \in [Actors -> Harts] /\ dst'[a] = hart[b]
          /\ \A x \in Actors : x # a => dst'[x] = dst[x]
      BY <1>1, <2>1, <3>1, Updated
    <3> QED BY <3>3, <3>4
  <2>3. TypeOK'
    BY <1>3, <2>1, <2>2 DEF SchedInv, TypeOK, lists
  <2>4. AtHome'
    BY <1>1, <1>2, <1>3, <2>b, <2>2, ZenonT(40) DEF SchedInv, Placed, AtHome
  <2>5. PinnedStay'
    BY <1>3, <2>1 DEF SchedInv, Placed, PinnedStay, lists
  <2>6. Counted'
    BY <1>1, <1>3, <2>1, StillParked DEF SchedInv, Pcs
  <2> QED BY <2>3, <2>4, <2>5, <2>6 DEF SchedInv, Placed
<1> QED BY <1>4, <1>5

LEMMA XpushStep ==
  ASSUME SchedInv, NEW h \in Harts, Xpush(h) PROVE SchedInv'
<1> DEFINE a == current[h]
           b == to[a]
           k == dst[a]
<1>1. a \in Actors /\ pc[a] = "xpush" /\ b \in Actors /\ k \in Harts
  BY Running, Types DEF Xpush, Pcs
<1>2. b \in Pin => k = Home[b]
  BY <1>1 DEF SchedInv, Placed, AtHome
<1>3. /\ xr' = [xr EXCEPT ![h][k] = Append(@, b)] /\ pc' = [pc EXCEPT ![a] = "user"]
      /\ UNCHANGED <<var, hart, inrq, rq, lists, current, hpc, to, dst, mail, reaped, blocked, ops>>
  BY DEF Xpush, Goto
<1> HIDE DEF a, b, k
<1>4. /\ xr' \in [Harts -> [Harts -> Seq(Actors)]]
      /\ \A i, j \in Harts : \A x \in ToSet(xr'[i][j]) :
           x \in ToSet(xr[i][j]) \/ (j = k /\ x = b)
  <2>1. xr \in [Harts -> [Harts -> Seq(Actors)]] /\ xr[h] \in [Harts -> Seq(Actors)]
    BY ListTypes
  <2>2. /\ Append(xr[h][k], b) \in Seq(Actors)
        /\ ToSet(Append(xr[h][k], b)) \subseteq ToSet(xr[h][k]) \cup {b}
    BY <1>1, <2>1, AppendHolds
  <2> DEFINE row == [xr[h] EXCEPT ![k] = Append(xr[h][k], b)]
  <2>3. row \in [Harts -> Seq(Actors)]
        /\ \A j \in Harts : row[j] = IF j = k THEN Append(xr[h][k], b) ELSE xr[h][j]
    BY <1>1, <2>1, <2>2, Updated
  <2>4. xr' = [xr EXCEPT ![h] = row]
    BY <1>3
  <2> HIDE DEF row
  <2>5. xr' \in [Harts -> [Harts -> Seq(Actors)]]
        /\ \A i \in Harts : xr'[i] = IF i = h THEN row ELSE xr[i]
    BY <2>1, <2>3, <2>4
  <2>6. \A i, j \in Harts : xr'[i][j] = IF i = h /\ j = k THEN Append(xr[h][k], b) ELSE xr[i][j]
    BY <2>3, <2>5
  <2>7. \A i, j \in Harts : ToSet(xr'[i][j]) \subseteq ToSet(xr[i][j]) \cup (IF j = k THEN {b} ELSE {})
    BY <2>2, <2>6
  <2>8. \A i, j \in Harts : \A x \in ToSet(xr'[i][j]) : x \in ToSet(xr[i][j]) \/ (j = k /\ x = b)
    BY ONLY <2>7, Zenon
  <2> QED BY <2>5, <2>8
<1>5. pc' \in [Actors -> Pcs] /\ \A x \in Actors : pc'[x] = "xpush" => pc[x] = "xpush"
  BY <1>1, <1>3, Types DEF Pcs
<1>6. TypeOK'
  BY <1>3, <1>4, <1>5 DEF SchedInv, TypeOK, lists
<1>7. AtHome'
  BY <1>3, <1>5 DEF SchedInv, Placed, AtHome
<1>8. PinnedStay'
  <2>1. PinnedStay
    BY DEF SchedInv, Placed
  <2>2. \A i, j \in Harts, x \in Pin : x \in ToSet(xr'[i][j]) => j = Home[x]
    <3>1. \A i, j \in Harts, x \in Pin : x \in ToSet(xr[i][j]) => j = Home[x]
      BY <2>1 DEF PinnedStay
    <3> SUFFICES ASSUME NEW i \in Harts, NEW j \in Harts, NEW x \in Pin, x \in ToSet(xr'[i][j])
                 PROVE  j = Home[x]
      OBVIOUS
    <3>2. x \in ToSet(xr[i][j]) \/ (j = k /\ x = b)
      BY ONLY <1>4, i \in Harts, j \in Harts, x \in ToSet(xr'[i][j]), Zenon
    <3> QED BY <1>2, <3>1, <3>2
  <2>3. bl' = bl /\ rq' = rq /\ ring' = ring /\ current' = current
    BY <1>3 DEF lists
  <2> QED BY ONLY <2>1, <2>2, <2>3 DEF PinnedStay
<1>9. Counted'
  BY <1>1, <1>3, StillParked DEF SchedInv, Pcs
<1> QED BY <1>6, <1>7, <1>8, <1>9 DEF SchedInv, Placed

LEMMA SpawnStep ==
  ASSUME SchedInv, NEW h \in Harts, Spawn(h) PROVE SchedInv'
<1> DEFINE a == current[h]
<1>1. a \in Actors /\ pc[a] = "user" /\ ops' \in [Actors -> Nat]
  BY SpendOps DEF Spawn
<1>2. PICK b \in Actors :
        /\ pc[b] = "unborn"
        /\ hart' = [hart EXCEPT ![b] = IF b \in Pin THEN Home[b] ELSE h]
        /\ pc' = [pc EXCEPT ![b] = "user", ![a] = "ship"]
        /\ to' = [to EXCEPT ![a] = b]
  BY DEF Spawn
<1>3. UNCHANGED <<var, inrq, rq, xr, lists, current, hpc, dst, mail, reaped, blocked>>
  BY DEF Spawn
<1> HIDE DEF a
<1>4. /\ pc' \in [Actors -> Pcs] /\ to' \in [Actors -> Actors]
      /\ \A x \in Actors : pc'[x] = IF x = a THEN "ship" ELSE IF x = b THEN "user" ELSE pc[x]
      /\ \A x \in Actors : x # a => to'[x] = to[x]
  <2>1. pc \in [Actors -> Pcs] /\ to \in [Actors -> Actors] /\ a # b
    BY <1>1, <1>2, Types
  <2>2. to' \in [Actors -> Actors] /\ \A x \in Actors : x # a => to'[x] = to[x]
    BY <1>1, <1>2, <2>1
  <2> DEFINE f == [pc EXCEPT ![b] = "user"]
  <2>3. f \in [Actors -> Pcs] /\ \A x \in Actors : f[x] = IF x = b THEN "user" ELSE pc[x]
    BY <2>1 DEF Pcs
  <2>4. pc' = [f EXCEPT ![a] = "ship"]
    BY <1>2
  <2> HIDE DEF f
  <2>5. "ship" \in Pcs
    BY DEF Pcs
  <2>6. pc' \in [Actors -> Pcs] /\ \A x \in Actors : pc'[x] = IF x = a THEN "ship" ELSE f[x]
    BY <1>1, <2>3, <2>4, <2>5, Updated
  <2> QED BY <2>1, <2>2, <2>3, <2>6
<1>5. hart' \in [Actors -> Harts] /\ \A x \in Pin : hart'[x] = Home[x]
  <2>1. (IF b \in Pin THEN Home[b] ELSE h) \in Harts
    OBVIOUS
  <2>2. hart' \in [Actors -> Harts] /\ \A x \in Actors :
          hart'[x] = IF x = b THEN (IF b \in Pin THEN Home[b] ELSE h) ELSE hart[x]
    BY <1>2, <2>1, Types, Updated
  <2>3. \A x \in Pin : hart[x] = Home[x]
    BY DEF SchedInv, Placed, AtHome
  <2> QED BY <2>2, <2>3, ZenonT(40)
<1>6. TypeOK'
  BY <1>1, <1>3, <1>4, <1>5 DEF SchedInv, TypeOK, lists
<1>7. AtHome'
  BY <1>3, <1>4, <1>5 DEF SchedInv, Placed, AtHome
<1>8. PinnedStay'
  BY <1>3 DEF SchedInv, Placed, PinnedStay, lists
<1>9. Counted'
  <2>1. IsParked' = IsParked
    BY <1>1, <1>2, <1>4 DEF IsParked
  <2> QED BY <1>3, <2>1 DEF SchedInv, Counted
<1> QED BY <1>6, <1>7, <1>8, <1>9 DEF SchedInv, Placed

LEMMA ActorPreserves ==
  ASSUME SchedInv, NEW h \in Harts, ActorStep(h) PROVE SchedInv'
BY SendStep, WakeStep, ShipStep, XpushStep, SpawnStep, ReceiveStep, BlockCasStep,
   RescanStep, YieldStep, KillStep, ExitStep DEF ActorStep

----------------------------------------------------------------------------
LEMMA SchedStep == SchedInv /\ [Next]_vars => SchedInv'
<1> SUFFICES ASSUME SchedInv, [Next]_vars PROVE SchedInv'
  OBVIOUS
<1>1. CASE Next
  BY <1>1, LoopPreserves, ActorPreserves DEF Next
<1>2. CASE UNCHANGED vars
  BY <1>2, SMTT(30) DEF vars, lists, SchedInv, TypeOK, Placed, AtHome, PinnedStay, Counted, IsParked
<1> QED BY <1>1, <1>2

LEMMA SchedInvariant == Spec => []SchedInv
BY SchedInit, SchedStep, PTL DEF Spec

(* Every variable keeps its type; in particular g_blocked, decremented by  *)
(* the resumption of an actor that was parked, never goes below zero.      *)
THEOREM SchedTypeCorrect == Spec => []TypeOK
<1>1. SchedInv => TypeOK
  BY DEF SchedInv
<1> QED BY <1>1, SchedInvariant, PTL

(* Donation and stealing never move a pinned actor: it is listed, shipped  *)
(* and run on the hart it was placed on, and nowhere else.                 *)
THEOREM PinnedNeverMigrate == Spec => []PinnedStay
<1>1. SchedInv => PinnedStay
  BY DEF SchedInv, Placed
<1> QED BY <1>1, SchedInvariant, PTL

(* Where nobody can be donated, no two harts ever run one actor.           *)
THEOREM PinnedRunOnOneHart == Pin = Actors => (Spec => []OneHart)
<1> SUFFICES ASSUME Pin = Actors PROVE Spec => []OneHart
  OBVIOUS
<1>1. SchedInv => OneHart
  BY DEF SchedInv, TypeOK, Placed, PinnedStay, OneHart
<1> QED BY <1>1, SchedInvariant, PTL

HIDE SchedAssumption
----------------------------------------------------------------------------
(* One entry.  A family of queues q with its flag f: what is in a queue is *)
(* flagged, is there once, and what is flagged is in a queue.  What is     *)
(* said here of queues needs no assumption on the constants.               *)
OnceIn(q, f) ==
  /\ \A h \in Harts : \A i \in DOMAIN q[h] : f[q[h][i]]
  /\ \A h, k \in Harts : \A i \in DOMAIN q[h], j \in DOMAIN q[k] :
       q[h][i] = q[k][j] => h = k /\ i = j
  /\ \A a \in Actors : f[a] => \E h \in Harts : \E i \in DOMAIN q[h] : q[h][i] = a
OneListed ==
  OnceIn(bl, inbl) /\ OnceIn(rq, inrq) /\ \A a \in Actors : ~(inbl[a] /\ inrq[a])

(* Where the elements of a sequence are after one operation. *)
LEMMA AppendAt ==
  ASSUME NEW S, NEW s \in Seq(S), NEW e \in S
  PROVE  /\ Append(s, e) \in Seq(S)
         /\ DOMAIN Append(s, e) = DOMAIN s \cup {Len(s) + 1}
         /\ Len(s) + 1 \notin DOMAIN s
         /\ Append(s, e)[Len(s) + 1] = e
         /\ \A i \in DOMAIN s : Append(s, e)[i] = s[i]
<1>1. DOMAIN s = 1 .. Len(s) /\ Len(s) \in Nat
  OBVIOUS
<1>2. Append(s, e) \in Seq(S) /\ Len(Append(s, e)) = Len(s) + 1
  OBVIOUS
<1>3. DOMAIN Append(s, e) = 1 .. Len(s) + 1
  BY <1>2
<1>4. \A i \in 1 .. Len(s) : Append(s, e)[i] = s[i]
  OBVIOUS
<1>5. Append(s, e)[Len(s) + 1] = e
  OBVIOUS
<1> QED BY <1>1, <1>2, <1>3, <1>4, <1>5

LEMMA RemoveAtAt ==
  ASSUME NEW S, NEW s \in Seq(S), NEW i \in DOMAIN s
  PROVE  /\ RemoveAt(s, i) \in Seq(S)
         /\ i \in Int /\ DOMAIN s \subseteq Int
         /\ \A j \in DOMAIN RemoveAt(s, i) :
              /\ j < i => j \in DOMAIN s /\ RemoveAt(s, i)[j] = s[j]
              /\ ~(j < i) => j + 1 \in DOMAIN s /\ RemoveAt(s, i)[j] = s[j + 1]
         /\ \A j \in DOMAIN s : j # i =>
              /\ j < i => j \in DOMAIN RemoveAt(s, i) /\ RemoveAt(s, i)[j] = s[j]
              /\ ~(j < i) => j - 1 \in DOMAIN RemoveAt(s, i) /\ RemoveAt(s, i)[j - 1] = s[j]
<1>1. i \in 1 .. Len(s) /\ Len(s) \in Nat /\ DOMAIN s = 1 .. Len(s)
  OBVIOUS
<1>2. PICK u : u = SubSeq(s, 1, i - 1)
  OBVIOUS
<1>3. PICK v : v = SubSeq(s, i + 1, Len(s))
  OBVIOUS
<1>4. u \in Seq(S) /\ Len(u) = i - 1 /\ \A j \in 1 .. i - 1 : u[j] = s[j]
  BY <1>1, <1>2
<1>5. v \in Seq(S) /\ Len(v) = Len(s) - i /\ \A j \in 1 .. Len(s) - i : v[j] = s[i + j]
  BY <1>1, <1>3
<1>6. RemoveAt(s, i) = u \o v
  BY <1>2, <1>3 DEF RemoveAt
<1>7. /\ u \o v \in Seq(S) /\ DOMAIN (u \o v) = 1 .. Len(s) - 1
      /\ \A j \in 1 .. Len(s) - 1 : (u \o v)[j] = IF j < i THEN u[j] ELSE v[j - (i - 1)]
  <2>0. u \in Seq(S) /\ v \in Seq(S)
    BY <1>4, <1>5
  <2>1. u \o v \in Seq(S) /\ Len(u \o v) = Len(u) + Len(v)
    BY ONLY <2>0
  <2>2. \A j \in 1 .. Len(u) + Len(v) :
          (u \o v)[j] = IF j <= Len(u) THEN u[j] ELSE v[j - Len(u)]
    BY <1>4, <1>5, SMTT(30)
  <2>3. Len(u) + Len(v) = Len(s) - 1 /\ Len(u) = i - 1
    BY <1>1, <1>4, <1>5
  <2>4. DOMAIN (u \o v) = 1 .. Len(s) - 1
    BY <2>1, <2>3
  <2>5. \A j \in 1 .. Len(s) - 1 : j <= i - 1 <=> j < i
    BY <1>1
  <2> QED BY <2>1, <2>2, <2>3, <2>4, <2>5
<1>8. \A j \in 1 .. Len(s) - 1 : (u \o v)[j] = IF j < i THEN s[j] ELSE s[j + 1]
  <2> SUFFICES ASSUME NEW j \in 1 .. Len(s) - 1
               PROVE  (u \o v)[j] = IF j < i THEN s[j] ELSE s[j + 1]
    OBVIOUS
  <2>1. CASE j < i
    <3>1. j \in 1 .. i - 1
      BY <1>1, <2>1
    <3> QED BY <1>4, <1>7, <2>1, <3>1
  <2>2. CASE ~(j < i)
    <3>1. j - (i - 1) \in 1 .. Len(s) - i /\ i + (j - (i - 1)) = j + 1
      BY <1>1, <2>2
    <3>2. v[j - (i - 1)] = s[j + 1]
      BY <1>5, <3>1
    <3> QED BY <1>7, <2>2, <3>2
  <2> QED BY <2>1, <2>2
<1> HIDE DEF RemoveAt
<1>9. PICK r : r = RemoveAt(s, i)
  OBVIOUS
<1>10. /\ r \in Seq(S) /\ DOMAIN r = 1 .. Len(s) - 1
       /\ \A j \in 1 .. Len(s) - 1 : r[j] = IF j < i THEN s[j] ELSE s[j + 1]
  BY <1>6, <1>7, <1>8, <1>9
<1>11. \A j \in DOMAIN r : /\ j < i => j \in DOMAIN s /\ r[j] = s[j]
                           /\ ~(j < i) => j + 1 \in DOMAIN s /\ r[j] = s[j + 1]
  BY <1>1, <1>10
<1>12. \A j \in DOMAIN s : j # i => (/\ j < i => j \in DOMAIN r /\ r[j] = s[j]
                                    /\ ~(j < i) => j - 1 \in DOMAIN r /\ r[j - 1] = s[j])
  <2> SUFFICES ASSUME NEW j \in DOMAIN s, j # i
               PROVE  /\ j < i => j \in DOMAIN r /\ r[j] = s[j]
                      /\ ~(j < i) => j - 1 \in DOMAIN r /\ r[j - 1] = s[j]
    OBVIOUS
  <2>1. CASE j < i
    BY <1>1, <1>10, <2>1
  <2>2. CASE ~(j < i)
    <3>1. j - 1 \in 1 .. Len(s) - 1 /\ ~(j - 1 < i) /\ (j - 1) + 1 = j
      BY <1>1, <2>2
    <3>2. r[j - 1] = s[(j - 1) + 1]
      BY <1>10, <3>1
    <3> QED BY <1>10, <2>2, <3>1, <3>2
  <2> QED BY <2>1, <2>2
<1> QED BY <1>1, <1>9, <1>10, <1>11, <1>12

LEMMA TailIsRemoveAt ==
  ASSUME NEW S, NEW s \in Seq(S), s # <<>>
  PROVE  1 \in DOMAIN s /\ Head(s) = s[1] /\ Tail(s) = RemoveAt(s, 1)
<1>1. 1 \in 1 .. Len(s) /\ Len(s) \in Nat /\ DOMAIN s = 1 .. Len(s)
  OBVIOUS
<1>2. RemoveAt(s, 1) = SubSeq(s, 1, 0) \o SubSeq(s, 2, Len(s))
  BY DEF RemoveAt
<1>3. SubSeq(s, 1, 0) = <<>> /\ SubSeq(s, 2, Len(s)) \in Seq(S)
  BY <1>1
<1>4. RemoveAt(s, 1) = SubSeq(s, 2, Len(s))
  BY <1>2, <1>3
<1>5. Tail(s) = SubSeq(s, 2, Len(s))
  BY <1>1
<1> QED BY <1>1, <1>4, <1>5

(* Listing an actor that is in no queue, and unlisting an entry. *)
LEMMA OncePut ==
  ASSUME NEW q \in [Harts -> Seq(Actors)], NEW f \in [Actors -> BOOLEAN], OnceIn(q, f),
         NEW h \in Harts, NEW a \in Actors, ~f[a]
  PROVE  OnceIn([q EXCEPT ![h] = Append(q[h], a)], [f EXCEPT ![a] = TRUE])
<1>1. PICK p : p = [q EXCEPT ![h] = Append(q[h], a)]
  OBVIOUS
<1>2. PICK g : g = [f EXCEPT ![a] = TRUE]
  OBVIOUS
<1>3. PICK s \in Seq(Actors) : s = q[h]
  OBVIOUS
<1>4. PICK n : n = Len(s) + 1
  OBVIOUS
<1>5. /\ p \in [Harts -> Seq(Actors)]
      /\ \A k \in Harts : k # h => p[k] = q[k]
      /\ p[h] = Append(s, a)
  BY <1>1, <1>3
<1>6. /\ DOMAIN p[h] = DOMAIN s \cup {n} /\ n \notin DOMAIN s /\ p[h][n] = a
      /\ \A i \in DOMAIN s : p[h][i] = s[i]
  BY <1>4, <1>5, AppendAt
<1>7. \A x \in Actors : g[x] = (x = a \/ f[x])
  BY <1>2
<1>8. \A k \in Harts : \A i \in DOMAIN q[k] : q[k][i] \in Actors /\ q[k][i] # a
  BY DEF OnceIn
<1>9. \A k \in Harts : \A i \in DOMAIN p[k] :
        \/ i \in DOMAIN q[k] /\ p[k][i] = q[k][i]
        \/ k = h /\ i = n /\ p[k][i] = a
  BY <1>3, <1>5, <1>6
<1>10. \A k \in Harts : \A i \in DOMAIN q[k] : i \in DOMAIN p[k] /\ p[k][i] = q[k][i]
  BY <1>3, <1>5, <1>6
<1>11. \A k \in Harts : \A i \in DOMAIN p[k] : g[p[k][i]]
  <2> SUFFICES ASSUME NEW k \in Harts, NEW i \in DOMAIN p[k] PROVE g[p[k][i]]
    OBVIOUS
  <2>1. CASE i \in DOMAIN q[k] /\ p[k][i] = q[k][i]
    <3>1. q[k][i] \in Actors /\ f[q[k][i]]
      BY <1>8, <2>1 DEF OnceIn
    <3> QED BY <1>7, <2>1, <3>1
  <2>2. CASE p[k][i] = a
    BY <1>7, <2>2
  <2> QED BY <1>9, <2>1, <2>2
<1>12. \A k, l \in Harts : \A i \in DOMAIN p[k], j \in DOMAIN p[l] :
         p[k][i] = p[l][j] => k = l /\ i = j
  <2> SUFFICES ASSUME NEW k \in Harts, NEW l \in Harts, NEW i \in DOMAIN p[k],
                      NEW j \in DOMAIN p[l], p[k][i] = p[l][j]
               PROVE  k = l /\ i = j
    OBVIOUS
  <2>1. CASE p[k][i] = a
    <3>1. k = h /\ i = n /\ l = h /\ j = n
      BY <1>8, <1>9, <2>1
    <3> QED BY <3>1
  <2>2. CASE p[k][i] # a
    <3>1. /\ i \in DOMAIN q[k] /\ p[k][i] = q[k][i]
          /\ j \in DOMAIN q[l] /\ p[l][j] = q[l][j]
      BY <1>9, <2>2
    <3>2. q[k][i] = q[l][j]
      BY <3>1
    <3> QED BY <3>1, <3>2 DEF OnceIn
  <2> QED BY <2>1, <2>2
<1>13. ASSUME NEW x \in Actors, g[x]
       PROVE  \E k \in Harts : \E i \in DOMAIN p[k] : p[k][i] = x
  <2>1. CASE x = a
    BY <1>6, <2>1
  <2>2. CASE x # a
    <3>1. f[x]
      BY <1>7, <1>13, <2>2
    <3>2. PICK k \in Harts : \E i \in DOMAIN q[k] : q[k][i] = x
      BY <3>1 DEF OnceIn
    <3> QED BY <1>10, <3>2
  <2> QED BY <2>1, <2>2
<1>14. OnceIn(p, g)
  BY <1>11, <1>12, <1>13 DEF OnceIn
<1> QED BY <1>1, <1>2, <1>14

LEMMA OnceCut ==
  ASSUME NEW q \in [Harts -> Seq(Actors)], NEW f \in [Actors -> BOOLEAN], OnceIn(q, f),
         NEW h \in Harts, NEW i \in DOMAIN q[h]
  PROVE  OnceIn([q EXCEPT ![h] = RemoveAt(q[h], i)], [f EXCEPT ![q[h][i]] = FALSE])
<1>1. PICK p : p = [q EXCEPT ![h] = RemoveAt(q[h], i)]
  OBVIOUS
<1>a. PICK a \in Actors : a = q[h][i]
  OBVIOUS
<1>2. PICK g : g = [f EXCEPT ![a] = FALSE]
  OBVIOUS
<1>3. PICK s \in Seq(Actors) : s = q[h]
  OBVIOUS
<1>4. PICK r : r = RemoveAt(s, i)
  OBVIOUS
<1>5. /\ r \in Seq(Actors)
      /\ i \in Int /\ DOMAIN s \subseteq Int
      /\ \A j \in DOMAIN r :
           /\ j < i => j \in DOMAIN s /\ r[j] = s[j]
           /\ ~(j < i) => j + 1 \in DOMAIN s /\ r[j] = s[j + 1]
      /\ \A j \in DOMAIN s : j # i =>
           /\ j < i => j \in DOMAIN r /\ r[j] = s[j]
           /\ ~(j < i) => j - 1 \in DOMAIN r /\ r[j - 1] = s[j]
  BY <1>3, <1>4, RemoveAtAt
<1>6. /\ p \in [Harts -> Seq(Actors)] /\ p[h] = r
      /\ \A k \in Harts : k # h => p[k] = q[k]
  BY <1>1, <1>3, <1>4, <1>5
<1>7. \A x \in Actors : g[x] = (x # a /\ f[x])
  BY <1>2
<1>8. DOMAIN r \subseteq Int
  BY <1>5
<1>9. \A j, k \in DOMAIN r : r[j] = r[k] => j = k
  <2>1. \A j, k \in DOMAIN s : s[j] = s[k] => j = k
    BY <1>3 DEF OnceIn
  <2> SUFFICES ASSUME NEW j \in DOMAIN r, NEW k \in DOMAIN r, r[j] = r[k] PROVE j = k
    OBVIOUS
  <2>2. CASE j < i /\ k < i
    BY <1>5, <2>1, <2>2
  <2>3. CASE j < i /\ ~(k < i)
    BY <1>5, <1>8, <2>1, <2>3
  <2>4. CASE ~(j < i) /\ k < i
    BY <1>5, <1>8, <2>1, <2>4
  <2>5. CASE ~(j < i) /\ ~(k < i)
    BY <1>5, <1>8, <2>1, <2>5
  <2> QED BY <2>2, <2>3, <2>4, <2>5
<1>10. \A j \in DOMAIN r : \E k \in DOMAIN s : k # i /\ r[j] = s[k]
  <2> SUFFICES ASSUME NEW j \in DOMAIN r PROVE \E k \in DOMAIN s : k # i /\ r[j] = s[k]
    OBVIOUS
  <2>1. CASE j < i
    BY <1>5, <2>1
  <2>2. CASE ~(j < i)
    <3>1. j + 1 \in DOMAIN s /\ r[j] = s[j + 1] /\ j + 1 # i
      BY <1>5, <1>8, <2>2
    <3> QED BY <3>1
  <2> QED BY <2>1, <2>2
<1>11. \A k \in DOMAIN s : k # i => \E j \in DOMAIN r : r[j] = s[k]
  BY <1>5
<1>12. \A k \in Harts : \A j \in DOMAIN p[k] :
         p[k][j] # a /\ \E l \in DOMAIN q[k] : p[k][j] = q[k][l]
  <2> SUFFICES ASSUME NEW k \in Harts, NEW j \in DOMAIN p[k]
               PROVE  p[k][j] # a /\ \E l \in DOMAIN q[k] : p[k][j] = q[k][l]
    OBVIOUS
  <2>1. CASE k = h
    <3>1. PICK l \in DOMAIN s : l # i /\ r[j] = s[l]
      BY <1>6, <1>10, <2>1
    <3>2. s[l] # a
      BY <1>a, <1>3, <3>1 DEF OnceIn
    <3> QED BY <1>3, <1>6, <2>1, <3>1, <3>2
  <2>2. CASE k # h
    <3>1. p[k] = q[k]
      BY <1>6, <2>2
    <3>2. q[k][j] # a
      BY <1>a, <2>2, <3>1 DEF OnceIn
    <3> QED BY <3>1, <3>2
  <2> QED BY <2>1, <2>2
<1>13. \A k \in Harts : \A j \in DOMAIN p[k] : g[p[k][j]]
  <2> SUFFICES ASSUME NEW k \in Harts, NEW j \in DOMAIN p[k] PROVE g[p[k][j]]
    OBVIOUS
  <2>1. PICK l \in DOMAIN q[k] : p[k][j] = q[k][l]
    BY <1>12
  <2>2. q[k][l] \in Actors /\ f[q[k][l]]
    BY DEF OnceIn
  <2> QED BY <1>7, <1>12, <2>1, <2>2
<1>14. \A k, l \in Harts : \A x \in DOMAIN p[k], y \in DOMAIN p[l] :
         p[k][x] = p[l][y] => k = l /\ x = y
  <2> SUFFICES ASSUME NEW k \in Harts, NEW l \in Harts, NEW x \in DOMAIN p[k],
                      NEW y \in DOMAIN p[l], p[k][x] = p[l][y]
               PROVE  k = l /\ x = y
    OBVIOUS
  <2>1. k = l
    <3>1. PICK x1 \in DOMAIN q[k] : p[k][x] = q[k][x1]
      BY <1>12
    <3>2. PICK y1 \in DOMAIN q[l] : p[l][y] = q[l][y1]
      BY <1>12
    <3>3. q[k][x1] = q[l][y1]
      BY <3>1, <3>2
    <3> QED BY <3>3 DEF OnceIn
  <2>2. CASE k = h
    BY <1>6, <1>9, <2>1, <2>2
  <2>3. CASE k # h
    BY <1>6, <2>1, <2>3 DEF OnceIn
  <2> QED BY <2>1, <2>2, <2>3
<1>15. ASSUME NEW x \in Actors, g[x]
       PROVE  \E k \in Harts : \E j \in DOMAIN p[k] : p[k][j] = x
  <2>1. f[x] /\ x # a
    BY <1>7, <1>15
  <2>2. PICK k \in Harts : \E j \in DOMAIN q[k] : q[k][j] = x
    BY <2>1 DEF OnceIn
  <2>3. PICK j \in DOMAIN q[k] : q[k][j] = x
    BY <2>2
  <2>4. CASE k = h
    <3>1. j \in DOMAIN s /\ j # i /\ s[j] = x
      BY <1>a, <1>3, <2>1, <2>3, <2>4
    <3> QED BY <1>6, <1>11, <2>4, <3>1
  <2>5. CASE k # h
    BY <1>6, <2>3, <2>5
  <2> QED BY <2>4, <2>5
<1>16. OnceIn(p, g)
  BY <1>13, <1>14, <1>15 DEF OnceIn
<1> QED BY <1>1, <1>a, <1>2, <1>16

LEMMA AppendSet ==
  ASSUME NEW S, NEW s \in Seq(S), NEW e \in S
  PROVE  ToSet(Append(s, e)) = ToSet(s) \cup {e}
<1>1. /\ DOMAIN Append(s, e) = DOMAIN s \cup {Len(s) + 1}
      /\ Append(s, e)[Len(s) + 1] = e
      /\ \A i \in DOMAIN s : Append(s, e)[i] = s[i]
  BY AppendAt
<1>2. PICK t : t = Append(s, e)
  OBVIOUS
<1>3. PICK n : n = Len(s) + 1
  OBVIOUS
<1>4. DOMAIN t = DOMAIN s \cup {n} /\ t[n] = e /\ \A i \in DOMAIN s : t[i] = s[i]
  BY <1>1, <1>2, <1>3
<1>5. ToSet(t) = ToSet(s) \cup {e}
  BY ONLY <1>4 DEF ToSet
<1> QED BY <1>2, <1>5

LEMMA RemoveAtSet ==
  ASSUME NEW S, NEW s \in Seq(S), NEW i \in DOMAIN s
  PROVE  ToSet(s) = ToSet(RemoveAt(s, i)) \cup {s[i]}
<1>1. PICK r : r = RemoveAt(s, i)
  OBVIOUS
<1>2. /\ \A j \in DOMAIN r : \E k \in DOMAIN s : r[j] = s[k]
      /\ \A j \in DOMAIN s : j # i => \E k \in DOMAIN r : r[k] = s[j]
  BY <1>1, RemoveAtAt
<1>3. ToSet(s) = ToSet(r) \cup {s[i]}
  BY ONLY <1>2, i \in DOMAIN s DEF ToSet
<1> QED BY <1>1, <1>3

LEMMA TailSet ==
  ASSUME NEW S, NEW s \in Seq(S), s # <<>>
  PROVE  ToSet(s) = ToSet(Tail(s)) \cup {Head(s)}
<1>1. 1 \in DOMAIN s /\ Head(s) = s[1] /\ Tail(s) = RemoveAt(s, 1)
  BY TailIsRemoveAt
<1>2. ToSet(s) = ToSet(RemoveAt(s, 1)) \cup {s[1]}
  BY <1>1, RemoveAtSet
<1> QED BY <1>1, <1>2

----------------------------------------------------------------------------
LEMMA OneListedInit == Init => OneListed
<1> SUFFICES ASSUME Init PROVE OneListed
  OBVIOUS
<1> USE SchedAssumption
<1>1. /\ bl = Listed /\ rq = [h \in Harts |-> <<>>]
      /\ inrq = [a \in Actors |-> FALSE]
      /\ inbl = [a \in Actors |-> a \in Starting]
  BY DEF Init
<1>2. \A h \in Harts : \A i \in DOMAIN Listed[h] : Listed[h][i] \in Actors
  OBVIOUS
<1>3. \A h \in Harts : \A i \in DOMAIN Listed[h] : Listed[h][i] \in Starting
  BY DEF Starting, ToSet
<1>4. \A a \in Actors : inbl[a] => \E h \in Harts : \E i \in DOMAIN Listed[h] : Listed[h][i] = a
  <2>1. \A a \in Starting : \E h \in Harts : \E i \in DOMAIN Listed[h] : Listed[h][i] = a
    BY DEF Starting, ToSet
  <2>2. \A a \in Actors : inbl[a] => a \in Starting
    BY <1>1
  <2> QED BY <2>1, <2>2
<1>5. \A h, k \in Harts : \A i \in DOMAIN Listed[h], j \in DOMAIN Listed[k] :
        Listed[h][i] = Listed[k][j] => h = k /\ i = j
  OBVIOUS
<1>6. \A h \in Harts : \A i \in DOMAIN bl[h] : inbl[bl[h][i]]
  BY <1>1, <1>2, <1>3
<1>0. bl = Listed
  BY <1>1
<1>7. OnceIn(bl, inbl)
  BY ONLY <1>0, <1>4, <1>5, <1>6 DEF OnceIn
<1>8. \A h \in Harts : DOMAIN rq[h] = {}
  BY <1>1
<1>9. \A a \in Actors : inrq[a] = FALSE
  BY <1>1
<1>10. OnceIn(rq, inrq)
  BY <1>8, <1>9 DEF OnceIn
<1> QED BY <1>7, <1>9, <1>10 DEF OneListed

(* Listing an actor: nobody is lost, not by donation either. *)
Backlogged(a) == \E h \in Harts : a \in ToSet(bl[h])
InQueue(a) == \E h \in Harts : a \in ToSet(rq[h])

LEMMA Flagged ==
  ASSUME OneListed
  PROVE  \A a \in Actors : (inbl[a] => Backlogged(a)) /\ (inrq[a] => InQueue(a))
BY DEF OneListed, OnceIn, Backlogged, InQueue, ToSet

LEMMA EnqOnce ==
  ASSUME SchedInv, OneListed, NEW h \in Harts, NEW a \in Actors, Enq(h, a),
         UNCHANGED <<rq, inrq>>
  PROVE  /\ OneListed'
         /\ \A x \in Actors : Backlogged(x) \/ x \in ToSet(ring) =>
                                Backlogged(x)' \/ x \in ToSet(ring')
         /\ Backlogged(a)' \/ InQueue(a)' \/ a \in ToSet(ring')
<1>1. /\ bl \in [Harts -> Seq(Actors)] /\ inbl \in [Actors -> BOOLEAN]
      /\ ring \in Seq(Actors)
  BY ListTypes
<1>2. PICK q \in Seq(Actors) : q = Append(bl[h], a)
  <2>1. Append(bl[h], a) \in Seq(Actors)
    BY <1>1
  <2> QED BY <2>1
<1>3. ToSet(q) = ToSet(bl[h]) \cup {a}
  BY <1>1, <1>2, AppendSet
<1>4. CASE inbl[a] \/ inrq[a]
  <2>1. UNCHANGED lists
    BY <1>4 DEF Enq
  <2>2. UNCHANGED <<bl, inbl, ring>>
    BY <2>1 DEF lists
  <2>3. Backlogged(a) \/ InQueue(a)
    BY <1>4, Flagged
  <2> QED BY <2>2, <2>3 DEF OneListed, OnceIn, Backlogged, InQueue
<1>5. CASE /\ ~inbl[a] /\ ~inrq[a]
           /\ bl' = [bl EXCEPT ![h] = q]
           /\ inbl' = [inbl EXCEPT ![a] = TRUE]
           /\ UNCHANGED ring
  <2>1. OnceIn(bl', inbl')
    BY <1>1, <1>2, <1>5, OncePut DEF OneListed
  <2>2. \A x \in Actors : inbl'[x] => x = a \/ inbl[x]
    BY <1>1, <1>5
  <2>3. OneListed'
    BY <1>5, <2>1, <2>2 DEF OneListed
  <2>4. \A k \in Harts : bl'[k] = IF k = h THEN q ELSE bl[k]
    BY <1>1, <1>5
  <2>5. \A x \in Actors : Backlogged(x) \/ x = a => Backlogged(x)'
    BY <1>3, <2>4 DEF Backlogged
  <2> QED BY <1>5, <2>3, <2>5
<1>6. CASE /\ ~inbl[a] /\ ~inrq[a]
           /\ \E i \in Oldest(Donatable(h, q)) :
                /\ bl' = [bl EXCEPT ![h] = RemoveAt(q, i)]
                /\ inbl' = [inbl EXCEPT ![a] = TRUE, ![q[i]] = FALSE]
                /\ ring' = Append(ring, q[i])
  <2>1. PICK i \in Oldest(Donatable(h, q)) :
                /\ bl' = [bl EXCEPT ![h] = RemoveAt(q, i)]
                /\ inbl' = [inbl EXCEPT ![a] = TRUE, ![q[i]] = FALSE]
                /\ ring' = Append(ring, q[i])
    BY <1>6
  <2>2. i \in DOMAIN q /\ q[i] \in Actors
    BY <1>2 DEF Oldest, Donatable
  <2>3. PICK p \in [Harts -> Seq(Actors)] : p = [bl EXCEPT ![h] = q]
    BY <1>1
  <2>4. PICK f \in [Actors -> BOOLEAN] : f = [inbl EXCEPT ![a] = TRUE]
    BY <1>1
  <2>5. OnceIn(p, f)
    BY <1>1, <1>2, <1>6, <2>3, <2>4, OncePut DEF OneListed
  <2>6. p[h] = q /\ \A k \in Harts : k # h => p[k] = bl[k]
    BY <1>1, <2>3
  <2>7. bl' = [p EXCEPT ![h] = RemoveAt(p[h], i)]
    BY <1>1, <2>1, <2>3, <2>6
  <2>8. inbl' = [f EXCEPT ![p[h][i]] = FALSE]
    BY <1>1, <2>1, <2>4, <2>6
  <2>9. OnceIn(bl', inbl')
    BY <2>2, <2>5, <2>6, <2>7, <2>8, OnceCut
  <2>10. \A x \in Actors : inbl'[x] => x = a \/ inbl[x]
    <3>1. \A x \in Actors : inbl'[x] => f[x]
      BY <2>2, <2>6, <2>8
    <3>2. \A x \in Actors : f[x] => x = a \/ inbl[x]
      BY <1>1, <2>4
    <3> QED BY <3>1, <3>2
  <2>11. OneListed'
    BY <1>6, <2>9, <2>10 DEF OneListed
  <2>12. ToSet(q) = ToSet(RemoveAt(q, i)) \cup {q[i]}
    BY <2>2, RemoveAtSet
  <2>13. ToSet(ring') = ToSet(ring) \cup {q[i]}
    BY <1>1, <2>1, <2>2, AppendSet
  <2>14. bl'[h] = RemoveAt(q, i) /\ \A k \in Harts : k # h => bl'[k] = bl[k]
    <3>1. RemoveAt(q, i) \in Seq(Actors)
      BY <2>2, RemoveAtHolds
    <3> QED BY <1>1, <2>1, <3>1, Updated
  <2>15. ASSUME NEW x \in Actors, Backlogged(x) \/ x = a \/ x \in ToSet(ring)
         PROVE  Backlogged(x)' \/ x \in ToSet(ring')
    <3>1. CASE x \in ToSet(ring)
      BY <2>13, <3>1
    <3>2. CASE x \in ToSet(q)
      BY <2>12, <2>13, <2>14, <3>2 DEF Backlogged
    <3>3. CASE \E k \in Harts : k # h /\ x \in ToSet(bl[k])
      BY <2>14, <3>3 DEF Backlogged
    <3>4. x \in ToSet(ring) \/ x \in ToSet(q) \/ \E k \in Harts : k # h /\ x \in ToSet(bl[k])
      BY <1>3, <2>15 DEF Backlogged
    <3> QED BY <3>1, <3>2, <3>3, <3>4
  <2> QED BY <2>11, <2>15
<1> QED BY <1>2, <1>4, <1>5, <1>6 DEF Enq

LEMMA OneListedFrame ==
  ASSUME OneListed, UNCHANGED <<bl, inbl, rq, inrq>> PROVE OneListed'
BY DEF OneListed, OnceIn

LEMMA UnlinkOnce ==
  ASSUME SchedInv, OneListed, NEW h \in Harts, Unlink(h) PROVE OneListed'
<1>1. bl \in [Harts -> Seq(Actors)] /\ inbl \in [Actors -> BOOLEAN]
  BY ListTypes
<1>2. PICK i \in DOMAIN bl[h] :
        bl' = [bl EXCEPT ![h] = RemoveAt(bl[h], i)] /\ inbl' = [inbl EXCEPT ![bl[h][i]] = FALSE]
  BY DEF Unlink
<1>3. UNCHANGED <<rq, inrq>>
  BY DEF Unlink
<1>4. OnceIn(bl', inbl')
  BY <1>1, <1>2, OnceCut DEF OneListed
<1>5. \A a \in Actors : inbl'[a] => inbl[a]
  BY <1>1, <1>2
<1> QED BY <1>3, <1>4, <1>5 DEF OneListed

LEMMA AdmitOnce ==
  ASSUME SchedInv, OneListed, NEW h \in Harts, Admit(h) PROVE OneListed'
<1>1. /\ bl \in [Harts -> Seq(Actors)] /\ inbl \in [Actors -> BOOLEAN]
      /\ rq \in [Harts -> Seq(Actors)] /\ inrq \in [Actors -> BOOLEAN]
  BY ListTypes
<1>2. PICK i \in DOMAIN bl[h] :
        /\ bl' = [bl EXCEPT ![h] = RemoveAt(bl[h], i)]
        /\ inbl' = [inbl EXCEPT ![bl[h][i]] = FALSE]
        /\ rq' = [rq EXCEPT ![h] = Append(rq[h], bl[h][i])]
        /\ inrq' = [inrq EXCEPT ![bl[h][i]] = TRUE]
  BY DEF Admit
<1>3. PICK a \in Actors : a = bl[h][i]
  BY <1>1
<1>4. OnceIn(bl', inbl')
  BY <1>1, <1>2, OnceCut DEF OneListed
<1>5. inbl[a] /\ ~inrq[a]
  BY <1>3 DEF OneListed, OnceIn
<1>6. OnceIn(rq', inrq')
  BY <1>1, <1>2, <1>3, <1>5, OncePut DEF OneListed
<1>8. \A x \in Actors : ~(inbl[x] /\ inrq[x])
  BY DEF OneListed
<1>9. ASSUME NEW x \in Actors PROVE ~(inbl'[x] /\ inrq'[x])
  <2>1. CASE x = a
    <3>1. inbl'[a] = FALSE
      BY <1>1, <1>2, <1>3
    <3> QED BY <2>1, <3>1
  <2>2. CASE x # a
    <3>1. inbl'[x] = inbl[x] /\ inrq'[x] = inrq[x]
      BY <1>1, <1>2, <1>3, <2>2
    <3> QED BY <1>8, <3>1
  <2> QED BY <2>1, <2>2
<1> QED BY <1>4, <1>6, <1>9 DEF OneListed

LEMMA DeqOnce ==
  ASSUME SchedInv, OneListed, NEW h \in Harts, Deq(h) PROVE OneListed'
<1>1. rq \in [Harts -> Seq(Actors)] /\ inrq \in [Actors -> BOOLEAN] /\ rq[h] # <<>>
  BY ListTypes DEF Deq
<1>2. /\ rq' = [rq EXCEPT ![h] = Tail(rq[h])] /\ inrq' = [inrq EXCEPT ![Head(rq[h])] = FALSE]
      /\ UNCHANGED <<bl, inbl>>
  BY DEF Deq, lists
<1>3. 1 \in DOMAIN rq[h] /\ Head(rq[h]) = rq[h][1] /\ Tail(rq[h]) = RemoveAt(rq[h], 1)
  BY <1>1, TailIsRemoveAt
<1>4. OnceIn(rq', inrq')
  BY <1>1, <1>2, <1>3, OnceCut DEF OneListed
<1>5. \A a \in Actors : inrq'[a] => inrq[a]
  BY <1>1, <1>2
<1> QED BY <1>2, <1>4, <1>5 DEF OneListed

LEMMA StealOnce ==
  ASSUME SchedInv, OneListed, NEW h \in Harts, Steal(h) PROVE OneListed'
<1>1. /\ bl \in [Harts -> Seq(Actors)] /\ inbl \in [Actors -> BOOLEAN]
      /\ ring \in Seq(Actors) /\ ring # <<>>
  BY ListTypes DEF Steal
<1>2. PICK a \in Actors : a = Head(ring)
  BY <1>1, HeadTailHold
<1>3. UNCHANGED <<rq, inrq>>
  BY DEF Steal
<1>4. CASE inbl[a] \/ inrq[a]
  BY <1>2, <1>3, <1>4, OneListedFrame DEF Steal
<1>5. CASE ~(inbl[a] \/ inrq[a])
  <2>1. bl' = [bl EXCEPT ![h] = Append(bl[h], a)] /\ inbl' = [inbl EXCEPT ![a] = TRUE]
    BY <1>2, <1>5 DEF Steal
  <2>2. OnceIn(bl', inbl')
    BY <1>1, <1>5, <2>1, OncePut DEF OneListed
  <2>3. \A x \in Actors : inbl'[x] => inbl[x] \/ x = a
    BY <1>1, <2>1
  <2> QED BY <1>3, <1>5, <2>2, <2>3 DEF OneListed
<1> QED BY <1>4, <1>5

LEMMA OneListedStep ==
  ASSUME SchedInv, OneListed, [Next]_vars PROVE OneListed'
<1>1. CASE UNCHANGED vars
  BY <1>1, OneListedFrame DEF vars
<1>2. ASSUME NEW h \in Harts, LoopStep(h) PROVE OneListed'
  <2>1. CASE Drain(h)
    <3>1. PICK s \in Inbound(h) : Enq(h, Head(xr[s][h])) /\ UNCHANGED <<rq, inrq>>
      BY <2>1 DEF Drain
    <3>2. xr[s][h] \in Seq(Actors) /\ xr[s][h] # <<>>
      BY ListTypes DEF Inbound
    <3>3. Head(xr[s][h]) \in Actors
      BY <3>2, HeadTailHold
    <3> QED BY <3>1, <3>3, EnqOnce
  <2>2. CASE Unlink(h)
    BY <2>2, UnlinkOnce
  <2>3. CASE Admit(h)
    BY <2>3, AdmitOnce
  <2>4. CASE Deq(h)
    BY <2>4, DeqOnce
  <2>5. CASE Steal(h)
    BY <2>5, StealOnce
  <2>6. CASE Drained(h) \/ Refilled(h) \/ DeqEmpty(h) \/ NoSteal(h) \/ SwitchOut(h)
    BY <2>6, OneListedFrame DEF Drained, Refilled, DeqEmpty, NoSteal, SwitchOut, lists
  <2> QED BY <1>2, <2>1, <2>2, <2>3, <2>4, <2>5, <2>6 DEF LoopStep
<1>3. ASSUME NEW h \in Harts, ActorStep(h) PROVE OneListed'
  <2>1. CASE Ship(h)
    <3>1. UNCHANGED <<rq, inrq>> /\ (Enq(h, to[current[h]]) \/ UNCHANGED lists)
      BY <2>1 DEF Ship
    <3>2. to[current[h]] \in Actors
      BY <2>1, Running, Types DEF Ship, Pcs
    <3>3. CASE UNCHANGED lists
      BY <3>1, <3>3, OneListedFrame DEF lists
    <3> QED BY <3>1, <3>2, <3>3, EnqOnce
  <2>2. CASE Yield(h)
    <3>1. UNCHANGED <<rq, inrq>> /\ Enq(h, current[h]) /\ current[h] \in Actors
      BY <2>2, SpendOps DEF Yield
    <3> QED BY <3>1, EnqOnce
  <2>3. CASE Xpush(h) \/ Spawn(h)
    BY <2>3, OneListedFrame DEF Xpush, Spawn, lists
  <2>4. CASE Send(h) \/ Wake(h) \/ Receive(h) \/ BlockCas(h) \/ Rescan(h) \/ Kill(h) \/ Exit(h)
    BY <2>4, OneListedFrame DEF Send, Wake, Receive, BlockCas, Rescan, Kill, Exit, plane, lists
  <2> QED BY <1>3, <2>1, <2>2, <2>3, <2>4 DEF ActorStep
<1> QED BY <1>1, <1>2, <1>3 DEF Next

(* The same, by counting entries. *)
LEMMA EntriesOf ==
  ASSUME NEW q \in [Harts -> Seq(Actors)], NEW f \in [Actors -> BOOLEAN], OnceIn(q, f),
         NEW a \in Actors
  PROVE  Cardinality(Entries(q, a)) = (IF f[a] THEN 1 ELSE 0)
<1>2. CASE f[a]
  <2>1. PICK h \in Harts : \E i \in DOMAIN q[h] : q[h][i] = a
    BY <1>2 DEF OnceIn
  <2>2. PICK i \in DOMAIN q[h] : q[h][i] = a
    BY <2>1
  <2>3. \A k \in Harts : \A j \in DOMAIN q[k] : q[k][j] = a => k = h /\ j = i
    BY <2>2 DEF OnceIn
  <2>4. Entries(q, a) = {<<h, i>>}
    BY <2>2, <2>3 DEF Entries
  <2> QED BY <1>2, <2>4, FS_Singleton
<1>3. CASE ~f[a]
  <2>1. \A k \in Harts : \A j \in DOMAIN q[k] : q[k][j] # a
    BY <1>3 DEF OnceIn
  <2>2. Entries(q, a) = {}
    BY <2>1 DEF Entries
  <2> QED BY <1>3, <2>2, FS_EmptySet
<1> QED BY <1>2, <1>3

LEMMA OneEntryHolds == SchedInv /\ OneListed => OneEntry
<1> SUFFICES ASSUME SchedInv, OneListed PROVE OneEntry
  OBVIOUS
<1>1. /\ bl \in [Harts -> Seq(Actors)] /\ inbl \in [Actors -> BOOLEAN]
      /\ rq \in [Harts -> Seq(Actors)] /\ inrq \in [Actors -> BOOLEAN]
  BY ListTypes
<1> QED BY <1>1, EntriesOf DEF OneListed, OneEntry

(* "One entry is the invariant": whatever is woken, shipped, donated,      *)
(* stolen, yielded or killed, and however full the queues are, no actor is *)
(* listed twice, and in_bl and in_rq say where it is listed.               *)
THEOREM ListedOnce == Spec => []OneEntry
<1>1. Init => SchedInv /\ OneListed
  BY SchedInit, OneListedInit
<1>2. SchedInv /\ OneListed /\ [Next]_vars => (SchedInv /\ OneListed)'
  BY SchedStep, OneListedStep
<1> QED BY <1>1, <1>2, OneEntryHolds, PTL DEF Spec

USE SchedAssumption
----------------------------------------------------------------------------
(* Nobody is lost, if no two harts run one actor and a hart that looks for *)
(* work has nobody on its lists that runs (Lonely).                        *)
Lonely ==
  \A h \in Harts : current[h] = None =>
    \A a \in Actors : a \in ToSet(bl[h]) \/ a \in ToSet(rq[h]) => ~Runs(a)

Resting == \A a \in Actors : Runs(a) \/ pc[a] \in {"unborn", "user", "parked"}
Kept ==
  \A a \in Actors :
    /\ pc[a] # "unborn" /\ var[a] = "READY"
    /\ ~Runs(a) \/ pc[a] \in {"rescan", "parking", "leave"}
    => Found(a)
Mailed ==
  \A a \in Actors :
    pc[a] \in {"parking", "parked"} /\ var[a] = "BLOCKED" /\ mail[a] > 0 => Waking(a, "wake")
Sound == Resting /\ Kept /\ Mailed /\ ReapedAreGone

InFlight(a) == \E h \in Harts : \E s \in Harts : a \in ToSet(xr[s][h])
LEMMA FoundIs ==
  \A a : Found(a) <=> \/ Backlogged(a) \/ InQueue(a) \/ InFlight(a) \/ a \in ToSet(ring)
                      \/ Waking(a, "ship") \/ Waking(a, "xpush")
BY DEF Found, Backlogged, InQueue, InFlight
LEMMA FoundNext ==
  (\A a : Found(a) <=> \/ Backlogged(a) \/ InQueue(a) \/ InFlight(a) \/ a \in ToSet(ring)
                       \/ Waking(a, "ship") \/ Waking(a, "xpush"))'
BY FoundIs, PTL

LEMMA SoundInit == Init => Sound
<1> SUFFICES ASSUME Init PROVE Sound
  OBVIOUS
<1>1. /\ \A a \in Actors : pc[a] \in {"unborn", "user", "parked"} /\ mail[a] = 0
      /\ reaped = {}
  BY DEF Init
<1>2. ASSUME NEW a \in Actors, pc[a] # "unborn", var[a] = "READY" PROVE Found(a)
  <2>1. a \in Starting
    BY <1>2 DEF Init
  <2>2. PICK h \in Harts : a \in ToSet(Listed[h])
    BY <2>1 DEF Starting
  <2>3. Backlogged(a)
    BY <2>2 DEF Init, Backlogged
  <2> QED BY <2>3, FoundIs
<1> QED BY <1>1, <1>2 DEF Sound, Resting, Kept, Mailed, ReapedAreGone

(* A waker is at work until it takes its step. *)
LEMMA WakingStays ==
  ASSUME NEW l,
         \A k \in Harts : At(k, l) =>
           /\ current'[k] = current[k] /\ pc'[current[k]] = l
           /\ to'[current[k]] = to[current[k]]
  PROVE  \A x : Waking(x, l) => Waking(x, l)'
BY DEF Waking, At

(* Steps that change the lists alone, and lose nobody. *)
LEMMA SoundLists ==
  ASSUME SchedInv, Sound, UNCHANGED <<var, pc, to, mail, current, reaped>>,
         \A x \in Actors : Found(x) => Found(x)'
  PROVE  Sound'
<1>1. \A x \in Actors : Runs(x)' <=> Runs(x)
  BY DEF Runs
<1>2. \A x \in Actors : Waking(x, "wake") => Waking(x, "wake")'
  BY DEF Waking, At
<1>3. Resting'
  BY <1>1 DEF Sound, Resting
<1>4. Kept'
  BY <1>1 DEF Sound, Kept
<1>5. Mailed'
  BY <1>2 DEF Sound, Mailed
<1>6. ReapedAreGone'
  BY DEF Sound, ReapedAreGone, Runs
<1> QED BY <1>3, <1>4, <1>5, <1>6 DEF Sound

LEMMA SoundFrame ==
  ASSUME SchedInv, Sound, UNCHANGED <<bl, rq, xr, ring, var, pc, to, mail, current, reaped>>
  PROVE  Sound'
<1>1. \A x \in Actors : Found(x) => Found(x)'
  BY DEF Found, Waking, At
<1> QED BY <1>1, SoundLists

(* One wake ring changes. *)
LEMMA RingOfPair ==
  ASSUME NEW R, NEW f \in [Harts -> [Harts -> R]], NEW s \in Harts, NEW h \in Harts, NEW q \in R,
         NEW j \in Harts, NEW k \in Harts
  PROVE  [f EXCEPT ![s][h] = q][j][k] = IF j = s /\ k = h THEN q ELSE f[j][k]
<1>1. PICK row \in [Harts -> R] : row = [f[s] EXCEPT ![h] = q]
  OBVIOUS
<1>2. row[k] = IF k = h THEN q ELSE f[s][k]
  BY <1>1
<1>3. [f EXCEPT ![s][h] = q] = [f EXCEPT ![s] = row]
  BY <1>1
<1>4. [f EXCEPT ![s] = row][j] = IF j = s THEN row ELSE f[j]
  OBVIOUS
<1>5. CASE j = s
  BY <1>2, <1>3, <1>4, <1>5
<1>6. CASE j # s
  BY <1>3, <1>4, <1>6
<1> QED BY <1>5, <1>6

Puts(s, h, q) ==
  xr \in [Harts -> [Harts -> Seq(Actors)]] /\ xr' = [xr EXCEPT ![s][h] = q]
LEMMA RingPut ==
  ASSUME NEW s \in Harts, NEW h \in Harts, NEW q \in Seq(Actors), Puts(s, h, q)
  PROVE  \A j, k \in Harts : xr'[j][k] = IF j = s /\ k = h THEN q ELSE xr[j][k]
<1>1. PICK R : R = Seq(Actors)
  OBVIOUS
<1>2. PICK f \in [Harts -> [Harts -> R]] : f = xr
  BY <1>1 DEF Puts
<1> SUFFICES ASSUME NEW j \in Harts, NEW k \in Harts
             PROVE  xr'[j][k] = IF j = s /\ k = h THEN q ELSE xr[j][k]
  OBVIOUS
<1>3. q \in R
  BY <1>1
<1>4. [f EXCEPT ![s][h] = q][j][k] = IF j = s /\ k = h THEN q ELSE f[j][k]
  BY ONLY f \in [Harts -> [Harts -> R]], <1>3, s \in Harts, h \in Harts, j \in Harts, k \in Harts,
          RingOfPair
<1> QED BY <1>2, <1>4 DEF Puts

LEMMA DrainSound ==
  ASSUME SchedInv, OneListed, Sound, NEW h \in Harts, Drain(h) PROVE Sound'
<1>1. PICK s \in Inbound(h) :
        /\ Enq(h, Head(xr[s][h])) /\ xr' = [xr EXCEPT ![s][h] = Tail(@)]
        /\ UNCHANGED <<rq, inrq>>
  BY DEF Drain
<1>2. UNCHANGED <<var, pc, to, mail, current, reaped>>
  BY DEF Drain, actors
<1>3. /\ xr \in [Harts -> [Harts -> Seq(Actors)]] /\ xr[s][h] \in Seq(Actors)
      /\ xr[s][h] # <<>> /\ s \in Harts
  BY ListTypes DEF Inbound
<1>4. PICK a \in Actors : a = Head(xr[s][h])
  BY <1>3, HeadTailHold
<1>5. /\ \A x \in Actors : Backlogged(x) \/ x \in ToSet(ring) =>
                             Backlogged(x)' \/ x \in ToSet(ring')
      /\ Backlogged(a)' \/ InQueue(a)' \/ a \in ToSet(ring')
  BY <1>1, <1>4, EnqOnce
<1>6. ToSet(xr[s][h]) = ToSet(Tail(xr[s][h])) \cup {a}
  BY <1>3, <1>4, TailSet
<1>7. \A j, k \in Harts : xr'[j][k] = IF j = s /\ k = h THEN Tail(xr[s][h]) ELSE xr[j][k]
  <2>1. xr' = [xr EXCEPT ![s][h] = Tail(xr[s][h])] /\ Tail(xr[s][h]) \in Seq(Actors)
    BY <1>1, <1>3
  <2>2. PICK q \in Seq(Actors) : q = Tail(xr[s][h])
    BY <2>1
  <2>3. xr' = [xr EXCEPT ![s][h] = q]
    BY <2>1, <2>2
  <2>4. \A j, k \in Harts : xr'[j][k] = IF j = s /\ k = h THEN q ELSE xr[j][k]
    <3>1. Puts(s, h, q) /\ s \in Harts
      BY <1>3, <2>3 DEF Puts
    <3> QED BY <3>1, RingPut
  <2> QED BY <2>2, <2>4
<1>8. \A x \in Actors : InFlight(x) => x = a \/ InFlight(x)'
  <2>1. ASSUME NEW j \in Harts, NEW k \in Harts, NEW x \in ToSet(xr[j][k])
        PROVE  x = a \/ x \in ToSet(xr'[j][k])
    <3>1. CASE j = s /\ k = h
      BY <1>6, <1>7, <3>1
    <3>2. CASE ~(j = s /\ k = h)
      <4>1. xr'[j][k] = xr[j][k]
        BY ONLY <1>7, <3>2, j \in Harts, k \in Harts
      <4> QED BY <4>1
    <3> QED BY <3>1, <3>2
  <2> QED BY <2>1 DEF InFlight
<1>9. \A x \in Actors : InQueue(x) => InQueue(x)'
  BY <1>1 DEF InQueue
<1>10. \A x \in Actors : /\ Waking(x, "ship") => Waking(x, "ship")'
                         /\ Waking(x, "xpush") => Waking(x, "xpush")'
  BY <1>2 DEF Waking, At
<1>11. \A x \in Actors : Found(x) => Found(x)'
  BY <1>5, <1>8, <1>9, <1>10, FoundIs, FoundNext
<1> QED BY <1>2, <1>11, SoundLists

LEMMA AdmitSound ==
  ASSUME SchedInv, Sound, NEW h \in Harts, Admit(h) PROVE Sound'
<1>1. PICK i \in DOMAIN bl[h] :
        /\ bl' = [bl EXCEPT ![h] = RemoveAt(bl[h], i)]
        /\ rq' = [rq EXCEPT ![h] = Append(rq[h], bl[h][i])]
  BY DEF Admit
<1>2. UNCHANGED <<xr, ring, var, pc, to, mail, current, reaped>>
  BY DEF Admit, actors
<1>3. /\ bl \in [Harts -> Seq(Actors)] /\ rq \in [Harts -> Seq(Actors)]
      /\ bl[h][i] \in Actors /\ RemoveAt(bl[h], i) \in Seq(Actors)
  <2>1. bl \in [Harts -> Seq(Actors)] /\ rq \in [Harts -> Seq(Actors)]
    BY ListTypes
  <2>2. PICK s \in Seq(Actors) : s = bl[h]
    BY <2>1
  <2>3. s[i] \in Actors /\ RemoveAt(s, i) \in Seq(Actors)
    BY ONLY s \in Seq(Actors), i \in DOMAIN bl[h], s = bl[h], RemoveAtHolds
  <2> QED BY <2>1, <2>2, <2>3
<1>4. ToSet(bl[h]) = ToSet(RemoveAt(bl[h], i)) \cup {bl[h][i]}
  BY <1>3, RemoveAtSet
<1>5. ToSet(Append(rq[h], bl[h][i])) = ToSet(rq[h]) \cup {bl[h][i]}
  BY <1>3, AppendSet
<1>6. /\ bl'[h] = RemoveAt(bl[h], i) /\ rq'[h] = Append(rq[h], bl[h][i])
      /\ \A k \in Harts : k # h => bl'[k] = bl[k] /\ rq'[k] = rq[k]
  BY <1>1, <1>3
<1>7. \A x \in Actors : Backlogged(x) => Backlogged(x)' \/ InQueue(x)'
  BY <1>4, <1>5, <1>6 DEF Backlogged, InQueue
<1>8. \A x \in Actors : InQueue(x) => InQueue(x)'
  BY <1>5, <1>6 DEF InQueue
<1>9. \A x \in Actors : /\ InFlight(x) => InFlight(x)'
                        /\ Waking(x, "ship") => Waking(x, "ship")'
                        /\ Waking(x, "xpush") => Waking(x, "xpush")'
  BY <1>2 DEF InFlight, Waking, At
<1>10. \A x \in Actors : Found(x) => Found(x)'
  BY <1>2, <1>7, <1>8, <1>9, FoundIs, FoundNext
<1> QED BY <1>2, <1>10, SoundLists

LEMMA StealSound ==
  ASSUME SchedInv, OneListed, Sound, NEW h \in Harts, Steal(h) PROVE Sound'
<1>1. /\ bl \in [Harts -> Seq(Actors)] /\ ring \in Seq(Actors) /\ ring # <<>>
  BY ListTypes DEF Steal
<1>2. PICK a \in Actors : a = Head(ring)
  BY <1>1, HeadTailHold
<1>3. UNCHANGED <<rq, xr, var, pc, to, mail, current, reaped>> /\ ring' = Tail(ring)
  BY DEF Steal, actors
<1>4. ToSet(ring) = ToSet(ring') \cup {a}
  BY <1>1, <1>2, <1>3, TailSet
<1>5. /\ \A x \in Actors : Backlogged(x) => Backlogged(x)'
      /\ Backlogged(a)' \/ InQueue(a)
  <2>1. CASE inbl[a] \/ inrq[a]
    <3>1. UNCHANGED bl
      BY <1>2, <2>1 DEF Steal
    <3>2. Backlogged(a) \/ InQueue(a)
      BY <2>1, Flagged
    <3> QED BY <3>1, <3>2 DEF Backlogged
  <2>2. CASE ~(inbl[a] \/ inrq[a])
    <3>1. bl' = [bl EXCEPT ![h] = Append(bl[h], a)]
      BY <1>2, <2>2 DEF Steal
    <3>2. ToSet(Append(bl[h], a)) = ToSet(bl[h]) \cup {a}
      BY <1>1, AppendSet
    <3>3. \A k \in Harts : bl'[k] = IF k = h THEN Append(bl[h], a) ELSE bl[k]
      BY <1>1, <3>1
    <3> QED BY <3>2, <3>3 DEF Backlogged
  <2> QED BY <2>1, <2>2
<1>6. \A x \in Actors : /\ InQueue(x) => InQueue(x)'
                        /\ InFlight(x) => InFlight(x)'
                        /\ Waking(x, "ship") => Waking(x, "ship")'
                        /\ Waking(x, "xpush") => Waking(x, "xpush")'
  BY <1>3 DEF InQueue, InFlight, Waking, At
<1>7. \A x \in Actors : Found(x) => Found(x)'
  BY <1>4, <1>5, <1>6, FoundIs, FoundNext
<1> QED BY <1>3, <1>7, SoundLists

(* An entry that is not READY is unlinked; no dead actor on it still runs. *)
LEMMA UnlinkSound ==
  ASSUME SchedInv, Lonely, Sound, NEW h \in Harts, Unlink(h) PROVE Sound'
<1>1. PICK i \in DOMAIN bl[h] :
        /\ var[bl[h][i]] # "READY"
        /\ bl' = [bl EXCEPT ![h] = RemoveAt(bl[h], i)]
        /\ reaped' = IF var[bl[h][i]] = "DEAD" THEN reaped \cup {bl[h][i]} ELSE reaped
  BY DEF Unlink
<1>2. UNCHANGED <<rq, xr, ring, var, pc, to, mail, current>> /\ current[h] = None
  BY DEF Unlink, actors, HAt
<1>3. bl \in [Harts -> Seq(Actors)] /\ RemoveAt(bl[h], i) \in Seq(Actors)
  BY ListTypes, RemoveAtHolds
<1>4. PICK a \in Actors : a = bl[h][i]
  BY <1>3
<1>5. ToSet(bl[h]) = ToSet(RemoveAt(bl[h], i)) \cup {a}
  <2>1. PICK s \in Seq(Actors) : s = bl[h]
    BY <1>3
  <2>2. ToSet(s) = ToSet(RemoveAt(s, i)) \cup {s[i]}
    BY ONLY s \in Seq(Actors), i \in DOMAIN bl[h], s = bl[h], RemoveAtSet
  <2> QED BY <1>4, <2>1, <2>2
<1>6. bl'[h] = RemoveAt(bl[h], i) /\ \A k \in Harts : k # h => bl'[k] = bl[k]
  BY <1>1, <1>3
<1>7. \A x \in Actors : Backlogged(x) => x = a \/ Backlogged(x)'
  BY <1>5, <1>6 DEF Backlogged
<1>8. \A x \in Actors : /\ InQueue(x) => InQueue(x)'
                        /\ InFlight(x) => InFlight(x)'
                        /\ Waking(x, "ship") => Waking(x, "ship")'
                        /\ Waking(x, "xpush") => Waking(x, "xpush")'
                        /\ Waking(x, "wake") => Waking(x, "wake")'
                        /\ Runs(x)' <=> Runs(x)
  BY <1>2 DEF InQueue, InFlight, Waking, At, Runs
<1>9. \A x \in Actors : Found(x) => x = a \/ Found(x)'
  BY <1>2, <1>7, <1>8, FoundIs, FoundNext
<1>10. Kept'
  BY <1>1, <1>2, <1>4, <1>8, <1>9 DEF Sound, Kept
<1>11. ReapedAreGone'
  <2>1. ~Runs(a)
    BY <1>2, <1>5 DEF Lonely
  <2>2. \A x \in reaped' : x \in reaped \/ (x = a /\ var[a] = "DEAD")
    BY <1>1, <1>4
  <2>3. reaped' \subseteq Actors
    BY <2>2, ListTypes
  <2> QED BY <1>2, <1>8, <2>1, <2>2, <2>3 DEF Sound, ReapedAreGone
<1> QED BY <1>2, <1>8, <1>10, <1>11 DEF Sound, Resting, Mailed

LEMMA DeqSound ==
  ASSUME SchedInv, Lonely, Sound, NEW h \in Harts, Deq(h) PROVE Sound'
<1>1. rq \in [Harts -> Seq(Actors)] /\ rq[h] # <<>>
  BY ListTypes DEF Deq
<1>2. PICK a \in Actors : a = Head(rq[h])
  BY <1>1, HeadTailHold
<1>3. /\ UNCHANGED <<bl, xr, ring, var, to, mail>> /\ current[h] = None
      /\ rq' = [rq EXCEPT ![h] = Tail(rq[h])]
  BY DEF Deq, lists, HAt
<1>4. ToSet(rq[h]) = ToSet(Tail(rq[h])) \cup {a} /\ Tail(rq[h]) \in Seq(Actors)
  BY <1>1, <1>2, TailSet, HeadTailHold
<1>5. \A x \in Actors : InQueue(x) => x = a \/ InQueue(x)'
  <2>1. \A k \in Harts : rq'[k] = IF k = h THEN Tail(rq[h]) ELSE rq[k]
    BY <1>1, <1>3, <1>4, Updated
  <2> QED BY <1>4, <2>1 DEF InQueue
<1>6. ~Runs(a)
  BY <1>3, <1>4 DEF Lonely
<1>7. pc \in [Actors -> Pcs] /\ current \in [Harts -> Actors \cup {None}]
      /\ reaped \subseteq Actors
  BY DEF SchedInv, TypeOK
<1>8. \A x \in Actors : /\ Backlogged(x) => Backlogged(x)'
                        /\ InFlight(x) => InFlight(x)'
  BY <1>3 DEF Backlogged, InFlight
<1>9. CASE var[a] = "READY"
  <2>1. /\ current' = [current EXCEPT ![h] = a]
        /\ pc' = [pc EXCEPT ![a] = IF @ = "parked" THEN "user" ELSE @]
        /\ UNCHANGED reaped
    BY <1>2, <1>9 DEF Deq
  <2>2. pc[a] \in {"unborn", "user", "parked"}
    BY <1>6 DEF Sound, Resting
  <2>3. pc'[a] \in {"unborn", "user"} /\ \A x \in Actors : x # a => pc'[x] = pc[x]
    BY <1>7, <2>1, <2>2
  <2>4. \A k \in Harts : current'[k] = IF k = h THEN a ELSE current[k]
    BY <1>7, <2>1
  <2>5. \A l \in {"wake", "ship", "xpush"} : \A x : Waking(x, l) => Waking(x, l)'
    <3> SUFFICES ASSUME NEW l \in {"wake", "ship", "xpush"}
                 PROVE  \A x : Waking(x, l) => Waking(x, l)'
      OBVIOUS
    <3>1. ASSUME NEW k \in Harts, At(k, l)
          PROVE  /\ current'[k] = current[k] /\ pc'[current[k]] = l
                 /\ to'[current[k]] = to[current[k]]
      <4>1. k # h /\ current[k] \in Actors /\ pc[current[k]] = l
        BY <1>3, <1>7, <3>1 DEF At
      <4>2. current[k] # a
        BY <2>2, <4>1
      <4> QED BY <1>3, <2>3, <2>4, <4>1, <4>2
    <3> QED BY <3>1, WakingStays
  <2>6. \A x \in Actors : Runs(x)' <=> Runs(x) \/ x = a
    <3>1. ASSUME NEW x \in Actors, Runs(x) PROVE Runs(x)'
      <4>1. PICK k \in Harts : current[k] = x
        BY <3>1 DEF Runs
      <4>2. k # h
        BY <1>3, <4>1
      <4> QED BY <2>4, <4>1, <4>2 DEF Runs
    <3>2. Runs(a)'
      BY <2>4 DEF Runs
    <3>3. ASSUME NEW x \in Actors, Runs(x)' PROVE Runs(x) \/ x = a
      BY <2>4, <3>3 DEF Runs
    <3> QED BY <3>1, <3>2, <3>3
  <2>7. \A x \in Actors : Found(x) => x = a \/ Found(x)'
    BY <1>3, <1>5, <1>8, <2>5, FoundIs, FoundNext
  <2>8. Resting'
    BY <2>3, <2>6 DEF Sound, Resting
  <2>9. Kept'
    <3> SUFFICES ASSUME NEW x \in Actors, pc'[x] # "unborn", var'[x] = "READY",
                        ~Runs(x)' \/ pc'[x] \in {"rescan", "parking", "leave"}
                 PROVE  Found(x)'
      BY DEF Kept
    <3>1. x # a
      BY <2>3, <2>6
    <3> QED BY <1>3, <2>3, <2>6, <2>7, <3>1 DEF Sound, Kept
  <2>10. Mailed'
    BY <1>3, <2>3, <2>5 DEF Sound, Mailed
  <2>11. ReapedAreGone'
    BY <1>3, <1>7, <1>9, <2>1, <2>6 DEF Sound, ReapedAreGone
  <2> QED BY <2>8, <2>9, <2>10, <2>11 DEF Sound
<1>10. CASE var[a] # "READY"
  <2>1. /\ reaped' = IF var[a] = "DEAD" THEN reaped \cup {a} ELSE reaped
        /\ UNCHANGED <<current, pc>>
    BY <1>2, <1>10 DEF Deq
  <2>2. \A x \in Actors : /\ Waking(x, "ship") => Waking(x, "ship")'
                          /\ Waking(x, "xpush") => Waking(x, "xpush")'
                          /\ Waking(x, "wake") => Waking(x, "wake")'
                          /\ Runs(x)' <=> Runs(x)
    BY <1>3, <2>1 DEF Waking, At, Runs
  <2>3. \A x \in Actors : Found(x) => x = a \/ Found(x)'
    BY <1>3, <1>5, <1>8, <2>2, FoundIs, FoundNext
  <2>4. Kept'
    BY <1>3, <1>10, <2>1, <2>2, <2>3 DEF Sound, Kept
  <2>5. ReapedAreGone'
    BY <1>3, <1>6, <1>7, <2>1, <2>2 DEF Sound, ReapedAreGone
  <2> QED BY <1>3, <2>1, <2>2, <2>4, <2>5 DEF Sound, Resting, Mailed
<1> QED BY <1>9, <1>10

LEMMA SwitchOutSound ==
  ASSUME SchedInv, OneHart, Sound, NEW h \in Harts, SwitchOut(h) PROVE Sound'
<1>1. pc \in [Actors -> Pcs] /\ current \in [Harts -> Actors \cup {None}]
      /\ reaped \subseteq Actors
  BY DEF SchedInv, TypeOK
<1>2. PICK a \in Actors : a = current[h] /\ pc[a] \in {"leave", "parking"}
  BY <1>1 DEF SwitchOut
<1>3. /\ current' = [current EXCEPT ![h] = None]
      /\ pc' = [pc EXCEPT ![a] = IF @ = "parking" THEN "parked" ELSE "user"]
      /\ reaped' = IF var[a] = "DEAD" THEN reaped \cup {a} ELSE reaped
      /\ UNCHANGED <<bl, rq, xr, ring, var, to, mail>>
  BY <1>2 DEF SwitchOut, lists
<1>4. \A k \in Harts : current'[k] = IF k = h THEN None ELSE current[k]
  BY <1>1, <1>3
<1>5. /\ pc'[a] = IF pc[a] = "parking" THEN "parked" ELSE "user"
      /\ \A x \in Actors : x # a => pc'[x] = pc[x]
  BY <1>1, <1>3
<1>6. \A l \in {"wake", "ship", "xpush"} : \A x : Waking(x, l) => Waking(x, l)'
  <2> SUFFICES ASSUME NEW l \in {"wake", "ship", "xpush"}
               PROVE  \A x : Waking(x, l) => Waking(x, l)'
    OBVIOUS
  <2>1. ASSUME NEW k \in Harts, At(k, l)
        PROVE  /\ current'[k] = current[k] /\ pc'[current[k]] = l
               /\ to'[current[k]] = to[current[k]]
    <3>1. current[k] \in Actors /\ pc[current[k]] = l
      BY <1>1, <2>1 DEF At
    <3>2. current[k] # a /\ k # h
      BY <1>2, <3>1
    <3> QED BY <1>3, <1>4, <1>5, <3>1, <3>2
  <2> QED BY <2>1, WakingStays
<1>7. \A x \in Actors : Runs(x)' <=> Runs(x) /\ x # a
  <2>0. a # None /\ \A x \in Actors : x # None
    OBVIOUS
  <2>1. ~Runs(a)'
    <3> SUFFICES ASSUME NEW k \in Harts, current'[k] = a PROVE FALSE
      BY DEF Runs
    <3>1. k # h /\ current[k] = a
      BY <1>4, <2>0
    <3> QED BY <1>2, <2>0, <3>1 DEF OneHart
  <2>2. ASSUME NEW x \in Actors, x # a PROVE Runs(x)' <=> Runs(x)
    <3>1. ASSUME NEW k \in Harts, current'[k] = x PROVE current[k] = x
      <4>1. k # h
        BY <1>4, <2>0, <3>1
      <4> QED BY <1>4, <3>1, <4>1
    <3>2. ASSUME NEW k \in Harts, current[k] = x PROVE current'[k] = x
      <4>1. k # h
        BY <1>2, <2>2, <3>2
      <4> QED BY <1>4, <3>2, <4>1
    <3> QED BY <3>1, <3>2 DEF Runs
  <2> QED BY <2>1, <2>2
<1>8. \A x \in Actors : Found(x) => Found(x)'
  <2>1. \A x \in Actors : /\ Backlogged(x) => Backlogged(x)'
                          /\ InQueue(x) => InQueue(x)'
                          /\ InFlight(x) => InFlight(x)'
    BY <1>3 DEF Backlogged, InQueue, InFlight
  <2> QED BY <1>3, <1>6, <2>1, FoundIs, FoundNext
<1>9. Resting'
  BY <1>5, <1>7 DEF Sound, Resting
<1>10. Kept'
  <2> SUFFICES ASSUME NEW x \in Actors, pc'[x] # "unborn", var'[x] = "READY",
                      ~Runs(x)' \/ pc'[x] \in {"rescan", "parking", "leave"}
               PROVE  Found(x)'
    BY DEF Kept
  <2>1. CASE x = a
    BY <1>2, <1>3, <1>8, <2>1 DEF Sound, Kept
  <2>2. CASE x # a
    BY <1>3, <1>5, <1>7, <1>8, <2>2 DEF Sound, Kept
  <2> QED BY <2>1, <2>2
<1>11. Mailed'
  <2> SUFFICES ASSUME NEW x \in Actors, pc'[x] \in {"parking", "parked"}, var'[x] = "BLOCKED",
                      mail'[x] > 0
               PROVE  Waking(x, "wake")'
    BY DEF Mailed
  <2>1. pc[x] \in {"parking", "parked"}
    BY <1>2, <1>5
  <2> QED BY <1>3, <1>6, <2>1 DEF Sound, Mailed
<1>12. ReapedAreGone'
  BY <1>1, <1>3, <1>7 DEF Sound, ReapedAreGone
<1> QED BY <1>9, <1>10, <1>11, <1>12 DEF Sound

----------------------------------------------------------------------------
(* A step of the actor a on hart h that changes no list, makes nobody      *)
(* READY but itself and whom it is about to ship, leaves nobody parked     *)
(* with mail and no waker, and brings nobody back from the dead.           *)
Alone(h, a) ==
  /\ current[h] = a /\ current' = current
  /\ \A x \in Actors : x # a => (pc'[x] = pc[x] \/ pc[x] = "unborn") /\ to'[x] = to[x]
Acts(h, a) ==
  /\ current[h] = a /\ current' = current
  /\ \A x \in Actors : x # a => pc'[x] = pc[x] /\ to'[x] = to[x]
  /\ pc[a] \notin {"ship", "xpush"}
  /\ bl' = bl /\ rq' = rq /\ xr' = xr /\ ring' = ring /\ reaped' = reaped
  /\ \/ pc'[a] \notin {"rescan", "parking", "leave"} \/ var'[a] # "READY"
     \/ pc[a] \in {"rescan", "parking", "leave"} /\ var[a] = "READY"
  /\ \A x \in Actors : var'[x] = "READY" => x = a \/ var[x] = "READY" \/ Waking(x, "ship")'
  /\ \A x \in Actors : pc'[x] \in {"parking", "parked"} /\ var'[x] = "BLOCKED" /\ mail'[x] > 0
       => \/ /\ pc[x] \in {"parking", "parked"} /\ var[x] = "BLOCKED" /\ mail[x] > 0
             /\ ~(pc[a] = "wake" /\ x = to[a])
          \/ Waking(x, "wake")'
  /\ \A x \in Actors : var[x] = "DEAD" => var'[x] = "DEAD"

(* The steps of a running actor: what its step leaves alone, if it changes *)
(* no list; the actor it was waking is the only one that loses its waker.  *)
LEMMA ActorFrame ==
  ASSUME SchedInv, Sound, NEW h \in Harts, NEW a \in Actors,
         Alone(h, a)
  PROVE  /\ \A x \in Actors : Runs(x)' <=> Runs(x)
         /\ Runs(a)
         /\ \A x : Waking(x, "wake") => Waking(x, "wake")' \/ (pc[a] = "wake" /\ x = to[a])
         /\ \A x : Waking(x, "ship") => Waking(x, "ship")' \/ (pc[a] = "ship" /\ x = to[a])
         /\ \A x : Waking(x, "xpush") => Waking(x, "xpush")' \/ (pc[a] = "xpush" /\ x = to[a])
<1>0. pc \in [Actors -> Pcs] /\ current \in [Harts -> Actors \cup {None}]
  BY DEF SchedInv, TypeOK
<1>1. (\A x \in Actors : Runs(x)' <=> Runs(x)) /\ Runs(a)
  BY DEF Runs, Alone
<1>2. ASSUME NEW l \in {"wake", "ship", "xpush"}, NEW x, Waking(x, l),
             ~(pc[a] = l /\ x = to[a])
      PROVE  Waking(x, l)'
  <2>1. PICK k \in Harts : At(k, l) /\ to[current[k]] = x
    BY <1>2 DEF Waking
  <2>2. current[k] \in Actors /\ pc[current[k]] = l /\ current[k] # a
    BY <1>0, <1>2, <2>1 DEF At
  <2>3. pc'[current[k]] = l /\ to'[current[k]] = to[current[k]] /\ current' = current
    BY <2>2 DEF Alone
  <2> QED BY <2>1, <2>2, <2>3 DEF Waking, At
<1> QED BY <1>1, <1>2

(* An actor's step that changes no list keeps all this, if it makes nobody *)
(* READY who is not found, leaves nobody parked with mail and no waker,    *)
(* and brings nobody back from the dead.                                   *)
LEMMA ActorSound ==
  ASSUME SchedInv, Sound, NEW h \in Harts, NEW a \in Actors,
         Acts(h, a)
  PROVE  Sound'
<1> USE DEF Acts
<1>1. /\ \A x \in Actors : Runs(x)' <=> Runs(x)
      /\ Runs(a)
      /\ \A x : Waking(x, "wake") => Waking(x, "wake")' \/ (pc[a] = "wake" /\ x = to[a])
      /\ \A x : Waking(x, "ship") => Waking(x, "ship")' \/ (pc[a] = "ship" /\ x = to[a])
      /\ \A x : Waking(x, "xpush") => Waking(x, "xpush")' \/ (pc[a] = "xpush" /\ x = to[a])
  <2>1. Alone(h, a)
    BY DEF Acts, Alone
  <2> QED BY <2>1, ActorFrame
<1>2. \A x \in Actors : Found(x) => Found(x)'
  <2>1. \A x \in Actors : /\ Backlogged(x) => Backlogged(x)'
                          /\ InQueue(x) => InQueue(x)'
                          /\ InFlight(x) => InFlight(x)'
    BY DEF Backlogged, InQueue, InFlight
  <2> QED BY <1>1, <2>1, FoundIs, FoundNext
<1>3. Resting'
  <2> SUFFICES ASSUME NEW x \in Actors, ~Runs(x)'
               PROVE  pc'[x] \in {"unborn", "user", "parked"}
    BY DEF Resting
  <2>1. x # a /\ ~Runs(x)
    BY <1>1
  <2>2. pc[x] \in {"unborn", "user", "parked"}
    BY <2>1 DEF Sound, Resting
  <2> QED BY <2>1, <2>2
<1>4. Kept'
  <2> SUFFICES ASSUME NEW x \in Actors, pc'[x] # "unborn", var'[x] = "READY",
                      ~Runs(x)' \/ pc'[x] \in {"rescan", "parking", "leave"}
               PROVE  Found(x)'
    BY DEF Kept
  <2>1. CASE x = a
    <3>1. pc[a] \in {"rescan", "parking", "leave"} /\ var[a] = "READY"
      BY <1>1, <2>1
    <3>2. Found(a)
      BY <3>1 DEF Sound, Kept
    <3> QED BY <1>2, <2>1, <3>2
  <2>2. CASE x # a /\ var[x] = "READY"
    <3>1. pc[x] # "unborn" /\ (~Runs(x) \/ pc[x] \in {"rescan", "parking", "leave"})
      BY <1>1, <2>2
    <3>2. Found(x)
      BY <2>2, <3>1 DEF Sound, Kept
    <3> QED BY <1>2, <3>2
  <2>3. CASE x # a /\ var[x] # "READY"
    <3>1. Waking(x, "ship")'
      BY <2>3
    <3> QED BY <3>1, FoundNext
  <2> QED BY <2>1, <2>2, <2>3
<1>5. Mailed'
  <2> SUFFICES ASSUME NEW x \in Actors, pc'[x] \in {"parking", "parked"}, var'[x] = "BLOCKED",
                      mail'[x] > 0, ~Waking(x, "wake")'
               PROVE  FALSE
    BY DEF Mailed
  <2>1. /\ pc[x] \in {"parking", "parked"} /\ var[x] = "BLOCKED" /\ mail[x] > 0
        /\ ~(pc[a] = "wake" /\ x = to[a])
    OBVIOUS
  <2>2. Waking(x, "wake")
    BY <2>1 DEF Sound, Mailed
  <2> QED BY <1>1, <2>1, <2>2
<1>6. ReapedAreGone'
  <2> SUFFICES ASSUME NEW x \in reaped PROVE var'[x] = "DEAD" /\ ~Runs(x)'
    BY DEF ReapedAreGone
  <2>1. x \in Actors /\ var[x] = "DEAD" /\ ~Runs(x)
    BY ListTypes DEF Sound, ReapedAreGone
  <2> QED BY <1>1, <2>1
<1> QED BY <1>3, <1>4, <1>5, <1>6 DEF Sound

LEMMA SendSound ==
  ASSUME SchedInv, Sound, NEW h \in Harts, Send(h) PROVE Sound'
<1>1. PICK a \in Actors : a = current[h] /\ pc[a] = "user"
  BY SpendOps DEF Send
<1>2. PICK b \in Actors : b # a /\ mail' = [mail EXCEPT ![b] = @ + 1] /\ to' = [to EXCEPT ![a] = b]
  BY <1>1 DEF Send
<1>3. /\ bl' = bl /\ rq' = rq /\ xr' = xr /\ ring' = ring /\ reaped' = reaped
      /\ var' = var /\ current' = current /\ pc' = [pc EXCEPT ![a] = "wake"]
  BY <1>1 DEF Send, plane, lists, Goto
<1>4. /\ \A x \in Actors : x # a => pc'[x] = pc[x] /\ to'[x] = to[x]
      /\ pc'[a] = "wake" /\ to'[a] = b
      /\ \A x \in Actors : x # b => mail'[x] = mail[x]
  BY <1>2, <1>3, Types
<1>5. Waking(b, "wake")'
  <2>1. a # None
    OBVIOUS
  <2> QED BY <1>1, <1>3, <1>4, <2>1 DEF Waking, At
<1>6. \A x \in Actors : pc'[x] \in {"parking", "parked"} /\ var'[x] = "BLOCKED" /\ mail'[x] > 0
        => \/ /\ pc[x] \in {"parking", "parked"} /\ var[x] = "BLOCKED" /\ mail[x] > 0
              /\ ~(pc[a] = "wake" /\ x = to[a])
           \/ Waking(x, "wake")'
  <2> SUFFICES ASSUME NEW x \in Actors, pc'[x] \in {"parking", "parked"}, var'[x] = "BLOCKED",
                      mail'[x] > 0, ~Waking(x, "wake")'
               PROVE  /\ pc[x] \in {"parking", "parked"} /\ var[x] = "BLOCKED" /\ mail[x] > 0
                      /\ ~(pc[a] = "wake" /\ x = to[a])
    OBVIOUS
  <2>1. x # a /\ pc'[x] = pc[x] /\ pc[a] # "wake"
    BY <1>1, <1>4
  <2>2. x # b
    BY <1>5
  <2> QED BY <1>3, <1>4, <2>1, <2>2
<1>9. Acts(h, a)
  BY <1>1, <1>3, <1>4, <1>6 DEF Acts
<1> QED BY <1>9, ActorSound

LEMMA WakeSound ==
  ASSUME SchedInv, Sound, NEW h \in Harts, Wake(h) PROVE Sound'
<1>1. PICK a \in Actors : a = current[h] /\ pc[a] = "wake"
  BY Running DEF Wake, Pcs
<1>0. to \in [Actors -> Actors]
  BY Types
<1>2. PICK b \in Actors : b = to[a]
  BY <1>0
<1>3. /\ bl' = bl /\ rq' = rq /\ xr' = xr /\ ring' = ring /\ reaped' = reaped
      /\ current' = current /\ to' = to /\ mail' = mail
  BY DEF Wake, plane, lists
<1>4. var \in [Actors -> Statuses] /\ pc \in [Actors -> Pcs]
  BY Types
<1>5. CASE var[b] = "BLOCKED"
  <2>1. var' = [var EXCEPT ![b] = "READY"] /\ pc' = [pc EXCEPT ![a] = "ship"]
    BY <1>1, <1>2, <1>5 DEF Wake, Goto
  <2>2. /\ \A x \in Actors : x # a => pc'[x] = pc[x] /\ to'[x] = to[x]
        /\ pc'[a] = "ship" /\ var'[b] = "READY"
        /\ \A x \in Actors : x # b => var'[x] = var[x]
    BY <1>3, <1>4, <2>1
  <2>3. Waking(b, "ship")'
    <3>1. a # None
      OBVIOUS
    <3> QED BY <1>1, <1>2, <1>3, <2>2, <3>1 DEF Waking, At
  <2>4. \A x \in Actors : var'[x] = "READY" => x = a \/ var[x] = "READY" \/ Waking(x, "ship")'
    BY <2>2, <2>3
  <2>5. \A x \in Actors : pc'[x] \in {"parking", "parked"} /\ var'[x] = "BLOCKED" /\ mail'[x] > 0
          => \/ /\ pc[x] \in {"parking", "parked"} /\ var[x] = "BLOCKED" /\ mail[x] > 0
                /\ ~(pc[a] = "wake" /\ x = to[a])
             \/ Waking(x, "wake")'
    BY <1>2, <1>3, <2>2
  <2>6. \A x \in Actors : var[x] = "DEAD" => var'[x] = "DEAD"
    BY <1>5, <2>2
  <2>9. Acts(h, a)
    BY <1>1, <1>3, <2>2, <2>4, <2>5, <2>6 DEF Acts
  <2> QED BY <2>9, ActorSound
<1>6. CASE var[b] # "BLOCKED"
  <2>1. var' = var /\ pc' = [pc EXCEPT ![a] = "user"]
    BY <1>1, <1>2, <1>6 DEF Wake, Goto
  <2>2. /\ \A x \in Actors : x # a => pc'[x] = pc[x] /\ to'[x] = to[x]
        /\ pc'[a] = "user"
    BY <1>3, <1>4, <2>1
  <2>3. \A x \in Actors : pc'[x] \in {"parking", "parked"} /\ var'[x] = "BLOCKED" /\ mail'[x] > 0
          => \/ /\ pc[x] \in {"parking", "parked"} /\ var[x] = "BLOCKED" /\ mail[x] > 0
                /\ ~(pc[a] = "wake" /\ x = to[a])
             \/ Waking(x, "wake")'
    BY <1>2, <1>3, <1>6, <2>1, <2>2
  <2>9. Acts(h, a)
    BY <1>1, <1>3, <2>1, <2>2, <2>3 DEF Acts
  <2> QED BY <2>9, ActorSound
<1> QED BY <1>5, <1>6

LEMMA ReceiveSound ==
  ASSUME SchedInv, Sound, NEW h \in Harts, Receive(h) PROVE Sound'
<1>1. PICK a \in Actors : a = current[h] /\ pc[a] = "user"
  BY Running DEF Receive, Pcs
<1>2. /\ bl' = bl /\ rq' = rq /\ xr' = xr /\ ring' = ring /\ reaped' = reaped
      /\ current' = current /\ to' = to /\ var' = var
  BY DEF Receive, plane, lists
<1>3. /\ \A x \in Actors : x # a => pc'[x] = pc[x] /\ to'[x] = to[x]
      /\ \A x \in Actors : x # a => mail'[x] = mail[x]
      /\ pc'[a] \in {"user", "block"}
  <2>1. pc \in [Actors -> Pcs] /\ mail \in [Actors -> Nat]
    BY Types
  <2>2. CASE mail[a] > 0
    BY <1>1, <1>2, <2>1, <2>2 DEF Receive
  <2>3. CASE ~(mail[a] > 0)
    BY <1>1, <1>2, <2>1, <2>3 DEF Receive, Goto
  <2> QED BY <2>2, <2>3
<1>4. \A x \in Actors : pc'[x] \in {"parking", "parked"} /\ var'[x] = "BLOCKED" /\ mail'[x] > 0
        => \/ /\ pc[x] \in {"parking", "parked"} /\ var[x] = "BLOCKED" /\ mail[x] > 0
              /\ ~(pc[a] = "wake" /\ x = to[a])
           \/ Waking(x, "wake")'
  BY <1>1, <1>2, <1>3
<1>9. Acts(h, a)
  BY <1>1, <1>2, <1>3, <1>4 DEF Acts
<1> QED BY <1>9, ActorSound

LEMMA BlockCasSound ==
  ASSUME SchedInv, Sound, NEW h \in Harts, BlockCas(h) PROVE Sound'
<1>1. PICK a \in Actors : a = current[h] /\ pc[a] = "block"
  BY Running DEF BlockCas, Pcs
<1>2. /\ bl' = bl /\ rq' = rq /\ xr' = xr /\ ring' = ring /\ reaped' = reaped
      /\ current' = current /\ to' = to /\ mail' = mail
  BY DEF BlockCas, plane, lists
<1>3. /\ \A x \in Actors : x # a => pc'[x] = pc[x] /\ to'[x] = to[x]
      /\ \A x \in Actors : x # a => var'[x] = var[x]
      /\ pc'[a] \in {"rescan", "leave"} /\ var'[a] # "READY"
      /\ var[a] # "READY" => var'[a] = var[a]
  <2>1. pc \in [Actors -> Pcs] /\ var \in [Actors -> Statuses]
    BY Types
  <2>2. CASE var[a] = "READY"
    <3>1. var' = [var EXCEPT ![a] = "BLOCKED"] /\ pc' = [pc EXCEPT ![a] = "rescan"]
      BY <1>1, <2>2 DEF BlockCas, Goto
    <3> QED BY <1>2, <2>1, <2>2, <3>1
  <2>3. CASE var[a] # "READY"
    <3>1. var' = var /\ pc' = [pc EXCEPT ![a] = "leave"]
      BY <1>1, <2>3 DEF BlockCas, Goto
    <3> QED BY <1>2, <2>1, <2>3, <3>1
  <2> QED BY <2>2, <2>3
<1>4. \A x \in Actors : pc'[x] \in {"parking", "parked"} /\ var'[x] = "BLOCKED" /\ mail'[x] > 0
        => \/ /\ pc[x] \in {"parking", "parked"} /\ var[x] = "BLOCKED" /\ mail[x] > 0
              /\ ~(pc[a] = "wake" /\ x = to[a])
           \/ Waking(x, "wake")'
  BY <1>1, <1>2, <1>3
<1>5. \A x \in Actors : var'[x] = "READY" => x = a \/ var[x] = "READY" \/ Waking(x, "ship")'
  BY <1>3
<1>6. \A x \in Actors : var[x] = "DEAD" => var'[x] = "DEAD"
  BY <1>3
<1>9. Acts(h, a)
  BY <1>1, <1>2, <1>3, <1>4, <1>5, <1>6 DEF Acts
<1> QED BY <1>9, ActorSound

LEMMA RescanSound ==
  ASSUME SchedInv, Sound, NEW h \in Harts, Rescan(h) PROVE Sound'
<1>1. PICK a \in Actors : a = current[h] /\ pc[a] = "rescan"
  BY Running DEF Rescan, Pcs
<1>2. /\ bl' = bl /\ rq' = rq /\ xr' = xr /\ ring' = ring /\ reaped' = reaped
      /\ current' = current /\ to' = to /\ mail' = mail
  BY DEF Rescan, plane, lists
<1>3. /\ \A x \in Actors : x # a => pc'[x] = pc[x] /\ to'[x] = to[x]
      /\ \A x \in Actors : x # a => var'[x] = var[x]
      /\ \/ pc'[a] = "user" /\ (var[a] = "DEAD" => var'[a] = "DEAD")
         \/ pc'[a] = "parking" /\ var'[a] = var[a] /\ ~(mail[a] > 0)
  <2>1. pc \in [Actors -> Pcs] /\ var \in [Actors -> Statuses]
    BY Types
  <2>2. CASE mail[a] > 0
    <3>1. /\ var' = [var EXCEPT ![a] = IF var[a] = "BLOCKED" THEN "READY" ELSE var[a]]
          /\ pc' = [pc EXCEPT ![a] = "user"]
      BY <1>1, <2>2 DEF Rescan, Goto
    <3> QED BY <1>2, <2>1, <3>1
  <2>3. CASE ~(mail[a] > 0)
    <3>1. var' = var /\ pc' = [pc EXCEPT ![a] = "parking"]
      BY <1>1, <2>3 DEF Rescan, Goto
    <3> QED BY <1>2, <2>1, <2>3, <3>1
  <2> QED BY <2>2, <2>3
<1>4. \A x \in Actors : pc'[x] \in {"parking", "parked"} /\ var'[x] = "BLOCKED" /\ mail'[x] > 0
        => \/ /\ pc[x] \in {"parking", "parked"} /\ var[x] = "BLOCKED" /\ mail[x] > 0
              /\ ~(pc[a] = "wake" /\ x = to[a])
           \/ Waking(x, "wake")'
  BY <1>1, <1>2, <1>3
<1>5. \A x \in Actors : var'[x] = "READY" => x = a \/ var[x] = "READY" \/ Waking(x, "ship")'
  BY <1>3
<1>6. \A x \in Actors : var[x] = "DEAD" => var'[x] = "DEAD"
  BY <1>3
<1>7. \/ pc'[a] \notin {"rescan", "parking", "leave"} \/ var'[a] # "READY"
      \/ pc[a] \in {"rescan", "parking", "leave"} /\ var[a] = "READY"
  BY <1>1, <1>3
<1>9. Acts(h, a)
  BY <1>1, <1>2, <1>3, <1>4, <1>5, <1>6, <1>7 DEF Acts
<1> QED BY <1>9, ActorSound

LEMMA DeathSound ==
  ASSUME SchedInv, Sound, NEW h \in Harts, Kill(h) \/ Exit(h) PROVE Sound'
<1>1. PICK a \in Actors : a = current[h] /\ pc[a] = "user"
  BY Running, SpendOps DEF Kill, Exit, Pcs
<1>2. /\ bl' = bl /\ rq' = rq /\ xr' = xr /\ ring' = ring /\ reaped' = reaped
      /\ current' = current /\ to' = to /\ mail' = mail
  BY DEF Kill, Exit, plane, lists
<1>3. PICK b \in Actors : /\ var' = [var EXCEPT ![b] = "DEAD"]
                          /\ pc' = pc \/ (b = a /\ pc' = [pc EXCEPT ![a] = "leave"])
  BY <1>1 DEF Kill, Exit, Goto
<1>4. var'[b] = "DEAD" /\ \A x \in Actors : x # b => var'[x] = var[x]
  BY <1>3, Types
<1>5. /\ \A x \in Actors : x # a => pc'[x] = pc[x] /\ to'[x] = to[x]
      /\ pc'[a] = "user" \/ (pc'[a] = "leave" /\ b = a)
  <2>1. pc \in [Actors -> Pcs]
    BY Types
  <2>2. CASE pc' = pc
    BY <1>1, <1>2, <2>2
  <2>3. CASE b = a /\ pc' = [pc EXCEPT ![a] = "leave"]
    BY <1>2, <2>1, <2>3
  <2> QED BY <1>3, <2>2, <2>3
<1>6. \A x \in Actors : pc'[x] \in {"parking", "parked"} /\ var'[x] = "BLOCKED" /\ mail'[x] > 0
        => \/ /\ pc[x] \in {"parking", "parked"} /\ var[x] = "BLOCKED" /\ mail[x] > 0
              /\ ~(pc[a] = "wake" /\ x = to[a])
           \/ Waking(x, "wake")'
  BY <1>1, <1>2, <1>4, <1>5
<1>7. \A x \in Actors : var'[x] = "READY" => x = a \/ var[x] = "READY" \/ Waking(x, "ship")'
  BY <1>4
<1>8. \A x \in Actors : var[x] = "DEAD" => var'[x] = "DEAD"
  BY <1>4
<1>9. Acts(h, a)
  BY <1>1, <1>2, <1>4, <1>5, <1>6, <1>7, <1>8 DEF Acts
<1> QED BY <1>9, ActorSound

(* A step of the actor a on hart h that lists, ships or spawns: it loses   *)
(* nobody, and whoever it creates or puts back is found.                   *)
Lists(h, a) ==
  /\ Alone(h, a)
  /\ var' = var /\ mail' = mail /\ reaped' = reaped
  /\ pc[a] # "wake"
  /\ pc'[a] \in {"user", "ship", "xpush"} \/ (pc'[a] = "leave" /\ Found(a)')
  /\ \A x \in Actors : x # a => pc'[x] = pc[x] \/ (pc'[x] = "user" /\ Found(x)')
  /\ \A x \in Actors : Found(x) => Found(x)'
LEMMA ListerSound ==
  ASSUME SchedInv, Sound, NEW h \in Harts, NEW a \in Actors, Lists(h, a) PROVE Sound'
<1>1. /\ \A x \in Actors : Runs(x)' <=> Runs(x)
      /\ Runs(a)
      /\ \A x : Waking(x, "wake") => Waking(x, "wake")'
  BY ActorFrame DEF Lists
<1>2. Resting'
  <2> SUFFICES ASSUME NEW x \in Actors, ~Runs(x)'
               PROVE  pc'[x] \in {"unborn", "user", "parked"}
    BY DEF Resting
  <2>1. x # a /\ ~Runs(x)
    BY <1>1
  <2>2. pc[x] \in {"unborn", "user", "parked"}
    BY <2>1 DEF Sound, Resting
  <2> QED BY <2>1, <2>2 DEF Lists
<1>3. Kept'
  <2> SUFFICES ASSUME NEW x \in Actors, pc'[x] # "unborn", var'[x] = "READY",
                      ~Runs(x)' \/ pc'[x] \in {"rescan", "parking", "leave"}, ~Found(x)'
               PROVE  FALSE
    BY DEF Kept
  <2>1. x # a
    BY <1>1 DEF Lists
  <2>2. pc'[x] = pc[x] /\ var[x] = "READY" /\ ~Found(x) /\ (Runs(x)' <=> Runs(x))
    BY <1>1, <2>1 DEF Lists
  <2> QED BY <2>2 DEF Sound, Kept
<1>4. Mailed'
  <2> SUFFICES ASSUME NEW x \in Actors, pc'[x] \in {"parking", "parked"}, var'[x] = "BLOCKED",
                      mail'[x] > 0
               PROVE  Waking(x, "wake")'
    BY DEF Mailed
  <2>1. pc'[x] = pc[x] /\ var[x] = "BLOCKED" /\ mail[x] > 0
    BY DEF Lists
  <2>2. Waking(x, "wake")
    BY <2>1 DEF Sound, Mailed
  <2> QED BY <1>1, <2>2
<1>5. ReapedAreGone'
  <2> SUFFICES ASSUME NEW x \in reaped PROVE var'[x] = "DEAD" /\ ~Runs(x)'
    BY DEF ReapedAreGone, Lists
  <2>1. x \in Actors /\ var[x] = "DEAD" /\ ~Runs(x)
    BY ListTypes DEF Sound, ReapedAreGone
  <2> QED BY <1>1, <2>1 DEF Lists
<1> QED BY <1>2, <1>3, <1>4, <1>5 DEF Sound

(* What an Enq by the actor a finds, besides whom a was waking. *)
LEMMA EnqFound ==
  ASSUME SchedInv, OneListed, Sound, NEW h \in Harts, NEW a \in Actors, Alone(h, a),
         NEW b \in Actors, Enq(h, b), rq' = rq /\ inrq' = inrq /\ xr' = xr,
         pc[a] \in {"ship", "xpush"} => to[a] = b
  PROVE  Found(b)' /\ \A x \in Actors : Found(x) => Found(x)'
<1>1. /\ \A x \in Actors : Backlogged(x) \/ x \in ToSet(ring) =>
                             Backlogged(x)' \/ x \in ToSet(ring')
      /\ Backlogged(b)' \/ InQueue(b)' \/ b \in ToSet(ring')
  <2>1. UNCHANGED <<rq, inrq>>
    OBVIOUS
  <2> QED BY <2>1, EnqOnce
<1>2. \A x \in Actors : (InQueue(x) => InQueue(x)') /\ (InFlight(x) => InFlight(x)')
  BY DEF InQueue, InFlight
<1>3. /\ \A x : Waking(x, "ship") => Waking(x, "ship")' \/ (pc[a] = "ship" /\ x = to[a])
      /\ \A x : Waking(x, "xpush") => Waking(x, "xpush")' \/ (pc[a] = "xpush" /\ x = to[a])
  BY ActorFrame
<1>4. Found(b)'
  BY <1>1, <1>2, FoundNext
<1>5. ASSUME NEW x \in Actors, Found(x), x # b PROVE Found(x)'
  BY <1>1, <1>2, <1>3, <1>5, FoundIs, FoundNext
<1> QED BY <1>4, <1>5

LEMMA YieldSound ==
  ASSUME SchedInv, OneListed, Sound, NEW h \in Harts, Yield(h) PROVE Sound'
<1>1. PICK a \in Actors : a = current[h] /\ pc[a] = "user"
  BY SpendOps DEF Yield
<1>2. /\ Enq(h, a) /\ pc' = [pc EXCEPT ![a] = "leave"]
      /\ var' = var /\ mail' = mail /\ reaped' = reaped /\ current' = current /\ to' = to
      /\ rq' = rq /\ inrq' = inrq /\ xr' = xr
  BY <1>1 DEF Yield, Goto
<1>3. pc'[a] = "leave" /\ \A x \in Actors : x # a => pc'[x] = pc[x]
  BY <1>2, Types
<1>4. Alone(h, a)
  BY <1>1, <1>2, <1>3 DEF Alone
<1>5. Found(a)' /\ \A x \in Actors : Found(x) => Found(x)'
  BY <1>1, <1>2, <1>4, EnqFound
<1>6. Lists(h, a)
  BY <1>1, <1>2, <1>3, <1>4, <1>5 DEF Lists
<1> QED BY <1>6, ListerSound

LEMMA ShipSound ==
  ASSUME SchedInv, OneListed, Sound, NEW h \in Harts, Ship(h) PROVE Sound'
<1>1. PICK a \in Actors : a = current[h] /\ pc[a] = "ship"
  BY Running DEF Ship, Pcs
<1>0. to \in [Actors -> Actors]
  BY Types
<1>2. PICK b \in Actors : b = to[a]
  BY <1>0
<1>3. /\ var' = var /\ mail' = mail /\ reaped' = reaped /\ current' = current /\ to' = to
      /\ rq' = rq /\ inrq' = inrq /\ xr' = xr
  BY DEF Ship
<1>4. CASE hart[b] = h
  <2>1. Enq(h, b) /\ pc' = [pc EXCEPT ![a] = "user"]
    BY <1>1, <1>2, <1>4 DEF Ship, Goto
  <2>2. pc'[a] = "user" /\ \A x \in Actors : x # a => pc'[x] = pc[x]
    BY <2>1, Types
  <2>3. Alone(h, a)
    BY <1>1, <1>3, <2>2 DEF Alone
  <2>4. \A x \in Actors : Found(x) => Found(x)'
    BY <1>2, <1>3, <2>1, <2>3, EnqFound
  <2>5. Lists(h, a)
    BY <1>1, <1>3, <2>2, <2>3, <2>4 DEF Lists
  <2> QED BY <2>5, ListerSound
<1>5. CASE hart[b] # h
  <2>1. pc' = [pc EXCEPT ![a] = "xpush"] /\ bl' = bl /\ ring' = ring
    BY <1>1, <1>2, <1>5 DEF Ship, Goto, lists
  <2>2. pc'[a] = "xpush" /\ \A x \in Actors : x # a => pc'[x] = pc[x]
    BY <2>1, Types
  <2>3. Alone(h, a)
    BY <1>1, <1>3, <2>2 DEF Alone
  <2>4. Waking(b, "xpush")'
    <3>1. a # None
      OBVIOUS
    <3> QED BY <1>1, <1>2, <1>3, <2>2, <3>1 DEF Waking, At
  <2>5. \A x \in Actors : Found(x) => Found(x)'
    <3>1. \A x \in Actors : /\ Backlogged(x) => Backlogged(x)'
                            /\ InQueue(x) => InQueue(x)'
                            /\ InFlight(x) => InFlight(x)'
      BY <1>3, <2>1 DEF Backlogged, InQueue, InFlight
    <3>2. /\ \A x : Waking(x, "ship") => Waking(x, "ship")' \/ x = b
          /\ \A x : Waking(x, "xpush") => Waking(x, "xpush")'
      BY <1>1, <1>2, <2>3, ActorFrame
    <3> QED BY <2>1, <2>4, <3>1, <3>2, FoundIs, FoundNext
  <2>6. Lists(h, a)
    BY <1>1, <1>3, <2>2, <2>3, <2>5 DEF Lists
  <2> QED BY <2>6, ListerSound
<1> QED BY <1>4, <1>5

LEMMA XpushSound ==
  ASSUME SchedInv, Sound, NEW h \in Harts, Xpush(h) PROVE Sound'
<1>1. PICK a \in Actors : a = current[h] /\ pc[a] = "xpush"
  BY Running DEF Xpush, Pcs
<1>0. to \in [Actors -> Actors] /\ dst \in [Actors -> Harts]
  BY Types
<1>2. PICK b \in Actors : b = to[a]
  BY <1>0
<1>3. PICK k \in Harts : k = dst[a]
  BY <1>0
<1>4. /\ var' = var /\ mail' = mail /\ reaped' = reaped /\ current' = current /\ to' = to
      /\ rq' = rq /\ bl' = bl /\ ring' = ring
      /\ xr' = [xr EXCEPT ![h][k] = Append(xr[h][k], b)] /\ pc' = [pc EXCEPT ![a] = "user"]
  BY <1>1, <1>2, <1>3 DEF Xpush, Goto, lists
<1>5. pc'[a] = "user" /\ \A x \in Actors : x # a => pc'[x] = pc[x]
  BY <1>4, Types
<1>6. Alone(h, a)
  BY <1>1, <1>4, <1>5 DEF Alone
<1>7. /\ xr \in [Harts -> [Harts -> Seq(Actors)]] /\ xr[h][k] \in Seq(Actors)
  BY ListTypes
<1>8. PICK q \in Seq(Actors) : q = Append(xr[h][k], b) /\ ToSet(q) = ToSet(xr[h][k]) \cup {b}
  <2>1. PICK s \in Seq(Actors) : s = xr[h][k]
    BY <1>7
  <2>2. Append(s, b) \in Seq(Actors)
    OBVIOUS
  <2>3. ToSet(Append(s, b)) = ToSet(s) \cup {b}
    BY ONLY s \in Seq(Actors), b \in Actors, AppendSet
  <2> QED BY <2>1, <2>2, <2>3
<1>9. \A i, j \in Harts : xr'[i][j] = IF i = h /\ j = k THEN q ELSE xr[i][j]
  <2>1. Puts(h, k, q)
    BY <1>4, <1>7, <1>8 DEF Puts
  <2> QED BY <2>1, RingPut
<1>10. InFlight(b)' /\ \A x \in Actors : InFlight(x) => InFlight(x)'
  <2>1. b \in ToSet(xr'[h][k])
    BY <1>8, <1>9
  <2>2. \A i, j \in Harts : \A x \in ToSet(xr[i][j]) : x \in ToSet(xr'[i][j])
    BY <1>8, <1>9
  <2> QED BY <2>1, <2>2 DEF InFlight
<1>11. \A x \in Actors : Found(x) => Found(x)'
  <2>1. \A x \in Actors : (Backlogged(x) => Backlogged(x)') /\ (InQueue(x) => InQueue(x)')
    BY <1>4 DEF Backlogged, InQueue
  <2>2. /\ \A x : Waking(x, "ship") => Waking(x, "ship")'
        /\ \A x : Waking(x, "xpush") => Waking(x, "xpush")' \/ x = b
    BY <1>1, <1>2, <1>6, ActorFrame
  <2> QED BY <1>4, <1>10, <2>1, <2>2, FoundIs, FoundNext
<1>12. Lists(h, a)
  BY <1>1, <1>4, <1>5, <1>6, <1>11 DEF Lists
<1> QED BY <1>12, ListerSound

LEMMA SpawnSound ==
  ASSUME SchedInv, Sound, NEW h \in Harts, Spawn(h) PROVE Sound'
<1>1. PICK a \in Actors : a = current[h] /\ pc[a] = "user"
  BY SpendOps DEF Spawn
<1>2. PICK b \in Actors : /\ pc[b] = "unborn"
                          /\ pc' = [pc EXCEPT ![b] = "user", ![a] = "ship"]
                          /\ to' = [to EXCEPT ![a] = b]
  BY <1>1 DEF Spawn
<1>3. /\ var' = var /\ mail' = mail /\ reaped' = reaped /\ current' = current
      /\ rq' = rq /\ xr' = xr /\ bl' = bl /\ ring' = ring
  BY DEF Spawn, lists
<1>4. /\ pc'[a] = "ship" /\ pc'[b] = "user" /\ to'[a] = b
      /\ \A x \in Actors : x # a /\ x # b => pc'[x] = pc[x]
      /\ \A x \in Actors : x # a => to'[x] = to[x]
  <2>1. a # b
    BY <1>1, <1>2
  <2> QED BY <1>2, <2>1, Types
<1>5. Alone(h, a)
  BY <1>1, <1>2, <1>3, <1>4 DEF Alone
<1>6. Waking(b, "ship")'
  <2>1. a # None
    OBVIOUS
  <2> QED BY <1>1, <1>3, <1>4, <2>1 DEF Waking, At
<1>7. Found(b)'
  BY <1>6, FoundNext
<1>8. \A x \in Actors : Found(x) => Found(x)'
  <2>1. \A x \in Actors : /\ Backlogged(x) => Backlogged(x)'
                          /\ InQueue(x) => InQueue(x)'
                          /\ InFlight(x) => InFlight(x)'
    BY <1>3 DEF Backlogged, InQueue, InFlight
  <2>2. /\ \A x : Waking(x, "ship") => Waking(x, "ship")'
        /\ \A x : Waking(x, "xpush") => Waking(x, "xpush")'
    BY <1>1, <1>5, ActorFrame
  <2> QED BY <1>3, <2>1, <2>2, FoundIs, FoundNext
<1>9. Lists(h, a)
  BY <1>1, <1>3, <1>4, <1>5, <1>7, <1>8 DEF Lists
<1> QED BY <1>9, ListerSound

----------------------------------------------------------------------------
LEMMA SoundStep ==
  SchedInv /\ OneListed /\ OneHart /\ Lonely /\ Sound /\ [Next]_vars => Sound'
<1> SUFFICES ASSUME SchedInv, OneListed, OneHart, Lonely, Sound, [Next]_vars PROVE Sound'
  OBVIOUS
<1>1. CASE UNCHANGED vars
  BY <1>1, SoundFrame DEF vars, lists
<1>2. ASSUME NEW h \in Harts, LoopStep(h) PROVE Sound'
  <2>1. CASE Drained(h) \/ Refilled(h) \/ DeqEmpty(h) \/ NoSteal(h)
    BY <2>1, SoundFrame DEF Drained, Refilled, DeqEmpty, NoSteal, lists, actors
  <2> QED BY <1>2, <2>1, DrainSound, UnlinkSound, AdmitSound, DeqSound, StealSound, SwitchOutSound
          DEF LoopStep
<1>3. ASSUME NEW h \in Harts, ActorStep(h) PROVE Sound'
  BY <1>3, SendSound, WakeSound, ShipSound, XpushSound, SpawnSound, ReceiveSound,
     BlockCasSound, RescanSound, YieldSound, DeathSound DEF ActorStep
<1> QED BY <1>1, <1>2, <1>3 DEF Next

LEMMA SoundKeeps == SchedInv /\ OneListed /\ Sound => ListsKeep
<1> SUFFICES ASSUME SchedInv, OneListed, Sound PROVE ListsKeep
  OBVIOUS
<1>1. OneEntry
  BY OneEntryHolds
<1>2. NobodyLost
  BY DEF Sound, Kept, Mailed, NobodyLost
<1> QED BY <1>1, <1>2 DEF ListsKeep, Sound

(* Pinned actors are on the lists of one hart, so a hart that looks for    *)
(* work does not have on them anybody who runs.                            *)
LEMMA PinnedAlone == Pin = Actors /\ SchedInv => OneHart /\ Lonely
<1> SUFFICES ASSUME Pin = Actors, SchedInv PROVE OneHart /\ Lonely
  OBVIOUS
<1>1. current \in [Harts -> Actors \cup {None}] /\ PinnedStay
  BY DEF SchedInv, TypeOK, Placed
<1>2. \A h \in Harts, a \in Actors : current[h] = a => h = Home[a]
  BY <1>1 DEF PinnedStay
<1>3. OneHart
  BY <1>1, <1>2 DEF OneHart
<1>4. Lonely
  <2> SUFFICES ASSUME NEW h \in Harts, current[h] = None, NEW a \in Actors,
                      a \in ToSet(bl[h]) \/ a \in ToSet(rq[h]), NEW k \in Harts, current[k] = a
               PROVE  FALSE
    BY DEF Lonely, Runs
  <2>1. h = Home[a]
    BY <1>1 DEF PinnedStay
  <2>2. k = Home[a]
    BY <1>2
  <2>3. a # None
    OBVIOUS
  <2> QED BY <2>1, <2>2, <2>3
<1> QED BY <1>3, <1>4

(* Where nobody can be donated, the lists do what they are for: no actor   *)
(* is listed twice, no runnable one is forgotten, no parked one keeps its  *)
(* mail unannounced, and none is reaped that could still run.              *)
THEOREM PinnedListsKeep == Pin = Actors => (Spec => []ListsKeep)
<1> SUFFICES ASSUME Pin = Actors PROVE Spec => []ListsKeep
  OBVIOUS
<1> DEFINE IInv == SchedInv /\ OneListed /\ Sound
<1>1. Init => IInv
  BY SchedInit, OneListedInit, SoundInit
<1>2. IInv /\ [Next]_vars => IInv'
  BY SchedStep, OneListedStep, PinnedAlone, SoundStep
<1>3. IInv => ListsKeep
  BY SoundKeeps
<1> QED BY <1>1, <1>2, <1>3, PTL DEF Spec

----------------------------------------------------------------------------
(* Actors that migrate, and wait for nothing.  At any time an actor is at  *)
(* one place: it runs, or it is listed, or in the steal FIFO, or in one    *)
(* wake ring, or one hart is about to ship it; only the actor that has     *)
(* just yielded is listed while its context is live, on the hart it runs   *)
(* on, which takes nothing from a list before it has switched out.         *)
On(x, k) == x \in ToSet(bl[k]) \/ x \in ToSet(rq[k])
IsListed(x) == inbl[x] \/ inrq[x]
InRing(x) == x \in ToSet(ring)
ShipsAt(h, x) ==
  current[h] # None /\ to[current[h]] = x /\ pc[current[h]] \in {"ship", "xpush"}
Shipping(x) == \E h \in Harts : ShipsAt(h, x)

NobodyWaits ==
  \A x \in Actors : /\ var[x] # "BLOCKED"
                    /\ pc[x] \in {"unborn", "user", "wake", "ship", "xpush", "leave"}
Leaving ==
  \A h, k \in Harts : current[h] # None /\ On(current[h], k) => h = k /\ pc[current[h]] = "leave"
Distinct(s) == \A i, j \in DOMAIN s : s[i] = s[j] => i = j
Apart(f) ==
  \A s, h, t, k \in Harts : \A i \in DOMAIN f[s][h], j \in DOMAIN f[t][k] :
    f[s][h][i] = f[t][k][j] => s = t /\ h = k /\ i = j
OneShipper == \A h, k \in Harts, x \in Actors : ShipsAt(h, x) /\ ShipsAt(k, x) => h = k
OnePlace(x) ==
  /\ ~(InRing(x) /\ InFlight(x)) /\ ~(InRing(x) /\ Shipping(x)) /\ ~(InFlight(x) /\ Shipping(x))
  /\ InRing(x) \/ InFlight(x) \/ Shipping(x) => ~IsListed(x) /\ ~Runs(x)
  /\ InRing(x) \/ InFlight(x) \/ Shipping(x) \/ IsListed(x) \/ Runs(x) => pc[x] # "unborn"
Solo ==
  /\ OneHart /\ Leaving /\ Distinct(ring) /\ Apart(xr) /\ OneShipper
  /\ \A x \in Actors : OnePlace(x)

(* Queues whose elements differ, after one operation. *)
LEMMA AppendDistinct ==
  ASSUME NEW S, NEW s \in Seq(S), NEW e \in S, Distinct(s), e \notin ToSet(s)
  PROVE  Distinct(Append(s, e))
<1>1. PICK n : n = Len(s) + 1
  OBVIOUS
<1>2. PICK t : t = Append(s, e)
  OBVIOUS
<1>3. DOMAIN t = DOMAIN s \cup {n} /\ t[n] = e /\ \A i \in DOMAIN s : t[i] = s[i]
  BY <1>1, <1>2, AppendAt
<1>4. \A i \in DOMAIN s : s[i] # e
  BY DEF ToSet
<1>5. Distinct(t)
  BY ONLY <1>3, <1>4, Distinct(s) DEF Distinct
<1> QED BY <1>2, <1>5

LEMMA TailDistinct ==
  ASSUME NEW S, NEW s \in Seq(S), s # <<>>, Distinct(s)
  PROVE  /\ Distinct(Tail(s)) /\ Head(s) \notin ToSet(Tail(s))
         /\ 1 \in DOMAIN s /\ Head(s) = s[1]
         /\ \A i \in DOMAIN Tail(s) : i + 1 \in DOMAIN s /\ Tail(s)[i] = s[i + 1]
                                      /\ i + 1 # 1 /\ i \in Nat
<1>1. PICK n \in Nat : n = Len(s) /\ n > 0 /\ DOMAIN s = 1 .. n
  OBVIOUS
<1>2. PICK t : t = Tail(s)
  OBVIOUS
<1>3. DOMAIN t = 1 .. (n - 1) /\ \A i \in 1 .. (n - 1) : t[i] = s[i + 1]
  BY <1>1, <1>2
<1>4. Head(s) = s[1] /\ 1 \in DOMAIN s
  BY <1>1
<1>5. \A i \in DOMAIN t : i + 1 \in DOMAIN s /\ t[i] = s[i + 1] /\ i + 1 # 1 /\ i \in Nat
  BY ONLY <1>1, <1>3
<1>6. Distinct(t)
  BY ONLY <1>1, <1>3, <1>5, Distinct(s) DEF Distinct
<1>7. s[1] \notin ToSet(t)
  BY <1>4, <1>5 DEF Distinct, ToSet
<1> QED BY <1>2, <1>4, <1>5, <1>6, <1>7

(* One wake ring of the matrix gets an actor that is in none, or loses its *)
(* head.                                                                   *)
Nowhere(f, e) == \A s, h \in Harts : e \notin ToSet(f[s][h])
LEMMA ApartPut ==
  ASSUME NEW f, NEW g, NEW s \in Harts, NEW h \in Harts, NEW e \in Actors,
         f[s][h] \in Seq(Actors), Apart(f), Nowhere(f, e),
         \A j, k \in Harts : g[j][k] = IF j = s /\ k = h THEN Append(f[s][h], e) ELSE f[j][k]
  PROVE  Apart(g)
<1>1. PICK q \in Seq(Actors) : q = f[s][h]
  OBVIOUS
<1>2. PICK t : t = Append(q, e)
  OBVIOUS
<1>3. PICK n : n = Len(q) + 1
  OBVIOUS
<1>4. DOMAIN t = DOMAIN q \cup {n} /\ t[n] = e /\ \A i \in DOMAIN q : t[i] = q[i]
  BY ONLY q \in Seq(Actors), e \in Actors, <1>2, <1>3, AppendAt
<1>5. \A j, k \in Harts : \A i \in DOMAIN f[j][k] : f[j][k][i] # e
  BY DEF Nowhere, ToSet
<1>6. \A j, k \in Harts : /\ j = s /\ k = h => g[j][k] = t /\ f[j][k] = q
                          /\ ~(j = s /\ k = h) => g[j][k] = f[j][k]
  BY <1>1, <1>2
<1>7. \A j, k \in Harts : \A i \in DOMAIN g[j][k] :
        \/ i \in DOMAIN f[j][k] /\ g[j][k][i] = f[j][k][i]
        \/ j = s /\ k = h /\ i = n /\ g[j][k][i] = e
  <2> SUFFICES ASSUME NEW j \in Harts, NEW k \in Harts, NEW i \in DOMAIN g[j][k]
               PROVE  \/ i \in DOMAIN f[j][k] /\ g[j][k][i] = f[j][k][i]
                      \/ j = s /\ k = h /\ i = n /\ g[j][k][i] = e
    OBVIOUS
  <2>1. CASE j = s /\ k = h
    <3>1. g[j][k] = t /\ f[j][k] = q
      BY <1>6, <2>1
    <3> QED BY <1>4, <2>1, <3>1
  <2>2. CASE ~(j = s /\ k = h)
    <3>1. g[j][k] = f[j][k]
      BY <1>6, <2>2
    <3> QED BY <3>1
  <2> QED BY <2>1, <2>2
<1> QED BY ONLY <1>5, <1>7, Apart(f) DEF Apart

LEMMA ApartCut ==
  ASSUME NEW f, NEW g, NEW s \in Harts, NEW h \in Harts,
         f[s][h] \in Seq(Actors), f[s][h] # <<>>, Apart(f),
         \A j, k \in Harts : g[j][k] = IF j = s /\ k = h THEN Tail(f[s][h]) ELSE f[j][k]
  PROVE  Apart(g) /\ Nowhere(g, Head(f[s][h]))
<1>1. PICK q \in Seq(Actors) : q = f[s][h]
  OBVIOUS
<1>2. Distinct(q)
  BY <1>1 DEF Apart, Distinct
<1>3. PICK t : t = Tail(q)
  OBVIOUS
<1>4. /\ 1 \in DOMAIN q /\ Head(q) = q[1]
      /\ \A i \in DOMAIN t : i + 1 \in DOMAIN q /\ t[i] = q[i + 1] /\ i + 1 # 1 /\ i \in Nat
  <2>1. q # <<>>
    BY <1>1
  <2> QED BY ONLY q \in Seq(Actors), <1>2, <1>3, <2>1, TailDistinct
<1>5. \A j, k \in Harts : /\ j = s /\ k = h => g[j][k] = t /\ f[j][k] = q
                          /\ ~(j = s /\ k = h) => g[j][k] = f[j][k]
  BY <1>1, <1>3
<1>7. \A j, k \in Harts : \A i \in DOMAIN g[j][k] :
        /\ ~(j = s /\ k = h) => i \in DOMAIN f[j][k] /\ g[j][k][i] = f[j][k][i]
        /\ j = s /\ k = h => i + 1 \in DOMAIN f[j][k] /\ g[j][k][i] = f[j][k][i + 1]
                             /\ i + 1 # 1 /\ i \in Nat
  <2> SUFFICES ASSUME NEW j \in Harts, NEW k \in Harts, NEW i \in DOMAIN g[j][k]
               PROVE  /\ ~(j = s /\ k = h) => i \in DOMAIN f[j][k] /\ g[j][k][i] = f[j][k][i]
                      /\ j = s /\ k = h => /\ i + 1 \in DOMAIN f[j][k]
                                           /\ g[j][k][i] = f[j][k][i + 1]
                                           /\ i + 1 # 1 /\ i \in Nat
    OBVIOUS
  <2>1. CASE j = s /\ k = h
    <3>1. g[j][k] = t /\ f[j][k] = q
      BY <1>5, <2>1
    <3> QED BY <1>4, <2>1, <3>1
  <2>2. CASE ~(j = s /\ k = h)
    <3>1. g[j][k] = f[j][k]
      BY <1>5, <2>2
    <3> QED BY <2>2, <3>1
  <2> QED BY <2>1, <2>2
<1>8. Apart(g)
  <2> SUFFICES ASSUME NEW j \in Harts, NEW k \in Harts, NEW u \in Harts, NEW w \in Harts,
                      NEW a \in DOMAIN g[j][k], NEW b \in DOMAIN g[u][w],
                      g[j][k][a] = g[u][w][b]
               PROVE  j = u /\ k = w /\ a = b
    BY DEF Apart
  <2>1. PICK c \in DOMAIN f[j][k] :
          g[j][k][a] = f[j][k][c] /\ c = (IF j = s /\ k = h THEN a + 1 ELSE a)
    BY ONLY <1>7, j \in Harts, k \in Harts, a \in DOMAIN g[j][k]
  <2>2. PICK d \in DOMAIN f[u][w] :
          g[u][w][b] = f[u][w][d] /\ d = (IF u = s /\ w = h THEN b + 1 ELSE b)
    BY ONLY <1>7, u \in Harts, w \in Harts, b \in DOMAIN g[u][w]
  <2>3. f[j][k][c] = f[u][w][d]
    BY <2>1, <2>2
  <2>4. j = u /\ k = w /\ c = d
    BY ONLY <2>3, Apart(f), j \in Harts, k \in Harts, u \in Harts, w \in Harts,
            c \in DOMAIN f[j][k], d \in DOMAIN f[u][w] DEF Apart
  <2>5. j = s /\ k = h => a \in Nat /\ b \in Nat
    BY ONLY <1>7, <2>4, j \in Harts, k \in Harts, a \in DOMAIN g[j][k], b \in DOMAIN g[u][w]
  <2>6. a = b
    BY ONLY <2>1, <2>2, <2>4, <2>5
  <2> QED BY <2>4, <2>6
<1>9. Nowhere(g, q[1])
  <2>1. ASSUME NEW j \in Harts, NEW k \in Harts, NEW i \in DOMAIN g[j][k], g[j][k][i] = q[1]
        PROVE  FALSE
    <3>0. 1 \in DOMAIN f[s][h] /\ g[j][k][i] = f[s][h][1]
      BY ONLY <1>1, <1>4, <2>1
    <3>1. CASE j = s /\ k = h
      <4>1. i + 1 \in DOMAIN f[s][h] /\ f[s][h][i + 1] = f[s][h][1] /\ i + 1 # 1
        BY ONLY <1>7, <3>0, <3>1, j \in Harts, k \in Harts, i \in DOMAIN g[j][k]
      <4> QED BY ONLY <3>0, <4>1, Apart(f), s \in Harts, h \in Harts DEF Apart
    <3>2. CASE ~(j = s /\ k = h)
      <4>1. i \in DOMAIN f[j][k] /\ f[j][k][i] = f[s][h][1]
        BY ONLY <1>7, <3>0, <3>2, j \in Harts, k \in Harts, i \in DOMAIN g[j][k]
      <4> QED BY ONLY <3>0, <3>2, <4>1, Apart(f), s \in Harts, h \in Harts, j \in Harts, k \in Harts
              DEF Apart
    <3> QED BY <3>1, <3>2
  <2> QED BY ONLY <2>1 DEF Nowhere, ToSet
<1> QED BY <1>1, <1>4, <1>8, <1>9

(* A hart that looks for work has on its lists nobody who runs. *)
LEMMA OnIsListed ==
  SchedInv /\ OneListed => \A x \in Actors, k \in Harts : On(x, k) => IsListed(x)
BY DEF OneListed, OnceIn, On, IsListed, ToSet
LEMMA OnIsListedNext ==
  (SchedInv /\ OneListed => \A x \in Actors, k \in Harts : On(x, k) => IsListed(x))'
BY OnIsListed, PTL

LEMMA SoloLonely == SchedInv /\ Solo => OneHart /\ Lonely
<1> SUFFICES ASSUME SchedInv, Solo PROVE Lonely
  BY DEF Solo
<1> SUFFICES ASSUME NEW h \in Harts, current[h] = None, NEW a \in Actors, On(a, h), Runs(a)
             PROVE  FALSE
  BY DEF Lonely, On
<1>1. PICK k \in Harts : current[k] = a
  BY DEF Runs
<1>2. k = h
  BY <1>1 DEF Solo, Leaving
<1> QED BY <1>1, <1>2

LEMMA SoloInit == Init /\ Parked = {} => NobodyWaits /\ Solo
<1> SUFFICES ASSUME Init, Parked = {} PROVE NobodyWaits /\ Solo
  OBVIOUS
<1>1. /\ \A a \in Actors : /\ var[a] = "READY" /\ pc[a] = (IF inbl[a] THEN "user" ELSE "unborn")
                           /\ inrq[a] = FALSE
      /\ \A h \in Harts : current[h] = None
      /\ ring = <<>> /\ \A s, h \in Harts : xr[s][h] = <<>>
  BY DEF Init
<1>2. NobodyWaits
  BY <1>1 DEF NobodyWaits
<1>3. DOMAIN ring = {} /\ \A s, h \in Harts : DOMAIN xr[s][h] = {}
  BY <1>1
<1>4. ToSet(ring) = {} /\ \A s, h \in Harts : ToSet(xr[s][h]) = {}
  BY <1>3 DEF ToSet
<1>5. \A x \in Actors : ~InRing(x) /\ ~InFlight(x) /\ ~Shipping(x) /\ ~Runs(x)
  BY <1>1, <1>4 DEF InRing, InFlight, Shipping, ShipsAt, Runs
<1>6. \A x \in Actors : OnePlace(x)
  BY <1>1, <1>5 DEF OnePlace, IsListed
<1>7. OneHart /\ Leaving /\ OneShipper
  BY <1>1 DEF OneHart, Leaving, OneShipper, ShipsAt
<1>8. Distinct(ring) /\ Apart(xr)
  BY <1>3 DEF Distinct, Apart
<1> QED BY <1>2, <1>6, <1>7, <1>8 DEF Solo

(* Who gets to no new place stays where it is, or leaves. *)
LEMMA PlaceStays ==
  ASSUME NEW x, OnePlace(x), InRing(x)' => InRing(x), InFlight(x)' => InFlight(x),
         Shipping(x)' => Shipping(x), IsListed(x)' => IsListed(x), Runs(x)' => Runs(x),
         pc[x] # "unborn" => pc'[x] # "unborn"
  PROVE  OnePlace(x)'
BY DEF OnePlace

(* Steps that put nobody anywhere. *)
Calm ==
  /\ ring' = ring /\ xr' = xr
  /\ \A x \in Actors : /\ IsListed(x)' => IsListed(x)
                       /\ \A k \in Harts : On(x, k)' => On(x, k)
                       /\ pc[x] # "unborn" => pc'[x] # "unborn"
                       /\ \A k \in Harts : ShipsAt(k, x)' => ShipsAt(k, x)
  /\ \A k \in Harts : current'[k] # None =>
       current'[k] = current[k] /\ (pc[current[k]] = "leave" => pc'[current[k]] = "leave")
LEMMA CalmSolo == ASSUME SchedInv, Solo, Calm PROVE Solo'
<1>1. \A x \in Actors : Runs(x)' => Runs(x)
  <2> SUFFICES ASSUME NEW x \in Actors, NEW k \in Harts, current'[k] = x PROVE Runs(x)
    BY DEF Runs
  <2> QED BY DEF Calm, Runs
<1>2. \A x \in Actors : /\ InRing(x)' => InRing(x)
                        /\ InFlight(x)' => InFlight(x)
                        /\ Shipping(x)' => Shipping(x)
  BY DEF Calm, InRing, InFlight, Shipping
<1>3. \A x \in Actors : OnePlace(x)'
  <2> SUFFICES ASSUME NEW x \in Actors PROVE OnePlace(x)'
    OBVIOUS
  <2>1. OnePlace(x)
    BY DEF Solo
  <2> QED BY <1>1, <1>2, <2>1, PlaceStays DEF Calm
<1>4. OneHart'
  <2> SUFFICES ASSUME NEW h \in Harts, NEW k \in Harts, current'[h] = current'[k],
                      current'[h] # None
               PROVE  h = k
    BY DEF OneHart
  <2>1. current[h] = current[k] /\ current[h] # None
    BY DEF Calm
  <2> QED BY <2>1 DEF Solo, OneHart
<1>5. current \in [Harts -> Actors \cup {None}]
  BY DEF SchedInv, TypeOK
<1>6. Leaving'
  <2> SUFFICES ASSUME NEW h \in Harts, NEW k \in Harts, current'[h] # None, On(current[h], k)'
               PROVE  h = k /\ pc'[current'[h]] = "leave"
    BY DEF Leaving
  <2>1. PICK x \in Actors : x = current[h] /\ x = current'[h]
    BY <1>5 DEF Calm
  <2>2. On(x, k)'
    BY <2>1 DEF On
  <2>3. On(x, k)
    BY <2>2 DEF Calm
  <2>4. x # None /\ (pc[x] = "leave" => pc'[x] = "leave")
    <3>1. pc[current[h]] = "leave" => pc'[current[h]] = "leave"
      BY DEF Calm
    <3> QED BY <2>1, <3>1
  <2>5. h = k /\ pc[x] = "leave"
    <3>1. On(current[h], k)
      BY <2>1, <2>3
    <3>2. h = k /\ pc[current[h]] = "leave"
      BY <2>1, <2>4, <3>1 DEF Solo, Leaving
    <3> QED BY <2>1, <3>2
  <2> QED BY <2>1, <2>4, <2>5
<1>7. Distinct(ring') /\ Apart(xr')
  BY DEF Solo, Calm
<1>8. OneShipper'
  <2> SUFFICES ASSUME NEW h \in Harts, NEW k \in Harts, NEW x \in Actors,
                      ShipsAt(h, x)', ShipsAt(k, x)'
               PROVE  h = k
    BY DEF OneShipper
  <2>1. ShipsAt(h, x) /\ ShipsAt(k, x)
    BY DEF Calm
  <2> QED BY <2>1 DEF Solo, OneShipper
<1> QED BY <1>3, <1>4, <1>6, <1>7, <1>8 DEF Solo

(* The steps of a running actor that ship nobody new. *)
NoShip(h, a) ==
  /\ current[h] = a /\ current' = current
  /\ ring' = ring /\ xr' = xr /\ bl' = bl /\ rq' = rq /\ inbl' = inbl /\ inrq' = inrq
  /\ \A x \in Actors : x # a => pc'[x] = pc[x] /\ to'[x] = to[x]
  /\ pc[a] # "leave" /\ pc'[a] # "unborn"
  /\ \/ pc'[a] \notin {"ship", "xpush"}
     \/ pc[a] \in {"ship", "xpush"} /\ to'[a] = to[a]
LEMMA NoShipSolo ==
  ASSUME SchedInv, Solo, NEW h \in Harts, NEW a \in Actors, NoShip(h, a) PROVE Solo'
<1>1. current \in [Harts -> Actors \cup {None}]
  BY DEF SchedInv, TypeOK
<1>2. \A x \in Actors : /\ IsListed(x)' => IsListed(x)
                        /\ \A k \in Harts : On(x, k)' => On(x, k)
  BY DEF NoShip, IsListed, On
<1>3. \A x \in Actors : pc[x] # "unborn" => pc'[x] # "unborn"
  BY DEF NoShip
<1>4. \A k \in Harts : current'[k] # None =>
        current'[k] = current[k] /\ (pc[current[k]] = "leave" => pc'[current[k]] = "leave")
  <2> SUFFICES ASSUME NEW k \in Harts, current[k] # None
               PROVE  pc[current[k]] = "leave" => pc'[current[k]] = "leave"
    BY DEF NoShip
  <2>1. PICK x \in Actors : x = current[k]
    BY <1>1
  <2>2. pc[x] = "leave" => pc'[x] = "leave"
    BY DEF NoShip
  <2> QED BY <2>1, <2>2
<1>5. ASSUME NEW x \in Actors, NEW k \in Harts, ShipsAt(k, x)' PROVE ShipsAt(k, x)
  <2>1. /\ current[k] # None
        /\ to'[current[k]] = x /\ pc'[current[k]] \in {"ship", "xpush"}
    BY <1>5 DEF ShipsAt, NoShip
  <2>2. PICK c \in Actors : c = current[k]
    BY <1>1, <2>1
  <2>3. to[c] = x /\ pc[c] \in {"ship", "xpush"}
    BY <2>1, <2>2 DEF NoShip
  <2> QED BY <2>1, <2>2, <2>3 DEF ShipsAt
<1>6. Calm
  BY <1>2, <1>3, <1>4, <1>5 DEF Calm, NoShip
<1> QED BY <1>6, CalmSolo

LEMMA ActsAlone ==
  ASSUME SchedInv, NobodyWaits, Solo, NEW h \in Harts,
         Send(h) \/ Wake(h) \/ Kill(h) \/ Exit(h)
  PROVE  Solo'
<1>0. pc \in [Actors -> Pcs] /\ to \in [Actors -> Actors]
  BY Types
<1>1. PICK a \in Actors : a = current[h] /\ pc[a] \in {"user", "wake"}
  BY Running, SpendOps DEF Send, Wake, Kill, Exit, Pcs
<1>2. /\ current' = current /\ ring' = ring /\ xr' = xr
      /\ bl' = bl /\ rq' = rq /\ inbl' = inbl /\ inrq' = inrq
  BY DEF Send, Wake, Kill, Exit, plane, lists
<1>3. \A x \in Actors : x # a => to'[x] = to[x]
  <2>1. to' = to \/ \E b \in Actors : to' = [to EXCEPT ![a] = b]
    BY <1>1 DEF Send, Wake, Kill, Exit
  <2> QED BY <1>0, <2>1
<1>4. \E l \in {"user", "wake", "leave"} : pc' = [pc EXCEPT ![a] = l]
  <2>1. CASE Send(h)
    BY <1>1, <2>1 DEF Send, Goto
  <2>2. CASE Wake(h)
    <3>1. to[a] \in Actors
      BY <1>0
    <3>2. var[to[a]] # "BLOCKED"
      BY <3>1 DEF NobodyWaits
    <3> QED BY <1>1, <2>2, <3>2 DEF Wake, Goto
  <2>3. CASE Kill(h)
    <3>1. pc[a] = "user" /\ (pc' = [pc EXCEPT ![a] = "leave"] \/ pc' = pc)
      BY <1>1, <2>3, SpendOps DEF Kill, Goto
    <3>2. pc = [pc EXCEPT ![a] = "user"] \/ pc[a] # "user"
      BY <1>0
    <3> QED BY <3>1, <3>2
  <2>4. CASE Exit(h)
    BY <1>1, <2>4 DEF Exit, Goto
  <2> QED BY <2>1, <2>2, <2>3, <2>4
<1>5. /\ \A x \in Actors : x # a => pc'[x] = pc[x]
      /\ pc'[a] \in {"user", "wake", "leave"}
  BY <1>0, <1>4
<1>6. NoShip(h, a)
  BY <1>1, <1>2, <1>3, <1>5 DEF NoShip
<1> QED BY <1>6, NoShipSolo

(* The steps of a hart that leave actors where they are, or drop one. *)
LEMMA UnlinkSolo ==
  ASSUME SchedInv, OneListed, Solo, NEW h \in Harts, Unlink(h) \/ Admit(h) PROVE Solo'
<1>1. PICK i \in DOMAIN bl[h] :
        /\ bl' = [bl EXCEPT ![h] = RemoveAt(bl[h], i)]
        /\ inbl' = [inbl EXCEPT ![bl[h][i]] = FALSE]
        /\ \/ rq' = rq /\ inrq' = inrq
           \/ /\ rq' = [rq EXCEPT ![h] = Append(rq[h], bl[h][i])]
              /\ inrq' = [inrq EXCEPT ![bl[h][i]] = TRUE]
  BY DEF Unlink, Admit
<1>2. UNCHANGED <<xr, ring, pc, to, current>>
  BY DEF Unlink, Admit, actors
<1>3. /\ bl \in [Harts -> Seq(Actors)] /\ rq \in [Harts -> Seq(Actors)]
      /\ inbl \in [Actors -> BOOLEAN] /\ inrq \in [Actors -> BOOLEAN]
  BY ListTypes
<1>4. PICK a \in Actors : a = bl[h][i]
  BY <1>3
<1>5. PICK s \in Seq(Actors) : s = RemoveAt(bl[h], i) /\ ToSet(bl[h]) = ToSet(s) \cup {a}
  <2>1. PICK b \in Seq(Actors) : b = bl[h]
    BY <1>3
  <2>2. /\ ToSet(b) = ToSet(RemoveAt(b, i)) \cup {b[i]} /\ RemoveAt(b, i) \in Seq(Actors)
    BY ONLY b \in Seq(Actors), i \in DOMAIN bl[h], b = bl[h], RemoveAtSet, RemoveAtHolds
  <2> QED BY <1>4, <2>1, <2>2
<1>6. bl'[h] = s /\ \A k \in Harts : k # h => bl'[k] = bl[k]
  BY <1>1, <1>3, <1>5
<1>7. PICK q \in Seq(Actors) : q = Append(rq[h], a) /\ ToSet(q) = ToSet(rq[h]) \cup {a}
  <2>1. PICK r \in Seq(Actors) : r = rq[h]
    BY <1>3
  <2>2. Append(r, a) \in Seq(Actors) /\ ToSet(Append(r, a)) = ToSet(r) \cup {a}
    BY ONLY r \in Seq(Actors), a \in Actors, AppendSet
  <2> QED BY <2>1, <2>2
<1>8. \A k \in Harts : /\ k = h => ToSet(rq'[k]) \subseteq ToSet(rq[h]) \cup {a}
                       /\ k # h => rq'[k] = rq[k]
  <2>1. rq' = rq \/ rq' = [rq EXCEPT ![h] = q]
    BY <1>1, <1>4, <1>7
  <2>2. CASE rq' = rq
    BY <2>2
  <2>3. CASE rq' = [rq EXCEPT ![h] = q]
    <3>1. rq'[h] = q /\ \A k \in Harts : k # h => rq'[k] = rq[k]
      BY <1>3, <2>3
    <3> QED BY <1>7, <3>1
  <2> QED BY <2>1, <2>2, <2>3
<1>9. \A x \in Actors, k \in Harts : On(x, k)' => On(x, k)
  <2> SUFFICES ASSUME NEW x \in Actors, NEW k \in Harts, On(x, k)' PROVE On(x, k)
    OBVIOUS
  <2>1. CASE k = h
    BY <1>5, <1>6, <1>8, <2>1 DEF On
  <2>2. CASE k # h
    BY <1>6, <1>8, <2>2 DEF On
  <2> QED BY <2>1, <2>2
<1>10. IsListed(a)
  BY <1>3, <1>4 DEF OneListed, OnceIn, IsListed
<1>11. \A x \in Actors : IsListed(x)' => IsListed(x)
  <2> SUFFICES ASSUME NEW x \in Actors, x # a, inbl'[x] \/ inrq'[x] PROVE inbl[x] \/ inrq[x]
    BY <1>10 DEF IsListed
  <2>1. inbl'[x] = inbl[x]
    <3>1. inbl' = [inbl EXCEPT ![a] = FALSE]
      BY <1>1, <1>4
    <3> QED BY <1>3, <3>1
  <2>2. inrq'[x] = inrq[x]
    <3>1. inrq' = inrq \/ inrq' = [inrq EXCEPT ![a] = TRUE]
      BY <1>1, <1>4
    <3>2. CASE inrq' = inrq
      BY <3>2
    <3>3. CASE inrq' = [inrq EXCEPT ![a] = TRUE]
      BY <1>3, <3>3
    <3> QED BY <3>1, <3>2, <3>3
  <2> QED BY <2>1, <2>2
<1>12. Calm
  BY <1>2, <1>9, <1>11 DEF Calm, ShipsAt
<1> QED BY <1>12, CalmSolo

LEMMA SwitchOutSolo ==
  ASSUME SchedInv, NobodyWaits, Solo, NEW h \in Harts, SwitchOut(h) PROVE Solo'
<1>1. pc \in [Actors -> Pcs] /\ current \in [Harts -> Actors \cup {None}]
  BY DEF SchedInv, TypeOK
<1>2. PICK a \in Actors : a = current[h] /\ pc[a] = "leave"
  <2>1. PICK a \in Actors : a = current[h] /\ pc[a] \in {"leave", "parking"}
    BY <1>1 DEF SwitchOut
  <2>2. pc[a] # "parking"
    BY DEF NobodyWaits
  <2> QED BY <2>1, <2>2
<1>3. /\ current' = [current EXCEPT ![h] = None] /\ pc' = [pc EXCEPT ![a] = "user"]
      /\ bl' = bl /\ rq' = rq /\ inbl' = inbl /\ inrq' = inrq /\ xr' = xr /\ ring' = ring
      /\ to' = to
  BY <1>2 DEF SwitchOut, lists
<1>4. \A k \in Harts : current'[k] = IF k = h THEN None ELSE current[k]
  BY <1>1, <1>3
<1>5. pc'[a] = "user" /\ \A x \in Actors : x # a => pc'[x] = pc[x]
  BY <1>1, <1>3
<1>6. \A x \in Actors : /\ IsListed(x)' => IsListed(x)
                        /\ \A k \in Harts : On(x, k)' => On(x, k)
                        /\ pc[x] # "unborn" => pc'[x] # "unborn"
  BY <1>3, <1>5 DEF IsListed, On
<1>7. ASSUME NEW k \in Harts, current'[k] # None
      PROVE  /\ current[k] \in Actors /\ current[k] # a /\ current'[k] = current[k]
             /\ pc'[current[k]] = pc[current[k]]
  <2>1. k # h /\ current'[k] = current[k] /\ current[k] \in Actors
    BY <1>1, <1>4, <1>7
  <2>2. current[k] # a
    BY <1>2, <2>1 DEF Solo, OneHart
  <2> QED BY <1>5, <2>1, <2>2
<1>8. \A x \in Actors, k \in Harts : ShipsAt(k, x)' => ShipsAt(k, x)
  <2> SUFFICES ASSUME NEW x \in Actors, NEW k \in Harts, ShipsAt(k, x)' PROVE ShipsAt(k, x)
    OBVIOUS
  <2>1. /\ current'[k] # None /\ to[current'[k]] = x /\ pc'[current'[k]] \in {"ship", "xpush"}
    BY <1>3 DEF ShipsAt
  <2> QED BY <1>7, <2>1 DEF ShipsAt
<1>9. Calm
  <2>1. ring' = ring /\ xr' = xr
    BY <1>3
  <2> QED BY <1>6, <1>7, <1>8, <2>1 DEF Calm
<1> QED BY <1>9, CalmSolo

LEMMA TurnSolo ==
  ASSUME SchedInv, Solo,
         UNCHANGED <<bl, inbl, rq, inrq, xr, ring, pc, to, current>>
  PROVE  Solo'
<1>1. Calm
  BY DEF Calm, IsListed, On, ShipsAt
<1> QED BY <1>1, CalmSolo

(* A hart takes up the actor it dequeues: it leaves the one list it was on. *)
LEMMA DeqSolo ==
  ASSUME SchedInv, OneListed, OneListed', Resting, NobodyWaits, Solo, NEW h \in Harts, Deq(h),
         SchedInv'
  PROVE  Solo'
<1>1. rq \in [Harts -> Seq(Actors)] /\ rq[h] # <<>> /\ inrq \in [Actors -> BOOLEAN]
  BY ListTypes DEF Deq
<1>2. PICK a \in Actors : a = Head(rq[h]) /\ a \in ToSet(rq[h])
  <2>1. PICK s \in Seq(Actors) : s = rq[h] /\ s # <<>>
    BY <1>1
  <2>2. Head(s) \in Actors /\ Head(s) \in ToSet(s)
    BY <2>1, HeadTailHold
  <2> QED BY <2>1, <2>2
<1>3. /\ bl' = bl /\ inbl' = inbl /\ xr' = xr /\ ring' = ring /\ to' = to
      /\ current[h] = None
      /\ rq' = [rq EXCEPT ![h] = Tail(rq[h])] /\ inrq' = [inrq EXCEPT ![a] = FALSE]
  BY <1>2 DEF Deq, lists, HAt
<1>4. pc \in [Actors -> Pcs] /\ current \in [Harts -> Actors \cup {None}]
  BY DEF SchedInv, TypeOK
<1>5. On(a, h) /\ IsListed(a)
  <2>1. On(a, h)
    BY <1>2 DEF On
  <2> QED BY <2>1, OnIsListed
<1>6. ~Runs(a)
  BY <1>3, <1>5, SoloLonely DEF Lonely, On
<1>7. pc[a] = "user" /\ ~InRing(a) /\ ~InFlight(a) /\ ~Shipping(a)
  <2>1. OnePlace(a)
    BY DEF Solo
  <2>2. pc[a] \in {"unborn", "user", "parked"}
    BY <1>6 DEF Resting
  <2>3. pc[a] # "parked"
    BY DEF NobodyWaits
  <2> QED BY <1>5, <2>1, <2>2, <2>3 DEF OnePlace
<1>8. pc' = pc /\ \A x \in Actors : pc'[x] = pc[x]
  BY <1>4, <1>7, <1>2 DEF Deq
<1>9. \A k \in Harts : current'[k] = current[k] \/ (k = h /\ current'[k] = a)
  BY <1>2, <1>4 DEF Deq
<1>10. \A x \in Actors, k \in Harts : On(x, k)' => On(x, k)
  <2>1. PICK s \in Seq(Actors) : s = rq[h] /\ s # <<>>
    BY <1>1
  <2>2. Tail(s) \in Seq(Actors) /\ ToSet(Tail(s)) \subseteq ToSet(s)
    BY ONLY <2>1, HeadTailHold
  <2>3. rq'[h] = Tail(s) /\ \A k \in Harts : k # h => rq'[k] = rq[k]
    BY <1>1, <1>3, <2>1, <2>2
  <2> SUFFICES ASSUME NEW x \in Actors, NEW k \in Harts, On(x, k)' PROVE On(x, k)
    OBVIOUS
  <2>4. CASE k = h
    BY <1>3, <2>1, <2>2, <2>3, <2>4 DEF On
  <2>5. CASE k # h
    BY <1>3, <2>3, <2>5 DEF On
  <2> QED BY <2>4, <2>5
<1>11. ~IsListed(a)' /\ \A x \in Actors : x # a => (IsListed(x)' => IsListed(x))
  <2>1. inrq'[a] = FALSE /\ \A x \in Actors : x # a => inrq'[x] = inrq[x]
    BY <1>1, <1>3
  <2>2. ~inbl[a]
    <3>1. inrq[a]
      BY <1>2 DEF OneListed, OnceIn, ToSet
    <3> QED BY <3>1 DEF OneListed
  <2> QED BY <1>3, <2>1, <2>2 DEF IsListed
<1>12. \A x \in Actors, k \in Harts : ShipsAt(k, x)' => ShipsAt(k, x)
  <2> SUFFICES ASSUME NEW x \in Actors, NEW k \in Harts, ShipsAt(k, x)' PROVE ShipsAt(k, x)
    OBVIOUS
  <2>1. /\ current'[k] # None /\ to[current'[k]] = x /\ pc[current'[k]] \in {"ship", "xpush"}
    BY <1>3, <1>8 DEF ShipsAt
  <2>2. current'[k] = current[k]
    BY <1>7, <1>9, <2>1
  <2> QED BY <2>1, <2>2 DEF ShipsAt
<1>13. \A x \in Actors : x # a => (Runs(x)' => Runs(x))
  BY <1>9 DEF Runs
<1>14. \A x \in Actors : /\ InRing(x)' => InRing(x)
                         /\ InFlight(x)' => InFlight(x)
                         /\ Shipping(x)' => Shipping(x)
  BY <1>3, <1>12 DEF InRing, InFlight, Shipping
<1>15. ASSUME NEW x \in Actors PROVE OnePlace(x)'
  <2>1. CASE x = a
    BY <1>7, <1>8, <1>11, <1>14, <2>1 DEF OnePlace
  <2>2. CASE x # a
    <3>1. OnePlace(x)
      BY DEF Solo
    <3>2. /\ IsListed(x)' => IsListed(x)
          /\ Runs(x)' => Runs(x)
          /\ pc[x] # "unborn" => pc'[x] # "unborn"
      BY <1>8, <1>11, <1>13, <2>2
    <3> QED BY <1>14, <3>1, <3>2, PlaceStays
  <2> QED BY <2>1, <2>2
<1>16. OneHart'
  <2> SUFFICES ASSUME NEW j \in Harts, NEW k \in Harts, current'[j] = current'[k],
                      current'[j] # None
               PROVE  j = k
    BY DEF OneHart
  <2>1. current[j] # a /\ current[k] # a
    BY <1>6 DEF Runs
  <2>2. CASE current'[j] = a
    <3>1. current'[k] = a
      BY <2>2
    <3> QED BY <1>9, <2>1, <2>2, <3>1
  <2>3. CASE current'[j] # a
    <3>1. current'[j] = current[j] /\ current'[k] = current[k]
      BY <1>9, <2>3
    <3> QED BY <3>1 DEF Solo, OneHart
  <2> QED BY <2>2, <2>3
<1>17. Leaving'
  <2> SUFFICES ASSUME NEW j \in Harts, NEW k \in Harts, current'[j] # None, On(current[j], k)'
               PROVE  j = k /\ pc'[current'[j]] = "leave"
    BY DEF Leaving
  <2>0. current[j] \in Actors \cup {None} /\ (current'[j] = current[j] \/ current'[j] = a)
    BY <1>4, <1>9
  <2>1. PICK x \in Actors : x = current'[j]
    BY <2>0
  <2>2. On(x, k)'
    BY <2>1 DEF On
  <2>3. IsListed(x)'
    BY <2>2, OnIsListedNext
  <2>4. x # a
    BY <1>11, <2>3
  <2>5. x = current[j]
    BY <1>9, <2>1, <2>4
  <2>6. j = k /\ pc[x] = "leave"
    <3>1. On(x, k)
      BY <1>10, <2>2
    <3>2. On(current[j], k) /\ current[j] # None
      BY <2>1, <2>5, <3>1
    <3> QED BY <2>5, <3>2 DEF Solo, Leaving
  <2> QED BY <1>8, <2>1, <2>6
<1>18. Distinct(ring') /\ Apart(xr')
  BY <1>3 DEF Solo
<1>19. OneShipper'
  <2> SUFFICES ASSUME NEW j \in Harts, NEW k \in Harts, NEW x \in Actors,
                      ShipsAt(j, x)', ShipsAt(k, x)'
               PROVE  j = k
    BY DEF OneShipper
  <2> QED BY <1>12 DEF Solo, OneShipper
<1> QED BY <1>15, <1>16, <1>17, <1>18, <1>19 DEF Solo

(* A step on hart h that lists the actor a, which was in no list; it may   *)
(* give d, whom it takes off a list, to the steal FIFO.                    *)
Relists(h, a, d) ==
  /\ \A x \in Actors : /\ IsListed(x)' => IsListed(x) \/ x = a
                       /\ \A k \in Harts : On(x, k)' => On(x, k) \/ (x = a /\ k = h)
                       /\ InRing(x)' => (InRing(x) /\ x # a) \/ x = d
  /\ d = a \/ IsListed(d)
  /\ InRing(d)' => ~IsListed(d)' /\ ~Runs(d)
  /\ Distinct(ring')
(* It takes a from the wake rings and from the harts that would ship it.   *)
Carries(h, a) ==
  /\ current' = current
  /\ ~IsListed(a) /\ pc[a] # "unborn"
  /\ ~Runs(a) \/ (current[h] = a /\ pc'[a] = "leave")
  /\ Apart(xr')
  /\ \A x \in Actors : /\ InFlight(x)' => InFlight(x) /\ x # a
                       /\ pc[x] # "unborn" => pc'[x] # "unborn"
                       /\ Runs(x) /\ pc[x] = "leave" => pc'[x] = "leave"
                       /\ \A k \in Harts : ShipsAt(k, x)' => ShipsAt(k, x) /\ x # a
LEMMA MoveSolo ==
  ASSUME SchedInv, Solo, NEW h \in Harts, NEW a \in Actors, NEW d \in Actors,
         Relists(h, a, d), Carries(h, a)
  PROVE  Solo'
<1>1. current \in [Harts -> Actors \cup {None}]
  BY DEF SchedInv, TypeOK
<1>2. \A x \in Actors : Runs(x)' <=> Runs(x)
  BY DEF Carries, Runs
<1>3. \A x \in Actors : Shipping(x)' => Shipping(x) /\ x # a
  BY DEF Carries, Shipping
<1>4. ASSUME NEW x \in Actors PROVE OnePlace(x)'
  <2>0. OnePlace(x) /\ (pc[x] # "unborn" => pc'[x] # "unborn") /\ (InFlight(x)' => InFlight(x) /\ x # a)
    BY DEF Solo, Carries
  <2>1. CASE x = a
    <3>1. ~InFlight(x)' /\ ~Shipping(x)' /\ pc'[x] # "unborn"
      BY <1>3, <2>0, <2>1 DEF Carries
    <3>2. InRing(x)' => ~IsListed(x)' /\ ~Runs(x)
      BY <2>1 DEF Relists
    <3> QED BY <1>2, <3>1, <3>2 DEF OnePlace
  <2>2. CASE x # a /\ x # d
    <3>1. (IsListed(x)' => IsListed(x)) /\ (InRing(x)' => InRing(x))
      BY <2>2 DEF Relists
    <3> QED BY <1>2, <1>3, <2>0, <3>1, PlaceStays
  <2>3. CASE x # a /\ x = d
    <3>1. IsListed(x) /\ (InRing(x)' => ~IsListed(x)' /\ ~Runs(x))
      BY <2>3 DEF Relists
    <3>2. ~InFlight(x)' /\ ~Shipping(x)' /\ pc'[x] # "unborn"
      BY <1>3, <2>0, <3>1 DEF OnePlace
    <3> QED BY <1>2, <3>1, <3>2 DEF OnePlace
  <2> QED BY <2>1, <2>2, <2>3
<1>5. OneHart'
  BY DEF Solo, OneHart, Carries
<1>6. Leaving'
  <2> SUFFICES ASSUME NEW j \in Harts, NEW k \in Harts, current[j] # None, On(current[j], k)'
               PROVE  j = k /\ pc'[current[j]] = "leave"
    BY DEF Leaving, Carries
  <2>1. PICK x \in Actors : x = current[j]
    BY <1>1
  <2>2. On(x, k)' /\ Runs(x)
    BY <2>1 DEF On, Runs, Carries
  <2>3. On(x, k) \/ (x = a /\ k = h)
    BY <2>2 DEF Relists
  <2>4. CASE On(x, k)
    <3>1. On(current[j], k)
      BY <2>1, <2>4
    <3>2. j = k /\ pc[x] = "leave"
      BY <2>1, <3>1 DEF Solo, Leaving
    <3>3. pc'[x] = "leave"
      BY <2>2, <3>2 DEF Carries
    <3> QED BY <2>1, <3>2, <3>3
  <2>5. CASE x = a /\ k = h
    <3>1. current[h] = a /\ pc'[a] = "leave"
      BY <2>2, <2>5 DEF Carries
    <3>2. j = h
      BY <2>1, <2>5, <3>1 DEF Solo, OneHart
    <3> QED BY <2>1, <2>5, <3>1, <3>2
  <2> QED BY <2>3, <2>4, <2>5
<1>7. Distinct(ring') /\ Apart(xr')
  BY DEF Relists, Carries
<1>8. OneShipper'
  <2> SUFFICES ASSUME NEW j \in Harts, NEW k \in Harts, NEW x \in Actors,
                      ShipsAt(j, x)', ShipsAt(k, x)'
               PROVE  j = k
    BY DEF OneShipper
  <2>1. ShipsAt(j, x) /\ ShipsAt(k, x)
    BY DEF Carries
  <2> QED BY <2>1 DEF Solo, OneShipper
<1> QED BY <1>4, <1>5, <1>6, <1>7, <1>8 DEF Solo

LEMMA EnqRelists ==
  ASSUME SchedInv, OneListed, Solo, NEW h \in Harts, NEW a \in Actors,
         ~IsListed(a), ~InRing(a), ~Runs(a) \/ current[h] = a,
         Enq(h, a), UNCHANGED <<rq, inrq>>
  PROVE  \E d \in Actors : Relists(h, a, d)
<1>1. /\ bl \in [Harts -> Seq(Actors)] /\ inbl \in [Actors -> BOOLEAN]
      /\ ring \in Seq(Actors) /\ rq' = rq /\ inrq' = inrq
  BY ListTypes
<1>2. PICK q \in Seq(Actors) : q = Append(bl[h], a) /\ ToSet(q) = ToSet(bl[h]) \cup {a}
  <2>1. PICK s \in Seq(Actors) : s = bl[h]
    BY <1>1
  <2>2. Append(s, a) \in Seq(Actors) /\ ToSet(Append(s, a)) = ToSet(s) \cup {a}
    BY ONLY s \in Seq(Actors), a \in Actors, AppendSet
  <2> QED BY <2>1, <2>2
<1>3. ~inbl[a] /\ ~inrq[a]
  BY DEF IsListed
<1>4. CASE /\ bl' = [bl EXCEPT ![h] = q]
           /\ inbl' = [inbl EXCEPT ![a] = TRUE]
           /\ UNCHANGED ring
  <2>1. bl'[h] = q /\ \A k \in Harts : k # h => bl'[k] = bl[k]
    BY <1>1, <1>4
  <2>2. \A x \in Actors : x # a => inbl'[x] = inbl[x]
    BY <1>1, <1>4
  <2>3. \A x \in Actors : IsListed(x)' => IsListed(x) \/ x = a
    BY <1>1, <2>2 DEF IsListed
  <2>4. \A x \in Actors, k \in Harts : On(x, k)' => On(x, k) \/ (x = a /\ k = h)
    <3> SUFFICES ASSUME NEW x \in Actors, NEW k \in Harts, On(x, k)'
                 PROVE  On(x, k) \/ (x = a /\ k = h)
      OBVIOUS
    <3>0. x \in ToSet(bl'[k]) \/ x \in ToSet(rq[k])
      BY <1>1 DEF On
    <3>1. CASE k = h
      <4>1. ToSet(bl'[k]) = ToSet(bl[k]) \cup {a}
        BY ONLY <1>2, <2>1, <3>1
      <4> QED BY <3>0, <3>1, <4>1 DEF On
    <3>2. CASE k # h
      BY <2>1, <3>0, <3>2 DEF On
    <3> QED BY <3>1, <3>2
  <2>5. /\ \A x \in Actors : InRing(x)' => InRing(x)
        /\ ~InRing(a)' /\ Distinct(ring')
    BY <1>4 DEF InRing, Solo
  <2>6. Relists(h, a, a)
    BY <2>3, <2>4, <2>5 DEF Relists
  <2> QED BY <2>6
<1>5. CASE \E i \in Oldest(Donatable(h, q)) :
             /\ bl' = [bl EXCEPT ![h] = RemoveAt(q, i)]
             /\ inbl' = [inbl EXCEPT ![a] = TRUE, ![q[i]] = FALSE]
             /\ ring' = Append(ring, q[i])
  <2>1. PICK i \in Oldest(Donatable(h, q)) :
             /\ bl' = [bl EXCEPT ![h] = RemoveAt(q, i)]
             /\ inbl' = [inbl EXCEPT ![a] = TRUE, ![q[i]] = FALSE]
             /\ ring' = Append(ring, q[i])
    BY <1>5
  <2>2. i \in DOMAIN q /\ q[i] # current[h]
    BY DEF Oldest, Donatable
  <2>3. PICK d \in Actors : d = q[i] /\ d \in ToSet(q)
    BY <2>2, RemoveAtHolds
  <2>4. PICK r \in Seq(Actors) : r = RemoveAt(q, i) /\ ToSet(r) \subseteq ToSet(q)
    BY <2>2, RemoveAtHolds
  <2>5. bl'[h] = r /\ \A k \in Harts : k # h => bl'[k] = bl[k]
    BY <1>1, <2>1, <2>4
  <2>6. d = a \/ (On(d, h) /\ IsListed(d) /\ ~inrq[d])
    <3>1. d = a \/ d \in ToSet(bl[h])
      BY <1>2, <2>3
    <3>2. d \in ToSet(bl[h]) => inbl[d] /\ ~inrq[d]
      BY DEF OneListed, OnceIn, ToSet
    <3> QED BY <3>1, <3>2 DEF On, IsListed
  <2>7. ~Runs(d)
    <3>1. CASE d = a
      BY <2>2, <2>3, <3>1
    <3>2. CASE On(d, h)
      <4> SUFFICES ASSUME NEW k \in Harts, current[k] = d PROVE FALSE
        BY DEF Runs
      <4>1. current[k] # None /\ On(current[k], h)
        BY <3>2
      <4>2. k = h
        BY <4>1 DEF Solo, Leaving
      <4> QED BY <2>2, <2>3, <4>2
    <3> QED BY <2>6, <3>1, <3>2
  <2>8. ~InRing(d)
    <3>1. OnePlace(d)
      BY DEF Solo
    <3> QED BY <2>6, <3>1 DEF OnePlace
  <2>9. PICK f \in [Actors -> BOOLEAN] : f = [inbl EXCEPT ![a] = TRUE]
    BY <1>1
  <2>10. inbl' = [f EXCEPT ![d] = FALSE]
    BY <2>1, <2>3, <2>9
  <2>11. /\ inbl'[d] = FALSE
         /\ \A x \in Actors : x # a /\ x # d => inbl'[x] = inbl[x]
    <3>1. \A x \in Actors : x # a => f[x] = inbl[x]
      BY <1>1, <2>9
    <3>2. inbl'[d] = FALSE /\ \A x \in Actors : x # d => inbl'[x] = f[x]
      BY <2>10, Updated
    <3> QED BY <3>1, <3>2
  <2>12. \A x \in Actors : IsListed(x)' => IsListed(x) \/ x = a
    <3> SUFFICES ASSUME NEW x \in Actors, x # a, IsListed(x)' PROVE IsListed(x)
      OBVIOUS
    <3>1. inbl'[x] \/ inrq[x]
      BY <1>1 DEF IsListed
    <3>2. inbl'[x] => inbl[x]
      BY <2>11
    <3> QED BY <3>1, <3>2 DEF IsListed
  <2>13. ~IsListed(d)'
    <3>1. ~inrq[d]
      BY <1>3, <2>6
    <3> QED BY <1>1, <2>11, <3>1 DEF IsListed
  <2>14. \A x \in Actors, k \in Harts : On(x, k)' => On(x, k) \/ (x = a /\ k = h)
    <3> SUFFICES ASSUME NEW x \in Actors, NEW k \in Harts, On(x, k)'
                 PROVE  On(x, k) \/ (x = a /\ k = h)
      OBVIOUS
    <3>0. x \in ToSet(bl'[k]) \/ x \in ToSet(rq[k])
      BY <1>1 DEF On
    <3>1. CASE k = h
      BY <1>2, <2>4, <2>5, <3>0, <3>1 DEF On
    <3>2. CASE k # h
      BY <2>5, <3>0, <3>2 DEF On
    <3> QED BY <3>1, <3>2
  <2>15. ToSet(ring') = ToSet(ring) \cup {d} /\ Distinct(ring')
    <3>1. ring' = Append(ring, d)
      BY <2>1, <2>3
    <3>2. Distinct(ring) /\ d \notin ToSet(ring)
      BY <2>8 DEF InRing, Solo
    <3> QED BY <1>1, <3>1, <3>2, AppendSet, AppendDistinct
  <2>16. \A x \in Actors : InRing(x)' => (InRing(x) /\ x # a) \/ x = d
    BY <2>15 DEF InRing
  <2>17. Relists(h, a, d)
    <3>1. d = a \/ IsListed(d)
      BY <2>6
    <3> QED BY <2>7, <2>12, <2>13, <2>14, <2>15, <2>16, <3>1 DEF Relists
  <2> QED BY <2>17
<1> QED BY <1>2, <1>3, <1>4, <1>5 DEF Enq

LEMMA DrainSolo ==
  ASSUME SchedInv, OneListed, Solo, NEW h \in Harts, Drain(h) PROVE Solo'
<1>1. PICK s \in Inbound(h) :
        /\ Enq(h, Head(xr[s][h])) /\ xr' = [xr EXCEPT ![s][h] = Tail(xr[s][h])]
        /\ UNCHANGED <<rq, inrq>>
  BY DEF Drain
<1>2. UNCHANGED <<pc, to, current>> /\ current[h] = None
  BY DEF Drain, actors, HAt
<1>3. /\ s \in Harts /\ xr \in [Harts -> [Harts -> Seq(Actors)]]
      /\ xr[s][h] \in Seq(Actors) /\ xr[s][h] # <<>>
  BY ListTypes DEF Inbound
<1>4. PICK q \in Seq(Actors) : q = xr[s][h]
  BY <1>3
<1>5. PICK a \in Actors : a = Head(q) /\ a \in ToSet(q)
  <2>1. q # <<>>
    BY <1>3, <1>4
  <2> QED BY ONLY q \in Seq(Actors), <2>1, HeadTailHold
<1>6. PICK t \in Seq(Actors) : t = Tail(q) /\ ToSet(t) \subseteq ToSet(q)
  <2>1. q # <<>>
    BY <1>3, <1>4
  <2> QED BY ONLY q \in Seq(Actors), <2>1, HeadTailHold
<1>7. \A j, k \in Harts : xr'[j][k] = IF j = s /\ k = h THEN t ELSE xr[j][k]
  <2>1. Puts(s, h, t) /\ s \in Harts
    BY <1>1, <1>3, <1>4, <1>6 DEF Puts
  <2> QED BY <2>1, RingPut
<1>8. Apart(xr') /\ Nowhere(xr', a)
  <2>1. PICK g : g = xr'
    OBVIOUS
  <2>2. PICK f : f = xr
    OBVIOUS
  <2>3. /\ f[s][h] \in Seq(Actors) /\ f[s][h] # <<>> /\ Apart(f)
        /\ \A j, k \in Harts : g[j][k] = IF j = s /\ k = h THEN Tail(f[s][h]) ELSE f[j][k]
    BY <1>3, <1>4, <1>6, <1>7, <2>1, <2>2 DEF Solo
  <2>4. Apart(g) /\ Nowhere(g, Head(f[s][h]))
    <3>1. s \in Harts
      BY <1>3
    <3> QED BY ONLY <2>3, <3>1, h \in Harts, ApartCut
  <2> QED BY <1>4, <1>5, <2>1, <2>2, <2>4
<1>9. \A x \in Actors : InFlight(x)' => InFlight(x) /\ x # a
  <2> SUFFICES ASSUME NEW x \in Actors, NEW k \in Harts, NEW j \in Harts, x \in ToSet(xr'[j][k])
               PROVE  InFlight(x) /\ x # a
    BY DEF InFlight
  <2>1. x \in ToSet(xr[j][k])
    <3>1. CASE j = s /\ k = h
      <4>1. xr'[j][k] = t /\ xr[j][k] = q
        BY <1>4, <1>7, <3>1
      <4> QED BY <1>6, <4>1
    <3>2. CASE ~(j = s /\ k = h)
      <4>1. xr'[j][k] = xr[j][k]
        BY <1>7, <3>2
      <4> QED BY <4>1
    <3> QED BY <3>1, <3>2
  <2> QED BY <1>8, <2>1 DEF InFlight, Nowhere
<1>10. InFlight(a)
  BY <1>3, <1>4, <1>5 DEF InFlight
<1>11. ~IsListed(a) /\ ~InRing(a) /\ ~Shipping(a) /\ ~Runs(a) /\ pc[a] # "unborn"
  <2>1. OnePlace(a)
    BY DEF Solo
  <2> QED BY <1>10, <2>1 DEF OnePlace
<1>12. \A x \in Actors, k \in Harts : ShipsAt(k, x)' => ShipsAt(k, x) /\ x # a
  BY <1>2, <1>11 DEF ShipsAt, Shipping
<1>13. PICK d \in Actors : Relists(h, a, d)
  <2>1. Enq(h, a)
    BY <1>1, <1>4, <1>5
  <2> QED BY <1>1, <1>11, <2>1, EnqRelists
<1>14. Carries(h, a)
  BY <1>2, <1>8, <1>9, <1>11, <1>12 DEF Carries
<1> QED BY <1>13, <1>14, MoveSolo

LEMMA StealSolo ==
  ASSUME SchedInv, OneListed, Solo, NEW h \in Harts, Steal(h) PROVE Solo'
<1>1. /\ bl \in [Harts -> Seq(Actors)] /\ inbl \in [Actors -> BOOLEAN]
      /\ ring \in Seq(Actors) /\ ring # <<>>
  BY ListTypes DEF Steal
<1>2. PICK a \in Actors : a = Head(ring) /\ a \in ToSet(ring)
  BY <1>1, HeadTailHold
<1>3. UNCHANGED <<rq, inrq, xr, pc, to, current>> /\ ring' = Tail(ring)
  BY DEF Steal, actors
<1>4. ~IsListed(a) /\ ~InFlight(a) /\ ~Shipping(a) /\ ~Runs(a) /\ pc[a] # "unborn"
  <2>1. OnePlace(a) /\ InRing(a)
    BY <1>2 DEF Solo, InRing
  <2> QED BY <2>1 DEF OnePlace
<1>5. bl' = [bl EXCEPT ![h] = Append(bl[h], a)] /\ inbl' = [inbl EXCEPT ![a] = TRUE]
  BY <1>2, <1>4 DEF Steal, IsListed
<1>6. PICK q \in Seq(Actors) : q = Append(bl[h], a) /\ ToSet(q) = ToSet(bl[h]) \cup {a}
  <2>1. PICK s \in Seq(Actors) : s = bl[h]
    BY <1>1
  <2>2. Append(s, a) \in Seq(Actors) /\ ToSet(Append(s, a)) = ToSet(s) \cup {a}
    BY ONLY s \in Seq(Actors), a \in Actors, AppendSet
  <2> QED BY <2>1, <2>2
<1>7. bl'[h] = q /\ \A k \in Harts : k # h => bl'[k] = bl[k]
  BY <1>1, <1>5, <1>6
<1>8. \A x \in Actors : IsListed(x)' => IsListed(x) \/ x = a
  <2>1. \A x \in Actors : x # a => inbl'[x] = inbl[x]
    BY <1>1, <1>5
  <2> QED BY <1>3, <2>1 DEF IsListed
<1>9. \A x \in Actors, k \in Harts : On(x, k)' => On(x, k) \/ (x = a /\ k = h)
  <2> SUFFICES ASSUME NEW x \in Actors, NEW k \in Harts, On(x, k)'
               PROVE  On(x, k) \/ (x = a /\ k = h)
    OBVIOUS
  <2>0. x \in ToSet(bl'[k]) \/ x \in ToSet(rq[k])
    BY <1>3 DEF On
  <2>1. CASE k = h
    <3>1. ToSet(bl'[k]) = ToSet(bl[k]) \cup {a}
      BY ONLY <1>6, <1>7, <2>1
    <3> QED BY <2>0, <2>1, <3>1 DEF On
  <2>2. CASE k # h
    BY <1>7, <2>0, <2>2 DEF On
  <2> QED BY <2>1, <2>2
<1>10. Distinct(ring') /\ a \notin ToSet(ring') /\ ToSet(ring') \subseteq ToSet(ring)
  <2>1. Distinct(ring)
    BY DEF Solo
  <2> QED BY <1>1, <1>2, <1>3, <2>1, TailDistinct, HeadTailHold
<1>11. Relists(h, a, a)
  <2>1. \A x \in Actors : InRing(x)' => InRing(x) /\ x # a
    BY <1>10 DEF InRing
  <2>2. ~InRing(a)'
    BY <2>1
  <2> QED BY <1>8, <1>9, <1>10, <2>1, <2>2 DEF Relists
<1>12. Carries(h, a)
  <2>1. \A x \in Actors : InFlight(x)' => InFlight(x) /\ x # a
    BY <1>3, <1>4 DEF InFlight
  <2>2. \A x \in Actors, k \in Harts : ShipsAt(k, x)' => ShipsAt(k, x) /\ x # a
    BY <1>3, <1>4 DEF ShipsAt, Shipping
  <2>3. Apart(xr')
    BY <1>3 DEF Solo
  <2> QED BY <1>3, <1>4, <2>1, <2>2, <2>3 DEF Carries
<1> QED BY <1>11, <1>12, MoveSolo

(* A hart ships whom it has just created; nobody else would. *)
LEMMA ShipperIs ==
  ASSUME SchedInv, Solo, NEW h \in Harts, NEW b \in Actors, ShipsAt(h, b)
  PROVE  /\ Shipping(b) /\ \A k \in Harts : ShipsAt(k, b) => k = h
         /\ ~IsListed(b) /\ ~InRing(b) /\ ~InFlight(b) /\ ~Runs(b) /\ pc[b] # "unborn"
<1>1. Shipping(b) /\ \A k \in Harts : ShipsAt(k, b) => k = h
  BY DEF Solo, Shipping, OneShipper
<1>2. OnePlace(b)
  BY DEF Solo
<1> QED BY <1>1, <1>2 DEF OnePlace

(* The actor a on hart h goes from label to label: nobody new is shipped.  *)
Lands(h, a) ==
  /\ a = current[h] /\ current' = current /\ to' = to
  /\ \A x \in Actors : x # a => pc'[x] = pc[x]
  /\ pc'[a] \notin {"ship", "xpush"}
LEMMA ShipsLess ==
  ASSUME SchedInv, Solo, NEW h \in Harts, NEW a \in Actors, Lands(h, a)
  PROVE  \A x \in Actors, k \in Harts : ShipsAt(k, x)' => ShipsAt(k, x) /\ k # h
<1> SUFFICES ASSUME NEW x \in Actors, NEW k \in Harts, ShipsAt(k, x)'
             PROVE  ShipsAt(k, x) /\ k # h
  OBVIOUS
<1>1. current[k] # None /\ to[current[k]] = x /\ pc'[current[k]] \in {"ship", "xpush"}
  BY DEF ShipsAt, Lands
<1>2. current[k] \in Actors
  BY <1>1 DEF SchedInv, TypeOK
<1>3. current[k] # a
  BY <1>1 DEF Lands
<1>4. pc[current[k]] \in {"ship", "xpush"} /\ k # h
  BY <1>1, <1>2, <1>3 DEF Lands
<1> QED BY <1>1, <1>4 DEF ShipsAt

LEMMA ShipSolo ==
  ASSUME SchedInv, OneListed, Solo, NEW h \in Harts, Ship(h) PROVE Solo'
<1>0. pc \in [Actors -> Pcs] /\ to \in [Actors -> Actors]
  BY Types
<1>1. PICK a \in Actors : a = current[h] /\ pc[a] = "ship"
  BY Running DEF Ship, Pcs
<1>2. PICK b \in Actors : b = to[a]
  BY <1>0
<1>3. UNCHANGED <<rq, inrq, xr, current, to>>
  BY DEF Ship
<1>4. /\ Shipping(b) /\ \A k \in Harts : ShipsAt(k, b) => k = h
      /\ ~IsListed(b) /\ ~InRing(b) /\ ~InFlight(b) /\ ~Runs(b) /\ pc[b] # "unborn"
  <2>1. a # None
    OBVIOUS
  <2>2. ShipsAt(h, b)
    BY <1>1, <1>2, <2>1 DEF ShipsAt
  <2> QED BY <2>2, ShipperIs
<1>5. CASE hart[b] = h
  <2>1. Enq(h, b) /\ pc' = [pc EXCEPT ![a] = "user"]
    BY <1>1, <1>2, <1>5 DEF Ship, Goto
  <2>2. pc'[a] = "user" /\ \A x \in Actors : x # a => pc'[x] = pc[x]
    BY <1>0, <2>1
  <2>3. PICK d \in Actors : Relists(h, b, d)
    BY <1>3, <1>4, <2>1, EnqRelists
  <2>4. \A x \in Actors, k \in Harts : ShipsAt(k, x)' => ShipsAt(k, x) /\ x # b
    <3>1. \A x \in Actors, k \in Harts : ShipsAt(k, x)' => ShipsAt(k, x) /\ k # h
      <4>1. Lands(h, a)
        BY <1>1, <1>3, <2>2 DEF Lands
      <4> QED BY <4>1, ShipsLess
    <3> QED BY <1>4, <3>1
  <2>5. Carries(h, b)
    <3>1. \A x \in Actors : InFlight(x)' => InFlight(x) /\ x # b
      BY <1>3, <1>4 DEF InFlight
    <3>2. Apart(xr')
      BY <1>3 DEF Solo
    <3>3. \A x \in Actors : /\ pc[x] # "unborn" => pc'[x] # "unborn"
                            /\ pc[x] = "leave" => pc'[x] = "leave"
      BY <1>1, <2>2
    <3> QED BY <1>3, <1>4, <2>4, <3>1, <3>2, <3>3 DEF Carries
  <2> QED BY <2>3, <2>5, MoveSolo
<1>6. CASE hart[b] # h
  <2>1. pc' = [pc EXCEPT ![a] = "xpush"] /\ UNCHANGED lists
    BY <1>1, <1>2, <1>6 DEF Ship, Goto
  <2>2. pc'[a] = "xpush" /\ \A x \in Actors : x # a => pc'[x] = pc[x]
    BY <1>0, <2>1
  <2>3. bl' = bl /\ inbl' = inbl /\ ring' = ring
    BY <2>1 DEF lists
  <2>4. NoShip(h, a)
    BY <1>1, <1>3, <2>2, <2>3 DEF NoShip
  <2> QED BY <2>4, NoShipSolo
<1> QED BY <1>5, <1>6

LEMMA YieldSolo ==
  ASSUME SchedInv, OneListed, Solo, NEW h \in Harts, Yield(h) PROVE Solo'
<1>0. pc \in [Actors -> Pcs]
  BY Types
<1>1. PICK a \in Actors : a = current[h] /\ pc[a] = "user"
  BY SpendOps DEF Yield
<1>2. /\ UNCHANGED <<rq, inrq, xr, current, to>> /\ Enq(h, a)
      /\ pc' = [pc EXCEPT ![a] = "leave"]
  BY <1>1 DEF Yield, Goto
<1>3. pc'[a] = "leave" /\ \A x \in Actors : x # a => pc'[x] = pc[x]
  BY <1>0, <1>2
<1>4. ~IsListed(a) /\ ~InRing(a) /\ ~InFlight(a) /\ ~Shipping(a)
  <2>1. Runs(a) /\ OnePlace(a)
    BY <1>1 DEF Runs, Solo
  <2>2. \A k \in Harts : ~On(a, k)
    <3>1. a # None
      OBVIOUS
    <3> QED BY <1>1, <3>1 DEF Solo, Leaving
  <2>3. ~IsListed(a)
    BY <2>2, Flagged DEF IsListed, On, Backlogged, InQueue
  <2> QED BY <2>1, <2>3 DEF OnePlace
<1>5. PICK d \in Actors : Relists(h, a, d)
  BY <1>1, <1>2, <1>4, EnqRelists
<1>6. Carries(h, a)
  <2>1. \A x \in Actors : InFlight(x)' => InFlight(x) /\ x # a
    BY <1>2, <1>4 DEF InFlight
  <2>2. Apart(xr')
    BY <1>2 DEF Solo
  <2>3. \A x \in Actors : /\ pc[x] # "unborn" => pc'[x] # "unborn"
                          /\ pc[x] = "leave" => pc'[x] = "leave"
    BY <1>1, <1>3
  <2>4. \A x \in Actors, k \in Harts : ShipsAt(k, x)' => ShipsAt(k, x) /\ x # a
    <3>1. \A x \in Actors, k \in Harts : ShipsAt(k, x)' => ShipsAt(k, x) /\ k # h
      <4>1. Lands(h, a)
        BY <1>1, <1>2, <1>3 DEF Lands
      <4> QED BY <4>1, ShipsLess
    <3> QED BY <1>4, <3>1 DEF Shipping
  <2> QED BY <1>1, <1>2, <1>3, <1>4, <2>1, <2>2, <2>3, <2>4 DEF Carries
<1> QED BY <1>5, <1>6, MoveSolo

(* A step of the actor a on hart h that hands b on: to hart h, which will  *)
(* ship it, or from there to a wake ring.                                  *)
Hands(h, a, b) ==
  /\ current[h] = a /\ current' = current
  /\ ring' = ring /\ bl' = bl /\ rq' = rq /\ inbl' = inbl /\ inrq' = inrq
  /\ \A x \in Actors : /\ pc[x] # "unborn" => pc'[x] # "unborn"
                       /\ pc[x] = "leave" => pc'[x] = "leave"
                       /\ x # b => (InFlight(x)' => InFlight(x)) /\ (Shipping(x)' => Shipping(x))
  /\ Apart(xr') /\ OneShipper'
  /\ ~IsListed(b) /\ ~InRing(b) /\ ~Runs(b) /\ pc'[b] # "unborn"
  /\ ~(InFlight(b)' /\ Shipping(b)')
LEMMA HandsSolo ==
  ASSUME SchedInv, Solo, NEW h \in Harts, NEW a \in Actors, NEW b \in Actors, Hands(h, a, b)
  PROVE  Solo'
<1>1. current \in [Harts -> Actors \cup {None}]
  BY DEF SchedInv, TypeOK
<1>2. \A x \in Actors : /\ Runs(x)' <=> Runs(x)
                        /\ IsListed(x)' <=> IsListed(x)
                        /\ InRing(x)' <=> InRing(x)
                        /\ \A k \in Harts : On(x, k)' => On(x, k)
  BY DEF Hands, Runs, IsListed, InRing, On
<1>3. ASSUME NEW x \in Actors PROVE OnePlace(x)'
  <2>0. OnePlace(x) /\ (pc[x] # "unborn" => pc'[x] # "unborn")
    BY DEF Solo, Hands
  <2>1. CASE x = b
    <3>1. /\ ~IsListed(x)' /\ ~InRing(x)' /\ ~Runs(x)' /\ pc'[x] # "unborn"
          /\ ~(InFlight(x)' /\ Shipping(x)')
      BY <1>2, <2>1 DEF Hands
    <3> QED BY <3>1 DEF OnePlace
  <2>2. CASE x # b
    <3>1. (InFlight(x)' => InFlight(x)) /\ (Shipping(x)' => Shipping(x))
      BY <2>2 DEF Hands
    <3> QED BY <1>2, <2>0, <3>1, PlaceStays
  <2> QED BY <2>1, <2>2
<1>4. OneHart'
  BY DEF Solo, OneHart, Hands
<1>5. Leaving'
  <2> SUFFICES ASSUME NEW j \in Harts, NEW k \in Harts, current[j] # None, On(current[j], k)'
               PROVE  j = k /\ pc'[current[j]] = "leave"
    BY DEF Leaving, Hands
  <2>1. PICK x \in Actors : x = current[j]
    BY <1>1
  <2>2. On(x, k)'
    BY <2>1 DEF On, Hands
  <2>3. On(current[j], k)
    BY <1>2, <2>1, <2>2
  <2>4. j = k /\ pc[x] = "leave"
    BY <2>1, <2>3 DEF Solo, Leaving
  <2> QED BY <2>1, <2>4 DEF Hands
<1>6. Distinct(ring') /\ Apart(xr') /\ OneShipper'
  BY DEF Solo, Hands
<1> QED BY <1>3, <1>4, <1>5, <1>6 DEF Solo

LEMMA XpushSolo ==
  ASSUME SchedInv, Solo, NEW h \in Harts, Xpush(h) PROVE Solo'
<1>0. pc \in [Actors -> Pcs] /\ to \in [Actors -> Actors] /\ dst \in [Actors -> Harts]
  BY Types
<1>1. PICK a \in Actors : a = current[h] /\ pc[a] = "xpush"
  BY Running DEF Xpush, Pcs
<1>2. PICK b \in Actors : b = to[a]
  BY <1>0
<1>3. PICK k \in Harts : k = dst[a]
  BY <1>0
<1>4. /\ current' = current /\ to' = to /\ ring' = ring
      /\ bl' = bl /\ rq' = rq /\ inbl' = inbl /\ inrq' = inrq
      /\ xr' = [xr EXCEPT ![h][k] = Append(xr[h][k], b)] /\ pc' = [pc EXCEPT ![a] = "user"]
  BY <1>1, <1>2, <1>3 DEF Xpush, Goto, lists
<1>5. pc'[a] = "user" /\ \A x \in Actors : x # a => pc'[x] = pc[x]
  BY <1>0, <1>4
<1>6. /\ Shipping(b) /\ \A j \in Harts : ShipsAt(j, b) => j = h
      /\ ~IsListed(b) /\ ~InRing(b) /\ ~InFlight(b) /\ ~Runs(b) /\ pc[b] # "unborn"
  <2>1. a # None
    OBVIOUS
  <2>2. ShipsAt(h, b)
    BY <1>1, <1>2, <2>1 DEF ShipsAt
  <2> QED BY <2>2, ShipperIs
<1>7. \A x \in Actors, j \in Harts : ShipsAt(j, x)' => ShipsAt(j, x) /\ j # h
  <2>1. Lands(h, a)
    BY <1>1, <1>4, <1>5 DEF Lands
  <2> QED BY <2>1, ShipsLess
<1>8. xr \in [Harts -> [Harts -> Seq(Actors)]] /\ xr[h][k] \in Seq(Actors)
  BY ListTypes
<1>9. PICK q \in Seq(Actors) : q = Append(xr[h][k], b) /\ ToSet(q) = ToSet(xr[h][k]) \cup {b}
  <2>1. PICK s \in Seq(Actors) : s = xr[h][k]
    BY <1>8
  <2>2. Append(s, b) \in Seq(Actors) /\ ToSet(Append(s, b)) = ToSet(s) \cup {b}
    BY ONLY s \in Seq(Actors), b \in Actors, AppendSet
  <2> QED BY <2>1, <2>2
<1>10. \A i, j \in Harts : xr'[i][j] = IF i = h /\ j = k THEN q ELSE xr[i][j]
  <2>1. Puts(h, k, q)
    BY <1>4, <1>8, <1>9 DEF Puts
  <2> QED BY <2>1, RingPut
<1>11. Apart(xr')
  <2>1. PICK g : g = xr'
    OBVIOUS
  <2>2. PICK f : f = xr
    OBVIOUS
  <2>3. Nowhere(f, b)
    BY <1>6, <2>2 DEF Nowhere, InFlight
  <2>4. /\ f[h][k] \in Seq(Actors) /\ Apart(f)
        /\ \A i, j \in Harts : g[i][j] = IF i = h /\ j = k THEN Append(f[h][k], b) ELSE f[i][j]
    BY <1>8, <1>9, <1>10, <2>1, <2>2 DEF Solo
  <2>5. Apart(g)
    BY ONLY <2>3, <2>4, h \in Harts, k \in Harts, b \in Actors, ApartPut
  <2> QED BY <2>1, <2>5
<1>12. \A x \in Actors : x # b => (InFlight(x)' => InFlight(x))
  <2> SUFFICES ASSUME NEW x \in Actors, x # b, NEW j \in Harts, NEW i \in Harts,
                      x \in ToSet(xr'[i][j])
               PROVE  x \in ToSet(xr[i][j])
    BY DEF InFlight
  <2>1. CASE i = h /\ j = k
    <3>1. ToSet(xr'[i][j]) = ToSet(xr[i][j]) \cup {b}
      BY ONLY <1>9, <1>10, <2>1, i \in Harts, j \in Harts
    <3> QED BY <3>1
  <2>2. CASE ~(i = h /\ j = k)
    <3>1. xr'[i][j] = xr[i][j]
      BY ONLY <1>10, <2>2, i \in Harts, j \in Harts
    <3> QED BY <3>1
  <2> QED BY <2>1, <2>2
<1>13. \A x \in Actors : Shipping(x)' => Shipping(x)
  BY <1>7 DEF Shipping
<1>14. ~Shipping(b)'
  BY <1>6, <1>7 DEF Shipping
<1>15. OneShipper'
  <2> SUFFICES ASSUME NEW i \in Harts, NEW j \in Harts, NEW x \in Actors,
                      ShipsAt(i, x)', ShipsAt(j, x)'
               PROVE  i = j
    BY DEF OneShipper
  <2>1. ShipsAt(i, x) /\ ShipsAt(j, x)
    BY <1>7
  <2> QED BY <2>1 DEF Solo, OneShipper
<1>16. Hands(h, a, b)
  <2>1. /\ \A x \in Actors : /\ pc[x] # "unborn" => pc'[x] # "unborn"
                             /\ pc[x] = "leave" => pc'[x] = "leave"
        /\ pc'[b] # "unborn"
    BY <1>1, <1>5, <1>6
  <2> QED BY <1>1, <1>4, <1>6, <1>11, <1>12, <1>13, <1>14, <1>15, <2>1 DEF Hands
<1> QED BY <1>16, HandsSolo

LEMMA SpawnSolo ==
  ASSUME SchedInv, Solo, NEW h \in Harts, Spawn(h) PROVE Solo'
<1>0. pc \in [Actors -> Pcs] /\ to \in [Actors -> Actors]
      /\ current \in [Harts -> Actors \cup {None}]
  BY Types DEF SchedInv, TypeOK
<1>1. PICK a \in Actors : a = current[h] /\ pc[a] = "user"
  BY SpendOps DEF Spawn
<1>2. PICK b \in Actors : /\ pc[b] = "unborn"
                          /\ pc' = [pc EXCEPT ![b] = "user", ![a] = "ship"]
                          /\ to' = [to EXCEPT ![a] = b]
  BY <1>1 DEF Spawn
<1>3. /\ current' = current /\ xr' = xr /\ ring' = ring
      /\ bl' = bl /\ rq' = rq /\ inbl' = inbl /\ inrq' = inrq
  BY DEF Spawn, lists
<1>4. /\ pc'[a] = "ship" /\ pc'[b] = "user" /\ to'[a] = b
      /\ \A x \in Actors : x # a /\ x # b => pc'[x] = pc[x]
      /\ \A x \in Actors : x # a => to'[x] = to[x]
  <2>1. a # b
    BY <1>1, <1>2
  <2> QED BY <1>0, <1>2, <2>1
<1>5. ~IsListed(b) /\ ~InRing(b) /\ ~InFlight(b) /\ ~Shipping(b) /\ ~Runs(b)
  <2>1. OnePlace(b)
    BY DEF Solo
  <2> QED BY <1>2, <2>1 DEF OnePlace
<1>6. \A x \in Actors, k \in Harts : ShipsAt(k, x)' => ShipsAt(k, x) \/ (x = b /\ k = h)
  <2> SUFFICES ASSUME NEW x \in Actors, NEW k \in Harts, ShipsAt(k, x)'
               PROVE  ShipsAt(k, x) \/ (x = b /\ k = h)
    OBVIOUS
  <2>1. current[k] # None /\ to'[current[k]] = x /\ pc'[current[k]] \in {"ship", "xpush"}
    BY <1>3 DEF ShipsAt
  <2>2. PICK c \in Actors : c = current[k]
    BY <1>0, <2>1
  <2>3. CASE c = a
    <3>1. k = h
      BY <1>1, <2>1, <2>2, <2>3 DEF Solo, OneHart
    <3> QED BY <1>4, <2>1, <2>2, <2>3, <3>1
  <2>4. CASE c # a
    <3>1. c # b
      BY <1>4, <2>1, <2>2
    <3>2. to[c] = x /\ pc[c] \in {"ship", "xpush"}
      BY <1>4, <2>1, <2>2, <2>4, <3>1
    <3> QED BY <2>1, <2>2, <3>2 DEF ShipsAt
  <2> QED BY <2>3, <2>4
<1>7. OneShipper'
  <2> SUFFICES ASSUME NEW i \in Harts, NEW j \in Harts, NEW x \in Actors,
                      ShipsAt(i, x)', ShipsAt(j, x)'
               PROVE  i = j
    BY DEF OneShipper
  <2>1. CASE x = b
    BY <1>5, <1>6, <2>1 DEF Shipping
  <2>2. CASE x # b
    <3>1. ShipsAt(i, x) /\ ShipsAt(j, x)
      BY <1>6, <2>2
    <3> QED BY <3>1 DEF Solo, OneShipper
  <2> QED BY <2>1, <2>2
<1>8. Hands(h, a, b)
  <2>1. \A x \in Actors : InFlight(x)' <=> InFlight(x)
    BY <1>3 DEF InFlight
  <2>2. \A x \in Actors : x # b => (Shipping(x)' => Shipping(x))
    BY <1>6 DEF Shipping
  <2>3. \A x \in Actors : /\ pc[x] # "unborn" => pc'[x] # "unborn"
                          /\ pc[x] = "leave" => pc'[x] = "leave"
    BY <1>1, <1>2, <1>4
  <2>4. Apart(xr')
    BY <1>3 DEF Solo
  <2> QED BY <1>1, <1>3, <1>4, <1>5, <1>7, <2>1, <2>2, <2>3, <2>4 DEF Hands
<1> QED BY <1>8, HandsSolo

(* Nobody waits where nobody calls receive and nobody is parked. *)
FreePcs == {"unborn", "user", "wake", "ship", "xpush", "leave"}
LEMMA FreeStep ==
  ASSUME SchedInv, NobodyWaits,
         NEW a \in Actors, NEW l \in FreePcs, NEW b \in Actors,
         pc' = [pc EXCEPT ![a] = l] \/ pc' = pc \/ pc' = [pc EXCEPT ![b] = "user", ![a] = l],
         var' = var \/ var' = [var EXCEPT ![b] = "DEAD"]
  PROVE  NobodyWaits'
<1>1. pc \in [Actors -> Pcs] /\ var \in [Actors -> Statuses]
  BY Types
<1>2. \A x \in Actors : pc'[x] = pc[x] \/ pc'[x] = l \/ pc'[x] = "user"
  <2>1. CASE pc' = [pc EXCEPT ![a] = l]
    BY <1>1, <2>1
  <2>2. CASE pc' = pc
    BY <2>2
  <2>3. CASE pc' = [pc EXCEPT ![b] = "user", ![a] = l]
    BY <1>1, <2>3
  <2> QED BY <2>1, <2>2, <2>3
<1>3. \A x \in Actors : var'[x] = var[x] \/ var'[x] = "DEAD"
  <2>1. CASE var' = var
    BY <2>1
  <2>2. CASE var' = [var EXCEPT ![b] = "DEAD"]
    BY <1>1, <2>2
  <2> QED BY <2>1, <2>2
<1> QED BY <1>2, <1>3 DEF NobodyWaits, FreePcs

LEMMA NoReceive ==
  ASSUME SchedInv, NobodyWaits, "receive" \notin Does, NEW h \in Harts
  PROVE  ~Receive(h) /\ ~BlockCas(h) /\ ~Rescan(h)
<1>1. ASSUME At(h, "block") \/ At(h, "rescan") PROVE FALSE
  <2>1. current[h] \in Actors /\ pc[current[h]] \in {"block", "rescan"}
    BY <1>1, Running DEF Pcs
  <2> QED BY <2>1 DEF NobodyWaits
<1> QED BY <1>1 DEF Receive, BlockCas, Rescan

LEMMA NobodyWaitsStep ==
  ASSUME SchedInv, NobodyWaits, "receive" \notin Does, [Next]_vars PROVE NobodyWaits'
<1>0. pc \in [Actors -> Pcs] /\ to \in [Actors -> Actors]
      /\ current \in [Harts -> Actors \cup {None}]
  BY Types DEF SchedInv, TypeOK
<1>1. CASE UNCHANGED vars
  BY <1>1 DEF vars, NobodyWaits
<1>2. ASSUME NEW h \in Harts, LoopStep(h) PROVE NobodyWaits'
  <2>1. CASE Deq(h)
    <3>1. rq[h] \in Seq(Actors) /\ rq[h] # <<>>
      BY <2>1, ListTypes DEF Deq
    <3>2. PICK a \in Actors : a = Head(rq[h])
      BY <3>1
    <3>3. pc[a] # "parked" /\ pc[a] \in FreePcs
      BY DEF NobodyWaits, FreePcs
    <3>4. var' = var /\ (pc' = pc \/ pc' = [pc EXCEPT ![a] = pc[a]])
      BY <2>1, <3>2, <3>3 DEF Deq
    <3> QED BY <3>3, <3>4, FreeStep
  <2>2. CASE SwitchOut(h)
    <3>1. PICK a \in Actors : a = current[h] /\ pc[a] \in {"leave", "parking"}
      BY <1>0, <2>2 DEF SwitchOut
    <3>2. pc[a] # "parking"
      BY DEF NobodyWaits
    <3>3. var' = var /\ pc' = [pc EXCEPT ![a] = "user"]
      BY <2>2, <3>1, <3>2 DEF SwitchOut
    <3> QED BY <3>3, FreeStep DEF FreePcs
  <2>3. CASE \/ Drain(h) \/ Drained(h) \/ Unlink(h) \/ Admit(h) \/ Refilled(h) \/ DeqEmpty(h)
             \/ Steal(h) \/ NoSteal(h)
    <3>1. pc' = pc /\ var' = var
      BY <2>3 DEF Drain, Drained, Unlink, Admit, Refilled, DeqEmpty, Steal, NoSteal, actors
    <3> QED BY <3>1 DEF NobodyWaits
  <2> QED BY <1>2, <2>1, <2>2, <2>3 DEF LoopStep
<1>3. ASSUME NEW h \in Harts, ActorStep(h) PROVE NobodyWaits'
  <2>1. ~Receive(h) /\ ~BlockCas(h) /\ ~Rescan(h)
    BY NoReceive
  <2>2. PICK a \in Actors : a = current[h]
    BY <1>3, Running, SpendOps, <2>1
       DEF ActorStep, Send, Wake, Ship, Xpush, Spawn, Yield, Kill, Exit, Pcs
  <2>3. CASE Send(h) \/ Yield(h)
    <3>1. var' = var /\ \E l \in FreePcs : pc' = [pc EXCEPT ![a] = l]
      BY <2>2, <2>3 DEF Send, Yield, Goto, FreePcs
    <3> QED BY <3>1, FreeStep
  <2>4. CASE Wake(h)
    <3>1. PICK b \in Actors : b = to[a]
      BY <1>0
    <3>2. var[b] # "BLOCKED"
      BY DEF NobodyWaits
    <3>3. var' = var /\ pc' = [pc EXCEPT ![a] = "user"]
      BY <2>2, <2>4, <3>1, <3>2 DEF Wake, Goto
    <3> QED BY <3>3, FreeStep DEF FreePcs
  <2>5. CASE Ship(h) \/ Xpush(h)
    <3>1. var' = var /\ \E l \in FreePcs : pc' = [pc EXCEPT ![a] = l]
      BY <2>2, <2>5 DEF Ship, Xpush, Goto, FreePcs
    <3> QED BY <3>1, FreeStep
  <2>6. CASE Spawn(h)
    <3>1. var' = var /\ \E b \in Actors : pc' = [pc EXCEPT ![b] = "user", ![a] = "ship"]
      BY <2>2, <2>6 DEF Spawn
    <3> QED BY <3>1, FreeStep DEF FreePcs
  <2>7. CASE Kill(h) \/ Exit(h)
    <3>1. \E b \in Actors : /\ var' = [var EXCEPT ![b] = "DEAD"]
                            /\ pc' = pc \/ pc' = [pc EXCEPT ![a] = "leave"]
      BY <2>2, <2>7 DEF Kill, Exit, Goto
    <3> QED BY <3>1, FreeStep DEF FreePcs
  <2> QED BY <1>3, <2>1, <2>3, <2>4, <2>5, <2>6, <2>7 DEF ActorStep
<1> QED BY <1>1, <1>2, <1>3 DEF Next

LEMMA SoloStep ==
  ASSUME SchedInv, OneListed, Resting, NobodyWaits, Solo, "receive" \notin Does, [Next]_vars,
         SchedInv', OneListed'
  PROVE  Solo'
<1>1. CASE UNCHANGED vars
  BY <1>1, TurnSolo DEF vars
<1>2. ASSUME NEW h \in Harts, LoopStep(h) PROVE Solo'
  <2>1. CASE Drained(h) \/ Refilled(h) \/ DeqEmpty(h) \/ NoSteal(h)
    BY <2>1, TurnSolo DEF Drained, Refilled, DeqEmpty, NoSteal, lists, actors
  <2> QED BY <1>2, <2>1, DrainSolo, UnlinkSolo, DeqSolo, StealSolo, SwitchOutSolo DEF LoopStep
<1>3. ASSUME NEW h \in Harts, ActorStep(h) PROVE Solo'
  <2>2. ~Receive(h) /\ ~BlockCas(h) /\ ~Rescan(h)
    BY NoReceive
  <2> QED BY <1>3, <2>2, ActsAlone, ShipSolo, XpushSolo, SpawnSolo, YieldSolo DEF ActorStep
<1> QED BY <1>1, <1>2, <1>3 DEF Next

(* Actors may be donated and stolen, sent to, killed and spawned at will:  *)
(* as long as nobody waits in receive, no actor runs on two harts, none is *)
(* listed twice, no runnable one is forgotten and none is reaped that      *)
(* could still run.  It is the wait that breaks this: run sc_migrates.     *)
THEOREM WaitFreeListsKeep ==
  "receive" \notin Does /\ Parked = {} => (Spec => [](OneHart /\ ListsKeep))
<1> SUFFICES ASSUME "receive" \notin Does, Parked = {} PROVE Spec => [](OneHart /\ ListsKeep)
  OBVIOUS
<1> DEFINE IInv == SchedInv /\ OneListed /\ Sound /\ NobodyWaits /\ Solo
<1>1. Init => IInv
  BY SchedInit, OneListedInit, SoundInit, SoloInit
<1>2. IInv /\ [Next]_vars => IInv'
  <2> SUFFICES ASSUME IInv, [Next]_vars PROVE IInv'
    OBVIOUS
  <2>1. SchedInv' /\ OneListed'
    BY SchedStep, OneListedStep
  <2>2. Sound'
    BY SoloLonely, SoundStep
  <2>3. NobodyWaits' /\ Solo'
    BY <2>1, NobodyWaitsStep, SoloStep DEF Sound
  <2> QED BY <2>1, <2>2, <2>3
<1>3. IInv => OneHart /\ ListsKeep
  BY SoundKeeps DEF Solo
<1> QED BY <1>1, <1>2, <1>3, PTL DEF Spec
=============================================================================

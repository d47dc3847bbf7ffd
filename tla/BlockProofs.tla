----------------------------- MODULE BlockProofs ----------------------------
(***************************************************************************)
(* Theorems about blocks of memory.  The acbs and the channel blocks of    *)
(* ChanBlocks, for any number of harts, tasks, acbs and blocks and any     *)
(* size of a refill and a carve: types; nothing is lost or in two places;  *)
(* and, as long as no send parks in its copy, a send never writes into     *)
(* another actor's block.  Then the arena of Buddy, of any size, for any   *)
(* number of callers: its pieces tile it, whatever is split, merged,       *)
(* grown, moved or reserved, and no merge is missed.                       *)
(***************************************************************************)
EXTENDS ChanBlocks, Buddy, FiniteSetTheorems, WellFoundedInduction, TLAPS

USE ChanAssumption

Whole == Tasks \cup Acbs \cup {Nobody}
Places == {"off", "idle", "refill", "got", "chan", "look", "copy"}
Registers == [pc : Places, acb : Acbs \cup {NoAcb}, blk : ChBlocks \cup {NoBlk},
              grp : SUBSET Acbs]
Stamped == [b : ChBlocks, passes : [LHarts -> 0 .. 2]]

(* The type of every variable. *)
TaskTypes == run \in [LHarts -> Whole] /\ tk \in [Tasks -> Registers]
AcbTypes ==
  /\ status \in [Acbs -> {"none", "new", "READY", "DEAD"}]
  /\ homeOf \in [Acbs -> LHarts] /\ stk \in [Acbs -> BOOLEAN]
  /\ arena \subseteq Acbs /\ unused \subseteq Acbs
BlockTypes ==
  /\ chOf \in [Acbs -> ChBlocks \cup {NoBlk}]
  /\ limbo \in Seq(Stamped) /\ extras \subseteq ChBlocks /\ raw \subseteq ChBlocks
CTypes == TaskTypes /\ AcbTypes /\ BlockTypes

(* An acb nobody was given is in the arena, in memory, or in the one group *)
(* of a spawn that has not installed it yet.                               *)
Grouped == \A t \in Tasks : tk[t].grp # {} => tk[t].pc = "got"
GroupsApart ==
  \A t \in Tasks : \A a \in tk[t].grp :
    /\ status[a] = "none" /\ a \notin arena /\ a \notin unused
    /\ \A u \in Tasks : a \in tk[u].grp => u = t
ArenaApart ==
  /\ \A a \in arena : status[a] = "none" /\ a \notin unused
  /\ \A a \in unused : status[a] = "none"
NoAcbLost ==
  \A a \in Acbs : status[a] = "none" =>
    a \in arena \/ a \in unused \/ \E t \in Tasks : a \in tk[t].grp
AcbsOnce == Grouped /\ GroupsApart /\ ArenaApart /\ NoAcbLost

(* The acb a spawn holds is carved, not yet runnable, and its own. *)
Carved ==
  \A t \in Tasks : tk[t].pc = "chan" =>
    /\ tk[t].acb \in Acbs /\ status[tk[t].acb] = "new"
    /\ \A u \in Tasks : tk[u].pc = "chan" /\ tk[u].acb = tk[t].acb => u = t
(* Only who was shipped has a block, and keeps it until its reap. *)
ShippedOwn ==
  \A a \in Acbs :
    /\ chOf[a] # NoBlk => status[a] \in {"READY", "DEAD"}
    /\ status[a] \in {"READY", "DEAD"} /\ stk[a] => chOf[a] # NoBlk

(* A block is in one place: an owner's, a place in limbo, the free list,   *)
(* or memory.                                                              *)
InLimbo(b) == \E k \in DOMAIN limbo : limbo[k].b = b
OneOwner == \A a, c \in Acbs : chOf[a] = chOf[c] /\ chOf[a] # NoBlk => a = c
OneStamp == \A j, k \in DOMAIN limbo : limbo[j].b = limbo[k].b => j = k
OwnedApart == \A a \in Acbs : /\ ~InLimbo(chOf[a])
                              /\ chOf[a] \notin extras /\ chOf[a] \notin raw
FreeApart == \A b \in ChBlocks : /\ InLimbo(b) => b \notin extras /\ b \notin raw
                                 /\ b \in extras => b \notin raw
NoneLost == \A b \in ChBlocks :
  (\E a \in Acbs : chOf[a] = b) \/ InLimbo(b) \/ b \in extras \/ b \in raw
BlocksOnce == OneOwner /\ OneStamp /\ OwnedApart /\ FreeApart /\ NoneLost

(* A send has a target. *)
Aimed == \A t \in Tasks : tk[t].pc \in {"look", "copy"} => tk[t].acb \in Acbs
ChanInv == CTypes /\ AcbsOnce /\ Carved /\ ShippedOwn /\ BlocksOnce /\ Aimed

(* A send that copies has not turned its hart's loop since it looked: the  *)
(* block is its target's, or lies in limbo without a pass of that hart.    *)
Fresh(b, h) == \E k \in DOMAIN limbo : limbo[k].b = b /\ limbo[k].passes[h] = 0
Held ==
  \A t \in Tasks : tk[t].pc = "copy" =>
    /\ run[TaskHart[t]] = t
    /\ \/ tk[t].blk = NoBlk \/ chOf[tk[t].acb] = tk[t].blk
       \/ Fresh(tk[t].blk, TaskHart[t])

----------------------------------------------------------------------------
(* Choices.                                                                *)

(* The first of something is in it. *)
LEMMA FirstIn == ASSUME NEW S, S # {} PROVE FirstOf(S) \in S
BY DEF FirstOf

(* There is a part of any size up to the whole, and AnyOf is one. *)
LEMMA AnyIn ==
  ASSUME NEW S, IsFiniteSet(S), NEW n \in Nat, n <= Cardinality(S)
  PROVE  AnyOf(S, n) \subseteq S /\ Cardinality(AnyOf(S, n)) = n
<1>1. Cardinality(S) \in Nat /\ ExistsBijection(1 .. Cardinality(S), S)
  BY FS_CardinalityType
<1>2. PICK f \in Bijection(1 .. Cardinality(S), S) : TRUE
  BY <1>1 DEF ExistsBijection
<1>3. PICK g : g = {f[i] : i \in 1 .. n}
  OBVIOUS
<1>4. f \in [1 .. Cardinality(S) -> S]
      /\ \A i, j \in 1 .. Cardinality(S) : f[i] = f[j] => i = j
  BY <1>2 DEF Bijection, Injection, Surjection, IsInjective
<1>5. g \subseteq S
  BY <1>1, <1>3, <1>4
<1>6. PICK e : e = [i \in 1 .. n |-> f[i]]
  OBVIOUS
<1>7. e \in Bijection(1 .. n, g)
  <2>1. e \in [1 .. n -> g]
    BY <1>3, <1>6
  <2>2. \A i, j \in 1 .. n : e[i] = e[j] => i = j
    BY <1>1, <1>4, <1>6
  <2>3. \A x \in g : \E i \in 1 .. n : e[i] = x
    BY <1>3, <1>6
  <2> QED BY <2>1, <2>2, <2>3 DEF Bijection, Injection, Surjection, IsInjective
<1>8. IsFiniteSet(1 .. n) /\ Cardinality(1 .. n) = n
  BY FS_Interval
<1>9. Cardinality(g) = n
  BY <1>7, <1>8, FS_Bijection DEF ExistsBijection
<1> QED BY <1>5, <1>9 DEF AnyOf

(* What a refill or a carve takes is there, and a carve takes something. *)
LEMMA Carving ==
  ASSUME NEW S, IsFiniteSet(S), NEW n \in Nat \ {0}, Cardinality(S) >= n
  PROVE  /\ AnyOf(S, n) \subseteq S
         /\ AnyOf(S, n) # {} /\ FirstOf(AnyOf(S, n)) \in AnyOf(S, n)
<1>1. Cardinality(S) \in Nat
  BY FS_CardinalityType
<1>2. AnyOf(S, n) \subseteq S /\ Cardinality(AnyOf(S, n)) = n
  BY <1>1, AnyIn
<1>3. AnyOf(S, n) # {}
  BY <1>2, FS_EmptySet
<1> QED BY <1>2, <1>3, FirstIn

(* A non-empty set of naturals has a least element. *)
LEMMA LeastIn ==
  ASSUME NEW S \in SUBSET Nat, S # {}
  PROVE  \E k \in S : \A j \in S : k <= j
<1>1. PICK k \in S : \A j \in S : ~(<<j, k>> \in OpToRel(<, Nat))
  BY WFMin, NatLessThanWellFounded
<1>2. ASSUME NEW j \in S PROVE ~(j < k)
  <2>1. ~(<<j, k>> \in OpToRel(<, Nat))
    BY <1>1
  <2>2. ~(<<j, k>> \in {ss \in Nat \X Nat : ss[1] < ss[2]})
    BY ONLY <2>1, Zenon DEF OpToRel
  <2> QED BY <2>2
<1> QED BY <1>2

----------------------------------------------------------------------------
(* What the operations do to limbo.                                        *)

(* A pass of a hart moves no block and counts for nobody else. *)
LEMMA OlderKeeps ==
  ASSUME BlockTypes, NEW h \in LHarts
  PROVE  /\ Older(h) \in Seq(Stamped) /\ DOMAIN Older(h) = DOMAIN limbo
         /\ \A k \in DOMAIN limbo :
              /\ Older(h)[k].b = limbo[k].b
              /\ \A g \in LHarts \ {h} : Older(h)[k].passes[g] = limbo[k].passes[g]
<1>1. limbo \in Seq(Stamped)
  BY DEF BlockTypes
<1>2. \A k \in DOMAIN limbo : limbo[k] \in Stamped
  BY <1>1
<1>3. ASSUME NEW k \in DOMAIN limbo
      PROVE  /\ Older(h)[k] \in Stamped /\ Older(h)[k].b = limbo[k].b
             /\ \A g \in LHarts \ {h} : Older(h)[k].passes[g] = limbo[k].passes[g]
  <2>1. limbo[k] \in Stamped
    BY <1>2
  <2>2. limbo[k].passes \in [LHarts -> 0 .. 2] /\ limbo[k].b \in ChBlocks
    BY <2>1 DEF Stamped
  <2>3. PICK n : n = IF limbo[k].passes[h] = 2 THEN 2 ELSE limbo[k].passes[h] + 1
    OBVIOUS
  <2>4. n \in 0 .. 2
    BY <2>2, <2>3
  <2>5. Older(h)[k] = [limbo[k] EXCEPT !.passes = [@ EXCEPT ![h] = n]]
    BY <2>1, <2>3 DEF Older, Stamped
  <2> QED BY <2>1, <2>2, <2>4, <2>5 DEF Stamped
<1>4. DOMAIN Older(h) = DOMAIN limbo
  BY DEF Older
<1>5. Older(h) \in Seq(Stamped)
  <2>1. DOMAIN limbo = 1 .. Len(limbo) /\ Len(limbo) \in Nat
    BY <1>1
  <2>2. Older(h) \in [1 .. Len(limbo) -> Stamped]
    BY <1>3, <2>1 DEF Older
  <2> QED BY <2>1, <2>2
<1> QED BY <1>3, <1>4, <1>5

(* What is where when the i-th of a sequence is gone. *)
LEMMA RemoveAtAt ==
  ASSUME NEW S, NEW s \in Seq(S), NEW i \in DOMAIN s
  PROVE  /\ RemoveAt(s, i) \in Seq(S)
         /\ i \in Int /\ DOMAIN s \subseteq Int
         /\ \A j \in DOMAIN RemoveAt(s, i) :
              /\ j < i => j \in DOMAIN s /\ RemoveAt(s, i)[j] = s[j]
              /\ ~(j < i) => j + 1 \in DOMAIN s /\ RemoveAt(s, i)[j] = s[j + 1]
         /\ \A j \in DOMAIN s : j # i =>
              /\ j < i => j \in DOMAIN RemoveAt(s, i) /\ RemoveAt(s, i)[j] = s[j]
              /\ ~(j < i) => j - 1 \in DOMAIN RemoveAt(s, i) /\ RemoveAt(s, i)[j - 1] = s[j]
<1>1. i \in 1 .. Len(s) /\ Len(s) \in Nat /\ DOMAIN s = 1 .. Len(s)
  OBVIOUS
<1>2. PICK u : u = SubSeq(s, 1, i - 1)
  OBVIOUS
<1>3. PICK v : v = SubSeq(s, i + 1, Len(s))
  OBVIOUS
<1>4. u \in Seq(S) /\ Len(u) = i - 1 /\ \A j \in 1 .. i - 1 : u[j] = s[j]
  BY <1>1, <1>2
<1>5. v \in Seq(S) /\ Len(v) = Len(s) - i /\ \A j \in 1 .. Len(s) - i : v[j] = s[i + j]
  BY <1>1, <1>3
<1>6. RemoveAt(s, i) = u \o v
  BY <1>2, <1>3 DEF RemoveAt
<1>7. /\ u \o v \in Seq(S) /\ DOMAIN (u \o v) = 1 .. Len(s) - 1
      /\ \A j \in 1 .. Len(s) - 1 : (u \o v)[j] = IF j < i THEN u[j] ELSE v[j - (i - 1)]
  <2>0. u \in Seq(S) /\ v \in Seq(S)
    BY <1>4, <1>5
  <2>1. u \o v \in Seq(S) /\ Len(u \o v) = Len(u) + Len(v)
    BY ONLY <2>0
  <2>2. \A j \in 1 .. Len(u) + Len(v) :
          (u \o v)[j] = IF j <= Len(u) THEN u[j] ELSE v[j - Len(u)]
    BY <1>4, <1>5, SMTT(30)
  <2>3. Len(u) + Len(v) = Len(s) - 1 /\ Len(u) = i - 1
    BY <1>1, <1>4, <1>5
  <2>4. DOMAIN (u \o v) = 1 .. Len(s) - 1
    BY <2>1, <2>3
  <2>5. \A j \in 1 .. Len(s) - 1 : j <= i - 1 <=> j < i
    BY <1>1
  <2> QED BY <2>1, <2>2, <2>3, <2>4, <2>5
<1>8. \A j \in 1 .. Len(s) - 1 : (u \o v)[j] = IF j < i THEN s[j] ELSE s[j + 1]
  <2> SUFFICES ASSUME NEW j \in 1 .. Len(s) - 1
               PROVE  (u \o v)[j] = IF j < i THEN s[j] ELSE s[j + 1]
    OBVIOUS
  <2>1. CASE j < i
    <3>1. j \in 1 .. i - 1
      BY <1>1, <2>1
    <3> QED BY <1>4, <1>7, <2>1, <3>1
  <2>2. CASE ~(j < i)
    <3>1. j - (i - 1) \in 1 .. Len(s) - i /\ i + (j - (i - 1)) = j + 1
      BY <1>1, <2>2
    <3>2. v[j - (i - 1)] = s[j + 1]
      BY <1>5, <3>1
    <3> QED BY <1>7, <2>2, <3>2
  <2> QED BY <2>1, <2>2
<1> HIDE DEF RemoveAt
<1>9. PICK r : r = RemoveAt(s, i)
  OBVIOUS
<1>10. /\ r \in Seq(S) /\ DOMAIN r = 1 .. Len(s) - 1
       /\ \A j \in 1 .. Len(s) - 1 : r[j] = IF j < i THEN s[j] ELSE s[j + 1]
  BY <1>6, <1>7, <1>8, <1>9
<1>11. \A j \in DOMAIN r : /\ j < i => j \in DOMAIN s /\ r[j] = s[j]
                           /\ ~(j < i) => j + 1 \in DOMAIN s /\ r[j] = s[j + 1]
  BY <1>1, <1>10
<1>12. \A j \in DOMAIN s : j # i => (/\ j < i => j \in DOMAIN r /\ r[j] = s[j]
                                    /\ ~(j < i) => j - 1 \in DOMAIN r /\ r[j - 1] = s[j])
  <2> SUFFICES ASSUME NEW j \in DOMAIN s, j # i
               PROVE  /\ j < i => j \in DOMAIN r /\ r[j] = s[j]
                      /\ ~(j < i) => j - 1 \in DOMAIN r /\ r[j - 1] = s[j]
    OBVIOUS
  <2>1. CASE j < i
    BY <1>1, <1>10, <2>1
  <2>2. CASE ~(j < i)
    <3>1. j - 1 \in 1 .. Len(s) - 1 /\ ~(j - 1 < i) /\ (j - 1) + 1 = j
      BY <1>1, <2>2
    <3>2. r[j - 1] = s[(j - 1) + 1]
      BY <1>10, <3>1
    <3> QED BY <1>10, <2>2, <3>1, <3>2
  <2> QED BY <2>1, <2>2
<1> QED BY <1>1, <1>9, <1>10, <1>11, <1>12

----------------------------------------------------------------------------
(* Types.                                                                  *)

(* What a task, or an actor, may do to the loop that runs it. *)
LEMMA RunsTypes ==
  ASSUME CTypes, NEW h \in LHarts, NEW who \in Whole, Runs(h, who)
  PROVE  run' \in [LHarts -> Whole] /\ limbo' \in Seq(Stamped)
BY OlderKeeps DEF CTypes, TaskTypes, Runs

(* A step of a task keeps its registers in range. *)
LEMMA StepTypes ==
  ASSUME CTypes, NEW t \in Tasks, NEW r \in Registers, Step(t, r)
  PROVE  tk' \in [Tasks -> Registers]
BY DEF CTypes, TaskTypes, Step

(* The last step of a spawn. *)
LEMMA ShipsTypes ==
  ASSUME CTypes, NEW t \in Tasks, NEW b \in ChBlocks, Ships(t, b)
  PROVE  /\ tk' \in [Tasks -> Registers]
         /\ status' \in [Acbs -> {"none", "new", "READY", "DEAD"}]
         /\ chOf' \in [Acbs -> ChBlocks \cup {NoBlk}]
<1>1. [Off EXCEPT !.pc = "idle"] \in Registers
  BY DEF Off, Registers, Places
<1>2. tk' \in [Tasks -> Registers]
  BY <1>1, StepTypes DEF Ships
<1> QED BY <1>2 DEF Ships, CTypes, AcbTypes, BlockTypes

(* The first matured block of limbo. *)
LEMMA RipeNext ==
  ASSUME BlockTypes, Ripe # {}
  PROVE  NextRipe \in Ripe /\ NextRipe \in DOMAIN limbo /\ limbo[NextRipe] \in Stamped
<1>1. Ripe \subseteq DOMAIN limbo /\ DOMAIN limbo \subseteq Nat
  BY DEF BlockTypes, Ripe
<1>2. \E k \in Ripe : \A j \in Ripe : k <= j
  <2>1. PICK k \in Ripe : TRUE
    OBVIOUS
  <2> QED BY <1>1, LeastIn
<1>3. NextRipe \in Ripe
  BY <1>2 DEF NextRipe
<1> QED BY <1>1, <1>3 DEF BlockTypes

(* A task keeps the types. *)
LEMMA TypesOfTask ==
  ASSUME ChanInv, NEW t \in Tasks, TaskStep(t)
  PROVE  CTypes'
<1> USE DEF ChanInv
<1>t. tk[t] \in Registers /\ TaskHart[t] \in LHarts
  BY DEF CTypes, TaskTypes
<1>1. CASE Resumed(t)
  <2>1. \A p \in {"idle"} : [tk[t] EXCEPT !.pc = p] \in Registers
    BY <1>t DEF Registers, Places
  <2>2. tk' \in [Tasks -> Registers]
    BY <1>1, <1>t, <2>1, StepTypes DEF Resumed
  <2>3. run' \in [LHarts -> Whole] /\ limbo' \in Seq(Stamped)
    BY <1>1, <1>t, RunsTypes DEF Resumed, Whole
  <2> QED BY <1>1, <2>2, <2>3 DEF Resumed, CTypes, TaskTypes, AcbTypes, BlockTypes
<1>2. CASE Parks(t)
  BY <1>2, <1>t DEF Parks, Yield, Whole, CTypes, TaskTypes, AcbTypes, BlockTypes
<1>3. CASE SpawnCarves(t)
  <2>1. CASE arena # {}
    <3>1. PICK a : a = FirstOf(arena)
      OBVIOUS
    <3>2. a \in Acbs
      BY <2>1, <3>1, FirstIn DEF CTypes, AcbTypes
    <3>3. [Off EXCEPT !.pc = "chan", !.acb = a] \in Registers
      BY <3>2 DEF Off, Registers, Places
    <3>4. tk' \in [Tasks -> Registers]
      BY <1>3, <2>1, <3>1, <3>3, StepTypes DEF SpawnCarves
    <3>5. /\ arena' = arena \ {a} /\ status' = [status EXCEPT ![a] = "new"]
          /\ stk' = [stk EXCEPT ![a] = TRUE] /\ homeOf' = [homeOf EXCEPT ![a] = TaskHart[t]]
          /\ UNCHANGED <<run, chOf, unused, limbo, extras, raw>>
      BY <1>3, <2>1, <3>1 DEF SpawnCarves
    <3>6. status' \in [Acbs -> {"none", "new", "READY", "DEAD"}]
          /\ homeOf' \in [Acbs -> LHarts] /\ stk' \in [Acbs -> BOOLEAN]
      BY <1>t, <3>2, <3>5 DEF CTypes, AcbTypes
    <3> QED BY <3>4, <3>5, <3>6 DEF CTypes, TaskTypes, AcbTypes, BlockTypes
  <2>2. CASE ~(arena # {})
    <3>1. [Off EXCEPT !.pc = "refill"] \in Registers
      BY DEF Off, Registers, Places
    <3>2. tk' \in [Tasks -> Registers]
      BY <1>3, <2>2, <3>1, StepTypes DEF SpawnCarves
    <3> QED BY <1>3, <2>2, <3>2 DEF SpawnCarves, CTypes, TaskTypes, AcbTypes, BlockTypes
  <2> QED BY <2>1, <2>2
<1>4. CASE Refills(t)
  <2>1. PICK g : g = AnyOf(unused, PerRefill)
    OBVIOUS
  <2>2. IsFiniteSet(unused)
    BY FS_Subset DEF CTypes, AcbTypes
  <2>3. g \subseteq unused
    BY <1>4, <2>1, <2>2, Carving DEF Refills
  <2>4. [Off EXCEPT !.pc = "got", !.grp = g] \in Registers
    BY <2>3 DEF CTypes, AcbTypes, Off, Registers, Places
  <2>5. tk' \in [Tasks -> Registers]
    BY <1>4, <2>1, <2>4, StepTypes DEF Refills
  <2> QED BY <1>4, <2>5 DEF Refills, CTypes, TaskTypes, AcbTypes, BlockTypes
<1>5. CASE Installs(t)
  <2>1. [tk[t] EXCEPT !.grp = {}] \in Registers /\ tk[t].grp \subseteq Acbs
    BY <1>t DEF Registers
  <2>2. tk' \in [Tasks -> Registers]
    BY <1>5, <2>1, StepTypes DEF Installs
  <2> QED BY <1>5, <2>1, <2>2 DEF Installs, CTypes, TaskTypes, AcbTypes, BlockTypes
<1>6. CASE TakesBlock(t)
  <2>1. CASE Ripe # {}
    <3>1. limbo[NextRipe].b \in ChBlocks
      BY <2>1, RipeNext DEF CTypes, Stamped
    <3>2. limbo' \in Seq(Stamped)
      BY <1>6, <2>1, RipeNext, RemoveAtAt DEF TakesBlock, CTypes, BlockTypes
    <3>3. Ships(t, limbo[NextRipe].b) /\ UNCHANGED <<extras, raw, run, homeOf, stk, arena, unused>>
      BY <1>6, <2>1 DEF TakesBlock
    <3> QED BY <3>1, <3>2, <3>3, ShipsTypes DEF CTypes, TaskTypes, AcbTypes, BlockTypes
  <2>2. CASE Ripe = {} /\ extras # {}
    <3>1. FirstOf(extras) \in ChBlocks
      BY <2>2, FirstIn DEF CTypes, BlockTypes
    <3>2. /\ Ships(t, FirstOf(extras)) /\ extras' = extras \ {FirstOf(extras)}
          /\ UNCHANGED <<limbo, raw, run, homeOf, stk, arena, unused>>
      BY <1>6, <2>2 DEF TakesBlock
    <3> QED BY <3>1, <3>2, ShipsTypes DEF CTypes, TaskTypes, AcbTypes, BlockTypes
  <2>3. CASE Ripe = {} /\ extras = {}
    <3>1. PICK g : g = AnyOf(raw, PerCarve)
      OBVIOUS
    <3>2. /\ raw' = raw \ g /\ extras' = g \ {FirstOf(g)} /\ Ships(t, FirstOf(g))
          /\ Cardinality(raw) >= PerCarve
          /\ UNCHANGED <<limbo, run, homeOf, stk, arena, unused>>
      BY <1>6, <2>3, <3>1 DEF TakesBlock
    <3>3. raw \subseteq ChBlocks /\ IsFiniteSet(raw)
      BY FS_Subset DEF CTypes, BlockTypes
    <3>4. g \subseteq ChBlocks /\ FirstOf(g) \in ChBlocks
      BY <3>1, <3>2, <3>3, Carving
    <3> QED BY <3>2, <3>4, ShipsTypes DEF CTypes, TaskTypes, AcbTypes, BlockTypes
  <2> QED BY <2>1, <2>2, <2>3
<1>7. CASE SendClaims(t)
  <2>1. tk[t].acb \in Acbs
    BY <1>7 DEF SendClaims, On, Aimed
  <2>2. [tk[t] EXCEPT !.pc = "copy", !.blk = chOf[tk[t].acb]] \in Registers
    BY <1>t, <2>1 DEF CTypes, BlockTypes, Registers, Places
  <2>3. tk' \in [Tasks -> Registers]
    BY <1>7, <2>2, StepTypes DEF SendClaims
  <2> QED BY <1>7, <2>3 DEF SendClaims, CTypes, TaskTypes, AcbTypes, BlockTypes
<1>8. CASE SendPushes(t)
  <2>1. [Off EXCEPT !.pc = "idle"] \in Registers
    BY DEF Off, Registers, Places
  <2>2. tk' \in [Tasks -> Registers]
    BY <1>8, <2>1, StepTypes DEF SendPushes
  <2> QED BY <1>8, <2>2 DEF SendPushes, CTypes, TaskTypes, AcbTypes, BlockTypes
<1>9. ASSUME NEW a \in Acbs, TaskKills(t, a) PROVE CTypes'
  BY <1>9 DEF TaskKills, CTypes, TaskTypes, AcbTypes, BlockTypes
<1>10. ASSUME NEW a \in Acbs, SendChecks(t, a) PROVE CTypes'
  <2>1. [Off EXCEPT !.pc = "look", !.acb = a] \in Registers
    BY DEF Off, Registers, Places
  <2>2. tk' \in [Tasks -> Registers]
    BY <1>10, <2>1, StepTypes DEF SendChecks
  <2> QED BY <1>10, <2>2 DEF SendChecks, CTypes, TaskTypes, AcbTypes, BlockTypes
<1> QED BY <1>1, <1>2, <1>3, <1>4, <1>5, <1>6, <1>7, <1>8, <1>9, <1>10 DEF TaskStep

(* The entry a reap makes. *)
LEMMA ReapTypes ==
  ASSUME ChanInv, NEW a \in Acbs, ReapOf(a)
  PROVE  /\ chOf[a] \in ChBlocks /\ limbo' \in Seq(Stamped)
         /\ DOMAIN limbo' = 1 .. Len(limbo) + 1 /\ DOMAIN limbo = 1 .. Len(limbo)
         /\ Len(limbo) \in Nat
         /\ limbo'[1].b = chOf[a] /\ \A g \in LHarts : limbo'[1].passes[g] = 0
         /\ \A k \in DOMAIN limbo : limbo'[k + 1] = limbo[k]
<1>1. chOf[a] \in ChBlocks
  BY DEF ChanInv, ShippedOwn, ReapOf, CTypes, BlockTypes
<1>2. PICK e : e = [b |-> chOf[a], passes |-> [g \in LHarts |-> 0]]
  OBVIOUS
<1>3. e \in Stamped /\ e.b = chOf[a] /\ \A g \in LHarts : e.passes[g] = 0
  BY <1>1, <1>2 DEF Stamped
<1>4. limbo' = <<e>> \o limbo /\ limbo \in Seq(Stamped)
  BY <1>2 DEF ReapOf, ChanInv, CTypes, BlockTypes
<1>5. /\ limbo' \in Seq(Stamped) /\ Len(limbo') = Len(limbo) + 1 /\ limbo'[1] = e
      /\ \A k \in 1 .. Len(limbo) : limbo'[k + 1] = limbo[k]
  BY <1>3, <1>4
<1> QED BY <1>1, <1>3, <1>4, <1>5

(* So does everybody. *)
LEMMA TypesStep == ChanInv /\ [CNext]_cbvars => CTypes'
<1> SUFFICES ASSUME ChanInv, [CNext]_cbvars PROVE CTypes'
  OBVIOUS
<1>1. CASE \E t \in Tasks : TaskStep(t)
  BY <1>1, TypesOfTask
<1>2. ASSUME NEW h \in LHarts, Pass(h) PROVE CTypes'
  BY <1>2, OlderKeeps DEF Pass, ChanInv, CTypes, TaskTypes, AcbTypes, BlockTypes
<1>3. ASSUME NEW a \in Acbs, ActorRuns(a) PROVE CTypes'
  <2>1. homeOf[a] \in LHarts /\ a \in Whole
    BY DEF ChanInv, CTypes, AcbTypes, Whole
  <2>2. run' \in [LHarts -> Whole] /\ limbo' \in Seq(Stamped)
    BY <1>3, <2>1, RunsTypes DEF ActorRuns, ChanInv
  <2> QED BY <1>3, <2>2 DEF ActorRuns, ChanInv, CTypes, TaskTypes, AcbTypes, BlockTypes
<1>4. ASSUME NEW a \in Acbs, ActorStops(a) PROVE CTypes'
  BY <1>4 DEF ActorStops, Yield, Whole, ChanInv, CTypes, TaskTypes, AcbTypes, BlockTypes
<1>5. ASSUME NEW a \in Acbs, ReapOf(a) PROVE CTypes'
  <2>1. limbo' \in Seq(Stamped)
    BY <1>5, ReapTypes
  <2> QED BY <1>5, <2>1 DEF ReapOf, Yield, Whole, ChanInv, CTypes, TaskTypes, AcbTypes, BlockTypes
<1>6. CASE UNCHANGED cbvars
  BY <1>6 DEF cbvars, ChanInv, CTypes, TaskTypes, AcbTypes, BlockTypes
<1> QED BY <1>1, <1>2, <1>3, <1>4, <1>5, <1>6 DEF CNext

----------------------------------------------------------------------------
(* Most steps move no acb and no block: they run somebody, stop or kill    *)
(* somebody, or send.                                                      *)

SameLimbo ==
  /\ DOMAIN limbo' = DOMAIN limbo
  /\ \A k \in DOMAIN limbo : limbo'[k].b = limbo[k].b
Quiet ==
  /\ UNCHANGED <<chOf, arena, unused, extras, raw, stk>> /\ SameLimbo
  /\ \A u \in Tasks :
       /\ tk'[u].grp = tk[u].grp /\ (tk[u].pc = "got" => tk'[u].pc = "got")
       /\ tk'[u].pc = "chan" => tk[u].pc = "chan" /\ tk'[u].acb = tk[u].acb
  /\ \A a \in Acbs : status'[a] = status[a]
                     \/ (status[a] = "READY" /\ status'[a] = "DEAD")

(* A step changes the registers of one task. *)
LEMMA StepAt ==
  ASSUME CTypes, NEW t \in Tasks, NEW r, Step(t, r)
  PROVE  tk'[t] = r /\ \A u \in Tasks : u # t => tk'[u] = tk[u]
BY DEF CTypes, TaskTypes, Step

(* These steps of a task are quiet, *)
LEMMA QuietTask ==
  ASSUME ChanInv, NEW t \in Tasks,
         \/ Resumed(t) \/ Parks(t) \/ SendClaims(t) \/ SendPushes(t)
         \/ \E a \in Acbs : TaskKills(t, a) \/ SendChecks(t, a)
  PROVE  Quiet
<1>t. CTypes /\ tk[t] \in Registers /\ TaskHart[t] \in LHarts
      /\ (tk[t].grp # {} => tk[t].pc = "got")
  BY DEF ChanInv, CTypes, TaskTypes, AcbsOnce, Grouped
<1>1. CASE Resumed(t)
  <2>1. SameLimbo
    BY <1>1, <1>t, OlderKeeps DEF Resumed, Runs, SameLimbo, CTypes
  <2>2. Step(t, IF tk[t].pc = "off" THEN [tk[t] EXCEPT !.pc = "idle"] ELSE tk[t])
    BY <1>1 DEF Resumed
  <2>3. tk'[t] = IF tk[t].pc = "off" THEN [tk[t] EXCEPT !.pc = "idle"] ELSE tk[t]
    BY <1>t, <2>2, StepAt
  <2>4. \A u \in Tasks : u # t => tk'[u] = tk[u]
    BY <1>t, <2>2, StepAt
  <2>5. /\ tk'[t].grp = tk[t].grp /\ (tk[t].pc = "got" => tk'[t].pc = "got")
        /\ tk'[t].pc = "chan" => tk[t].pc = "chan" /\ tk'[t].acb = tk[t].acb
    BY <1>t, <2>3 DEF Registers
  <2> QED BY <1>1, <2>1, <2>4, <2>5 DEF Resumed, Quiet
<1>2. CASE Parks(t)
  BY <1>2 DEF Parks, Quiet, SameLimbo
<1>3. CASE SendClaims(t)
  <2>1. /\ tk'[t] = [tk[t] EXCEPT !.pc = "copy", !.blk = chOf[tk[t].acb]]
        /\ \A u \in Tasks : u # t => tk'[u] = tk[u]
    BY <1>3, <1>t, StepAt DEF SendClaims
  <2>2. tk[t].pc = "look"
    BY <1>3 DEF SendClaims, On
  <2> QED BY <1>3, <1>t, <2>1, <2>2 DEF SendClaims, Quiet, SameLimbo, Registers
<1>4. CASE SendPushes(t)
  <2>1. tk'[t] = [Off EXCEPT !.pc = "idle"] /\ \A u \in Tasks : u # t => tk'[u] = tk[u]
    BY <1>4, <1>t, StepAt DEF SendPushes
  <2>2. tk[t].pc = "copy"
    BY <1>4 DEF SendPushes, On
  <2> QED BY <1>4, <1>t, <2>1, <2>2 DEF SendPushes, Quiet, SameLimbo, Off
<1>5. ASSUME NEW a \in Acbs, TaskKills(t, a) PROVE Quiet
  BY <1>5, <1>t DEF TaskKills, Quiet, SameLimbo, CTypes, AcbTypes
<1>6. ASSUME NEW a \in Acbs, SendChecks(t, a) PROVE Quiet
  <2>1. /\ tk'[t] = [Off EXCEPT !.pc = "look", !.acb = a]
        /\ \A u \in Tasks : u # t => tk'[u] = tk[u]
    BY <1>6, <1>t, StepAt DEF SendChecks
  <2>2. tk[t].pc = "idle"
    BY <1>6 DEF SendChecks, On
  <2> QED BY <1>6, <1>t, <2>1, <2>2 DEF SendChecks, Quiet, SameLimbo, Off
<1> QED BY <1>1, <1>2, <1>3, <1>4, <1>5, <1>6

(* and these of the loop and of actors. *)
LEMMA QuietLoop ==
  ASSUME ChanInv,
         \/ \E h \in LHarts : Pass(h)
         \/ \E a \in Acbs : ActorRuns(a) \/ ActorStops(a)
         \/ UNCHANGED cbvars
  PROVE  Quiet
<1>t. CTypes
  BY DEF ChanInv
<1>1. ASSUME NEW h \in LHarts, Pass(h) PROVE Quiet
  BY <1>1, <1>t, OlderKeeps DEF Pass, Quiet, SameLimbo, CTypes
<1>2. ASSUME NEW a \in Acbs, ActorRuns(a) PROVE Quiet
  BY <1>2, <1>t, OlderKeeps DEF ActorRuns, Runs, Quiet, SameLimbo, CTypes, AcbTypes
<1>3. ASSUME NEW a \in Acbs, ActorStops(a) PROVE Quiet
  BY <1>3, <1>t DEF ActorStops, Quiet, SameLimbo, CTypes, AcbTypes
<1>4. CASE UNCHANGED cbvars
  BY <1>4 DEF cbvars, Quiet, SameLimbo
<1> QED BY <1>1, <1>2, <1>3, <1>4

(* They keep the invariant. *)
LEMMA QuietKeeps ==
  ASSUME ChanInv, Quiet
  PROVE  (AcbsOnce /\ Carved /\ ShippedOwn /\ BlocksOnce)'
<1>1. AcbsOnce'
  BY DEF ChanInv, Quiet, AcbsOnce, Grouped, GroupsApart, ArenaApart, NoAcbLost, CTypes, AcbTypes,
         TaskTypes, Registers
<1>2. Carved'
  BY DEF ChanInv, Quiet, Carved
<1>3. ShippedOwn'
  BY DEF ChanInv, Quiet, ShippedOwn
<1>4. BlocksOnce'
  BY DEF ChanInv, Quiet, SameLimbo, BlocksOnce, OneOwner, OneStamp, OwnedApart, FreeApart,
         NoneLost, InLimbo
<1> QED BY <1>1, <1>2, <1>3, <1>4

----------------------------------------------------------------------------
(* A spawn: the acb.                                                       *)

(* The blocks stay where they are. *)
BlocksRest == UNCHANGED <<chOf, extras, raw>> /\ SameLimbo
LEMMA BlocksRestKeep == ASSUME BlocksOnce, BlocksRest PROVE BlocksOnce'
BY DEF BlocksRest, SameLimbo, BlocksOnce, OneOwner, OneStamp, OwnedApart, FreeApart, NoneLost,
       InLimbo

(* acb_block, the fast path. *)
LEMMA CarvesKeeps ==
  ASSUME ChanInv, NEW t \in Tasks, SpawnCarves(t)
  PROVE  (AcbsOnce /\ Carved /\ ShippedOwn /\ BlocksOnce)'
<1>t. /\ CTypes /\ tk[t] \in Registers /\ tk[t].grp = {} /\ tk[t].pc \in {"idle", "got"}
      /\ AcbsOnce /\ Carved /\ ShippedOwn /\ BlocksOnce
  BY DEF ChanInv, CTypes, TaskTypes, SpawnCarves, On, AcbsOnce, Grouped
<1>b. BlocksOnce'
  BY <1>t, BlocksRestKeep DEF SpawnCarves, BlocksRest, SameLimbo
<1>1. CASE arena # {}
  <2>1. PICK a : a = FirstOf(arena)
    OBVIOUS
  <2>2. a \in arena /\ a \in Acbs
    BY <1>1, <1>t, <2>1, FirstIn DEF CTypes, AcbTypes
  <2>3. /\ arena' = arena \ {a} /\ status' = [status EXCEPT ![a] = "new"]
        /\ stk' = [stk EXCEPT ![a] = TRUE] /\ chOf' = chOf /\ unused' = unused
        /\ Step(t, [Off EXCEPT !.pc = "chan", !.acb = a])
    BY <1>1, <2>1 DEF SpawnCarves
  <2>4. /\ tk'[t] = [Off EXCEPT !.pc = "chan", !.acb = a]
        /\ \A u \in Tasks : u # t => tk'[u] = tk[u]
    BY <1>t, <2>3, StepAt
  <2>5. /\ tk'[t].pc = "chan" /\ tk'[t].acb = a /\ tk'[t].grp = {}
        /\ \A u \in Tasks : u # t => tk'[u] = tk[u]
    BY <2>4 DEF Off
  <2>6. /\ status[a] = "none" /\ a \notin unused /\ status'[a] = "new"
        /\ \A u \in Tasks : a \notin tk[u].grp
        /\ \A c \in Acbs : c # a => status'[c] = status[c] /\ stk'[c] = stk[c]
    BY <1>t, <2>2, <2>3 DEF AcbsOnce, ArenaApart, GroupsApart, CTypes, AcbTypes
  <2>7. AcbsOnce'
    <3>1. Grouped'
      BY <1>t, <2>5 DEF AcbsOnce, Grouped
    <3>2. GroupsApart'
      <4> SUFFICES ASSUME NEW u \in Tasks, NEW c \in tk'[u].grp
                   PROVE  /\ status'[c] = "none" /\ c \notin arena' /\ c \notin unused'
                          /\ \A v \in Tasks : c \in tk'[v].grp => v = u
        BY DEF GroupsApart
      <4>1. u # t /\ c \in tk[u].grp /\ c # a
        BY <2>5, <2>6
      <4>2. c \in Acbs
        BY <1>t, <4>1 DEF CTypes, TaskTypes, Registers
      <4>3. \A v \in Tasks : c \in tk'[v].grp => c \in tk[v].grp
        BY <2>5
      <4> QED BY <1>t, <2>3, <2>6, <4>1, <4>2, <4>3 DEF AcbsOnce, GroupsApart
    <3>3. ArenaApart'
      BY <1>t, <2>2, <2>3, <2>6 DEF AcbsOnce, ArenaApart, CTypes, AcbTypes
    <3>4. NoAcbLost'
      BY <1>t, <2>2, <2>3, <2>5, <2>6 DEF AcbsOnce, NoAcbLost
    <3> QED BY <3>1, <3>2, <3>3, <3>4 DEF AcbsOnce
  <2>8. Carved'
    BY <1>t, <2>2, <2>5, <2>6 DEF Carved
  <2>9. ShippedOwn'
    <3>1. chOf[a] = NoBlk
      BY <1>t, <2>2, <2>6 DEF ShippedOwn
    <3> QED BY <1>t, <2>3, <2>6, <3>1 DEF ShippedOwn
  <2> QED BY <1>b, <2>7, <2>8, <2>9
<1>2. CASE arena = {}
  <2>1. /\ UNCHANGED <<arena, status, stk, chOf, unused>>
        /\ tk'[t] = [Off EXCEPT !.pc = "refill"] /\ \A u \in Tasks : u # t => tk'[u] = tk[u]
    BY <1>2, <1>t, StepAt DEF SpawnCarves
  <2>2. /\ tk'[t].pc = "refill" /\ tk'[t].grp = {}
        /\ \A u \in Tasks : u # t => tk'[u] = tk[u]
        /\ UNCHANGED <<arena, status, stk, chOf, unused>>
    BY <2>1 DEF Off
  <2>3. AcbsOnce'
    BY <1>t, <2>2 DEF AcbsOnce, Grouped, GroupsApart, ArenaApart, NoAcbLost
  <2>4. Carved' /\ ShippedOwn'
    BY <1>t, <2>2 DEF Carved, ShippedOwn
  <2> QED BY <1>b, <2>3, <2>4
<1> QED BY <1>1, <1>2

(* Its refill: what it takes is no longer in memory. *)
LEMMA RefillsKeeps ==
  ASSUME ChanInv, NEW t \in Tasks, Refills(t)
  PROVE  (AcbsOnce /\ Carved /\ ShippedOwn /\ BlocksOnce)'
<1>t. /\ CTypes /\ tk[t] \in Registers /\ tk[t].grp = {}
      /\ AcbsOnce /\ Carved /\ ShippedOwn /\ BlocksOnce
  BY DEF ChanInv, CTypes, TaskTypes, Refills, On, AcbsOnce, Grouped
<1>1. PICK g : g = AnyOf(unused, PerRefill)
  OBVIOUS
<1>2. g \subseteq unused /\ unused \subseteq Acbs
  <2>1. IsFiniteSet(unused) /\ unused \subseteq Acbs
    BY <1>t, FS_Subset DEF CTypes, AcbTypes
  <2> QED BY <1>1, <2>1, Carving DEF Refills
<1>3. /\ unused' = unused \ g /\ UNCHANGED <<arena, status, stk, chOf>>
      /\ tk'[t] = [Off EXCEPT !.pc = "got", !.grp = g]
      /\ \A u \in Tasks : u # t => tk'[u] = tk[u]
  BY <1>t, <1>1, StepAt DEF Refills
<1>4. /\ tk'[t].pc = "got" /\ tk'[t].grp = g /\ unused' = unused \ g
      /\ \A u \in Tasks : u # t => tk'[u] = tk[u]
      /\ UNCHANGED <<arena, status, stk, chOf>>
  BY <1>3 DEF Off
<1>5. AcbsOnce'
  <2>1. Grouped'
    BY <1>t, <1>4 DEF AcbsOnce, Grouped
  <2>2. GroupsApart'
    BY <1>t, <1>2, <1>4 DEF AcbsOnce, GroupsApart, ArenaApart
  <2>3. ArenaApart'
    BY <1>t, <1>4 DEF AcbsOnce, ArenaApart
  <2>4. NoAcbLost'
    BY <1>t, <1>4 DEF AcbsOnce, NoAcbLost
  <2> QED BY <2>1, <2>2, <2>3, <2>4 DEF AcbsOnce
<1>6. Carved' /\ ShippedOwn'
  BY <1>t, <1>4 DEF Carved, ShippedOwn
<1>7. BlocksOnce'
  BY <1>t, BlocksRestKeep DEF Refills, BlocksRest, SameLimbo
<1> QED BY <1>5, <1>6, <1>7

(* Under the lock again. *)
LEMMA InstallsKeeps ==
  ASSUME ChanInv, NEW t \in Tasks, Installs(t)
  PROVE  (AcbsOnce /\ Carved /\ ShippedOwn /\ BlocksOnce)'
<1>t. /\ CTypes /\ tk[t] \in Registers /\ tk[t].pc = "got" /\ tk[t].grp \subseteq Acbs
      /\ AcbsOnce /\ Carved /\ ShippedOwn /\ BlocksOnce
  BY DEF ChanInv, CTypes, TaskTypes, Installs, On, Registers
<1>1. /\ UNCHANGED <<status, stk, chOf>>
      /\ tk'[t] = [tk[t] EXCEPT !.grp = {}]
      /\ \A u \in Tasks : u # t => tk'[u] = tk[u]
  BY <1>t, StepAt DEF Installs
<1>2. /\ tk'[t].pc = "got" /\ tk'[t].grp = {}
      /\ \A u \in Tasks : u # t => tk'[u] = tk[u]
      /\ UNCHANGED <<status, stk, chOf>>
  BY <1>t, <1>1 DEF Registers
<1>3. \/ arena = {} /\ arena' = tk[t].grp /\ unused' = unused
      \/ unused' = unused \cup tk[t].grp /\ arena' = arena
  BY DEF Installs
<1>4. AcbsOnce'
  <2>1. Grouped'
    BY <1>t, <1>2 DEF AcbsOnce, Grouped
  <2>2. GroupsApart'
    BY <1>t, <1>2, <1>3 DEF AcbsOnce, GroupsApart
  <2>3. ArenaApart'
    BY <1>t, <1>2, <1>3 DEF AcbsOnce, ArenaApart, GroupsApart
  <2>4. NoAcbLost'
    BY <1>t, <1>2, <1>3 DEF AcbsOnce, NoAcbLost
  <2> QED BY <2>1, <2>2, <2>3, <2>4 DEF AcbsOnce
<1>5. Carved' /\ ShippedOwn'
  BY <1>t, <1>2 DEF Carved, ShippedOwn
<1>6. BlocksOnce'
  BY <1>t, BlocksRestKeep DEF Installs, BlocksRest, SameLimbo
<1> QED BY <1>4, <1>5, <1>6

----------------------------------------------------------------------------
(* A spawn: the block, and a reap.                                         *)

(* The spawned acb becomes runnable, with its block. *)
LEMMA ShipsKeeps ==
  ASSUME ChanInv, NEW t \in Tasks, NEW b \in ChBlocks, On(t, "chan"), Ships(t, b),
         UNCHANGED <<stk, arena, unused>>
  PROVE  /\ (AcbsOnce /\ Carved /\ ShippedOwn)'
         /\ tk[t].acb \in Acbs /\ chOf[tk[t].acb] = NoBlk /\ status[tk[t].acb] = "new"
         /\ chOf'[tk[t].acb] = b /\ \A c \in Acbs : c # tk[t].acb => chOf'[c] = chOf[c]
<1>1. PICK a : a = tk[t].acb
  OBVIOUS
<1>t. /\ CTypes /\ tk[t] \in Registers /\ tk[t].grp = {} /\ tk[t].pc = "chan"
      /\ AcbsOnce /\ Carved /\ ShippedOwn
      /\ a \in Acbs /\ status[a] = "new" /\ chOf[a] = NoBlk
  BY <1>1 DEF ChanInv, CTypes, TaskTypes, On, AcbsOnce, Grouped, Carved, ShippedOwn
<1>2. /\ tk'[t] = [Off EXCEPT !.pc = "idle"] /\ \A u \in Tasks : u # t => tk'[u] = tk[u]
  BY <1>t, StepAt DEF Ships
<1>3. /\ tk'[t].pc = "idle" /\ tk'[t].grp = {}
      /\ \A u \in Tasks : u # t => tk'[u] = tk[u]
  BY <1>2 DEF Off
<1>4. /\ chOf'[a] = b /\ status'[a] = "READY"
      /\ \A c \in Acbs : c # a => chOf'[c] = chOf[c] /\ status'[c] = status[c]
  BY <1>1, <1>t DEF Ships, CTypes, AcbTypes, BlockTypes
<1>5. AcbsOnce'
  <2>1. \A u \in Tasks : tk'[u].grp = tk[u].grp /\ tk[u].grp \subseteq Acbs
    BY <1>t, <1>3 DEF CTypes, TaskTypes, Registers
  <2>2. \A c \in Acbs : (status'[c] = "none") = (status[c] = "none")
    BY <1>t, <1>4
  <2>3. Grouped'
    BY <1>t, <1>3 DEF AcbsOnce, Grouped
  <2>4. GroupsApart'
    BY <1>t, <2>1, <2>2 DEF AcbsOnce, GroupsApart
  <2>5. ArenaApart' /\ NoAcbLost'
    BY <1>t, <2>1, <2>2 DEF AcbsOnce, ArenaApart, NoAcbLost, CTypes, AcbTypes
  <2> QED BY <2>3, <2>4, <2>5 DEF AcbsOnce
<1>6. Carved'
  BY <1>1, <1>t, <1>3, <1>4 DEF Carved
<1>7. ShippedOwn'
  BY <1>t, <1>4 DEF ShippedOwn
<1> QED BY <1>1, <1>t, <1>4, <1>5, <1>6, <1>7

(* chb_take: limbo, the free list, a carve. *)
LEMMA TakesKeeps ==
  ASSUME ChanInv, NEW t \in Tasks, TakesBlock(t)
  PROVE  (AcbsOnce /\ Carved /\ ShippedOwn /\ BlocksOnce)'
<1>t. /\ CTypes /\ BlocksOnce /\ limbo \in Seq(Stamped) /\ On(t, "chan")
      /\ UNCHANGED <<stk, arena, unused>>
  BY DEF ChanInv, CTypes, BlockTypes, TakesBlock
<1>1. PICK a : a = tk[t].acb
  OBVIOUS
<1>2. CASE Ripe # {}
  <2>1. PICK n : n = NextRipe
    OBVIOUS
  <2>2. n \in DOMAIN limbo /\ limbo[n].b \in ChBlocks
    BY <1>2, <1>t, <2>1, RipeNext DEF CTypes, Stamped
  <2>3. Ships(t, limbo[n].b) /\ limbo' = RemoveAt(limbo, n) /\ UNCHANGED <<extras, raw>>
    BY <1>2, <2>1 DEF TakesBlock
  <2>4. /\ (AcbsOnce /\ Carved /\ ShippedOwn)'
        /\ a \in Acbs /\ chOf[a] = NoBlk
        /\ chOf'[a] = limbo[n].b /\ \A c \in Acbs : c # a => chOf'[c] = chOf[c]
    BY <1>1, <1>t, <2>2, <2>3, ShipsKeeps
  <2>5. /\ n \in Int /\ DOMAIN limbo \subseteq Int
        /\ \A j \in DOMAIN limbo' :
             /\ j < n => j \in DOMAIN limbo /\ limbo'[j] = limbo[j]
             /\ ~(j < n) => j + 1 \in DOMAIN limbo /\ limbo'[j] = limbo[j + 1]
        /\ \A j \in DOMAIN limbo : j # n =>
             /\ j < n => j \in DOMAIN limbo' /\ limbo'[j] = limbo[j]
             /\ ~(j < n) => j - 1 \in DOMAIN limbo' /\ limbo'[j - 1] = limbo[j]
    BY <1>t, <2>2, <2>3, RemoveAtAt
  <2>6. DOMAIN limbo' \subseteq Int
    BY TypesStep DEF CNext, TaskStep, CTypes, BlockTypes
  <2>7. \A c : InLimbo(c)' = (InLimbo(c) /\ c # limbo[n].b)
    <3>1. ASSUME NEW c, InLimbo(c)' PROVE InLimbo(c) /\ c # limbo[n].b
      <4>1. PICK j \in DOMAIN limbo' : limbo'[j].b = c
        BY <3>1 DEF InLimbo
      <4>2. j \in Int
        BY <2>6
      <4>3. CASE j < n
        BY <1>t, <2>2, <2>5, <4>1, <4>2, <4>3 DEF InLimbo, BlocksOnce, OneStamp
      <4>4. CASE ~(j < n)
        <5>1. j + 1 \in DOMAIN limbo /\ limbo[j + 1].b = c /\ j + 1 # n
          BY <2>5, <4>1, <4>2, <4>4
        <5> QED BY <1>t, <2>2, <5>1 DEF InLimbo, BlocksOnce, OneStamp
      <4> QED BY <4>3, <4>4
    <3>2. ASSUME NEW c, InLimbo(c), c # limbo[n].b PROVE InLimbo(c)'
      <4>1. PICK j \in DOMAIN limbo : limbo[j].b = c
        BY <3>2 DEF InLimbo
      <4>2. j # n /\ j \in Int
        BY <2>5, <3>2, <4>1
      <4> QED BY <2>5, <4>1, <4>2 DEF InLimbo
    <3>3. \A c : InLimbo(c)' \in BOOLEAN /\ InLimbo(c) \in BOOLEAN
      BY DEF InLimbo
    <3> QED BY <3>1, <3>2, <3>3
  <2>8. OneStamp'
    <3> SUFFICES ASSUME NEW j \in DOMAIN limbo', NEW k \in DOMAIN limbo', limbo'[j].b = limbo'[k].b
                 PROVE  j = k
      BY DEF OneStamp
    <3>1. j \in Int /\ k \in Int
      BY <2>6
    <3>2. PICK i \in DOMAIN limbo : limbo[i] = limbo'[j] /\ i = IF j < n THEN j ELSE j + 1
      BY <2>5
    <3>3. PICK l \in DOMAIN limbo : limbo[l] = limbo'[k] /\ l = IF k < n THEN k ELSE k + 1
      BY <2>5
    <3>4. i = l
      BY <1>t, <3>2, <3>3 DEF BlocksOnce, OneStamp
    <3> QED BY <2>5, <3>1, <3>2, <3>3, <3>4
  <2>9. InLimbo(limbo[n].b)
    BY <2>2 DEF InLimbo
  <2>b. PICK b \in ChBlocks : b = limbo[n].b
    BY <2>2
  <2>10. /\ InLimbo(b) /\ b \notin extras /\ b \notin raw /\ b # NoBlk
         /\ \A c \in Acbs : chOf[c] # b
         /\ \A c : InLimbo(c)' = (InLimbo(c) /\ c # b)
         /\ chOf'[a] = b /\ UNCHANGED <<extras, raw>>
    BY <1>t, <2>3, <2>4, <2>7, <2>9, <2>b DEF BlocksOnce, OwnedApart, FreeApart
  <2>11. OneOwner'
    BY <1>t, <2>4, <2>10 DEF BlocksOnce, OneOwner
  <2>12. OwnedApart'
    <3> SUFFICES ASSUME NEW c \in Acbs, NEW d, d = chOf'[c]
                 PROVE  ~InLimbo(d)' /\ d \notin extras /\ d \notin raw
      BY <2>10 DEF OwnedApart, InLimbo
    <3>1. CASE c = a
      BY <2>10, <3>1
    <3>2. CASE c # a
      BY <1>t, <2>4, <2>10, <3>2 DEF BlocksOnce, OwnedApart
    <3> QED BY <3>1, <3>2
  <2>13. FreeApart'
    BY <1>t, <2>10 DEF BlocksOnce, FreeApart
  <2>14. NoneLost'
    <3> SUFFICES ASSUME NEW c \in ChBlocks
                 PROVE  (\E e \in Acbs : chOf'[e] = c) \/ InLimbo(c)' \/ c \in extras \/ c \in raw
      BY <2>10 DEF NoneLost
    <3>1. CASE c = b
      BY <2>4, <2>10, <3>1
    <3>2. CASE c # b
      <4>1. CASE InLimbo(c) \/ c \in extras \/ c \in raw
        BY <2>10, <3>2, <4>1
      <4>2. CASE \E e \in Acbs : chOf[e] = c
        BY <1>t, <2>4, <3>2, <4>2
      <4> QED BY <1>t, <4>1, <4>2 DEF BlocksOnce, NoneLost
    <3> QED BY <3>1, <3>2
  <2> QED BY <2>4, <2>8, <2>11, <2>12, <2>13, <2>14 DEF BlocksOnce
<1>3. CASE Ripe = {} /\ extras # {}
  <2>1. PICK b : b = FirstOf(extras)
    OBVIOUS
  <2>2. b \in extras /\ b \in ChBlocks
    BY <1>3, <1>t, <2>1, FirstIn DEF CTypes, BlockTypes
  <2>3. Ships(t, b) /\ extras' = extras \ {b} /\ UNCHANGED <<limbo, raw>>
    BY <1>3, <2>1 DEF TakesBlock
  <2>4. /\ (AcbsOnce /\ Carved /\ ShippedOwn)'
        /\ a \in Acbs /\ chOf[a] = NoBlk
        /\ chOf'[a] = b /\ \A c \in Acbs : c # a => chOf'[c] = chOf[c]
    BY <1>1, <1>t, <2>2, <2>3, ShipsKeeps
  <2>5. \A c : InLimbo(c)' = InLimbo(c)
    BY <2>3 DEF InLimbo
  <2>6. BlocksOnce'
    BY <1>t, <2>2, <2>3, <2>4, <2>5 DEF BlocksOnce, OneOwner, OneStamp, OwnedApart, FreeApart, NoneLost
  <2> QED BY <2>4, <2>6
<1>4. CASE Ripe = {} /\ extras = {}
  <2>1. PICK g : g = AnyOf(raw, PerCarve)
    OBVIOUS
  <2>2. PICK b : b = FirstOf(g)
    OBVIOUS
  <2>3. /\ raw' = raw \ g /\ extras' = g \ {b} /\ Ships(t, b) /\ limbo' = limbo
        /\ Cardinality(raw) >= PerCarve
    BY <1>4, <2>1, <2>2 DEF TakesBlock
  <2>4. raw \subseteq ChBlocks /\ IsFiniteSet(raw)
    BY <1>t, FS_Subset DEF CTypes, BlockTypes
  <2>5. g \subseteq raw /\ b \in g /\ b \in ChBlocks
    BY <2>1, <2>2, <2>3, <2>4, Carving
  <2>6. /\ (AcbsOnce /\ Carved /\ ShippedOwn)'
        /\ a \in Acbs /\ chOf[a] = NoBlk
        /\ chOf'[a] = b /\ \A c \in Acbs : c # a => chOf'[c] = chOf[c]
    BY <1>1, <1>t, <2>3, <2>5, ShipsKeeps
  <2>7. \A c : InLimbo(c)' = InLimbo(c)
    BY <2>3 DEF InLimbo
  <2>8. BlocksOnce'
    BY <1>4, <1>t, <2>3, <2>4, <2>5, <2>6, <2>7
       DEF BlocksOnce, OneOwner, OneStamp, OwnedApart, FreeApart, NoneLost
  <2> QED BY <2>6, <2>8
<1> QED BY <1>2, <1>3, <1>4

(* The reap of an actor: its block is in limbo, and nowhere else. *)
LEMMA ReapKeeps ==
  ASSUME ChanInv, NEW a \in Acbs, ReapOf(a)
  PROVE  (AcbsOnce /\ Carved /\ ShippedOwn /\ BlocksOnce)'
<1>t. CTypes /\ AcbsOnce /\ Carved /\ ShippedOwn /\ BlocksOnce
  BY DEF ChanInv
<1>1. /\ UNCHANGED <<tk, status, arena, unused, extras, raw>>
      /\ chOf'[a] = NoBlk /\ ~stk'[a] /\ status[a] = "DEAD"
      /\ \A c \in Acbs : c # a => chOf'[c] = chOf[c] /\ stk'[c] = stk[c]
  BY <1>t DEF ReapOf, CTypes, AcbTypes, BlockTypes
<1>2. AcbsOnce' /\ Carved'
  BY <1>t, <1>1 DEF AcbsOnce, Grouped, GroupsApart, ArenaApart, NoAcbLost, Carved
<1>3. ShippedOwn'
  BY <1>t, <1>1 DEF ShippedOwn
<1>4. /\ chOf[a] \in ChBlocks /\ DOMAIN limbo' = 1 .. Len(limbo) + 1
      /\ DOMAIN limbo = 1 .. Len(limbo) /\ Len(limbo) \in Nat
      /\ limbo'[1].b = chOf[a] /\ \A k \in DOMAIN limbo : limbo'[k + 1] = limbo[k]
  BY ReapTypes
<1>5. \A c : InLimbo(c)' = (InLimbo(c) \/ c = chOf[a])
  <2>1. ASSUME NEW c, InLimbo(c)' PROVE InLimbo(c) \/ c = chOf[a]
    <3>1. PICK j \in 1 .. Len(limbo) + 1 : limbo'[j].b = c
      BY <1>4, <2>1 DEF InLimbo
    <3>2. CASE j = 1
      BY <1>4, <3>1, <3>2
    <3>3. CASE j # 1
      <4>1. j - 1 \in DOMAIN limbo /\ (j - 1) + 1 = j
        BY <1>4, <3>3
      <4>2. limbo'[(j - 1) + 1] = limbo[j - 1]
        BY <1>4, <4>1
      <4> QED BY <3>1, <4>1, <4>2 DEF InLimbo
    <3> QED BY <3>2, <3>3
  <2>2. ASSUME NEW c, InLimbo(c) PROVE InLimbo(c)'
    <3>1. PICK j \in DOMAIN limbo : limbo[j].b = c
      BY <2>2 DEF InLimbo
    <3>2. j + 1 \in DOMAIN limbo' /\ limbo'[j + 1].b = c
      BY <1>4, <3>1
    <3> QED BY <3>2 DEF InLimbo
  <2>3. ASSUME NEW c, c = chOf[a] PROVE InLimbo(c)'
    <3>1. 1 \in DOMAIN limbo' /\ limbo'[1].b = c
      BY <1>4, <2>3
    <3> QED BY <3>1 DEF InLimbo
  <2>4. \A c : InLimbo(c)' \in BOOLEAN /\ InLimbo(c) \in BOOLEAN
    BY DEF InLimbo
  <2> QED BY <2>1, <2>2, <2>3, <2>4
<1>6. OneStamp'
  <2> SUFFICES ASSUME NEW j \in 1 .. Len(limbo) + 1, NEW k \in 1 .. Len(limbo) + 1,
                      limbo'[j].b = limbo'[k].b, j # k
               PROVE  FALSE
    BY <1>4 DEF OneStamp
  <2>1. \A i \in 1 .. Len(limbo) + 1 : i # 1 =>
          i - 1 \in DOMAIN limbo /\ limbo'[i] = limbo[i - 1]
    <3> SUFFICES ASSUME NEW i \in 1 .. Len(limbo) + 1, i # 1
                 PROVE  i - 1 \in DOMAIN limbo /\ limbo'[i] = limbo[i - 1]
      OBVIOUS
    <3>1. i - 1 \in DOMAIN limbo /\ (i - 1) + 1 = i
      BY <1>4
    <3>2. limbo'[(i - 1) + 1] = limbo[i - 1]
      BY <1>4, <3>1
    <3> QED BY <3>1, <3>2
  <2>2. ~InLimbo(chOf[a])
    BY <1>t DEF BlocksOnce, OwnedApart
  <2>3. CASE j = 1 \/ k = 1
    <3>1. PICK i \in 1 .. Len(limbo) + 1 : i # 1 /\ limbo'[i].b = chOf[a]
      BY <1>4, <2>3
    <3>2. i - 1 \in DOMAIN limbo /\ limbo[i - 1].b = chOf[a]
      BY <2>1, <3>1
    <3> QED BY <2>2, <3>2 DEF InLimbo
  <2>4. CASE j # 1 /\ k # 1
    <3>1. j - 1 = k - 1
      BY <1>t, <2>1, <2>4 DEF BlocksOnce, OneStamp
    <3> QED BY <1>4, <3>1
  <2> QED BY <2>3, <2>4
<1>7. (OneOwner /\ OwnedApart /\ FreeApart /\ NoneLost)'
  <2>1. OneOwner'
    BY <1>t, <1>1 DEF BlocksOnce, OneOwner
  <2>2. ~InLimbo(NoBlk)' /\ NoBlk \notin extras /\ NoBlk \notin raw
    <3>1. \A k \in DOMAIN limbo' : limbo'[k].b \in ChBlocks
      <4>1. limbo' \in Seq(Stamped)
        BY ReapTypes
      <4>2. \A k \in DOMAIN limbo' : limbo'[k] \in Stamped
        BY <4>1
      <4> QED BY <4>2 DEF Stamped
    <3>2. ~InLimbo(NoBlk)'
      BY <3>1 DEF InLimbo
    <3> QED BY <1>t, <3>2 DEF CTypes, BlockTypes
  <2>3. OwnedApart'
    <3> SUFFICES ASSUME NEW c \in Acbs, NEW d, d = chOf'[c]
                 PROVE  ~InLimbo(d)' /\ d \notin extras /\ d \notin raw
      BY <1>1 DEF OwnedApart, InLimbo
    <3>1. CASE d = NoBlk
      BY <2>2, <3>1
    <3>2. CASE d # NoBlk
      <4>1. c # a /\ d = chOf[c] /\ d # chOf[a]
        BY <1>t, <1>1, <1>4, <3>2 DEF BlocksOnce, OneOwner
      <4>2. ~InLimbo(d) /\ d \notin extras /\ d \notin raw
        BY <1>t, <4>1 DEF BlocksOnce, OwnedApart
      <4> QED BY <1>5, <4>1, <4>2
    <3> QED BY <3>1, <3>2
  <2>4. FreeApart'
    BY <1>t, <1>1, <1>4, <1>5 DEF BlocksOnce, OwnedApart, FreeApart
  <2>5. NoneLost'
    BY <1>t, <1>1, <1>4, <1>5 DEF BlocksOnce, NoneLost
  <2> QED BY <2>1, <2>3, <2>4, <2>5
<1> QED BY <1>2, <1>3, <1>6, <1>7 DEF BlocksOnce

----------------------------------------------------------------------------
(* The invariant is inductive.                                             *)

(* Who is inside a send was so before, looks now or claims now. *)
Sends(u) == tk'[u] = tk[u] \/ SendClaims(u) \/ \E a \in Acbs : SendChecks(u, a)
LEMMA InASend ==
  ASSUME ChanInv, [CNext]_cbvars, NEW u \in Tasks, tk'[u].pc \in {"look", "copy"}
  PROVE  Sends(u)
<1>t. CTypes /\ \A t \in Tasks : tk[t] \in Registers
  BY DEF ChanInv, CTypes, TaskTypes
<1>1. ASSUME NEW t \in Tasks, NEW r, Step(t, r),
             \/ r.pc \notin {"look", "copy"} \/ r = tk[t]
             \/ SendClaims(t) \/ \E a \in Acbs : SendChecks(t, a)
      PROVE  Sends(u)
  <2>1. tk'[t] = r /\ \A v \in Tasks : v # t => tk'[v] = tk[v]
    BY <1>t, <1>1, StepAt
  <2>2. CASE u = t
    BY <1>1, <2>1, <2>2 DEF Sends
  <2>3. CASE u # t
    BY <2>1, <2>3 DEF Sends
  <2> QED BY <2>2, <2>3
<1>3. ASSUME NEW t \in Tasks, TaskStep(t) PROVE Sends(u)
  <2>1. CASE Resumed(t)
    <3>1. PICK r : r = IF tk[t].pc = "off" THEN [tk[t] EXCEPT !.pc = "idle"] ELSE tk[t]
      OBVIOUS
    <3>2. r.pc \notin {"look", "copy"} \/ r = tk[t]
      BY <1>t, <3>1 DEF Registers
    <3> QED BY <1>1, <2>1, <3>1, <3>2 DEF Resumed
  <2>2. CASE Parks(t) \/ \E a \in Acbs : TaskKills(t, a)
    BY <2>2 DEF Parks, TaskKills, Sends
  <2>3. CASE SpawnCarves(t)
    <3>1. CASE arena # {}
      <4>1. PICK r : r = [Off EXCEPT !.pc = "chan", !.acb = FirstOf(arena)]
        OBVIOUS
      <4>2. r.pc = "chan"
        BY <4>1 DEF Off
      <4> QED BY <1>1, <2>3, <3>1, <4>1, <4>2 DEF SpawnCarves
    <3>2. CASE arena = {}
      <4>1. PICK r : r = [Off EXCEPT !.pc = "refill"]
        OBVIOUS
      <4>2. r.pc = "refill"
        BY <4>1 DEF Off
      <4> QED BY <1>1, <2>3, <3>2, <4>1, <4>2 DEF SpawnCarves
    <3> QED BY <3>1, <3>2
  <2>4. CASE Refills(t)
    <3>1. PICK r : r = [Off EXCEPT !.pc = "got", !.grp = AnyOf(unused, PerRefill)]
      OBVIOUS
    <3>2. r.pc = "got"
      BY <3>1 DEF Off
    <3> QED BY <1>1, <2>4, <3>1, <3>2 DEF Refills
  <2>5. CASE Installs(t)
    <3>1. PICK r : r = [tk[t] EXCEPT !.grp = {}]
      OBVIOUS
    <3>2. r.pc = "got"
      BY <1>t, <2>5, <3>1 DEF Installs, On, Registers
    <3> QED BY <1>1, <2>5, <3>1, <3>2 DEF Installs
  <2>6. CASE TakesBlock(t) \/ SendPushes(t)
    <3>1. PICK r : r = [Off EXCEPT !.pc = "idle"]
      OBVIOUS
    <3>2. r.pc = "idle"
      BY <3>1 DEF Off
    <3> QED BY <1>1, <2>6, <3>1, <3>2 DEF TakesBlock, Ships, SendPushes
  <2>7. CASE SendClaims(t)
    <3>1. PICK r : r = [tk[t] EXCEPT !.pc = "copy", !.blk = chOf[tk[t].acb]]
      OBVIOUS
    <3> QED BY <1>1, <2>7, <3>1 DEF SendClaims
  <2>8. ASSUME NEW a \in Acbs, SendChecks(t, a) PROVE Sends(u)
    <3>1. PICK r : r = [Off EXCEPT !.pc = "look", !.acb = a]
      OBVIOUS
    <3> QED BY <1>1, <2>8, <3>1 DEF SendChecks
  <2> QED BY <1>3, <2>1, <2>2, <2>3, <2>4, <2>5, <2>6, <2>7, <2>8 DEF TaskStep
<1>4. CASE \/ \E h \in LHarts : Pass(h)
           \/ \E a \in Acbs : ActorRuns(a) \/ ActorStops(a) \/ ReapOf(a)
           \/ UNCHANGED cbvars
  BY <1>4 DEF Pass, ActorRuns, ActorStops, ReapOf, cbvars, Sends
<1> QED BY <1>3, <1>4 DEF CNext

(* So a send has a target. *)
LEMMA AimedStep == ChanInv /\ [CNext]_cbvars => Aimed'
<1> SUFFICES ASSUME ChanInv, [CNext]_cbvars, NEW u \in Tasks, tk'[u].pc \in {"look", "copy"}
             PROVE  tk'[u].acb \in Acbs
  BY DEF Aimed
<1>t. CTypes /\ tk[u] \in Registers /\ Aimed
  BY DEF ChanInv, CTypes, TaskTypes
<1>1. CASE tk'[u] = tk[u]
  BY <1>t, <1>1 DEF Aimed
<1>2. CASE SendClaims(u)
  <2>1. tk'[u] = [tk[u] EXCEPT !.pc = "copy", !.blk = chOf[tk[u].acb]]
    BY <1>t, <1>2, StepAt DEF SendClaims
  <2>2. tk'[u].acb = tk[u].acb /\ tk[u].pc = "look"
    BY <1>t, <1>2, <2>1 DEF SendClaims, On, Registers
  <2> QED BY <1>t, <2>2 DEF Aimed
<1>3. ASSUME NEW a \in Acbs, SendChecks(u, a) PROVE tk'[u].acb \in Acbs
  <2>1. tk'[u] = [Off EXCEPT !.pc = "look", !.acb = a]
    BY <1>t, <1>3, StepAt DEF SendChecks
  <2> QED BY <2>1 DEF Off
<1> QED BY <1>1, <1>2, <1>3, InASend DEF Sends

(* Nothing is carved in the beginning. *)
LEMMA ChanInvInit == CInit => ChanInv
<1> SUFFICES ASSUME CInit PROVE ChanInv
  OBVIOUS
<1>1. FirstOf(LHarts) \in LHarts
  BY FirstIn
<1>2. Off \in Registers /\ Off.pc = "off" /\ Off.grp = {}
  BY DEF Off, Registers, Places
<1>3. CTypes
  <2>1. TaskTypes
    BY <1>2 DEF CInit, TaskTypes, Whole
  <2>2. AcbTypes
    BY <1>1 DEF CInit, AcbTypes
  <2>3. BlockTypes
    BY DEF CInit, BlockTypes
  <2> QED BY <2>1, <2>2, <2>3 DEF CTypes
<1>4. \A t \in Tasks : tk[t].pc = "off" /\ tk[t].grp = {}
  BY <1>2 DEF CInit
<1>5. AcbsOnce /\ Carved /\ Aimed
  BY <1>4 DEF CInit, AcbsOnce, Grouped, GroupsApart, ArenaApart, NoAcbLost, Carved, Aimed
<1>6. ShippedOwn
  BY DEF CInit, ShippedOwn
<1>7. ~(\E k \in DOMAIN limbo : TRUE)
  BY DEF CInit
<1>8. BlocksOnce
  BY <1>7 DEF CInit, BlocksOnce, OneOwner, OneStamp, OwnedApart, FreeApart, NoneLost, InLimbo
<1> QED BY <1>3, <1>5, <1>6, <1>8 DEF ChanInv

(* Every step keeps it. *)
LEMMA ChanInvStep == ChanInv /\ [CNext]_cbvars => ChanInv'
<1> SUFFICES ASSUME ChanInv, [CNext]_cbvars
             PROVE  (AcbsOnce /\ Carved /\ ShippedOwn /\ BlocksOnce)'
  BY TypesStep, AimedStep DEF ChanInv
<1>1. ASSUME NEW t \in Tasks, TaskStep(t)
      PROVE  (AcbsOnce /\ Carved /\ ShippedOwn /\ BlocksOnce)'
  BY <1>1, QuietTask, QuietKeeps, CarvesKeeps, RefillsKeeps, InstallsKeeps, TakesKeeps
     DEF TaskStep
<1>2. CASE \E a \in Acbs : ReapOf(a)
  BY <1>2, ReapKeeps
<1>3. CASE \/ \E h \in LHarts : Pass(h)
           \/ \E a \in Acbs : ActorRuns(a) \/ ActorStops(a)
           \/ UNCHANGED cbvars
  BY <1>3, QuietLoop, QuietKeeps
<1> QED BY <1>1, <1>2, <1>3 DEF CNext

(* Counting what the invariant names: each acb and each block is once. *)
LEMMA InOnePlace == ChanInv => NoBlockLost
<1> SUFFICES ASSUME ChanInv PROVE NoBlockLost
  OBVIOUS
<1>1. ASSUME NEW a \in Acbs, NEW ins, ins = {t \in Tasks : a \in tk[t].grp}
      PROVE  Cardinality(ins) + (IF a \in arena THEN 1 ELSE 0)
               + (IF a \in unused THEN 1 ELSE 0)
               + (IF status[a] # "none" THEN 1 ELSE 0) = 1
  <2>0. AcbsOnce
    BY DEF ChanInv
  <2>1. CASE ins = {}
    <3>1. Cardinality(ins) = 0
      BY <2>1, FS_EmptySet
    <3>2. \A t \in Tasks : a \notin tk[t].grp
      BY <1>1, <2>1
    <3> QED BY <2>0, <3>1, <3>2 DEF AcbsOnce, ArenaApart, NoAcbLost
  <2>2. CASE ins # {}
    <3>1. PICK t \in Tasks : a \in tk[t].grp
      BY <1>1, <2>2
    <3>2. status[a] = "none" /\ a \notin arena /\ a \notin unused
          /\ \A u \in Tasks : a \in tk[u].grp => u = t
      BY <2>0, <3>1 DEF AcbsOnce, GroupsApart
    <3>3. ins = {t}
      BY <1>1, <3>1, <3>2
    <3>4. Cardinality(ins) = 1
      BY <3>3, FS_Singleton
    <3> QED BY <3>2, <3>4
  <2> QED BY <2>1, <2>2
<1>2. ASSUME NEW b \in ChBlocks, NEW as, as = {a \in Acbs : chOf[a] = b},
             NEW ks, ks = {k \in DOMAIN limbo : limbo[k].b = b}
      PROVE  Cardinality(as) + Cardinality(ks)
               + (IF b \in extras THEN 1 ELSE 0) + (IF b \in raw THEN 1 ELSE 0) = 1
  <2>0. BlocksOnce /\ b # NoBlk
    BY DEF ChanInv
  <2>1. CASE as # {}
    <3>1. PICK a \in Acbs : chOf[a] = b
      BY <1>2, <2>1
    <3>2. as = {a}
      BY <1>2, <2>0, <3>1 DEF BlocksOnce, OneOwner
    <3>3. ~InLimbo(b) /\ b \notin extras /\ b \notin raw
      BY <2>0, <3>1 DEF BlocksOnce, OwnedApart
    <3>4. ks = {}
      BY <1>2, <3>3 DEF InLimbo
    <3>5. Cardinality(as) = 1 /\ Cardinality(ks) = 0
      BY <3>2, <3>4, FS_Singleton, FS_EmptySet
    <3> QED BY <3>3, <3>5
  <2>2. CASE as = {} /\ ks # {}
    <3>1. PICK k \in DOMAIN limbo : limbo[k].b = b
      BY <1>2, <2>2
    <3>2. ks = {k}
      BY <1>2, <2>0, <3>1 DEF BlocksOnce, OneStamp
    <3>3. b \notin extras /\ b \notin raw
      BY <2>0, <3>1 DEF BlocksOnce, FreeApart, InLimbo
    <3>4. Cardinality(as) = 0 /\ Cardinality(ks) = 1
      BY <2>2, <3>2, FS_Singleton, FS_EmptySet
    <3> QED BY <3>3, <3>4
  <2>3. CASE as = {} /\ ks = {}
    <3>1. Cardinality(as) = 0 /\ Cardinality(ks) = 0
      BY <2>3, FS_EmptySet
    <3>2. ~InLimbo(b) /\ \A a \in Acbs : chOf[a] # b
      BY <1>2, <2>3 DEF InLimbo
    <3>3. (b \in extras \/ b \in raw) /\ (b \in extras => b \notin raw)
      BY <2>0, <3>2 DEF BlocksOnce, NoneLost, FreeApart
    <3> QED BY <3>1, <3>3
  <2> QED BY <2>1, <2>2, <2>3
<1>3. \A a \in Acbs :
        LET ins == {t \in Tasks : a \in tk[t].grp} IN
        Cardinality(ins) + (IF a \in arena THEN 1 ELSE 0)
          + (IF a \in unused THEN 1 ELSE 0)
          + (IF status[a] # "none" THEN 1 ELSE 0) = 1
  BY <1>1
<1>4. \A b \in ChBlocks :
       Cardinality({a \in Acbs : chOf[a] = b})
         + Cardinality({k \in DOMAIN limbo : limbo[k].b = b})
         + (IF b \in extras THEN 1 ELSE 0) + (IF b \in raw THEN 1 ELSE 0) = 1
  BY <1>2
<1> QED BY <1>3, <1>4 DEF NoBlockLost

(* No acb and no channel block is lost or handed out twice, whichever      *)
(* spawn's refill arrives first, wherever a spawn parks, and whenever an   *)
(* actor is reaped (acb_block, chb_take, reap): for sends that park, too.  *)
THEOREM BlocksInOnePlace == CSpec => []NoBlockLost
<1>1. CInit => ChanInv
  BY ChanInvInit
<1>2. ChanInv /\ [CNext]_cbvars => ChanInv'
  BY ChanInvStep
<1>3. ChanInv => NoBlockLost
  BY InOnePlace
<1> QED BY <1>1, <1>2, <1>3, PTL DEF CSpec

----------------------------------------------------------------------------
(* A send that copies.                                                     *)

(* It keeps its hart, *)
LEMMA KeepsHart ==
  ASSUME ~ParkInSend, ChanInv, [CNext]_cbvars, NEW u \in Tasks,
         run[TaskHart[u]] = u, tk[u].pc = "copy"
  PROVE  run'[TaskHart[u]] = u
<1>t. /\ run \in [LHarts -> Whole] /\ \A a \in Acbs : homeOf[a] \in LHarts
      /\ TaskHart[u] \in LHarts /\ u # Nobody /\ u \notin Acbs
  BY DEF ChanInv, CTypes, TaskTypes, AcbTypes
<1>1. ASSUME NEW h \in LHarts, h # TaskHart[u], NEW x, run' = [run EXCEPT ![h] = x]
      PROVE  run'[TaskHart[u]] = u
  BY <1>t, <1>1
<1>2. CASE run' = run
  BY <1>2
<1>3. ASSUME NEW t \in Tasks, TaskStep(t) PROVE run'[TaskHart[u]] = u
  <2>1. CASE Resumed(t)
    BY <1>t, <1>1, <2>1 DEF Resumed, Runs
  <2>2. CASE Parks(t)
    <3>1. run[TaskHart[t]] = t /\ tk[t].pc # "copy"
      BY <2>2 DEF Parks, On
    <3> QED BY <1>t, <1>1, <2>2, <3>1 DEF Parks, Yield
  <2> QED BY <1>2, <1>3, <2>1, <2>2
      DEF TaskStep, SpawnCarves, Refills, Installs, TakesBlock, SendClaims, SendPushes, TaskKills,
          SendChecks
<1>4. ASSUME NEW a \in Acbs, ActorRuns(a) PROVE run'[TaskHart[u]] = u
  BY <1>t, <1>1, <1>4 DEF ActorRuns, Runs
<1>5. ASSUME NEW a \in Acbs, ActorStops(a) \/ ReapOf(a) PROVE run'[TaskHart[u]] = u
  <2>1. run[homeOf[a]] \in {Nobody, a}
    BY <1>5 DEF ActorStops, ReapOf
  <2>2. homeOf[a] # TaskHart[u]
    BY <1>t, <2>1
  <2> QED BY <1>t, <1>1, <1>2, <1>5, <2>2 DEF ActorStops, ReapOf, Yield
<1>6. CASE (\E h \in LHarts : Pass(h)) \/ UNCHANGED cbvars
  BY <1>2, <1>6 DEF Pass, cbvars
<1> QED BY <1>3, <1>4, <1>5, <1>6 DEF CNext

(* its target's block stays or goes to limbo, *)
LEMMA KeepsOwner ==
  ASSUME ChanInv, [CNext]_cbvars, NEW a \in Acbs, chOf[a] # NoBlk
  PROVE  chOf'[a] = chOf[a] \/ ReapOf(a)
<1>1. ASSUME NEW t \in Tasks, TakesBlock(t) PROVE chOf'[a] = chOf[a]
  <2>1. tk[t].acb # a /\ chOf \in [Acbs -> ChBlocks \cup {NoBlk}]
    BY <1>1 DEF ChanInv, Carved, ShippedOwn, TakesBlock, On, CTypes, BlockTypes
  <2>2. PICK b : chOf' = [chOf EXCEPT ![tk[t].acb] = b]
    BY <1>1 DEF TakesBlock, Ships
  <2> QED BY <2>1, <2>2
<1>2. ASSUME NEW c \in Acbs, ReapOf(c) PROVE chOf'[a] = chOf[a] \/ ReapOf(a)
  BY <1>2 DEF ReapOf, ChanInv, CTypes, BlockTypes
<1>3. ASSUME NEW t \in Tasks, TaskStep(t) PROVE chOf'[a] = chOf[a]
  BY <1>1, <1>3 DEF TaskStep, Resumed, Parks, SpawnCarves, Refills, Installs, SendClaims,
     SendPushes, TaskKills, SendChecks
<1>4. CASE \/ \E h \in LHarts : Pass(h)
           \/ \E c \in Acbs : ActorRuns(c) \/ ActorStops(c)
           \/ UNCHANGED cbvars
  BY <1>4 DEF Pass, ActorRuns, ActorStops, cbvars
<1> QED BY <1>2, <1>3, <1>4 DEF CNext

(* and what lies in limbo without a pass of its hart stays there. *)
LEMMA KeepsFresh ==
  ASSUME ChanInv, [CNext]_cbvars, NEW h \in LHarts, run[h] # Nobody, NEW b, Fresh(b, h)
  PROVE  Fresh(b, h)'
<1>t. CTypes /\ BlockTypes /\ limbo \in Seq(Stamped)
  BY DEF ChanInv, CTypes, BlockTypes
<1>p. PICK k \in DOMAIN limbo : limbo[k].b = b /\ limbo[k].passes[h] = 0
  BY DEF Fresh
<1>1. CASE limbo' = limbo
  BY <1>1 DEF Fresh
<1>2. ASSUME NEW g \in LHarts, run[g] = Nobody, limbo' = Older(g) PROVE Fresh(b, h)'
  <2>1. h \in LHarts \ {g}
    BY <1>2
  <2>2. k \in DOMAIN limbo' /\ limbo'[k].b = b /\ limbo'[k].passes[h] = 0
    BY <1>t, <1>p, <1>2, <2>1, OlderKeeps
  <2> QED BY <2>2 DEF Fresh
<1>3. ASSUME NEW t \in Tasks, TakesBlock(t) PROVE Fresh(b, h)'
  <2>1. CASE Ripe # {}
    <3>1. PICK n : n = NextRipe
      OBVIOUS
    <3>2. n \in Ripe /\ n \in DOMAIN limbo /\ limbo' = RemoveAt(limbo, n)
      BY <1>t, <1>3, <2>1, <3>1, RipeNext DEF TakesBlock
    <3>3. n # k
      BY <1>p, <3>2 DEF Ripe, Matured
    <3>4. \/ k \in DOMAIN limbo' /\ limbo'[k] = limbo[k]
          \/ k - 1 \in DOMAIN limbo' /\ limbo'[k - 1] = limbo[k]
      BY <1>t, <1>p, <3>2, <3>3, RemoveAtAt
    <3> QED BY <1>p, <3>4 DEF Fresh
  <2>2. CASE Ripe = {}
    BY <1>1, <1>3, <2>2 DEF TakesBlock
  <2> QED BY <2>1, <2>2
<1>4. ASSUME NEW a \in Acbs, ReapOf(a) PROVE Fresh(b, h)'
  <2>1. k + 1 \in DOMAIN limbo' /\ limbo'[k + 1] = limbo[k]
    BY <1>p, <1>4, ReapTypes
  <2> QED BY <1>p, <2>1 DEF Fresh
<1>5. ASSUME NEW t \in Tasks, TaskStep(t) PROVE Fresh(b, h)'
  <2>1. CASE Resumed(t)
    BY <1>2, <2>1 DEF Resumed, Runs
  <2> QED BY <1>1, <1>3, <1>5, <2>1
      DEF TaskStep, Parks, SpawnCarves, Refills, Installs, SendClaims, SendPushes, TaskKills,
          SendChecks
<1>6. ASSUME NEW a \in Acbs, ActorRuns(a) PROVE Fresh(b, h)'
  <2>1. homeOf[a] \in LHarts
    BY <1>t DEF CTypes, AcbTypes
  <2> QED BY <1>2, <1>6, <2>1 DEF ActorRuns, Runs
<1>7. CASE \/ \E g \in LHarts : Pass(g)
           \/ \E a \in Acbs : ActorStops(a)
           \/ UNCHANGED cbvars
  BY <1>1, <1>2, <1>7 DEF Pass, ActorStops, cbvars
<1> QED BY <1>4, <1>5, <1>6, <1>7 DEF CNext

(* Together. *)
LEMMA HeldStep ==
  ASSUME ~ParkInSend, ChanInv, Held, [CNext]_cbvars
  PROVE  Held'
<1> SUFFICES ASSUME NEW u \in Tasks, tk'[u].pc = "copy", NEW b, b = tk'[u].blk
             PROVE  /\ run'[TaskHart[u]] = u
                    /\ b = NoBlk \/ chOf'[tk'[u].acb] = b \/ Fresh(b, TaskHart[u])'
  BY DEF Held, Fresh
<1>1. CASE SendClaims(u)
  <2>1. tk[u] \in Registers /\ CTypes /\ run[TaskHart[u]] = u
    BY <1>1 DEF ChanInv, CTypes, TaskTypes, SendClaims, On
  <2>2. tk'[u] = [tk[u] EXCEPT !.pc = "copy", !.blk = chOf[tk[u].acb]]
    BY <1>1, <2>1, StepAt DEF SendClaims
  <2>3. tk'[u].blk = chOf[tk[u].acb] /\ tk'[u].acb = tk[u].acb
    BY <2>1, <2>2 DEF Registers
  <2> QED BY <1>1, <2>1, <2>3 DEF SendClaims
<1>2. CASE tk'[u] = tk[u]
  <2>1. PICK a, h : b = tk[u].blk /\ a = tk[u].acb /\ h = TaskHart[u]
    BY <1>2
  <2>2. /\ run[h] = u /\ tk[u].pc = "copy" /\ a \in Acbs /\ h \in LHarts /\ u # Nobody
        /\ b = NoBlk \/ chOf[a] = b \/ Fresh(b, h)
    BY <1>2, <2>1 DEF Held, ChanInv, Aimed
  <2>3. run'[h] = u
    BY <2>1, <2>2, KeepsHart
  <2>4. CASE b = NoBlk
    BY <1>2, <2>1, <2>3, <2>4
  <2>5. CASE b # NoBlk /\ chOf[a] = b
    <3>1. CASE chOf'[a] = chOf[a]
      BY <1>2, <2>1, <2>3, <2>5, <3>1
    <3>2. CASE ReapOf(a)
      <4>1. 1 \in DOMAIN limbo' /\ limbo'[1].b = b /\ limbo'[1].passes[h] = 0
        BY <2>2, <2>5, <3>2, ReapTypes
      <4> QED BY <1>2, <2>1, <2>3, <4>1 DEF Fresh
    <3> QED BY <2>2, <2>5, <3>1, <3>2, KeepsOwner
  <2>6. CASE Fresh(b, h)
    <3>1. Fresh(b, h)'
      BY <2>2, <2>6, KeepsFresh
    <3> QED BY <1>2, <2>1, <2>3, <3>1 DEF Fresh
  <2> QED BY <2>2, <2>4, <2>5, <2>6
<1>3. ASSUME NEW a \in Acbs, SendChecks(u, a) PROVE FALSE
  <2>1. tk'[u] = [Off EXCEPT !.pc = "look", !.acb = a]
    BY <1>3, StepAt DEF ChanInv, SendChecks
  <2> QED BY <2>1 DEF Off
<1> QED BY <1>1, <1>2, <1>3, InASend DEF Sends

(* A sender never writes into the channel block of another actor: the      *)
(* epochs in a block's stamp (chb_limbo_put, chb_matured) cover every send *)
(* that saw the old owner alive, if none leaves its hart while it copies.  *)
(* A send that parks for memory does (README, section 5, entry 18).        *)
THEOREM SendsReachTheirTarget == ~ParkInSend => (CSpec => []BlocksOfChannels)
<1> SUFFICES ASSUME ~ParkInSend PROVE CSpec => []BlocksOfChannels
  OBVIOUS
<1>1. CInit => ChanInv /\ Held
  <2>1. CInit => Held
    BY DEF CInit, Held, Off
  <2> QED BY <2>1, ChanInvInit
<1>2. (ChanInv /\ Held) /\ [CNext]_cbvars => (ChanInv /\ Held)'
  BY ChanInvStep, HeldStep
<1>3. ChanInv /\ Held => BlocksOfChannels
  <2> SUFFICES ASSUME ChanInv, Held PROVE NeverAnothers
    BY InOnePlace DEF BlocksOfChannels
  <2> SUFFICES ASSUME NEW t \in Tasks, Writing(t), NEW a \in Acbs, chOf[a] # NoBlk,
                      chOf[a] = tk[t].blk
               PROVE  a = tk[t].acb
    BY DEF NeverAnothers
  <2>1. tk[t].acb \in Acbs /\ BlocksOnce
        /\ (chOf[tk[t].acb] = tk[t].blk \/ Fresh(tk[t].blk, TaskHart[t]))
    BY DEF ChanInv, Held, Aimed, Writing
  <2>2. CASE chOf[tk[t].acb] = tk[t].blk
    BY <2>1, <2>2 DEF BlocksOnce, OneOwner
  <2>3. CASE Fresh(tk[t].blk, TaskHart[t])
    BY <2>1, <2>3 DEF Fresh, BlocksOnce, OwnedApart, InLimbo
  <2> QED BY <2>1, <2>2, <2>3
<1> QED BY <1>1, <1>2, <1>3, PTL DEF CSpec
----------------------------------------------------------------------------
(* The buddy allocator: powers of two and what they divide.                 *)
HIDE ChanAssumption
USE BuddyAssumption

(* Induction up to a bound, on the set of those for which a fact holds. *)
LEMMA UpTo ==
  ASSUME NEW S, NEW a \in Nat, NEW b \in Nat, a \in S,
         \A n \in Nat : n \in S /\ a <= n /\ n < b => n + 1 \in S
  PROVE  \A n \in a .. b : n \in S
<1> SUFFICES ASSUME (a .. b) \ S # {} PROVE FALSE
  OBVIOUS
<1>1. PICK n \in (a .. b) \ S : \A m \in (a .. b) \ S : n <= m
  <2>1. (a .. b) \ S \in SUBSET Nat
    OBVIOUS
  <2> QED BY <2>1, LeastIn
<1>2. n # a /\ n - 1 \in a .. b /\ n - 1 < n
  BY <1>1
<1>3. n - 1 \in S
  BY <1>1, <1>2
<1> QED BY <1>1, <1>2, <1>3

(* The recursion of Size has a solution: one can be built up to any order. *)
LEMMA SizeIs == Size = [k \in Orders |-> IF k = 0 THEN 1 ELSE 2 * Size[k - 1]]
<1> DEFINE Good(n, f) == f = [k \in 0 .. n |-> IF k = 0 THEN 1 ELSE 2 * f[k - 1]]
           S == {n \in Nat : \E f : Good(n, f)}
<1>1. 0 \in S
  <2>1. Good(0, [k \in 0 .. 0 |-> 1])
    OBVIOUS
  <2> QED BY <2>1
<1>2. ASSUME NEW n \in Nat, n \in S PROVE n + 1 \in S
  <2>1. PICK f : Good(n, f)
    BY <1>2
  <2> DEFINE g == [k \in 0 .. n + 1 |-> IF k = n + 1 THEN 2 * f[n] ELSE f[k]]
  <2>2. ASSUME NEW k \in 0 .. n + 1 PROVE g[k] = IF k = 0 THEN 1 ELSE 2 * g[k - 1]
    <3>1. CASE k = n + 1
      BY <3>1
    <3>2. CASE k \in 0 .. n /\ k = 0
      BY <2>1, <3>2
    <3>3. CASE k \in 0 .. n /\ k # 0
      <4>1. g[k] = f[k] /\ k - 1 \in 0 .. n + 1 /\ k - 1 # n + 1 /\ k - 1 \in 0 .. n
        BY <3>3
      <4>2. f[k] = 2 * f[k - 1]
        BY <2>1, <3>3
      <4> QED BY <3>3, <4>1, <4>2
    <3> QED BY <3>1, <3>2, <3>3
  <2>3. Good(n + 1, g)
    BY <2>2
  <2>4. \E h : Good(n + 1, h)
    BY <2>3
  <2> HIDE DEF Good
  <2> QED BY <2>4
<1>3. TopOrder \in S
  <2> HIDE DEF S
  <2> QED BY <1>1, <1>2, UpTo
<1>4. PICK f : Good(TopOrder, f)
  BY <1>3
<1> HIDE DEF S, Good
<1>5. f = [k \in Orders |-> IF k = 0 THEN 1 ELSE 2 * f[k - 1]]
  BY <1>4 DEF Good, Orders
<1> QED BY <1>5 DEF Size

LEMMA Sizes ==
  /\ \A k \in Orders : Size[k] \in Nat \ {0}
  /\ Size[0] = 1
  /\ \A k \in Orders : k + 1 \in Orders => Size[k + 1] = 2 * Size[k]
<1>1. Size[0] = 1
  BY SizeIs DEF Orders
<1>2. ASSUME NEW k \in Orders, k + 1 \in Orders PROVE Size[k + 1] = 2 * Size[k]
  <2>1. k + 1 # 0 /\ (k + 1) - 1 = k
    BY DEF Orders
  <2>2. Size[k + 1] = IF k + 1 = 0 THEN 1 ELSE 2 * Size[(k + 1) - 1]
    BY <1>2, SizeIs
  <2> QED BY <2>1, <2>2
<1> DEFINE S == {k \in Nat : Size[k] \in Nat \ {0}}
<1>3. 0 \in S
  BY <1>1
<1>4. ASSUME NEW n \in Nat, n \in S, n < TopOrder PROVE n + 1 \in S
  <2>1. n \in Orders /\ n + 1 \in Orders
    BY <1>4 DEF Orders
  <2> QED BY <1>2, <1>4, <2>1
<1>5. \A n \in 0 .. TopOrder : n \in S
  <2> HIDE DEF S
  <2> QED BY <1>3, <1>4, UpTo
<1> QED BY <1>1, <1>2, <1>5 DEF Orders

(* A higher order is a larger size. *)
LEMMA SizeGrows == ASSUME NEW i \in Orders, NEW j \in Orders, i < j PROVE Size[i] < Size[j]
<1> DEFINE S == {k \in Nat : k \in Orders => Size[i] < Size[k]}
<1>1. i + 1 \in S
  BY Sizes DEF Orders
<1>2. ASSUME NEW n \in Nat, n \in S, i + 1 <= n, n < j PROVE n + 1 \in S
  <2>1. n \in Orders /\ n + 1 \in Orders
    BY <1>2 DEF Orders
  <2> QED BY <1>2, <2>1, Sizes
<1>3. \A n \in i + 1 .. j : n \in S
  <2> HIDE DEF S
  <2> i + 1 \in Nat /\ j \in Nat
    BY DEF Orders
  <2> QED BY <1>1, <1>2, UpTo
<1> QED BY <1>3 DEF Orders
LEMMA SizeTells == ASSUME NEW i \in Orders, NEW j \in Orders, Size[i] = Size[j] PROVE i = j
<1>1. ~(i < j) /\ ~(j < i)
  BY SizeGrows, Sizes
<1> QED BY <1>1 DEF Orders

(* Which block of an order a unit is in: they are numbered from 0. *)
Idx(u, k) == u \div Size[k]
LEMMA IdxUp ==
  ASSUME NEW u \in Nat, NEW k \in Orders
  PROVE  /\ Idx(u, k) \in Nat
         /\ k + 1 \in Orders => Idx(u, k + 1) = Idx(u, k) \div 2
<1>1. Size[k] \in Nat \ {0}
  BY Sizes
<1>2. u \div (2 * Size[k]) = (u \div Size[k]) \div 2
  BY <1>1
<1>3. k + 1 \in Orders => Size[k + 1] = 2 * Size[k]
  BY Sizes
<1> QED BY <1>1, <1>2, <1>3 DEF Idx
(* Units in one block are in one block of every higher order. *)
LEMMA SameUp ==
  ASSUME NEW u \in Nat, NEW w \in Nat, NEW i \in Orders, NEW j \in Orders, i <= j,
         Idx(u, i) = Idx(w, i)
  PROVE  Idx(u, j) = Idx(w, j)
<1> DEFINE S == {k \in Nat : k \in Orders => Idx(u, k) = Idx(w, k)}
<1>1. i \in S
  BY DEF Orders
<1>2. ASSUME NEW n \in Nat, n \in S, i <= n, n < j PROVE n + 1 \in S
  <2>1. n \in Orders /\ n + 1 \in Orders
    BY <1>2 DEF Orders
  <2> QED BY <1>2, <2>1, IdxUp
<1>3. \A n \in i .. j : n \in S
  <2> HIDE DEF S
  <2> i \in Nat /\ j \in Nat
    BY DEF Orders
  <2> QED BY <1>1, <1>2, UpTo
<1> QED BY <1>3 DEF Orders

LEMMA Multiple ==
  ASSUME NEW q \in Nat, NEW s \in Nat \ {0}
  PROVE  q * s \in Nat /\ (q * s) \div s = q /\ (q * s) % s = 0
OBVIOUS
LEMMA Divides ==
  ASSUME NEW o \in Nat, NEW s \in Nat \ {0}, o % s = 0
  PROVE  o \div s \in Nat /\ o = s * (o \div s)
OBVIOUS

(* A block begins where the block of its first unit does. *)
LEMMA AlSelf == ASSUME NEW x \in Nat, NEW i \in Orders, x % Size[i] = 0 PROVE Al(x, i) = x
<1>1. PICK s \in Nat \ {0} : s = Size[i]
  BY Sizes
<1>2. PICK q \in Nat : q = x \div s /\ x = s * q
  <2>1. x % s = 0
    BY <1>1
  <2> QED BY <1>1, <2>1, Divides
<1>3. s * q = q * s
  BY <1>1, <1>2
<1> QED BY <1>1, <1>2, <1>3 DEF Al

(* The block of a unit and its sibling are aligned and have their numbers. *)
LEMMA AlIs ==
  ASSUME NEW u \in Nat, NEW k \in Orders
  PROVE  Al(u, k) \in Nat /\ Al(u, k) % Size[k] = 0 /\ Idx(Al(u, k), k) = Idx(u, k)
<1>1. PICK s \in Nat \ {0} : s = Size[k]
  BY Sizes
<1>2. PICK q \in Nat : q = u \div s
  BY <1>1
<1>3. (q * s) \in Nat /\ (q * s) \div s = q /\ (q * s) % s = 0
  BY Multiple
<1> QED BY <1>1, <1>2, <1>3 DEF Al, Idx
LEMMA SibIs ==
  ASSUME NEW u \in Nat, NEW k \in Orders
  PROVE  /\ Sib(u, k) \in Nat /\ Sib(u, k) % Size[k] = 0
         /\ Idx(Sib(u, k), k) = IF Idx(u, k) % 2 = 0 THEN Idx(u, k) + 1 ELSE Idx(u, k) - 1
<1>1. PICK s \in Nat \ {0} : s = Size[k]
  BY Sizes
<1>2. PICK q \in Nat : q = u \div s
  BY <1>1
<1>3. PICK r \in Nat : r = IF q % 2 = 0 THEN q + 1 ELSE q - 1
  BY <1>2
<1>4. Sib(u, k) = r * s
  <2>1. (q + 1) * s = q * s + s /\ (q - 1) * s = q * s - s
    BY <1>1, <1>2
  <2> QED BY <1>1, <1>2, <1>3, <2>1 DEF Sib, Al
<1>5. (r * s) \in Nat /\ (r * s) \div s = r /\ (r * s) % s = 0
  BY Multiple
<1> QED BY <1>1, <1>2, <1>3, <1>4, <1>5 DEF Idx
LEMMA SibCovers ==
  ASSUME NEW u \in Nat, NEW o \in Nat, NEW k \in Orders, k + 1 \in Orders
  PROVE  Idx(u, k) = Idx(Sib(o, k), k)
           <=> Idx(u, k + 1) = Idx(o, k + 1) /\ Idx(u, k) # Idx(o, k)
<1>1. PICK p \in Nat : p = Idx(u, k)
  BY IdxUp
<1>2. PICK q \in Nat : q = Idx(o, k)
  BY IdxUp
<1>3. Idx(u, k + 1) = p \div 2 /\ Idx(o, k + 1) = q \div 2
  BY <1>1, <1>2, IdxUp
<1>4. Idx(Sib(o, k), k) = IF q % 2 = 0 THEN q + 1 ELSE q - 1
  BY <1>2, SibIs
<1>5. p = (IF q % 2 = 0 THEN q + 1 ELSE q - 1) <=> p \div 2 = q \div 2 /\ p # q
  BY <1>1, <1>2
<1> QED BY <1>1, <1>2, <1>3, <1>4, <1>5

(* A block is one of its blocks of an order k and the siblings on the way   *)
(* up from there, each unit in one of them.                                 *)
LEMMA Levels ==
  ASSUME NEW u \in Nat, NEW o \in Nat, NEW k \in Orders, NEW j \in Orders, k <= j
  PROVE  /\ Idx(u, j) = Idx(o, j)
              <=> Idx(u, k) = Idx(o, k) \/ \E i \in k .. j - 1 : Idx(u, i) = Idx(Sib(o, i), i)
         /\ \A i \in k .. j - 1 : Idx(u, i) = Idx(Sib(o, i), i) =>
              /\ Idx(u, k) # Idx(o, k)
              /\ \A h \in k .. j - 1 : Idx(u, h) = Idx(Sib(o, h), h) => h = i
<1>1. \A i \in k .. j : i \in Orders /\ (i < j => i + 1 \in Orders)
  BY DEF Orders
<1>2. ASSUME NEW i \in k .. j - 1, Idx(u, i) = Idx(Sib(o, i), i)
      PROVE  /\ \A h \in k .. i : Idx(u, h) # Idx(o, h)
             /\ \A h \in i + 1 .. j : Idx(u, h) = Idx(o, h)
  <2>1. i \in Orders /\ i + 1 \in Orders
    BY <1>1 DEF Orders
  <2>2. Idx(u, i + 1) = Idx(o, i + 1) /\ Idx(u, i) # Idx(o, i)
    BY <1>2, <2>1, SibCovers
  <2>3. ASSUME NEW h \in k .. i, Idx(u, h) = Idx(o, h) PROVE FALSE
    <3>1. h \in Orders /\ h <= i
      BY <1>1 DEF Orders
    <3> QED BY <2>1, <2>2, <2>3, <3>1, SameUp
  <2>4. ASSUME NEW h \in i + 1 .. j PROVE Idx(u, h) = Idx(o, h)
    <3>1. h \in Orders /\ i + 1 <= h
      BY <1>1 DEF Orders
    <3> QED BY <2>1, <2>2, <3>1, SameUp
  <2> QED BY <2>3, <2>4
<1>3. ASSUME NEW i \in k .. j - 1, Idx(u, i) = Idx(Sib(o, i), i),
             NEW h \in k .. j - 1, Idx(u, h) = Idx(Sib(o, h), h)
      PROVE  h = i
  <2>1. h \in k .. i \/ h \in i + 1 .. j
    BY DEF Orders
  <2>2. i \in k .. h \/ i \in h + 1 .. j
    BY DEF Orders
  <2>3. Idx(u, h) # Idx(o, h) /\ Idx(u, i) # Idx(o, i)
    BY <1>2, <1>3 DEF Orders
  <2>4. ~(h \in i + 1 .. j) /\ ~(i \in h + 1 .. j)
    BY <1>2, <1>3, <2>3
  <2> QED BY <2>1, <2>2, <2>4 DEF Orders
<1>4. ASSUME Idx(u, j) = Idx(o, j), Idx(u, k) # Idx(o, k)
      PROVE  \E i \in k .. j - 1 : Idx(u, i) = Idx(Sib(o, i), i)
  <2>1. PICK i \in {n \in k .. j : Idx(u, n) = Idx(o, n)} :
               \A n \in {n \in k .. j : Idx(u, n) = Idx(o, n)} : i <= n
    <3> DEFINE S == {n \in k .. j : Idx(u, n) = Idx(o, n)}
    <3>1. j \in S /\ S \in SUBSET Nat
      BY <1>4 DEF Orders
    <3> HIDE DEF S
    <3>2. \E i \in S : \A n \in S : i <= n
      BY <3>1, LeastIn
    <3> QED BY <3>2 DEF S
  <2>2. i # k /\ i - 1 \in k .. j - 1 /\ i - 1 \in k .. j
    BY <1>4, <2>1 DEF Orders
  <2>3. Idx(u, i - 1) # Idx(o, i - 1)
    BY <2>1, <2>2 DEF Orders
  <2>4. i - 1 \in Orders /\ (i - 1) + 1 = i /\ (i - 1) + 1 \in Orders
    BY <2>2, <1>1 DEF Orders
  <2>5. Idx(u, i - 1) = Idx(Sib(o, i - 1), i - 1)
    BY <2>1, <2>3, <2>4, SibCovers
  <2> QED BY <2>2, <2>5
<1>5. Idx(u, k) = Idx(o, k) => Idx(u, j) = Idx(o, j)
  BY SameUp
<1>6. ASSUME NEW i \in k .. j - 1, Idx(u, i) = Idx(Sib(o, i), i)
      PROVE  Idx(u, j) = Idx(o, j) /\ Idx(u, k) # Idx(o, k)
  <2>1. j \in i + 1 .. j /\ k \in k .. i
    BY DEF Orders
  <2> QED BY <1>2, <1>6, <2>1
<1> QED BY <1>3, <1>4, <1>5, <1>6

(* A block that begins at a multiple of its size covers its units. *)
LEMMA BlockCovers ==
  ASSUME NEW x, NEW o \in Nat, NEW k \in Orders, o % Size[k] = 0, NEW u \in Nat
  PROVE  Covers(<<x, o, Size[k]>>, u) <=> Idx(u, k) = Idx(o, k)
<1>1. PICK s \in Nat \ {0} : s = Size[k]
  BY Sizes
<1>2. (o <= u /\ u < o + s) <=> u \div s = o \div s
  BY <1>1
<1> QED BY <1>1, <1>2 DEF Covers, Idx

(* The lower half of a block begins where the block does. *)
LEMMA LowHalf ==
  ASSUME NEW o \in Nat, NEW k \in Orders, o % Size[k] = 0, NEW i \in Orders, i <= k
  PROVE  /\ o % Size[i] = 0 /\ Al(o, i) = o
         /\ i < k => Sib(o, i) = o + Size[i]
<1> DEFINE S == {d \in Nat : d <= k => o % Size[k - d] = 0}
<1>1. 0 \in S
  BY DEF Orders
<1>2. ASSUME NEW n \in Orders, n + 1 \in Orders, o % Size[n + 1] = 0
      PROVE  o % Size[n] = 0 /\ Idx(o, n) % 2 = 0
  <2>1. PICK s \in Nat \ {0} : s = Size[n]
    BY Sizes
  <2>2. Size[n + 1] = 2 * s
    BY <1>2, <2>1, Sizes
  <2>3. PICK d \in Nat \ {0} : d = 2 * s
    BY <2>1
  <2>4. PICK q \in Nat : o = d * q
    <3>1. o % d = 0
      BY <1>2, <2>2, <2>3
    <3>2. o \div d \in Nat /\ o = d * (o \div d)
      BY ONLY o \in Nat, <2>3, <3>1, Divides
    <3> QED BY ONLY <3>2
  <2>5. PICK t \in Nat : t = 2 * q
    BY <2>4
  <2>6. o = t * s
    BY <2>1, <2>3, <2>4, <2>5
  <2>7. (t * s) % s = 0 /\ (t * s) \div s = t
    BY <2>1, <2>5, Multiple
  <2>8. t % 2 = 0
    BY <2>4, <2>5
  <2> QED BY <2>1, <2>6, <2>7, <2>8 DEF Idx
<1>3. ASSUME NEW d \in Nat, d \in S, d < k PROVE d + 1 \in S
  <2>1. k - (d + 1) \in Orders /\ (k - (d + 1)) + 1 = k - d /\ k - d \in Orders
    BY <1>3 DEF Orders
  <2> QED BY <1>2, <1>3, <2>1 DEF Orders
<1>4. \A d \in 0 .. k : d \in S
  <2> HIDE DEF S
  <2> k \in Nat
    BY DEF Orders
  <2> QED BY <1>1, <1>3, UpTo
<1>5. ASSUME NEW n \in Orders, n <= k PROVE o % Size[n] = 0
  <2>1. k - n \in 0 .. k /\ k - (k - n) = n
    BY <1>5 DEF Orders
  <2> QED BY <1>4, <2>1
<1>6. o % Size[i] = 0
  BY <1>5
<1>7. Al(o, i) = o
  <2>1. PICK s \in Nat \ {0} : s = Size[i]
    BY Sizes
  <2> QED BY <1>6, <2>1 DEF Al
<1>8. i < k => Sib(o, i) = o + Size[i]
  <2> SUFFICES ASSUME i < k PROVE Sib(o, i) = o + Size[i]
    OBVIOUS
  <2>1. i + 1 \in Orders /\ i + 1 <= k
    BY DEF Orders
  <2>2. Idx(o, i) % 2 = 0
    BY <1>2, <1>5, <2>1
  <2> QED BY <1>7, <2>2 DEF Sib, Idx
<1> QED BY <1>6, <1>7, <1>8

----------------------------------------------------------------------------
(* The buddy allocator: the roots.                                          *)
LEMMA RootFits ==
  ASSUME NEW u \in Arena
  PROVE  /\ RootOrder(u) \in Orders /\ Fits(u, RootOrder(u))
         /\ \A j \in Orders : j > RootOrder(u) => ~Fits(u, j)
         /\ u + Size[RootOrder(u)] \in u + 1 .. Units
<1> DEFINE S == {d \in Nat : d <= TopOrder /\ Fits(u, TopOrder - d)}
<1>1. TopOrder \in S
  <2>1. Fits(u, 0)
    BY Sizes DEF Fits, Arena
  <2> QED BY <2>1
<1>2. PICK d \in S : \A e \in S : d <= e
  BY <1>1, LeastIn
<1>3. TopOrder - d \in Orders /\ Fits(u, TopOrder - d)
  BY <1>2 DEF Orders
<1>4. ASSUME NEW j \in Orders, j > TopOrder - d, Fits(u, j) PROVE FALSE
  <2>1. TopOrder - j \in S
    BY <1>4 DEF Orders
  <2> QED BY <1>2, <1>4, <2>1 DEF Orders
<1>5. /\ RootOrder(u) \in Orders /\ Fits(u, RootOrder(u))
      /\ \A j \in Orders : j > RootOrder(u) => ~Fits(u, j)
  BY <1>3, <1>4 DEF RootOrder
<1>6. u + Size[RootOrder(u)] \in u + 1 .. Units
  BY <1>5, Sizes DEF Fits, Arena
<1> QED BY <1>5, <1>6

LEMMA SeedIs ==
  Seed = [u \in 0 .. Units |-> IF u = Units THEN {}
                               ELSE {<<u, RootOrder(u)>>} \cup Seed[u + Size[RootOrder(u)]]]
<1> DEFINE Next1(u) == u + Size[RootOrder(u)]
           Good(m, f) == f = [u \in m .. Units |-> IF u = Units THEN {}
                                                   ELSE {<<u, RootOrder(u)>>} \cup f[Next1(u)]]
           S == {d \in Nat : d <= Units => \E f : Good(Units - d, f)}
<1>1. 0 \in S
  <2>1. Good(Units, [u \in Units .. Units |-> {}])
    OBVIOUS
  <2>2. Units - 0 = Units
    OBVIOUS
  <2> HIDE DEF Good
  <2>3. \E f : Good(Units - 0, f)
    BY <2>1, <2>2
  <2> QED BY <2>3
<1>2. ASSUME NEW d \in Nat, d \in S, d < Units PROVE d + 1 \in S
  <2>1. PICK f : Good(Units - d, f)
    BY <1>2
  <2>2. PICK m \in Arena : m = Units - (d + 1)
    BY <1>2 DEF Arena
  <2>3. Units - d = m + 1
    BY <2>2 DEF Arena
  <2> DEFINE g == [u \in m .. Units |-> IF u = m THEN {<<m, RootOrder(m)>>} \cup f[Next1(m)]
                                        ELSE f[u]]
  <2>4. ASSUME NEW u \in m .. Units
        PROVE  g[u] = IF u = Units THEN {} ELSE {<<u, RootOrder(u)>>} \cup g[Next1(u)]
    <3>1. CASE u = m
      <4>1. Next1(m) \in m + 1 .. Units
        BY RootFits
      <4>2. g[Next1(m)] = f[Next1(m)] /\ m # Units
        BY <4>1 DEF Arena
      <4> HIDE DEF Next1
      <4> QED BY <3>1, <4>2
    <3>2. CASE u # m /\ u = Units
      BY <2>1, <2>3, <3>2
    <3>3. CASE u # m /\ u # Units
      <4>1. u \in Arena /\ u \in m + 1 .. Units
        BY <3>3 DEF Arena
      <4>2. Next1(u) \in u + 1 .. Units
        BY <4>1, RootFits
      <4>3. Next1(u) \in m .. Units /\ Next1(u) # m
        BY <4>1, <4>2 DEF Arena
      <4> HIDE DEF Next1
      <4>4. g[Next1(u)] = f[Next1(u)] /\ g[u] = f[u]
        BY <3>3, <4>3
      <4>5. f[u] = {<<u, RootOrder(u)>>} \cup f[Next1(u)]
        BY <2>1, <2>3, <3>3, <4>1
      <4> QED BY <3>3, <4>4, <4>5
    <3> QED BY <3>1, <3>2, <3>3
  <2>5. Good(m, g)
    <3> HIDE DEF Next1
    <3> QED BY <2>4
  <2>6. \E h : Good(Units - (d + 1), h)
    BY <2>2, <2>5
  <2> HIDE DEF Good
  <2> QED BY <2>6
<1>3. Units \in S
  <2> HIDE DEF S
  <2> QED BY <1>1, <1>2, UpTo
<1>4. PICK f : Good(0, f)
  <2>1. Units - Units = 0
    OBVIOUS
  <2> HIDE DEF Good
  <2> QED BY <1>3, <2>1
<1> HIDE DEF S
<1> QED BY <1>4 DEF Seed

(* From any unit on, the roots lie in the arena, at multiples of their      *)
(* sizes, and each unit is in one of them.                                  *)
RootsFrom(m) ==
  /\ \A r \in Seed[m] : /\ r \in Arena \X Orders /\ m <= r[1]
                        /\ r[1] % Size[r[2]] = 0 /\ r[1] + Size[r[2]] <= Units
  /\ \A u \in Arena : m <= u =>
       \E r \in Seed[m] : /\ r[1] <= u /\ u < r[1] + Size[r[2]]
                          /\ \A s \in Seed[m] : s[1] <= u /\ u < s[1] + Size[s[2]] => s = r
LEMMA Roots == \A m \in 0 .. Units : RootsFrom(m)
<1> DEFINE S == {d \in Nat : d <= Units => \A m \in Units - d .. Units : RootsFrom(m)}
<1>1. 0 \in S
  <2>1. Seed[Units] = {}
    BY SeedIs
  <2>2. RootsFrom(Units)
    BY <2>1 DEF RootsFrom, Arena
  <2> QED BY <2>2
<1>2. ASSUME NEW d \in Nat, d \in S, d < Units PROVE d + 1 \in S
  <2>1. PICK m \in Arena : m = Units - (d + 1)
    BY <1>2 DEF Arena
  <2>2. \A n \in m + 1 .. Units : RootsFrom(n)
    BY <1>2, <2>1 DEF Arena
  <2>3. PICK k \in Orders : k = RootOrder(m) /\ Fits(m, k) /\ m + Size[k] \in m + 1 .. Units
    BY RootFits
  <2>4. PICK n \in m + 1 .. Units : n = m + Size[k]
    BY <2>3
  <2>5. Seed[m] = {<<m, k>>} \cup Seed[n]
    BY <2>3, <2>4, SeedIs DEF Arena
  <2>6. RootsFrom(n) /\ m < n /\ n \in Nat
    BY <2>2, <2>4 DEF Arena
  <2>7. Size[k] \in Nat \ {0} /\ \A i \in Orders : Size[i] \in Nat \ {0}
    BY Sizes
  <2>8. ASSUME NEW r \in Seed[m]
        PROVE  /\ r \in Arena \X Orders /\ m <= r[1]
               /\ r[1] % Size[r[2]] = 0 /\ r[1] + Size[r[2]] <= Units
    <3>1. CASE r = <<m, k>>
      BY <2>3, <2>4, <3>1 DEF Fits, Arena
    <3>2. CASE r \in Seed[n]
      <4>1. r \in Arena \X Orders /\ n <= r[1] /\ r[1] % Size[r[2]] = 0 /\ r[1] + Size[r[2]] <= Units
        BY <2>6, <3>2 DEF RootsFrom
      <4>2. m <= r[1]
        BY <2>6, <4>1 DEF Arena
      <4> QED BY <4>1, <4>2
    <3> QED BY <2>5, <3>1, <3>2
  <2>9. ASSUME NEW u \in Arena, m <= u
        PROVE  \E r \in Seed[m] : /\ r[1] <= u /\ u < r[1] + Size[r[2]]
                                  /\ \A s \in Seed[m] : s[1] <= u /\ u < s[1] + Size[s[2]] => s = r
    <3>1. CASE u < n
      <4>1. \A s \in Seed[n] : ~(s[1] <= u)
        <5> SUFFICES ASSUME NEW s \in Seed[n], s[1] <= u PROVE FALSE
          OBVIOUS
        <5>1. s \in Arena \X Orders /\ n <= s[1]
          BY <2>6 DEF RootsFrom
        <5> QED BY <2>6, <3>1, <5>1 DEF Arena
      <4>2. <<m, k>>[1] <= u /\ u < <<m, k>>[1] + Size[<<m, k>>[2]]
        BY <2>4, <2>9, <3>1
      <4> QED BY <2>5, <4>1, <4>2
    <3>2. CASE ~(u < n)
      <4>1. n <= u
        BY <2>6, <3>2 DEF Arena
      <4>2. PICK r \in Seed[n] : /\ r[1] <= u /\ u < r[1] + Size[r[2]]
                                 /\ \A s \in Seed[n] : s[1] <= u /\ u < s[1] + Size[s[2]] => s = r
        BY <2>6, <4>1 DEF RootsFrom
      <4>3. ~(u < <<m, k>>[1] + Size[<<m, k>>[2]])
        BY <2>4, <3>2
      <4> QED BY <2>5, <4>2, <4>3
    <3> QED BY <3>1, <3>2
  <2>10. RootsFrom(m)
    BY <2>8, <2>9 DEF RootsFrom
  <2>11. \A x \in Units - (d + 1) .. Units : RootsFrom(x)
    <3> SUFFICES ASSUME NEW x \in Units - (d + 1) .. Units PROVE RootsFrom(x)
      OBVIOUS
    <3>1. x = m \/ x \in m + 1 .. Units
      BY <2>1 DEF Arena
    <3> QED BY <2>2, <2>10, <3>1
  <2> QED BY <2>11
<1>3. Units \in S
  <2> HIDE DEF S
  <2> QED BY <1>1, <1>2, UpTo
<1> QED BY <1>3

LEMMA MaxOrderIs == MaxOrder \in Orders /\ \A r \in Seed[0] : r[2] <= MaxOrder
<1>1. RootsFrom(0)
  BY Roots
<1>2. 0 \in Arena
  BY DEF Arena
<1>3. PICK r0 \in Seed[0] : TRUE
  BY <1>1, <1>2 DEF RootsFrom
<1>4. \A r \in Seed[0] : r[2] \in Orders
  BY <1>1 DEF RootsFrom
<1> DEFINE S == {d \in Nat : d <= TopOrder /\ \E r \in Seed[0] : r[2] = TopOrder - d}
<1>5. TopOrder - r0[2] \in S
  BY <1>3, <1>4 DEF Orders
<1>6. PICK d \in S : \A e \in S : d <= e
  <2> S \in SUBSET Nat /\ S # {}
    BY <1>5
  <2> HIDE DEF S
  <2> QED BY LeastIn
<1>7. PICK k \in Orders : k = TopOrder - d /\ \E r \in Seed[0] : r[2] = k
  BY <1>6 DEF Orders
<1>8. ASSUME NEW r \in Seed[0] PROVE r[2] <= k
  <2>1. r[2] \in Orders
    BY <1>4
  <2>2. TopOrder - r[2] \in S
    BY <2>1 DEF Orders
  <2> QED BY <1>6, <1>7, <2>1, <2>2 DEF Orders
<1>9. MaxOrder \in Orders /\ (\E r \in Seed[0] : r[2] = MaxOrder) /\ \A r \in Seed[0] : r[2] <= MaxOrder
  <2> HIDE DEF S
  <2> QED BY <1>7, <1>8 DEF MaxOrder
<1> QED BY <1>9

----------------------------------------------------------------------------
(* The buddy allocator: what a step does to the pieces.                     *)

(* p is cut into the pieces of A. *)
Cut(p, A) ==
  \A u \in Arena : /\ Covers(p, u) <=> \E q \in A : Covers(q, u)
                   /\ \A q, r \in A : Covers(q, u) /\ Covers(r, u) => q = r
LEMMA CutTiles ==
  ASSUME NEW P, NEW Q, NEW A, NEW p \in P, Tiles(P), Cut(p, A), Q = (P \ {p}) \cup A
  PROVE  Tiles(Q)
<1> SUFFICES ASSUME NEW u \in Arena
             PROVE  \E q \in Q : Covers(q, u) /\ \A r \in Q : Covers(r, u) => r = q
  BY DEF Tiles
<1>1. PICK q \in P : Covers(q, u) /\ \A r \in P : Covers(r, u) => r = q
  BY DEF Tiles
<1>2. /\ Covers(p, u) <=> \E a \in A : Covers(a, u)
      /\ \A a, b \in A : Covers(a, u) /\ Covers(b, u) => a = b
  BY DEF Cut
<1>3. CASE q = p
  <2>1. PICK a \in A : Covers(a, u)
    BY <1>1, <1>2, <1>3
  <2>2. ASSUME NEW r \in Q, Covers(r, u) PROVE r = a
    BY <1>1, <1>2, <1>3, <2>1, <2>2
  <2> QED BY <2>1, <2>2
<1>4. CASE q # p
  <2>1. \A a \in A : ~Covers(a, u)
    BY <1>1, <1>2, <1>4
  <2> QED BY <1>1, <1>4, <2>1
<1> QED BY <1>3, <1>4
LEMMA JoinTiles ==
  ASSUME NEW P, NEW Q, NEW A, NEW p, A \subseteq P, Tiles(P), Cut(p, A), Q = (P \ A) \cup {p}
  PROVE  Tiles(Q)
<1> SUFFICES ASSUME NEW u \in Arena
             PROVE  \E q \in Q : Covers(q, u) /\ \A r \in Q : Covers(r, u) => r = q
  BY DEF Tiles
<1>1. PICK q \in P : Covers(q, u) /\ \A r \in P : Covers(r, u) => r = q
  BY DEF Tiles
<1>2. Covers(p, u) <=> \E a \in A : Covers(a, u)
  BY DEF Cut
<1>3. CASE q \in A
  <2>1. Covers(p, u) /\ p \in Q
    BY <1>1, <1>2, <1>3
  <2>2. ASSUME NEW r \in Q, Covers(r, u) PROVE r = p
    BY <1>1, <1>3, <2>2
  <2> QED BY <2>1, <2>2
<1>4. CASE q \notin A
  <2>1. ~Covers(p, u)
    BY <1>1, <1>2, <1>4
  <2> QED BY <1>1, <1>4, <2>1
<1> QED BY <1>3, <1>4

(* The free blocks of the lists F, and what the other variables name. *)
Named(B) == {<<"free", b[1], Size[b[2]]>> : b \in B}
FreeOf(F) == Named({x \in Arena \X Orders : x[1] \in F[x[2]]})
OwnedOf(w, hd) ==
  {<<b[1], b[2], Size[hd[b[2]]]>> : b \in {x \in BClients \X Arena : x[2] \in w[x[1]]}}
RestOf(rs, rl, ls) == {<<"image", r[1], r[2]>> : r \in rs}
                      \cup {<<"releasing", u, 1>> : u \in rl} \cup {<<"lost", u, 1>> : u \in ls}
LEMMA Tags ==
  ASSUME NEW F, NEW w, NEW hd, NEW rs, NEW rl, NEW ls
  PROVE  /\ \A p \in FreeOf(F) : p[1] = "free"
         /\ \A p \in OwnedOf(w, hd) : p[1] \in BClients
         /\ \A p \in RestOf(rs, rl, ls) : p[1] \in {"image", "releasing", "lost"}
BY DEF FreeOf, Named, OwnedOf, RestOf

Lists == [Orders -> SUBSET Arena]
BlockSets == SUBSET (Arena \X Orders)
(* Of F the blocks of R are taken, those of A are added: that is G. *)
Turns(F, G, R, A) ==
  \A i \in Orders : \A x \in Arena :
    x \in G[i] <=> <<x, i>> \in A \/ (x \in F[i] /\ <<x, i>> \notin R)
LEMMA FreeChange ==
  ASSUME NEW F \in Lists, NEW G \in Lists,
         NEW R \in BlockSets, NEW A \in BlockSets,
         Turns(F, G, R, A)
  PROVE  FreeOf(G) = (FreeOf(F) \ Named(R)) \cup Named(A)
<1> USE DEF BlockSets, Lists
<1>1. ASSUME NEW S \in BlockSets, NEW x \in Arena, NEW i \in Orders
      PROVE  <<"free", x, Size[i]>> \in Named(S) <=> <<x, i>> \in S
  <2>1. ASSUME <<"free", x, Size[i]>> \in Named(S) PROVE <<x, i>> \in S
    <3>1. PICK b \in S : <<"free", x, Size[i]>> = <<"free", b[1], Size[b[2]]>>
      BY <2>1 DEF Named
    <3>2. b \in Arena \X Orders /\ b[1] = x /\ Size[b[2]] = Size[i]
      BY <3>1
    <3>3. b[2] = i
      BY <3>2, SizeTells
    <3> QED BY <3>2, <3>3
  <2>2. ASSUME <<x, i>> \in S PROVE <<"free", x, Size[i]>> \in Named(S)
    <3>1. <<x, i>>[1] = x /\ <<x, i>>[2] = i
      OBVIOUS
    <3> QED BY <2>2, <3>1 DEF Named
  <2> QED BY <2>1, <2>2
<1>2. ASSUME NEW H \in Lists, NEW x \in Arena, NEW i \in Orders
      PROVE  <<"free", x, Size[i]>> \in FreeOf(H) <=> x \in H[i]
  <2>1. {y \in Arena \X Orders : y[1] \in H[y[2]]} \in BlockSets
    OBVIOUS
  <2>2. <<x, i>> \in {y \in Arena \X Orders : y[1] \in H[y[2]]} <=> x \in H[i]
    OBVIOUS
  <2> QED BY <1>1, <2>1, <2>2 DEF FreeOf
<1>3. ASSUME NEW S \in BlockSets, NEW p \in Named(S)
      PROVE  \E x \in Arena, i \in Orders : p = <<"free", x, Size[i]>>
  BY DEF Named
<1>4. ASSUME NEW H \in Lists, NEW p \in FreeOf(H)
      PROVE  \E x \in Arena, i \in Orders : p = <<"free", x, Size[i]>>
  BY <1>3 DEF FreeOf
<1>5. ASSUME NEW p PROVE p \in FreeOf(G) <=> p \in (FreeOf(F) \ Named(R)) \cup Named(A)
  <2>1. CASE \E x \in Arena, i \in Orders : p = <<"free", x, Size[i]>>
    <3>1. PICK x \in Arena, i \in Orders : p = <<"free", x, Size[i]>>
      BY <2>1
    <3>2. /\ p \in FreeOf(G) <=> x \in G[i]
          /\ p \in FreeOf(F) <=> x \in F[i]
          /\ p \in Named(R) <=> <<x, i>> \in R
          /\ p \in Named(A) <=> <<x, i>> \in A
      BY <1>1, <1>2, <3>1
    <3>3. x \in G[i] <=> <<x, i>> \in A \/ (x \in F[i] /\ <<x, i>> \notin R)
      BY DEF Turns
    <3> QED BY <3>2, <3>3
  <2>2. CASE ~\E x \in Arena, i \in Orders : p = <<"free", x, Size[i]>>
    BY <1>3, <1>4, <2>2
  <2> QED BY <2>1, <2>2
<1> QED BY <1>5

(* A block of the arena: whole, at a multiple of its size. *)
Fitting(o, k) == o \in Arena /\ k \in 0 .. MaxOrder /\ o % Size[k] = 0 /\ o + Size[k] <= Units
ListsFit(F) == F \in Lists /\ \A k \in Orders : \A o \in F[k] : Fitting(o, k)
(* The siblings on the way from the block of u of order k up to that of j. *)
SibsOf(u, k, j) == {<<Sib(u, i), i>> : i \in k .. j - 1}

LEMMA Below == ASSUME NEW j \in 0 .. MaxOrder, NEW k \in Orders, NEW i \in k .. j - 1
               PROVE  i \in Orders /\ i + 1 \in Orders /\ i < j /\ i \in 0 .. MaxOrder /\ j \in Orders
BY MaxOrderIs DEF Orders

LEMMA SibsCut ==
  ASSUME NEW o \in Nat, NEW k \in Orders, NEW j \in 0 .. MaxOrder, k <= j, NEW x, NEW y
  PROVE  Cut(<<x, Al(o, j), Size[j]>>, Named(SibsOf(o, k, j)) \cup {<<y, Al(o, k), Size[k]>>})
<1> DEFINE p == <<x, Al(o, j), Size[j]>>
           q == <<y, Al(o, k), Size[k]>>
           s(i) == <<"free", Sib(o, i), Size[i]>>
<1>1. Named(SibsOf(o, k, j)) = {s(i) : i \in k .. j - 1}
  <2>1. ASSUME NEW b \in Named(SibsOf(o, k, j)) PROVE \E i \in k .. j - 1 : b = s(i)
    <3>1. PICK c \in SibsOf(o, k, j) : b = <<"free", c[1], Size[c[2]]>>
      BY <2>1 DEF Named
    <3>2. PICK i \in k .. j - 1 : c = <<Sib(o, i), i>>
      BY <3>1 DEF SibsOf
    <3>3. c[1] = Sib(o, i) /\ c[2] = i
      BY <3>2
    <3> QED BY <3>1, <3>3
  <2>2. ASSUME NEW i \in k .. j - 1 PROVE s(i) \in Named(SibsOf(o, k, j))
    <3>1. PICK c : c = <<Sib(o, i), i>>
      OBVIOUS
    <3>2. c \in SibsOf(o, k, j) /\ c[1] = Sib(o, i) /\ c[2] = i
      BY <3>1 DEF SibsOf
    <3>3. s(i) = <<"free", c[1], Size[c[2]]>>
      BY <3>2
    <3> HIDE DEF s
    <3> QED BY <3>2, <3>3 DEF Named
  <2> HIDE DEF s
  <2> QED BY <2>1, <2>2
<1> SUFFICES ASSUME NEW u \in Arena
             PROVE  /\ Covers(p, u) <=> Covers(q, u) \/ \E i \in k .. j - 1 : Covers(s(i), u)
                    /\ \A i \in k .. j - 1 : Covers(s(i), u) =>
                         /\ ~Covers(q, u)
                         /\ \A h \in k .. j - 1 : Covers(s(h), u) => h = i
  <2> HIDE DEF s, p, q
  <2> QED BY <1>1 DEF Cut, p, q
<1>2. u \in Nat /\ j \in Orders
  BY MaxOrderIs DEF Arena, Orders
<1>3. Covers(p, u) <=> Idx(u, j) = Idx(o, j)
  <2>1. PICK a \in Nat : a = Al(o, j) /\ a % Size[j] = 0 /\ Idx(a, j) = Idx(o, j)
    BY <1>2, AlIs
  <2>2. Covers(<<x, a, Size[j]>>, u) <=> Idx(u, j) = Idx(a, j)
    BY <1>2, <2>1, BlockCovers
  <2> QED BY <2>1, <2>2
<1>4. Covers(q, u) <=> Idx(u, k) = Idx(o, k)
  <2>1. PICK a \in Nat : a = Al(o, k) /\ a % Size[k] = 0 /\ Idx(a, k) = Idx(o, k)
    BY AlIs
  <2>2. Covers(<<y, a, Size[k]>>, u) <=> Idx(u, k) = Idx(a, k)
    BY <1>2, <2>1, BlockCovers
  <2> QED BY <2>1, <2>2
<1>5. \A i \in k .. j - 1 : Covers(s(i), u) <=> Idx(u, i) = Idx(Sib(o, i), i)
  <2> SUFFICES ASSUME NEW i \in k .. j - 1 PROVE Covers(s(i), u) <=> Idx(u, i) = Idx(Sib(o, i), i)
    OBVIOUS
  <2>1. i \in Orders
    BY Below
  <2>2. PICK a \in Nat : a = Sib(o, i) /\ a % Size[i] = 0
    BY <2>1, SibIs
  <2>3. \A z : Covers(<<z, a, Size[i]>>, u) <=> Idx(u, i) = Idx(a, i)
    BY <1>2, <2>1, <2>2, BlockCovers
  <2> QED BY <2>2, <2>3
<1> HIDE DEF s, p, q
<1> QED BY <1>2, <1>3, <1>4, <1>5, Levels

(* A block is in the arena if all its units are. *)
LEMMA FitsWhole ==
  ASSUME NEW a \in Nat, NEW k \in 0 .. MaxOrder, a % Size[k] = 0
  PROVE  Fitting(a, k) <=> \A u \in Nat : Idx(u, k) = Idx(a, k) => u \in Arena
<1>0. k \in Orders
  BY MaxOrderIs DEF Orders
<1>1. PICK s \in Nat \ {0} : s = Size[k]
  BY <1>0, Sizes
<1>2. ASSUME NEW u \in Nat PROVE (a <= u /\ u < a + s) <=> Idx(u, k) = Idx(a, k)
  BY <1>0, <1>1, <1>2, BlockCovers DEF Covers
<1>3. ASSUME Fitting(a, k), NEW u \in Nat, Idx(u, k) = Idx(a, k) PROVE u \in Arena
  BY <1>1, <1>2, <1>3 DEF Fitting, Arena
<1>4. ASSUME \A u \in Nat : Idx(u, k) = Idx(a, k) => u \in Arena PROVE Fitting(a, k)
  <2>1. a + s - 1 \in Nat /\ a <= a + s - 1 /\ a + s - 1 < a + s /\ a <= a /\ a < a + s
    BY <1>1
  <2>2. a + s - 1 \in Arena /\ a \in Arena
    BY <1>2, <1>4, <2>1
  <2>3. a + s <= Units
    BY <1>1, <2>2 DEF Arena
  <2> QED BY <1>1, <2>2, <2>3 DEF Fitting
<1> QED BY <1>3, <1>4
LEMMA SibsFit ==
  ASSUME NEW o \in Nat, NEW k \in Orders, NEW j \in 0 .. MaxOrder, k <= j, Fitting(Al(o, j), j)
  PROVE  /\ Fitting(Al(o, k), k)
         /\ \A i \in k .. j - 1 : Fitting(Sib(o, i), i)
         /\ SibsOf(o, k, j) \in BlockSets
<1>1. j \in Orders /\ k \in 0 .. MaxOrder
  BY MaxOrderIs DEF Orders
<1>2. \A u \in Nat : Idx(u, j) = Idx(o, j) => u \in Arena
  BY <1>1, AlIs, FitsWhole
<1>3. Fitting(Al(o, k), k)
  <2>1. \A u \in Nat : Idx(u, k) = Idx(o, k) => u \in Arena
    BY <1>1, <1>2, SameUp
  <2> QED BY <1>1, <2>1, AlIs, FitsWhole
<1>4. ASSUME NEW i \in k .. j - 1 PROVE Fitting(Sib(o, i), i)
  <2>1. i \in Orders /\ i \in 0 .. MaxOrder
    BY Below
  <2>2. \A u \in Nat : Idx(u, i) = Idx(Sib(o, i), i) => u \in Arena
    BY <1>1, <1>2, Levels
  <2> QED BY <2>1, <2>2, SibIs, FitsWhole
<1>5. SibsOf(o, k, j) \in BlockSets
  BY <1>4, Below DEF SibsOf, Fitting, BlockSets
<1> QED BY <1>3, <1>4, <1>5
LEMMA JoinFits ==
  ASSUME NEW o \in Nat, NEW k \in Orders, NEW j \in 0 .. MaxOrder, k <= j,
         Fitting(Al(o, k), k), \A i \in k .. j - 1 : Fitting(Sib(o, i), i)
  PROVE  Fitting(Al(o, j), j) /\ SibsOf(o, k, j) \in BlockSets
<1>1. j \in Orders /\ k \in 0 .. MaxOrder
  BY MaxOrderIs DEF Orders
<1>2. \A u \in Nat : Idx(u, k) = Idx(o, k) => u \in Arena
  BY <1>1, AlIs, FitsWhole
<1>3. ASSUME NEW i \in k .. j - 1, NEW u \in Nat, Idx(u, i) = Idx(Sib(o, i), i) PROVE u \in Arena
  <2>1. i \in Orders /\ i \in 0 .. MaxOrder
    BY Below
  <2> QED BY <1>3, <2>1, SibIs, FitsWhole
<1>4. \A u \in Nat : Idx(u, j) = Idx(o, j) => u \in Arena
  BY <1>1, <1>2, <1>3, Levels
<1>5. Fitting(Al(o, j), j)
  BY <1>1, <1>4, AlIs, FitsWhole
<1>6. SibsOf(o, k, j) \in BlockSets
  BY Below DEF SibsOf, Fitting, BlockSets
<1> QED BY <1>5, <1>6

(* The lists after a block is cut down: its place is taken by the upper     *)
(* halves, which are the siblings of the units it begins with.              *)
LEMMA HalvesAre ==
  ASSUME NEW o, NEW k, Fitting(o, k), NEW i \in Orders, i <= k
  PROVE  o \in Nat /\ k \in Orders /\ Al(o, i) = o /\ (i < k => Sib(o, i) = o + Size[i])
<1> o \in Nat /\ k \in Orders
  BY MaxOrderIs DEF Fitting, Orders, Arena
<1> QED BY LowHalf DEF Fitting
LEMMA SplitLists ==
  ASSUME NEW F, ListsFit(F), NEW k \in Orders, NEW o \in F[k], NEW want \in Orders, want <= k
  PROVE  /\ ListsFit(SplitDown(F, o, k, want))
         /\ SibsOf(o, want, k) \in BlockSets
         /\ FreeOf(SplitDown(F, o, k, want))
              = (FreeOf(F) \ {<<"free", o, Size[k]>>}) \cup Named(SibsOf(o, want, k))
<1>1. Fitting(o, k) /\ F \in Lists /\ o \in Arena /\ k \in 0 .. MaxOrder /\ o \in Nat
  BY DEF ListsFit, Fitting, Arena
<1>2. Al(o, k) = o /\ \A i \in Orders : i < k => Sib(o, i) = o + Size[i]
  BY <1>1, HalvesAre
<1>3. /\ \A i \in want .. k - 1 : Fitting(Sib(o, i), i)
      /\ SibsOf(o, want, k) \in BlockSets
  BY <1>1, <1>2, SibsFit
<1> DEFINE G == SplitDown(F, o, k, want)
<1>4. ASSUME NEW i \in Orders
      PROVE  G[i] = IF i = k THEN F[i] \ {o}
                    ELSE IF want <= i /\ i < k THEN F[i] \cup {Sib(o, i)} ELSE F[i]
  BY <1>2 DEF SplitDown
<1>5. G = [i \in Orders |-> G[i]]
  BY DEF SplitDown
<1> HIDE DEF G
<1>6. ASSUME NEW i \in Orders, NEW x \in G[i] PROVE Fitting(x, i)
  <2>1. x \in F[i] \/ (want <= i /\ i < k /\ x = Sib(o, i))
    BY <1>4, <1>6
  <2>2. want <= i /\ i < k => i \in want .. k - 1
    BY DEF Orders
  <2> QED BY <1>3, <2>1, <2>2 DEF ListsFit
<1>7. G \in Lists
  <2>1. \A i \in Orders : G[i] \subseteq Arena
    BY <1>6 DEF Fitting
  <2> QED BY <1>5, <2>1 DEF Lists
<1>8. ASSUME NEW i \in Orders, NEW x \in Arena
      PROVE  x \in G[i] <=> <<x, i>> \in SibsOf(o, want, k) \/ (x \in F[i] /\ <<x, i>> \notin {<<o, k>>})
  <2>1. <<x, i>> \in SibsOf(o, want, k) <=> want <= i /\ i < k /\ x = Sib(o, i)
    BY DEF SibsOf, Orders
  <2>2. <<x, i>> \in {<<o, k>>} <=> x = o /\ i = k
    OBVIOUS
  <2>3. ~(i = k /\ i < k)
    BY DEF Orders
  <2> QED BY <1>4, <2>1, <2>2, <2>3
<1>9. Named({<<o, k>>}) = {<<"free", o, Size[k]>>}
  BY DEF Named
<1>10. FreeOf(G) = (FreeOf(F) \ Named({<<o, k>>})) \cup Named(SibsOf(o, want, k))
  <2>1. {<<o, k>>} \in BlockSets
    BY <1>1 DEF BlockSets
  <2>2. Turns(F, G, {<<o, k>>}, SibsOf(o, want, k))
    BY <1>8 DEF Turns
  <2> QED BY <1>1, <1>3, <1>7, <2>1, <2>2, FreeChange
<1> QED BY <1>3, <1>6, <1>7, <1>9, <1>10 DEF ListsFit, G

(* The lists after a block is freed: it and the siblings it met are one     *)
(* block of the order reached.                                              *)
LEMMA MergeIs ==
  ASSUME NEW F, NEW o, NEW k \in 0 .. MaxOrder
  PROVE  /\ MergeTo(F, o, k) \in k .. MaxOrder
         /\ \A i \in k .. MergeTo(F, o, k) - 1 : Sib(o, i) \in F[i]
         /\ MergeTo(F, o, k) = MaxOrder \/ Sib(o, MergeTo(F, o, k)) \notin F[MergeTo(F, o, k)]
<1> DEFINE S == {n \in k .. MaxOrder : n = MaxOrder \/ Sib(o, n) \notin F[n]}
<1>0. MaxOrder \in Nat
  BY MaxOrderIs DEF Orders
<1>1. MaxOrder \in S /\ S \in SUBSET Nat
  BY <1>0
<1>2. PICK j \in S : \A n \in S : j <= n
  <2> HIDE DEF S
  <2> QED BY <1>1, LeastIn
<1>3. j \in k .. MaxOrder /\ (j = MaxOrder \/ Sib(o, j) \notin F[j])
  BY <1>2
<1>4. \A i \in k .. j - 1 : Sib(o, i) \in F[i]
  <2> SUFFICES ASSUME NEW i \in k .. j - 1, Sib(o, i) \notin F[i] PROVE FALSE
    OBVIOUS
  <2>1. i \in S
    BY <1>0, <1>3
  <2>2. j <= i
    BY <1>2, <2>1
  <2> QED BY <1>0, <1>3, <2>2
<1> QED BY <1>3, <1>4 DEF MergeTo

LEMMA JoinLists ==
  ASSUME NEW F, ListsFit(F), NEW o, NEW k, Fitting(o, k)
  PROVE  LET j == MergeTo(F, o, k) IN
         /\ j \in 0 .. MaxOrder /\ k \in Orders /\ k <= j /\ o \in Nat
         /\ ListsFit(FreeLocked(F, o, k))
         /\ Named(SibsOf(o, k, j)) \subseteq FreeOf(F)
         /\ FreeOf(FreeLocked(F, o, k))
              = (FreeOf(F) \ Named(SibsOf(o, k, j))) \cup {<<"free", Al(o, j), Size[j]>>}
<1> DEFINE j == MergeTo(F, o, k)
           G == FreeLocked(F, o, k)
<1>1. k \in 0 .. MaxOrder /\ o \in Nat /\ F \in Lists /\ MaxOrder \in Nat
  BY MaxOrderIs DEF ListsFit, Fitting, Arena, Orders
<1>2. j \in k .. MaxOrder /\ \A i \in k .. j - 1 : Sib(o, i) \in F[i]
  BY <1>1, MergeIs
<1>3. j \in 0 .. MaxOrder /\ k <= j /\ k \in Orders /\ j \in Orders
  BY <1>1, <1>2, MaxOrderIs DEF Orders
<1>4. ASSUME NEW i \in Orders
      PROVE  G[i] = IF i = j THEN F[i] \cup {Al(o, j)}
                    ELSE IF k <= i /\ i < j THEN F[i] \ {Sib(o, i)} ELSE F[i]
  BY DEF FreeLocked
<1>5. G = [i \in Orders |-> G[i]]
  BY DEF FreeLocked
<1> HIDE DEF G, j
<1>6. Al(o, k) = o
  BY <1>3, HalvesAre
<1>7. \A i \in k .. j - 1 : Fitting(Sib(o, i), i)
  BY <1>2, <1>3, Below DEF ListsFit
<1>8. Fitting(Al(o, j), j) /\ SibsOf(o, k, j) \in BlockSets
  BY <1>1, <1>3, <1>6, <1>7, JoinFits
<1>9. ASSUME NEW i \in Orders, NEW x \in G[i] PROVE Fitting(x, i)
  <2>1. x \in F[i] \/ (i = j /\ x = Al(o, j))
    BY <1>4, <1>9
  <2> QED BY <1>8, <2>1 DEF ListsFit
<1>10. G \in Lists
  <2>1. \A i \in Orders : G[i] \subseteq Arena
    BY <1>9 DEF Fitting
  <2> QED BY <1>5, <2>1 DEF Lists
<1>11. Turns(F, G, SibsOf(o, k, j), {<<Al(o, j), j>>})
  <2> SUFFICES ASSUME NEW i \in Orders, NEW x \in Arena
               PROVE  x \in G[i] <=> <<x, i>> \in {<<Al(o, j), j>>}
                                       \/ (x \in F[i] /\ <<x, i>> \notin SibsOf(o, k, j))
    BY DEF Turns
  <2>1. <<x, i>> \in SibsOf(o, k, j) <=> k <= i /\ i < j /\ x = Sib(o, i)
    BY <1>3 DEF SibsOf, Orders
  <2>2. <<x, i>> \in {<<Al(o, j), j>>} <=> x = Al(o, j) /\ i = j
    OBVIOUS
  <2>3. ~(i = j /\ i < j)
    BY <1>3 DEF Orders
  <2> QED BY <1>4, <2>1, <2>2, <2>3
<1>12. Named({<<Al(o, j), j>>}) = {<<"free", Al(o, j), Size[j]>>}
  BY DEF Named
<1>13. FreeOf(G) = (FreeOf(F) \ Named(SibsOf(o, k, j))) \cup Named({<<Al(o, j), j>>})
  <2>1. {<<Al(o, j), j>>} \in BlockSets
    BY <1>3, <1>8 DEF BlockSets, Fitting
  <2> QED BY <1>1, <1>8, <1>10, <1>11, <2>1, FreeChange
<1>14. Named(SibsOf(o, k, j)) \subseteq FreeOf(F)
  <2>1. SibsOf(o, k, j) \subseteq {x \in Arena \X Orders : x[1] \in F[x[2]]}
    BY <1>2, <1>7, Below, <1>3 DEF SibsOf, Fitting
  <2> QED BY <2>1 DEF Named, FreeOf
<1> QED BY <1>1, <1>3, <1>9, <1>10, <1>12, <1>13, <1>14 DEF ListsFit, G, j

(* The lists after a unit is taken out of the free block around it.         *)
LEMMA TakeLists ==
  ASSUME NEW F, ListsFit(F), NEW u \in Arena, Around(F, u) # {}
  PROVE  \E k \in 0 .. MaxOrder :
           /\ ListsFit(TakeUnit(F, u))
           /\ <<"free", Al(u, k), Size[k]>> \in FreeOf(F)
           /\ FreeOf(TakeUnit(F, u))
                = (FreeOf(F) \ {<<"free", Al(u, k), Size[k]>>}) \cup Named(SibsOf(u, 0, k))
<1>1. PICK k : k = CHOOSE j \in Around(F, u) : TRUE
  OBVIOUS
<1>2. k \in Orders /\ Al(u, k) \in F[k]
  BY <1>1 DEF Around
<1>3. Fitting(Al(u, k), k) /\ F \in Lists /\ u \in Nat /\ 0 \in Orders
  BY <1>2 DEF ListsFit, Arena, Orders
<1>4. k \in 0 .. MaxOrder /\ MaxOrder \in Nat /\ Al(u, k) \in Arena /\ 0 <= k
  BY <1>3, MaxOrderIs DEF Fitting, Orders
<1>5. /\ \A i \in 0 .. k - 1 : Fitting(Sib(u, i), i)
      /\ SibsOf(u, 0, k) \in BlockSets
  BY <1>3, <1>4, SibsFit
<1> DEFINE G == TakeUnit(F, u)
<1>6. ASSUME NEW i \in Orders
      PROVE  G[i] = IF i = k THEN F[i] \ {Al(u, k)}
                    ELSE IF i < k THEN F[i] \cup {Sib(u, i)} ELSE F[i]
  BY <1>1 DEF TakeUnit
<1>7. G = [i \in Orders |-> G[i]]
  BY DEF TakeUnit
<1> HIDE DEF G
<1>8. ASSUME NEW i \in Orders, NEW x \in G[i] PROVE Fitting(x, i)
  <2>1. x \in F[i] \/ (i < k /\ x = Sib(u, i))
    BY <1>6, <1>8
  <2>2. i < k => i \in 0 .. k - 1
    BY <1>2 DEF Orders
  <2> QED BY <1>5, <2>1, <2>2, <1>3 DEF ListsFit
<1>9. G \in Lists
  <2>1. \A i \in Orders : G[i] \subseteq Arena
    BY <1>8 DEF Fitting
  <2> QED BY <1>7, <2>1 DEF Lists
<1>10. Turns(F, G, {<<Al(u, k), k>>}, SibsOf(u, 0, k))
  <2> SUFFICES ASSUME NEW i \in Orders, NEW x \in Arena
               PROVE  x \in G[i] <=> <<x, i>> \in SibsOf(u, 0, k)
                                       \/ (x \in F[i] /\ <<x, i>> \notin {<<Al(u, k), k>>})
    BY DEF Turns
  <2>1. <<x, i>> \in SibsOf(u, 0, k) <=> i < k /\ x = Sib(u, i)
    BY <1>2 DEF SibsOf, Orders
  <2>2. <<x, i>> \in {<<Al(u, k), k>>} <=> x = Al(u, k) /\ i = k
    OBVIOUS
  <2>3. ~(i = k /\ i < k)
    BY <1>2 DEF Orders
  <2> QED BY <1>6, <2>1, <2>2, <2>3
<1>11. Named({<<Al(u, k), k>>}) = {<<"free", Al(u, k), Size[k]>>}
  BY DEF Named
<1>12. {<<Al(u, k), k>>} \in BlockSets
  BY <1>2, <1>4 DEF BlockSets
<1>13. FreeOf(G) = (FreeOf(F) \ Named({<<Al(u, k), k>>})) \cup Named(SibsOf(u, 0, k))
  BY <1>3, <1>5, <1>9, <1>10, <1>12, FreeChange
<1>14. <<"free", Al(u, k), Size[k]>> \in FreeOf(F)
  <2>1. PICK b : b = <<Al(u, k), k>>
    OBVIOUS
  <2>2. b[1] = Al(u, k) /\ b[2] = k /\ b \in {x \in Arena \X Orders : x[1] \in F[x[2]]}
    BY <1>2, <1>4, <2>1
  <2>3. <<"free", b[1], Size[b[2]]>> \in FreeOf(F)
    BY <2>2 DEF FreeOf, Named
  <2> QED BY <2>2, <2>3
<1> QED BY <1>4, <1>8, <1>9, <1>11, <1>13, <1>14 DEF ListsFit, G

(* Together with pieces that are not free: a block is cut off the lists, is *)
(* freed into them, is halved, grows over the free siblings above it.       *)
NotFree(O) == \A p \in O : p[1] # "free"
LEMMA NamedFree == ASSUME NEW B PROVE \A p \in Named(B) : p[1] = "free"
BY DEF Named
LEMMA FreeFree == ASSUME NEW F PROVE \A p \in FreeOf(F) : p[1] = "free"
BY NamedFree DEF FreeOf
LEMMA TilesSplit ==
  ASSUME NEW F, ListsFit(F), NEW k \in Orders, NEW o \in F[k], NEW want \in Orders, want <= k,
         NEW O, NotFree(O), NEW y, y # "free", Tiles(FreeOf(F) \cup O)
  PROVE  /\ ListsFit(SplitDown(F, o, k, want))
         /\ Tiles(FreeOf(SplitDown(F, o, k, want)) \cup O \cup {<<y, o, Size[want]>>})
<1>1. Fitting(o, k) /\ k \in 0 .. MaxOrder /\ o \in Arena /\ o \in Nat
  BY DEF ListsFit, Fitting, Arena
<1>2. Al(o, k) = o /\ Al(o, want) = o
  <2>1. k <= k
    BY DEF Orders
  <2>2. Al(o, k) = o
    BY <1>1, <2>1, HalvesAre
  <2>3. Al(o, want) = o
    BY <1>1, HalvesAre
  <2> QED BY <2>2, <2>3
<1>3. PICK G : G = SplitDown(F, o, k, want)
  OBVIOUS
<1>4. PICK S : S = Named(SibsOf(o, want, k))
  OBVIOUS
<1>5. PICK p : p = <<"free", o, Size[k]>>
  OBVIOUS
<1>6. PICK q : q = <<y, o, Size[want]>>
  OBVIOUS
<1>7. ListsFit(G) /\ FreeOf(G) = (FreeOf(F) \ {p}) \cup S
  BY <1>3, <1>4, <1>5, SplitLists
<1>8. Cut(p, S \cup {q})
  BY <1>1, <1>2, <1>4, <1>5, <1>6, SibsCut
<1>9. p \in FreeOf(F) /\ p \notin O
  <2>1. PICK b : b = <<o, k>>
    OBVIOUS
  <2>2. b[1] = o /\ b[2] = k /\ b \in {x \in Arena \X Orders : x[1] \in F[x[2]]}
    BY <1>1, <2>1
  <2>3. p \in FreeOf(F)
    BY <1>5, <2>2 DEF FreeOf, Named
  <2>4. p[1] = "free"
    BY <1>5
  <2> QED BY <2>3, <2>4 DEF NotFree
<1>10. FreeOf(G) \cup O \cup {q} = ((FreeOf(F) \cup O) \ {p}) \cup (S \cup {q})
  BY <1>7, <1>9, Zenon
<1>11. Tiles(FreeOf(G) \cup O \cup {q})
  BY <1>8, <1>9, <1>10, CutTiles
<1> QED BY <1>3, <1>6, <1>7, <1>11
LEMMA TilesMerge ==
  ASSUME NEW F, ListsFit(F), NEW o, NEW k, Fitting(o, k), NEW O, NotFree(O),
         NEW y, y # "free", <<y, o, Size[k]>> \notin O, Tiles(FreeOf(F) \cup O \cup {<<y, o, Size[k]>>})
  PROVE  /\ ListsFit(FreeLocked(F, o, k))
         /\ Tiles(FreeOf(FreeLocked(F, o, k)) \cup O)
<1>1. PICK j : j = MergeTo(F, o, k)
  OBVIOUS
<1>2. PICK G : G = FreeLocked(F, o, k)
  OBVIOUS
<1>3. PICK S : S = Named(SibsOf(o, k, j))
  OBVIOUS
<1>4. PICK f : f = <<"free", Al(o, j), Size[j]>>
  OBVIOUS
<1>5. PICK q : q = <<y, o, Size[k]>>
  OBVIOUS
<1>6. /\ j \in 0 .. MaxOrder /\ k \in Orders /\ k <= j /\ o \in Nat
      /\ ListsFit(G) /\ S \subseteq FreeOf(F) /\ FreeOf(G) = (FreeOf(F) \ S) \cup {f}
  BY <1>1, <1>2, <1>3, <1>4, JoinLists
<1>7. Al(o, k) = o
  <2>1. k <= k
    BY <1>6 DEF Orders
  <2> QED BY <1>6, <2>1, HalvesAre
<1>8. Cut(f, S \cup {q})
  BY <1>3, <1>4, <1>5, <1>6, <1>7, SibsCut
<1>9. S \cap O = {} /\ q \notin FreeOf(F) /\ q \notin O
  <2>1. q[1] = y
    BY <1>5
  <2> QED BY <1>3, <1>5, <2>1, NamedFree, FreeFree DEF NotFree
<1>10. FreeOf(G) \cup O = ((FreeOf(F) \cup O \cup {q}) \ (S \cup {q})) \cup {f}
  BY <1>6, <1>9, Zenon
<1>11. Tiles(FreeOf(G) \cup O)
  <2>1. S \cup {q} \subseteq FreeOf(F) \cup O \cup {q}
    BY <1>6
  <2>2. Tiles(FreeOf(F) \cup O \cup {q})
    BY <1>5
  <2> QED BY <1>8, <1>10, <2>1, <2>2, JoinTiles
<1> QED BY <1>2, <1>6, <1>11
LEMMA TilesTake ==
  ASSUME NEW F, ListsFit(F), NEW u \in Arena, Around(F, u) # {},
         NEW O, NotFree(O), NEW y, y # "free", Tiles(FreeOf(F) \cup O)
  PROVE  /\ ListsFit(TakeUnit(F, u))
         /\ Tiles(FreeOf(TakeUnit(F, u)) \cup O \cup {<<y, u, 1>>})
<1>1. PICK G : G = TakeUnit(F, u)
  OBVIOUS
<1>2. PICK k \in 0 .. MaxOrder :
        /\ ListsFit(G)
        /\ <<"free", Al(u, k), Size[k]>> \in FreeOf(F)
        /\ FreeOf(G) = (FreeOf(F) \ {<<"free", Al(u, k), Size[k]>>}) \cup Named(SibsOf(u, 0, k))
  BY <1>1, TakeLists
<1>3. PICK S : S = Named(SibsOf(u, 0, k))
  OBVIOUS
<1>4. PICK p : p = <<"free", Al(u, k), Size[k]>>
  OBVIOUS
<1>5. PICK q : q = <<y, u, 1>>
  OBVIOUS
<1>6. u \in Nat /\ 0 \in Orders /\ 0 <= k
  BY DEF Arena, Orders
<1>7. Al(u, 0) = u /\ Size[0] = 1
  BY <1>6, Sizes DEF Al
<1>8. Cut(p, S \cup {q})
  BY <1>3, <1>4, <1>5, <1>6, <1>7, SibsCut
<1>9. p \in FreeOf(F) /\ p \notin O
  <2>1. p[1] = "free"
    BY <1>4
  <2> QED BY <1>2, <1>4, <2>1 DEF NotFree
<1>10. FreeOf(G) \cup O \cup {q} = ((FreeOf(F) \cup O) \ {p}) \cup (S \cup {q})
  BY <1>2, <1>3, <1>4, <1>9, Zenon
<1>11. Tiles(FreeOf(G) \cup O \cup {q})
  BY <1>8, <1>9, <1>10, CutTiles
<1> QED BY <1>1, <1>2, <1>5, <1>11
Halved(F, o, k, want) ==
  [j \in Orders |-> IF want <= j /\ j < k THEN F[j] \cup {o + Size[j]} ELSE F[j]]
LEMMA TilesHalve ==
  ASSUME NEW F, ListsFit(F), NEW o, NEW k, Fitting(o, k), NEW want \in Orders, want <= k,
         NEW O, NotFree(O), NEW y, y # "free", <<y, o, Size[k]>> \notin O,
         Tiles(FreeOf(F) \cup O \cup {<<y, o, Size[k]>>})
  PROVE  /\ ListsFit(Halved(F, o, k, want))
         /\ Tiles(FreeOf(Halved(F, o, k, want)) \cup O \cup {<<y, o, Size[want]>>})
<1>1. PICK G : G = Halved(F, o, k, want)
  OBVIOUS
<1>2. PICK S : S = Named(SibsOf(o, want, k))
  OBVIOUS
<1>3. PICK p : p = <<y, o, Size[k]>>
  OBVIOUS
<1>4. PICK q : q = <<y, o, Size[want]>>
  OBVIOUS
<1>5. k \in 0 .. MaxOrder /\ k \in Orders /\ o \in Nat /\ F \in Lists /\ k <= k
  BY MaxOrderIs DEF Fitting, ListsFit, Arena, Orders
<1>6. Al(o, k) = o /\ Al(o, want) = o /\ \A i \in Orders : i < k => Sib(o, i) = o + Size[i]
  <2>1. \A i \in Orders : i < k => i <= k
    BY <1>5 DEF Orders
  <2> QED BY <1>5, <2>1, HalvesAre
<1>7. /\ \A i \in want .. k - 1 : Fitting(Sib(o, i), i)
      /\ SibsOf(o, want, k) \in BlockSets
  BY <1>5, <1>6, SibsFit
<1>8. ASSUME NEW i \in Orders
      PROVE  G[i] = IF want <= i /\ i < k THEN F[i] \cup {Sib(o, i)} ELSE F[i]
  BY <1>1, <1>6 DEF Halved
<1>9. G = [i \in Orders |-> G[i]]
  BY <1>1 DEF Halved
<1>10. ASSUME NEW i \in Orders, NEW x \in G[i] PROVE Fitting(x, i)
  <2>1. x \in F[i] \/ (want <= i /\ i < k /\ x = Sib(o, i))
    BY <1>8, <1>10
  <2>2. want <= i /\ i < k => i \in want .. k - 1
    BY <1>5 DEF Orders
  <2> QED BY <1>7, <2>1, <2>2 DEF ListsFit
<1>11. G \in Lists
  <2>1. \A i \in Orders : G[i] \subseteq Arena
    BY <1>10 DEF Fitting
  <2> QED BY <1>9, <2>1 DEF Lists
<1>12. Turns(F, G, {}, SibsOf(o, want, k))
  <2> SUFFICES ASSUME NEW i \in Orders, NEW x \in Arena
               PROVE  x \in G[i] <=> <<x, i>> \in SibsOf(o, want, k) \/ x \in F[i]
    BY DEF Turns
  <2>1. <<x, i>> \in SibsOf(o, want, k) <=> want <= i /\ i < k /\ x = Sib(o, i)
    BY <1>5 DEF SibsOf, Orders
  <2> QED BY <1>8, <2>1
<1>13. FreeOf(G) = FreeOf(F) \cup S
  <2>1. {} \in BlockSets /\ Named({}) = {}
    BY DEF BlockSets, Named
  <2>2. FreeOf(G) = (FreeOf(F) \ Named({})) \cup Named(SibsOf(o, want, k))
    BY <1>5, <1>7, <1>11, <1>12, <2>1, FreeChange
  <2> QED BY <1>2, <2>1, <2>2
<1>14. Cut(p, S \cup {q})
  BY <1>2, <1>3, <1>4, <1>5, <1>6, SibsCut
<1>15. p \notin FreeOf(F) /\ p \notin O
  <2>1. p[1] = y
    BY <1>3
  <2> QED BY <1>3, <2>1, FreeFree
<1>16. FreeOf(G) \cup O \cup {q} = ((FreeOf(F) \cup O \cup {p}) \ {p}) \cup (S \cup {q})
  BY <1>13, <1>15, Zenon
<1>17. Tiles(FreeOf(G) \cup O \cup {q})
  <2>1. p \in FreeOf(F) \cup O \cup {p} /\ Tiles(FreeOf(F) \cup O \cup {p})
    BY <1>3
  <2> QED BY <1>14, <1>16, <2>1, CutTiles
<1>18. ListsFit(G)
  BY <1>10, <1>11 DEF ListsFit
<1> QED BY <1>1, <1>4, <1>17, <1>18

LEMMA HighHalf ==
  ASSUME NEW o \in Nat, NEW i \in Orders, i + 1 \in Orders, o % Size[i] = 0,
         Sib(o, i) = o + Size[i]
  PROVE  o % Size[i + 1] = 0
<1>1. PICK s \in Nat \ {0} : s = Size[i] /\ Size[i + 1] = 2 * s
  BY Sizes
<1>2. PICK q \in Nat : q = o \div s /\ o = s * q
  <2>1. o % s = 0
    BY <1>1
  <2> QED BY <1>1, <2>1, Divides
<1>3. Al(o, i) = o
  BY <1>1, <1>2 DEF Al
<1>4. q % 2 = 0
  BY <1>1, <1>2, <1>3 DEF Sib
<1>5. PICK t \in Nat : q = 2 * t
  BY <1>2, <1>4
<1>6. PICK d \in Nat \ {0} : d = 2 * s
  BY <1>1
<1>7. o = t * d
  BY <1>1, <1>2, <1>5, <1>6
<1>8. (t * d) % d = 0
  BY <1>5, <1>6, Multiple
<1> QED BY <1>1, <1>6, <1>7, <1>8
Absorbed(F, o, k, j) == [i \in Orders |-> IF k <= i /\ i < j THEN F[i] \ {o + Size[i]} ELSE F[i]]
LEMMA TilesAbsorb ==
  ASSUME NEW F, ListsFit(F), NEW o, NEW k, Fitting(o, k), NEW j \in 0 .. MaxOrder, k <= j,
         \A i \in k .. j - 1 : Sib(o, i) = o + Size[i] /\ o + Size[i] \in F[i],
         NEW O, NotFree(O), NEW y, y # "free", <<y, o, Size[k]>> \notin O,
         Tiles(FreeOf(F) \cup O \cup {<<y, o, Size[k]>>})
  PROVE  /\ ListsFit(Absorbed(F, o, k, j)) /\ Fitting(o, j)
         /\ Tiles(FreeOf(Absorbed(F, o, k, j)) \cup O \cup {<<y, o, Size[j]>>})
<1>1. PICK G : G = Absorbed(F, o, k, j)
  OBVIOUS
<1>2. PICK S : S = Named(SibsOf(o, k, j))
  OBVIOUS
<1>3. PICK p : p = <<y, o, Size[j]>>
  OBVIOUS
<1>4. PICK q : q = <<y, o, Size[k]>>
  OBVIOUS
<1>5. /\ k \in 0 .. MaxOrder /\ k \in Orders /\ j \in Orders /\ o \in Nat /\ F \in Lists /\ k <= k
      /\ o % Size[k] = 0
  BY MaxOrderIs DEF Fitting, ListsFit, Arena, Orders
<1>6. o % Size[j] = 0
  <2> DEFINE T == {i \in Nat : i \in Orders => o % Size[i] = 0}
  <2>1. k \in T /\ k \in Nat /\ j \in Nat
    BY <1>5 DEF Orders
  <2>2. ASSUME NEW i \in Nat, i \in T, k <= i, i < j PROVE i + 1 \in T
    <3>1. i \in k .. j - 1 /\ i \in Orders /\ i + 1 \in Orders
      BY <1>5, <2>2 DEF Orders
    <3> QED BY <1>5, <2>2, <3>1, HighHalf
  <2>3. \A i \in k .. j : i \in T
    <3> HIDE DEF T
    <3> QED BY <2>1, <2>2, UpTo
  <2> QED BY <1>5, <2>1, <2>3
<1>7. Al(o, k) = o /\ Al(o, j) = o
  <2>1. j <= j
    BY <1>5 DEF Orders
  <2> QED BY <1>5, <1>6, <2>1, LowHalf
<1>8. \A i \in k .. j - 1 : Fitting(Sib(o, i), i) /\ Sib(o, i) \in F[i]
  BY <1>5, Below DEF ListsFit
<1>9. Fitting(o, j) /\ SibsOf(o, k, j) \in BlockSets
  BY <1>5, <1>7, <1>8, JoinFits
<1>10. ASSUME NEW i \in Orders
       PROVE  G[i] = IF k <= i /\ i < j THEN F[i] \ {Sib(o, i)} ELSE F[i]
  <2>1. k <= i /\ i < j => i \in k .. j - 1
    BY <1>5 DEF Orders
  <2> QED BY <1>1, <2>1 DEF Absorbed
<1>11. G = [i \in Orders |-> G[i]]
  BY <1>1 DEF Absorbed
<1>12. \A i \in Orders : G[i] \subseteq F[i]
  BY <1>10
<1>13. G \in Lists /\ ListsFit(G)
  <2>1. \A i \in Orders : \A x \in G[i] : Fitting(x, i)
    BY <1>12 DEF ListsFit
  <2>2. \A i \in Orders : G[i] \subseteq Arena
    BY <2>1 DEF Fitting
  <2> QED BY <1>11, <2>1, <2>2 DEF Lists, ListsFit
<1>14. Turns(F, G, SibsOf(o, k, j), {})
  <2> SUFFICES ASSUME NEW i \in Orders, NEW x \in Arena
               PROVE  x \in G[i] <=> x \in F[i] /\ <<x, i>> \notin SibsOf(o, k, j)
    BY DEF Turns
  <2>1. <<x, i>> \in SibsOf(o, k, j) <=> k <= i /\ i < j /\ x = Sib(o, i)
    BY <1>5 DEF SibsOf, Orders
  <2> QED BY <1>10, <2>1
<1>15. FreeOf(G) = FreeOf(F) \ S
  <2>1. {} \in BlockSets /\ Named({}) = {}
    BY DEF BlockSets, Named
  <2>2. FreeOf(G) = (FreeOf(F) \ Named(SibsOf(o, k, j))) \cup Named({})
    BY <1>5, <1>9, <1>13, <1>14, <2>1, FreeChange
  <2> QED BY <1>2, <2>1, <2>2
<1>16. S \subseteq FreeOf(F)
  <2>1. SibsOf(o, k, j) \subseteq {x \in Arena \X Orders : x[1] \in F[x[2]]}
    BY <1>5, <1>8, Below DEF SibsOf, Fitting
  <2> QED BY <1>2, <2>1 DEF Named, FreeOf
<1>17. Cut(p, S \cup {q})
  BY <1>2, <1>3, <1>4, <1>5, <1>7, SibsCut
<1>18. S \cap O = {} /\ q \notin FreeOf(F) /\ q \notin O
  <2>1. q[1] = y
    BY <1>4
  <2> QED BY <1>2, <1>4, <2>1, NamedFree, FreeFree DEF NotFree
<1>19. FreeOf(G) \cup O \cup {p} = ((FreeOf(F) \cup O \cup {q}) \ (S \cup {q})) \cup {p}
  BY <1>15, <1>16, <1>18, Zenon
<1>20. Tiles(FreeOf(G) \cup O \cup {p})
  <2>1. S \cup {q} \subseteq FreeOf(F) \cup O \cup {q}
    BY <1>16
  <2>2. Tiles(FreeOf(F) \cup O \cup {q})
    BY <1>4
  <2> QED BY <1>17, <1>19, <2>1, <2>2, JoinTiles
<1> QED BY <1>1, <1>3, <1>9, <1>13, <1>20

----------------------------------------------------------------------------
(* The buddy allocator: its invariant.                                      *)
BuddyTypes ==
  /\ hdr \in [Arena -> Orders] /\ own \in [BClients -> SUBSET Arena]
  /\ mv \in [BClients -> SUBSET [o : Arena, want : Orders]]
  /\ res \subseteq Nat \X Nat /\ rel \subseteq Arena /\ lost \subseteq Arena
(* A held block is one of the arena; a block that moves is held, and moves  *)
(* once; the process slot is held or being given back.                      *)
OwnFit == \A c \in BClients : \A o \in own[c] : Fitting(o, hdr[o])
MovesOwn == \A c \in BClients : /\ \A m \in mv[c] : m.o \in own[c]
                                /\ \A m, n \in mv[c] : m.o = n.o => m = n
OneSlot == /\ res = {} \/ rel = {}
           /\ \A r \in res : r[1] + r[2] <= Units
           /\ \A r, s \in res : r = s
BuddyInv == ListsFit(bfree) /\ BuddyTypes /\ OwnFit /\ MovesOwn /\ OneSlot /\ Partition

Rest == RestOf(res, rel, lost)
LEMMA PiecesNow ==
  /\ Pieces = FreeOf(bfree) \cup OwnedOf(own, hdr) \cup Rest
  /\ Pieces' = FreeOf(bfree') \cup OwnedOf(own', hdr') \cup Rest'
BY Zenon DEF Pieces, FreeOf, Named, OwnedOf, RestOf, Rest
LEMMA RestTags == NotFree(Rest) /\ \A p \in Rest : p[1] \notin BClients
<1>1. \A p \in Rest : p[1] \in {"image", "releasing", "lost"}
  BY Tags DEF Rest
<1>2. \A x \in {"image", "releasing", "lost"} : x # "free" /\ x \notin BClients
  BY BuddyAssumption
<1> QED BY <1>1, <1>2 DEF NotFree

(* The held blocks without block o of c. *)
OwnedBut(w, hd, c, o) ==
  {<<b[1], b[2], Size[hd[b[2]]]>> : b \in {x \in BClients \X Arena : x[2] \in w[x[1]] /\ x # <<c, o>>}}
Agree(w, hd, w2, hd2, c, o) ==
  \A d \in BClients : \A x \in Arena :
    <<d, x>> # <<c, o>> => (x \in w2[d] <=> x \in w[d]) /\ (x \in w[d] => hd2[x] = hd[x])
LEMMA OwnedSame ==
  ASSUME NEW w, NEW hd, NEW w2, NEW hd2, NEW c, NEW o, Agree(w, hd, w2, hd2, c, o)
  PROVE  OwnedBut(w2, hd2, c, o) = OwnedBut(w, hd, c, o)
<1> DEFINE X == {x \in BClients \X Arena : x[2] \in w[x[1]] /\ x # <<c, o>>}
           Y == {x \in BClients \X Arena : x[2] \in w2[x[1]] /\ x # <<c, o>>}
<1>1. ASSUME NEW x \in BClients \X Arena, x # <<c, o>>
      PROVE  (x[2] \in w2[x[1]] <=> x[2] \in w[x[1]]) /\ (x[2] \in w[x[1]] => hd2[x[2]] = hd[x[2]])
  <2>1. x[1] \in BClients /\ x[2] \in Arena /\ x = <<x[1], x[2]>>
    OBVIOUS
  <2> QED BY <1>1, <2>1 DEF Agree
<1>2. X = Y
  BY <1>1
<1>3. \A x \in X : hd2[x[2]] = hd[x[2]]
  BY <1>1
<1>4. OwnedBut(w, hd, c, o) = {<<b[1], b[2], Size[hd[b[2]]]>> : b \in X}
      /\ OwnedBut(w2, hd2, c, o) = {<<b[1], b[2], Size[hd2[b[2]]]>> : b \in Y}
  BY DEF OwnedBut
<1> HIDE DEF X, Y
<1> QED BY <1>2, <1>3, <1>4
HeldPiece(w, hd, c, o) == IF o \in w[c] THEN {<<c, o, Size[hd[o]]>>} ELSE {}
Parts(w, hd, c, o) == OwnedOf(w, hd) = OwnedBut(w, hd, c, o) \cup HeldPiece(w, hd, c, o)
LEMMA OwnedParts ==
  ASSUME NEW w, NEW hd, NEW c \in BClients, NEW o \in Arena
  PROVE  /\ Parts(w, hd, c, o)
         /\ \A z : <<c, o, z>> \notin OwnedBut(w, hd, c, o)
         /\ NotFree(OwnedBut(w, hd, c, o)) /\ NotFree(OwnedOf(w, hd)) /\ c # "free"
<1> DEFINE X == {x \in BClients \X Arena : x[2] \in w[x[1]] /\ x # <<c, o>>}
           Z == {x \in BClients \X Arena : x[2] \in w[x[1]]}
           p(b) == <<b[1], b[2], Size[hd[b[2]]]>>
<1>1. OwnedBut(w, hd, c, o) = {p(b) : b \in X} /\ OwnedOf(w, hd) = {p(b) : b \in Z}
  BY DEF OwnedBut, OwnedOf
<1>2. p(<<c, o>>) = <<c, o, Size[hd[o]]>>
  OBVIOUS
<1>3. o \in w[c] => Z = X \cup {<<c, o>>}
  OBVIOUS
<1>4. o \notin w[c] => Z = X
  OBVIOUS
<1>5. ASSUME NEW z, <<c, o, z>> \in OwnedBut(w, hd, c, o) PROVE FALSE
  <2>1. PICK b \in X : <<c, o, z>> = p(b)
    BY <1>1, <1>5
  <2>2. b[1] = c /\ b[2] = o /\ b = <<b[1], b[2]>>
    BY <2>1
  <2> QED BY <2>2
<1>6. \A x \in BClients : x # "free"
  BY BuddyAssumption
<1>7. NotFree(OwnedBut(w, hd, c, o)) /\ NotFree(OwnedOf(w, hd))
  BY <1>6 DEF NotFree, OwnedBut, OwnedOf
<1>8. o \in w[c] => OwnedOf(w, hd) = OwnedBut(w, hd, c, o) \cup {<<c, o, Size[hd[o]]>>}
  <2> HIDE DEF X, Z, p
  <2> QED BY <1>1, <1>2, <1>3
<1>9. o \notin w[c] => OwnedOf(w, hd) = OwnedBut(w, hd, c, o)
  BY <1>1, <1>4
<1>10. Parts(w, hd, c, o)
  <2>1. CASE o \in w[c]
    BY <1>8, <2>1 DEF Parts, HeldPiece
  <2>2. CASE o \notin w[c]
    BY <1>9, <2>2 DEF Parts, HeldPiece
  <2> QED BY <2>1, <2>2
<1> QED BY <1>5, <1>6, <1>7, <1>10

(* Two pieces that begin at the same unit are one. *)
LEMMA OnePiece ==
  ASSUME NEW P, Tiles(P), NEW o \in Arena, NEW x, NEW y, NEW k \in Orders, NEW n \in Orders,
         <<x, o, Size[k]>> \in P, <<y, o, Size[n]>> \in P
  PROVE  x = y
<1>1. Size[k] \in Nat \ {0} /\ Size[n] \in Nat \ {0} /\ o \in Nat
  BY Sizes DEF Arena
<1>2. Covers(<<x, o, Size[k]>>, o) /\ Covers(<<y, o, Size[n]>>, o)
  BY <1>1 DEF Covers
<1>3. <<x, o, Size[k]>> = <<y, o, Size[n]>>
  BY <1>2 DEF Tiles
<1> QED BY <1>3
LEMMA FreeIn ==
  ASSUME NEW F, NEW k \in Orders, NEW o \in Arena, o \in F[k]
  PROVE  <<"free", o, Size[k]>> \in FreeOf(F)
<1>1. PICK b : b = <<o, k>>
  OBVIOUS
<1>2. b[1] = o /\ b[2] = k /\ b \in {x \in Arena \X Orders : x[1] \in F[x[2]]}
  BY <1>1
<1>3. <<"free", b[1], Size[b[2]]>> \in FreeOf(F)
  BY <1>2 DEF FreeOf, Named
<1> QED BY <1>2, <1>3
LEMMA OwnedIn ==
  ASSUME NEW w, NEW hd, NEW c \in BClients, NEW o \in Arena, o \in w[c]
  PROVE  <<c, o, Size[hd[o]]>> \in OwnedOf(w, hd)
<1>1. PICK b : b = <<c, o>>
  OBVIOUS
<1>2. b[1] = c /\ b[2] = o /\ b \in {x \in BClients \X Arena : x[2] \in w[x[1]]}
  BY <1>1
<1>3. <<b[1], b[2], Size[hd[b[2]]]>> \in OwnedOf(w, hd)
  BY <1>2 DEF OwnedOf
<1> QED BY <1>2, <1>3

(* All of the invariant but what the blocks that move add. *)
BuddyCore ==
  /\ ListsFit(bfree) /\ OwnFit /\ OneSlot /\ Partition
  /\ hdr \in [Arena -> Orders] /\ own \in [BClients -> SUBSET Arena]
  /\ res \subseteq Nat \X Nat /\ rel \subseteq Arena /\ lost \subseteq Arena
LEMMA CoreIs == BuddyInv => BuddyCore
BY DEF BuddyInv, BuddyCore, BuddyTypes

(* What is free or being given back is held by nobody, a block is held by   *)
(* one caller.                                                              *)
LEMMA OneHolder ==
  ASSUME BuddyCore, NEW c \in BClients, NEW o \in own[c]
  PROVE  /\ o \in Arena /\ hdr[o] \in Orders /\ Fitting(o, hdr[o])
         /\ \A k \in Orders : o \notin bfree[k]
         /\ \A d \in BClients : d # c => o \notin own[d]
         /\ o \notin rel
<1>1. o \in Arena /\ hdr[o] \in Orders /\ Fitting(o, hdr[o])
  BY DEF BuddyCore, OwnFit
<1>2. Tiles(Pieces) /\ FreeOf(bfree) \subseteq Pieces /\ OwnedOf(own, hdr) \subseteq Pieces
      /\ Rest \subseteq Pieces
  BY PiecesNow DEF BuddyCore, Partition
<1>3. <<c, o, Size[hdr[o]]>> \in Pieces
  BY <1>1, <1>2, OwnedIn
<1>4. c # "free" /\ c # "releasing"
  BY BuddyAssumption
<1>5. ASSUME NEW k \in Orders, o \in bfree[k] PROVE FALSE
  <2>1. <<"free", o, Size[k]>> \in Pieces
    BY <1>1, <1>2, <1>5, FreeIn
  <2> QED BY <1>1, <1>2, <1>3, <1>4, <2>1, OnePiece
<1>6. ASSUME NEW d \in BClients, d # c, o \in own[d] PROVE FALSE
  <2>1. <<d, o, Size[hdr[o]]>> \in Pieces
    BY <1>1, <1>2, <1>6, OwnedIn
  <2> QED BY <1>1, <1>2, <1>3, <1>6, <2>1, OnePiece
<1>7. ASSUME o \in rel PROVE FALSE
  <2>1. 0 \in Orders /\ Size[0] = 1
    BY Sizes DEF Orders
  <2>2. <<"releasing", o, Size[0]>> \in Pieces
    BY <1>2, <1>7, <2>1 DEF Rest, RestOf
  <2> QED BY <1>1, <1>2, <1>3, <1>4, <2>1, <2>2, OnePiece
<1> QED BY <1>1, <1>5, <1>6, <1>7

(* A step that touches one block of one caller, before and after. *)
Others(c, o) == OwnedBut(own, hdr, c, o) \cup Rest
LEMMA OwnBefore ==
  ASSUME BuddyCore, NEW c \in BClients, NEW o \in Arena
  PROVE  /\ Tiles(FreeOf(bfree) \cup Others(c, o) \cup HeldPiece(own, hdr, c, o))
         /\ NotFree(Others(c, o)) /\ c # "free"
         /\ \A z : <<c, o, z>> \notin Others(c, o)
<1>1. /\ Parts(own, hdr, c, o)
      /\ \A z : <<c, o, z>> \notin OwnedBut(own, hdr, c, o)
      /\ NotFree(OwnedBut(own, hdr, c, o)) /\ c # "free"
  BY OwnedParts
<1>2. Pieces = FreeOf(bfree) \cup Others(c, o) \cup HeldPiece(own, hdr, c, o)
  BY <1>1, PiecesNow, Zenon DEF Others, Parts
<1>3. NotFree(Rest) /\ \A p \in Rest : p[1] \notin BClients
  BY RestTags
<1>4. \A z : <<c, o, z>> \notin Rest
  BY <1>3
<1>5. NotFree(Others(c, o))
  BY <1>1, <1>3 DEF Others, NotFree
<1> QED BY <1>1, <1>2, <1>4, <1>5 DEF BuddyCore, Partition, Others
LEMMA OwnAfter ==
  ASSUME BuddyCore, NEW c \in BClients, NEW o \in Arena, NEW v \in Orders,
         \A d \in BClients : d # c => o \notin own[d],
         hdr' = [hdr EXCEPT ![o] = v], own' \in [BClients -> SUBSET Arena],
         \A d \in BClients : own'[d] \ {o} = own[d] \ {o} /\ (d # c => own'[d] = own[d]),
         o \in own'[c] => Fitting(o, v),
         res' = res, rel' = rel, lost' = lost, ListsFit(bfree'),
         Tiles(FreeOf(bfree') \cup Others(c, o) \cup HeldPiece(own', hdr', c, o))
  PROVE  BuddyCore'
<1>0. hdr \in [Arena -> Orders] /\ own \in [BClients -> SUBSET Arena] /\ OwnFit
  BY DEF BuddyCore
<1>1. hdr' \in [Arena -> Orders] /\ hdr'[o] = v /\ \A x \in Arena : x # o => hdr'[x] = hdr[x]
  BY <1>0
<1>2. ASSUME NEW d \in BClients, NEW x \in own'[d] PROVE Fitting(x, hdr'[x])
  <2>1. CASE x = o
    BY <1>1, <1>2, <2>1
  <2>2. CASE x # o
    BY <1>0, <1>1, <1>2, <2>2 DEF OwnFit
  <2> QED BY <2>1, <2>2
<1>3. Agree(own, hdr, own', hdr', c, o)
  <2> SUFFICES ASSUME NEW d \in BClients, NEW x \in Arena, <<d, x>> # <<c, o>>
               PROVE  (x \in own'[d] <=> x \in own[d]) /\ (x \in own[d] => hdr'[x] = hdr[x])
    BY Zenon DEF Agree
  <2>1. CASE x # o
    BY <1>1, <2>1
  <2>2. CASE x = o
    BY <1>1, <2>2
  <2> QED BY <2>1, <2>2
<1>4. OwnedBut(own', hdr', c, o) = OwnedBut(own, hdr, c, o)
  BY <1>3, OwnedSame
<1>5. Parts(own', hdr', c, o)
  BY OwnedParts
<1>6. Rest' = Rest
  BY DEF Rest
<1>7. Pieces' = FreeOf(bfree') \cup Others(c, o) \cup HeldPiece(own', hdr', c, o)
  BY <1>4, <1>5, <1>6, PiecesNow, Zenon DEF Others, Parts
<1>8. Partition'
  BY <1>7 DEF Partition
<1>9. OwnFit'
  BY <1>2 DEF OwnFit
<1>10. OneSlot'
  BY DEF BuddyCore, OneSlot
<1> QED BY <1>1, <1>8, <1>9, <1>10 DEF BuddyCore, ListsFit, Fitting

----------------------------------------------------------------------------
(* The buddy allocator: its steps.                                          *)
LEMMA AllocKeeps ==
  ASSUME BuddyCore, NEW c \in BClients, NEW want \in 0 .. MaxOrder, Alloc(c, want),
         res' = res, rel' = rel, lost' = lost
  PROVE  BuddyCore' /\ \A d \in BClients : own[d] \subseteq own'[d]
<1>1. PICK k \in Serving(want) : \E o \in bfree[k] :
        /\ bfree' = SplitDown(bfree, o, k, want)
        /\ hdr' = [hdr EXCEPT ![o] = want]
        /\ own' = [own EXCEPT ![c] = @ \cup {o}]
  BY DEF Alloc
<1>o. PICK o \in bfree[k] :
        /\ bfree' = SplitDown(bfree, o, k, want)
        /\ hdr' = [hdr EXCEPT ![o] = want]
        /\ own' = [own EXCEPT ![c] = @ \cup {o}]
  BY <1>1
<1>2. k \in want .. MaxOrder /\ k \in Orders /\ want \in Orders /\ want <= k
  BY <1>1, <1>o, MaxOrderIs DEF Serving, Orders
<1>3. ListsFit(bfree) /\ own \in [BClients -> SUBSET Arena] /\ hdr \in [Arena -> Orders]
  BY DEF BuddyCore
<1>4. Fitting(o, k) /\ o \in Arena
  BY <1>1, <1>o, <1>2, <1>3 DEF ListsFit, Fitting
<1>5. \A d \in BClients : o \notin own[d]
  BY <1>1, <1>o, <1>2, OneHolder
<1>6. /\ Tiles(FreeOf(bfree) \cup Others(c, o) \cup HeldPiece(own, hdr, c, o))
      /\ NotFree(Others(c, o)) /\ c # "free"
  BY <1>4, OwnBefore
<1>7. Tiles(FreeOf(bfree) \cup Others(c, o))
  BY <1>5, <1>6 DEF HeldPiece
<1>8. ListsFit(bfree') /\ Tiles(FreeOf(bfree') \cup Others(c, o) \cup {<<c, o, Size[want]>>})
  BY <1>1, <1>o, <1>2, <1>3, <1>6, <1>7, TilesSplit
<1>9. own' \in [BClients -> SUBSET Arena] /\ o \in own'[c] /\ hdr'[o] = want
  BY <1>1, <1>o, <1>3, <1>4
<1>10. HeldPiece(own', hdr', c, o) = {<<c, o, Size[want]>>}
  BY <1>9 DEF HeldPiece
<1>11. Fitting(o, want)
  <2>1. o % Size[want] = 0
    BY <1>2, <1>4, LowHalf DEF Fitting, Arena
  <2>2. Size[want] <= Size[k]
    <3>1. want = k \/ want < k
      BY <1>2 DEF Orders
    <3>2. want < k => Size[want] < Size[k]
      BY <1>2, SizeGrows
    <3>3. Size[want] \in Nat /\ Size[k] \in Nat
      BY <1>2, Sizes
    <3> QED BY <3>1, <3>2, <3>3
  <2>3. Size[want] \in Nat /\ Size[k] \in Nat
    BY <1>2, Sizes
  <2> QED BY <1>4, <2>1, <2>2, <2>3 DEF Fitting, Arena
<1>12. \A d \in BClients : own'[d] \ {o} = own[d] \ {o} /\ (d # c => own'[d] = own[d])
  BY <1>1, <1>o, <1>3
<1>13. BuddyCore'
  BY <1>1, <1>o, <1>2, <1>4, <1>5, <1>8, <1>9, <1>10, <1>11, <1>12, OwnAfter
<1>14. \A d \in BClients : own[d] \subseteq own'[d]
  BY <1>1, <1>o, <1>3
<1> QED BY <1>13, <1>14
LEMMA FreeKeeps ==
  ASSUME BuddyCore, NEW c \in BClients, NEW o \in own[c],
         bfree' = FreeLocked(bfree, o, hdr[o]), hdr' = [hdr EXCEPT ![o] = 0],
         own' = [own EXCEPT ![c] = @ \ {o}], res' = res, rel' = rel, lost' = lost
  PROVE  BuddyCore' /\ \A d \in BClients : own[d] \ {o} \subseteq own'[d] /\ (d # c => own'[d] = own[d])
<1>1. ListsFit(bfree) /\ own \in [BClients -> SUBSET Arena] /\ hdr \in [Arena -> Orders]
  BY DEF BuddyCore
<1>2. o \in Arena /\ hdr[o] \in Orders /\ Fitting(o, hdr[o])
      /\ \A d \in BClients : d # c => o \notin own[d]
  BY OneHolder
<1>3. /\ Tiles(FreeOf(bfree) \cup Others(c, o) \cup HeldPiece(own, hdr, c, o))
      /\ NotFree(Others(c, o)) /\ c # "free" /\ \A z : <<c, o, z>> \notin Others(c, o)
  BY <1>2, OwnBefore
<1>4. HeldPiece(own, hdr, c, o) = {<<c, o, Size[hdr[o]]>>}
  BY DEF HeldPiece
<1>5. ListsFit(bfree') /\ Tiles(FreeOf(bfree') \cup Others(c, o))
  BY <1>1, <1>2, <1>3, <1>4, TilesMerge
<1>6. own' \in [BClients -> SUBSET Arena] /\ o \notin own'[c]
  BY <1>1
<1>7. HeldPiece(own', hdr', c, o) = {}
  BY <1>6 DEF HeldPiece
<1>8. \A d \in BClients : own'[d] \ {o} = own[d] \ {o} /\ (d # c => own'[d] = own[d])
  BY <1>1
<1>9. 0 \in Orders /\ Tiles(FreeOf(bfree') \cup Others(c, o) \cup HeldPiece(own', hdr', c, o))
  <2>2. 0 \in Orders
    BY DEF Orders
  <2>3. PICK A : A = FreeOf(bfree') \cup Others(c, o)
    OBVIOUS
  <2>4. Tiles(A) /\ A \cup {} = A
    BY <1>5, <2>3
  <2> QED BY <1>7, <2>2, <2>3, <2>4
<1>10. BuddyCore'
  BY <1>2, <1>5, <1>6, <1>8, <1>9, OwnAfter
<1> QED BY <1>8, <1>10
LEMMA ShrinkKeeps ==
  ASSUME BuddyCore, NEW c \in BClients, NEW o \in own[c], NEW want \in Orders, want < hdr[o],
         bfree' = Halved(bfree, o, hdr[o], want), hdr' = [hdr EXCEPT ![o] = want],
         own' = own, res' = res, rel' = rel, lost' = lost
  PROVE  BuddyCore'
<1>1. ListsFit(bfree) /\ own \in [BClients -> SUBSET Arena] /\ hdr \in [Arena -> Orders]
  BY DEF BuddyCore
<1>2. PICK k \in Orders : k = hdr[o]
  BY OneHolder
<1>3. o \in Arena /\ Fitting(o, k) /\ \A d \in BClients : d # c => o \notin own[d]
  BY <1>2, OneHolder
<1>4. /\ Tiles(FreeOf(bfree) \cup Others(c, o) \cup HeldPiece(own, hdr, c, o))
      /\ NotFree(Others(c, o)) /\ c # "free" /\ \A z : <<c, o, z>> \notin Others(c, o)
  BY <1>3, OwnBefore
<1>5. HeldPiece(own, hdr, c, o) = {<<c, o, Size[k]>>} /\ want <= k /\ want < k
  BY <1>2 DEF HeldPiece, Orders
<1>6. ListsFit(bfree') /\ Tiles(FreeOf(bfree') \cup Others(c, o) \cup {<<c, o, Size[want]>>})
  BY <1>1, <1>2, <1>3, <1>4, <1>5, TilesHalve
<1>7. o \in own'[c] /\ hdr'[o] = want
  BY <1>1, <1>3
<1>8. HeldPiece(own', hdr', c, o) = {<<c, o, Size[want]>>}
  BY <1>7 DEF HeldPiece
<1>9. Fitting(o, want)
  <2>1. o % Size[want] = 0
    BY <1>2, <1>3, <1>5, LowHalf DEF Fitting, Arena
  <2>2. Size[want] < Size[k] /\ Size[want] \in Nat /\ Size[k] \in Nat
    BY <1>2, <1>5, SizeGrows, Sizes
  <2>3. want \in 0 .. MaxOrder
    BY <1>3, <1>5, MaxOrderIs DEF Fitting, Orders
  <2> QED BY <1>3, <2>1, <2>2, <2>3 DEF Fitting, Arena
<1>10. \A d \in BClients : own'[d] \ {o} = own[d] \ {o} /\ (d # c => own'[d] = own[d])
  OBVIOUS
<1>11. own' \in [BClients -> SUBSET Arena]
  BY <1>1
<1> QED BY <1>3, <1>6, <1>8, <1>9, <1>10, <1>11, OwnAfter
(* How far a block grows: over free siblings above it, as far as asked. *)
LEMMA GrowIs ==
  ASSUME NEW o, NEW k \in Nat, NEW want \in Nat, k <= want
  PROVE  /\ GrowTo(o, k, want) \in k .. want
         /\ \A i \in k .. GrowTo(o, k, want) - 1 : Sib(o, i) = o + Size[i] /\ o + Size[i] \in bfree[i]
<1> DEFINE S == {n \in k .. want : n = want \/ Sib(o, n) # o + Size[n] \/ o + Size[n] \notin bfree[n]}
<1>1. want \in S /\ S \in SUBSET Nat
  OBVIOUS
<1>2. PICK j \in S : \A n \in S : j <= n
  <2> HIDE DEF S
  <2> QED BY <1>1, LeastIn
<1>3. j \in k .. want /\ (j = want \/ Sib(o, j) # o + Size[j] \/ o + Size[j] \notin bfree[j])
  BY <1>2
<1>4. \A i \in k .. j - 1 : Sib(o, i) = o + Size[i] /\ o + Size[i] \in bfree[i]
  <2> SUFFICES ASSUME NEW i \in k .. j - 1,
                      Sib(o, i) # o + Size[i] \/ o + Size[i] \notin bfree[i]
               PROVE FALSE
    OBVIOUS
  <2>1. i \in S
    BY <1>3
  <2>2. j <= i
    BY <1>2, <2>1
  <2> QED BY <1>3, <2>2
<1> QED BY <1>3, <1>4 DEF GrowTo
LEMMA GrowKeeps ==
  ASSUME BuddyCore, NEW c \in BClients, NEW o \in own[c], NEW want \in Orders,
         hdr[o] < want, want <= MaxOrder,
         NEW j, j = GrowTo(o, hdr[o], want),
         bfree' = Absorbed(bfree, o, hdr[o], j), hdr' = [hdr EXCEPT ![o] = j],
         own' = own, res' = res, rel' = rel, lost' = lost
  PROVE  BuddyCore'
<1>1. ListsFit(bfree) /\ own \in [BClients -> SUBSET Arena] /\ hdr \in [Arena -> Orders]
  BY DEF BuddyCore
<1>2. PICK k \in Orders : k = hdr[o]
  BY OneHolder
<1>3. o \in Arena /\ Fitting(o, k) /\ \A d \in BClients : d # c => o \notin own[d]
  BY <1>2, OneHolder
<1>4. /\ Tiles(FreeOf(bfree) \cup Others(c, o) \cup HeldPiece(own, hdr, c, o))
      /\ NotFree(Others(c, o)) /\ c # "free" /\ \A z : <<c, o, z>> \notin Others(c, o)
  BY <1>3, OwnBefore
<1>5. HeldPiece(own, hdr, c, o) = {<<c, o, Size[k]>>}
  BY <1>2 DEF HeldPiece
<1>6. /\ j \in k .. want
      /\ \A i \in k .. j - 1 : Sib(o, i) = o + Size[i] /\ o + Size[i] \in bfree[i]
  <2>1. k \in Nat /\ want \in Nat /\ k <= want
    BY <1>2 DEF Orders
  <2> QED BY <1>2, <2>1, GrowIs
<1>7. j \in 0 .. MaxOrder /\ k <= j /\ j \in Orders
  BY <1>6, MaxOrderIs DEF Orders
<1>8. /\ ListsFit(bfree') /\ Fitting(o, j)
      /\ Tiles(FreeOf(bfree') \cup Others(c, o) \cup {<<c, o, Size[j]>>})
  <2>1. Tiles(FreeOf(bfree) \cup Others(c, o) \cup {<<c, o, Size[k]>>})
    BY <1>4, <1>5
  <2>2. <<c, o, Size[k]>> \notin Others(c, o)
    BY <1>4
  <2>3. bfree' = Absorbed(bfree, o, k, j)
    BY <1>2
  <2>4. PICK O : O = Others(c, o) /\ NotFree(O) /\ <<c, o, Size[k]>> \notin O
    BY <1>4, <2>2
  <2>5. /\ ListsFit(Absorbed(bfree, o, k, j)) /\ Fitting(o, j)
        /\ Tiles(FreeOf(Absorbed(bfree, o, k, j)) \cup O \cup {<<c, o, Size[j]>>})
    <3>1. Tiles(FreeOf(bfree) \cup O \cup {<<c, o, Size[k]>>}) /\ c # "free"
      BY <1>4, <2>1, <2>4
    <3> HIDE DEF Others
    <3> QED BY <1>1, <1>3, <1>6, <1>7, <2>4, <3>1, TilesAbsorb
  <2> QED BY <2>3, <2>4, <2>5
<1>9. o \in own'[c] /\ hdr'[o] = j
  BY <1>1, <1>3
<1>10. HeldPiece(own', hdr', c, o) = {<<c, o, Size[j]>>}
  BY <1>9 DEF HeldPiece
<1>11. \A d \in BClients : own'[d] \ {o} = own[d] \ {o} /\ (d # c => own'[d] = own[d])
  OBVIOUS
<1>12. own' \in [BClients -> SUBSET Arena]
  BY <1>1
<1> QED BY <1>3, <1>7, <1>8, <1>10, <1>11, <1>12, OwnAfter

(* The blocks that move. *)
MvType == mv \in [BClients -> SUBSET [o : Arena, want : Orders]]
LEMMA InvIs == BuddyInv <=> BuddyCore /\ MvType /\ MovesOwn
BY DEF BuddyInv, BuddyCore, BuddyTypes, MvType
LEMMA InvNext == BuddyCore' /\ MvType' /\ MovesOwn' => BuddyInv'
BY DEF BuddyInv, BuddyCore, BuddyTypes, MvType
LEMMA MovesStay ==
  ASSUME MovesOwn, MvType, mv' = mv, \A d \in BClients : own[d] \subseteq own'[d]
  PROVE  MvType' /\ MovesOwn'
BY DEF MovesOwn, MvType
LEMMA CallsKeep ==
  ASSUME BuddyInv, NEW c \in BClients,
         BuddyAlloc(c) \/ BuddyFree(c) \/ ReallocShrink(c) \/ ReallocGrow(c) \/ ReallocMove(c)
  PROVE  BuddyInv'
<1>0. BuddyCore /\ MvType /\ MovesOwn
  BY InvIs
<1>1. CASE BuddyAlloc(c)
  <2>1. PICK want \in 0 .. MaxOrder : Alloc(c, want)
    BY <1>1 DEF BuddyAlloc
  <2>2. mv' = mv /\ res' = res /\ rel' = rel /\ lost' = lost
    BY <1>1 DEF BuddyAlloc
  <2>3. BuddyCore' /\ \A d \in BClients : own[d] \subseteq own'[d]
    BY <1>0, <2>1, <2>2, AllocKeeps
  <2> QED BY <1>0, <2>2, <2>3, MovesStay, InvNext
<1>2. CASE BuddyFree(c)
  <2>1. PICK o \in own[c] :
          /\ \A m \in mv[c] : m.o # o
          /\ bfree' = FreeLocked(bfree, o, hdr[o])
          /\ hdr' = [hdr EXCEPT ![o] = 0]
          /\ own' = [own EXCEPT ![c] = @ \ {o}]
          /\ mv' = mv /\ res' = res /\ rel' = rel /\ lost' = lost
    BY <1>2 DEF BuddyFree
  <2>2. BuddyCore' /\ \A d \in BClients : own[d] \ {o} \subseteq own'[d] /\ (d # c => own'[d] = own[d])
    BY <1>0, <2>1, FreeKeeps
  <2>3. \A d \in BClients : \A m \in mv[d] : m.o \in own'[d]
    BY <1>0, <2>1, <2>2 DEF MovesOwn
  <2>4. MvType' /\ MovesOwn'
    BY <1>0, <2>1, <2>3 DEF MovesOwn, MvType
  <2> QED BY <2>2, <2>4, InvNext
<1>3. CASE ReallocShrink(c)
  <2>1. PICK o \in own[c], want \in Orders :
          /\ want < hdr[o] /\ bfree' = Halved(bfree, o, hdr[o], want)
          /\ hdr' = [hdr EXCEPT ![o] = want]
          /\ own' = own /\ mv' = mv /\ res' = res /\ rel' = rel /\ lost' = lost
    BY <1>3, Zenon DEF ReallocShrink, Halved
  <2>2. BuddyCore'
    BY <1>0, <2>1, ShrinkKeeps
  <2> QED BY <1>0, <2>1, <2>2, MovesStay, InvNext
<1>4. CASE ReallocGrow(c)
  <2>1. PICK o \in own[c], want \in Orders :
          /\ hdr[o] < want /\ want <= MaxOrder /\ \A m \in mv[c] : m.o # o
          /\ bfree' = Absorbed(bfree, o, hdr[o], GrowTo(o, hdr[o], want))
          /\ hdr' = [hdr EXCEPT ![o] = GrowTo(o, hdr[o], want)]
          /\ \/ mv' = mv
             \/ mv' = [mv EXCEPT ![c] = @ \cup {[o |-> o, want |-> want]}]
          /\ own' = own /\ res' = res /\ rel' = rel /\ lost' = lost
    BY <1>4, Zenon DEF ReallocGrow, Absorbed
  <2>2. BuddyCore'
    BY <1>0, <2>1, GrowKeeps
  <2>3. o \in Arena
    BY <1>0, OneHolder
  <2>4. CASE mv' = mv
    BY <1>0, <2>1, <2>2, <2>4, MovesStay, InvNext
  <2>5. CASE mv' = [mv EXCEPT ![c] = @ \cup {[o |-> o, want |-> want]}]
    <3>1. PICK n : n = [o |-> o, want |-> want]
      OBVIOUS
    <3>2. n \in [o : Arena, want : Orders] /\ n.o = o
      BY <2>3, <3>1
    <3>3. \A d \in BClients : mv'[d] = IF d = c THEN mv[d] \cup {n} ELSE mv[d]
      BY <1>0, <2>5, <3>1 DEF MvType
    <3>4. mv' \in [BClients -> SUBSET [o : Arena, want : Orders]]
      BY <1>0, <2>5, <3>1, <3>2 DEF MvType
    <3>5. MovesOwn'
      <4>1. ASSUME NEW d \in BClients PROVE /\ \A m \in mv'[d] : m.o \in own'[d]
                                            /\ \A l, m \in mv'[d] : l.o = m.o => l = m
        <5>1. /\ \A m \in mv[d] : m.o \in own[d] /\ m.o \in own'[d]
              /\ \A l, m \in mv[d] : l.o = m.o => l = m
          BY <1>0, <2>1 DEF MovesOwn
        <5>2. CASE d = c
          <6>1. \A m \in mv[d] : m.o # n.o
            BY <2>1, <3>2, <5>2
          <6>2. mv'[d] = mv[d] \cup {n} /\ n.o \in own'[d]
            BY <2>1, <3>2, <3>3, <5>2
          <6> QED BY <5>1, <6>1, <6>2
        <5>3. CASE d # c
          BY <3>3, <5>1, <5>3
        <5> QED BY <5>2, <5>3
      <4> QED BY <4>1 DEF MovesOwn
    <3> QED BY <2>2, <3>4, <3>5, InvNext DEF MvType
  <2> QED BY <2>1, <2>4, <2>5
<1>5. CASE ReallocMove(c)
  <2>1. PICK m \in mv[c] :
    \/ /\ Alloc(c, m.want) /\ m.want # 0
       /\ mv' = [mv EXCEPT ![c] = (@ \ {m}) \cup {[o |-> m.o, want |-> 0]}]
       /\ UNCHANGED <<res, rel, lost>>
    \/ /\ Exhausted(m.want) /\ m.want # 0
       /\ mv' = [mv EXCEPT ![c] = @ \ {m}] /\ UNCHANGED <<bfree, hdr, own, res, rel, lost>>
    \/ /\ m.want = 0
       /\ bfree' = FreeLocked(bfree, m.o, hdr[m.o])
       /\ hdr' = [hdr EXCEPT ![m.o] = 0]
       /\ own' = [own EXCEPT ![c] = @ \ {m.o}]
       /\ mv' = [mv EXCEPT ![c] = @ \ {m}] /\ UNCHANGED <<res, rel, lost>>
    BY <1>5, Zenon DEF ReallocMove
  <2>2. m \in [o : Arena, want : Orders] /\ m.o \in own[c] /\ m.o \in Arena /\ m.want \in Orders
    BY <1>0 DEF MvType, MovesOwn
  <2>3. CASE /\ Alloc(c, m.want) /\ m.want # 0
             /\ mv' = [mv EXCEPT ![c] = (@ \ {m}) \cup {[o |-> m.o, want |-> 0]}]
             /\ UNCHANGED <<res, rel, lost>>
    <3>1. m.want \in 0 .. MaxOrder
      <4>1. PICK k \in Serving(m.want) : TRUE
        BY <2>3 DEF Alloc
      <4> QED BY <2>2, <4>1, MaxOrderIs DEF Serving, Orders
    <3>2. BuddyCore' /\ \A d \in BClients : own[d] \subseteq own'[d]
      BY <1>0, <2>3, <3>1, AllocKeeps
    <3>3. PICK n : n = [o |-> m.o, want |-> 0]
      OBVIOUS
    <3>4. n \in [o : Arena, want : Orders] /\ n.o = m.o
      BY <2>2, <3>3 DEF Orders
    <3>5. \A d \in BClients : mv'[d] = IF d = c THEN (mv[d] \ {m}) \cup {n} ELSE mv[d]
      BY <1>0, <2>3, <3>3 DEF MvType
    <3>6. mv' \in [BClients -> SUBSET [o : Arena, want : Orders]]
      BY <1>0, <2>3, <3>3, <3>4 DEF MvType
    <3>7. ASSUME NEW d \in BClients PROVE /\ \A l \in mv'[d] : l.o \in own'[d]
                                          /\ \A l, r \in mv'[d] : l.o = r.o => l = r
      <4>1. /\ \A l \in mv[d] : l.o \in own'[d]
            /\ \A l, r \in mv[d] : l.o = r.o => l = r
        BY <1>0, <3>2 DEF MovesOwn
      <4>2. CASE d = c
        <5>1. \A l \in mv[d] \ {m} : l.o # n.o
          BY <3>4, <4>1, <4>2
        <5>2. mv'[d] = (mv[d] \ {m}) \cup {n} /\ n.o \in own'[d]
          BY <3>4, <3>5, <4>1, <4>2
        <5> QED BY <4>1, <5>1, <5>2
      <4>3. CASE d # c
        BY <3>5, <4>1, <4>3
      <4> QED BY <4>2, <4>3
    <3> QED BY <3>2, <3>6, <3>7, InvNext DEF MvType, MovesOwn
  <2>4. CASE /\ Exhausted(m.want) /\ m.want # 0
             /\ mv' = [mv EXCEPT ![c] = @ \ {m}] /\ UNCHANGED <<bfree, hdr, own, res, rel, lost>>
    <3>1. BuddyCore'
      BY <1>0, <2>4, PiecesNow DEF BuddyCore, OwnFit, OneSlot, Partition, Rest
    <3>2. MvType' /\ MovesOwn'
      BY <1>0, <2>4 DEF MvType, MovesOwn
    <3> QED BY <3>1, <3>2, InvNext
  <2>5. CASE /\ m.want = 0
             /\ bfree' = FreeLocked(bfree, m.o, hdr[m.o])
             /\ hdr' = [hdr EXCEPT ![m.o] = 0]
             /\ own' = [own EXCEPT ![c] = @ \ {m.o}]
             /\ mv' = [mv EXCEPT ![c] = @ \ {m}] /\ UNCHANGED <<res, rel, lost>>
    <3>1. /\ BuddyCore'
          /\ \A d \in BClients : own[d] \ {m.o} \subseteq own'[d] /\ (d # c => own'[d] = own[d])
      BY <1>0, <2>2, <2>5, FreeKeeps
    <3>2. \A d \in BClients : mv'[d] = IF d = c THEN mv[d] \ {m} ELSE mv[d]
      BY <1>0, <2>5 DEF MvType
    <3>3. mv' \in [BClients -> SUBSET [o : Arena, want : Orders]]
      BY <1>0, <2>5 DEF MvType
    <3>4. ASSUME NEW d \in BClients PROVE /\ \A l \in mv'[d] : l.o \in own'[d]
                                          /\ \A l, r \in mv'[d] : l.o = r.o => l = r
      BY <1>0, <2>2, <3>1, <3>2 DEF MovesOwn
    <3> QED BY <3>1, <3>3, <3>4, InvNext DEF MvType, MovesOwn
  <2> QED BY <2>1, <2>3, <2>4, <2>5
<1> QED BY <1>1, <1>2, <1>3, <1>4, <1>5

----------------------------------------------------------------------------
(* The buddy allocator: a range reserved unit by unit, and released.        *)
LEMMA TakenIs ==
  ASSUME NEW lo, NEW n \in Nat
  PROVE  TakenUpTo(lo, n)
           = [i \in 0 .. n |-> IF i = 0 THEN bfree
                               ELSE TakeUnit(TakenUpTo(lo, n)[i - 1], lo + i - 1)]
<1> DEFINE Good(m, f) == f = [i \in 0 .. m |-> IF i = 0 THEN bfree
                                               ELSE TakeUnit(f[i - 1], lo + i - 1)]
           S == {m \in Nat : \E f : Good(m, f)}
<1>1. 0 \in S
  <2>1. Good(0, [i \in 0 .. 0 |-> bfree])
    OBVIOUS
  <2> QED BY <2>1
<1>2. ASSUME NEW m \in Nat, m \in S PROVE m + 1 \in S
  <2>1. PICK f : Good(m, f)
    BY <1>2
  <2> DEFINE g == [i \in 0 .. m + 1 |-> IF i = m + 1 THEN TakeUnit(f[m], lo + (m + 1) - 1) ELSE f[i]]
  <2>2. ASSUME NEW i \in 0 .. m + 1
        PROVE  g[i] = IF i = 0 THEN bfree ELSE TakeUnit(g[i - 1], lo + i - 1)
    <3>1. CASE i = m + 1
      <4>1. i - 1 = m /\ i # 0 /\ m \in 0 .. m + 1 /\ m # m + 1
        BY <3>1
      <4>2. g[i] = TakeUnit(f[m], lo + i - 1) /\ g[m] = f[m]
        BY <3>1, <4>1
      <4> QED BY <4>1, <4>2
    <3>2. CASE i \in 0 .. m /\ i = 0
      BY <2>1, <3>2
    <3>3. CASE i \in 0 .. m /\ i # 0
      <4>1. g[i] = f[i] /\ i - 1 \in 0 .. m + 1 /\ i - 1 # m + 1 /\ i - 1 \in 0 .. m
        BY <3>3
      <4>2. f[i] = TakeUnit(f[i - 1], lo + i - 1)
        BY <2>1, <3>3
      <4> QED BY <3>3, <4>1, <4>2
    <3> QED BY <3>1, <3>2, <3>3
  <2>3. Good(m + 1, g)
    BY <2>2
  <2>4. \E h : Good(m + 1, h)
    BY <2>3
  <2> HIDE DEF Good
  <2> QED BY <2>4
<1>3. n \in S
  <2> HIDE DEF S
  <2> QED BY <1>1, <1>2, UpTo
<1>4. PICK f : Good(n, f)
  BY <1>3
<1> HIDE DEF S
<1>5. f = [i \in 0 .. n |-> IF i = 0 THEN bfree ELSE TakeUnit(f[i - 1], lo + i - 1)]
  BY <1>4
<1> HIDE DEF Good
<1> QED BY <1>5 DEF TakenUpTo
LEMMA FoundIs ==
  ASSUME NEW lo, NEW n \in Nat
  PROVE  /\ FoundFree(lo, n) \in 0 .. n
         /\ \A j \in 0 .. FoundFree(lo, n) - 1 : Around(bfree, lo + j) # {}
<1> DEFINE S == {m \in 0 .. n : m = n \/ Around(bfree, lo + m) = {}}
<1>1. n \in S /\ S \in SUBSET Nat
  OBVIOUS
<1>2. PICK i \in S : \A m \in S : i <= m
  <2> HIDE DEF S
  <2> QED BY <1>1, LeastIn
<1>3. i \in 0 .. n /\ (i = n \/ Around(bfree, lo + i) = {})
  BY <1>2
<1>4. \A j \in 0 .. i - 1 : Around(bfree, lo + j) # {}
  <2> SUFFICES ASSUME NEW j \in 0 .. i - 1, Around(bfree, lo + j) = {} PROVE FALSE
    OBVIOUS
  <2>1. j \in S
    BY <1>3
  <2>2. i <= j
    BY <1>2, <2>1
  <2> QED BY <1>3, <2>2
<1> QED BY <1>3, <1>4 DEF FoundFree

(* A unit is in a free block: the block of some order around it is listed.  *)
LEMMA AroundFree ==
  ASSUME NEW F, ListsFit(F), NEW u \in Arena
  PROVE  Around(F, u) # {} <=> \E p \in FreeOf(F) : Covers(p, u)
<1>0. u \in Nat /\ F \in Lists
  BY DEF Arena, ListsFit
<1>1. ASSUME Around(F, u) # {} PROVE \E p \in FreeOf(F) : Covers(p, u)
  <2>1. PICK k \in Orders : Al(u, k) \in F[k]
    BY <1>1 DEF Around
  <2>2. PICK a \in Arena : a = Al(u, k)
    BY <1>0, <2>1 DEF Lists
  <2>3. a \in Nat /\ a % Size[k] = 0 /\ Idx(a, k) = Idx(u, k)
    BY <1>0, <2>2, AlIs
  <2>4. <<"free", a, Size[k]>> \in FreeOf(F)
    BY <2>1, <2>2, FreeIn
  <2>5. Covers(<<"free", a, Size[k]>>, u)
    BY <1>0, <2>3, BlockCovers
  <2> QED BY <2>4, <2>5
<1>2. ASSUME NEW p \in FreeOf(F), Covers(p, u) PROVE Around(F, u) # {}
  <2>1. PICK b \in Arena \X Orders : b[1] \in F[b[2]] /\ p = <<"free", b[1], Size[b[2]]>>
    BY DEF FreeOf, Named
  <2>2. PICK x \in Arena, k \in Orders : x = b[1] /\ k = b[2]
    BY <2>1
  <2>3. x \in F[k] /\ Fitting(x, k) /\ x \in Nat /\ x % Size[k] = 0
    BY <2>1, <2>2 DEF ListsFit, Fitting, Arena
  <2>4. Idx(u, k) = Idx(x, k)
    BY <1>0, <1>2, <2>1, <2>2, <2>3, BlockCovers
  <2>5. Al(x, k) = x
    BY <2>3, AlSelf
  <2>6. Al(u, k) = x
    BY <2>4, <2>5 DEF Al, Idx
  <2> QED BY <2>3, <2>6 DEF Around
<1> QED BY <1>1, <1>2

(* After m units of a range have been taken: they are set aside one by one. *)
Aside(lo, m) == {<<"lost", u, 1>> : u \in lo .. lo + m - 1}
LEMMA AsideIs ==
  ASSUME NEW lo \in Nat, NEW m \in Nat
  PROVE  /\ Aside(lo, 0) = {} /\ Aside(lo, m + 1) = Aside(lo, m) \cup {<<"lost", lo + m, 1>>}
         /\ \A p \in Aside(lo, m) : p[1] = "lost"
         /\ \A u \in Nat : (\E p \in Aside(lo, m) : Covers(p, u)) <=> lo <= u /\ u < lo + m
<1>1. lo .. lo + (m + 1) - 1 = (lo .. lo + m - 1) \cup {lo + m} /\ lo .. lo + 0 - 1 = {}
  OBVIOUS
<1>2. Aside(lo, 0) = {} /\ Aside(lo, m + 1) = Aside(lo, m) \cup {<<"lost", lo + m, 1>>}
  BY <1>1 DEF Aside
<1>3. \A p \in Aside(lo, m) : p[1] = "lost"
  BY DEF Aside
<1>4. ASSUME NEW u \in Nat PROVE (\E p \in Aside(lo, m) : Covers(p, u)) <=> lo <= u /\ u < lo + m
  <2>1. ASSUME NEW p \in Aside(lo, m), Covers(p, u) PROVE lo <= u /\ u < lo + m
    <3>1. PICK w \in lo .. lo + m - 1 : p = <<"lost", w, 1>>
      BY DEF Aside
    <3>2. w <= u /\ u < w + 1
      BY <2>1, <3>1 DEF Covers
    <3> QED BY <3>2
  <2>2. ASSUME lo <= u, u < lo + m PROVE \E p \in Aside(lo, m) : Covers(p, u)
    <3>1. u \in lo .. lo + m - 1 /\ Covers(<<"lost", u, 1>>, u)
      BY <2>2 DEF Covers
    <3>2. <<"lost", u, 1>> \in Aside(lo, m)
      BY <3>1 DEF Aside
    <3> QED BY <3>1, <3>2
  <2> QED BY <2>1, <2>2
<1> QED BY <1>2, <1>3, <1>4
LEMMA TakenTiles ==
  ASSUME ListsFit(bfree), NEW O, NotFree(O), Tiles(FreeOf(bfree) \cup O),
         NEW lo \in Arena, NEW n \in 1 .. Units - lo, NEW i \in 0 .. FoundFree(lo, n)
  PROVE  /\ ListsFit(TakenUpTo(lo, n)[i])
         /\ Tiles(FreeOf(TakenUpTo(lo, n)[i]) \cup O \cup Aside(lo, i))
<1>1. PICK L : L = TakenUpTo(lo, n)
  OBVIOUS
<1>2. PICK f \in 0 .. n : f = FoundFree(lo, n) /\ \A j \in 0 .. f - 1 : Around(bfree, lo + j) # {}
  <2>1. n \in Nat
    BY DEF Arena
  <2>2. PICK f : f = FoundFree(lo, n)
    OBVIOUS
  <2>3. f \in 0 .. n /\ \A j \in 0 .. f - 1 : Around(bfree, lo + j) # {}
    BY <2>1, <2>2, FoundIs
  <2> QED BY <2>2, <2>3
<1>3. lo \in Nat /\ n \in Nat /\ f \in Nat /\ f <= n /\ lo + n <= Units
  BY DEF Arena
<1>4. L = [j \in 0 .. n |-> IF j = 0 THEN bfree ELSE TakeUnit(L[j - 1], lo + j - 1)]
  BY <1>1, <1>3, TakenIs
<1> DEFINE S == {m \in Nat : ListsFit(L[m]) /\ Tiles(FreeOf(L[m]) \cup O \cup Aside(lo, m))}
<1>5. 0 \in S
  <2>1. L[0] = bfree
    BY <1>3, <1>4
  <2>2. Aside(lo, 0) = {}
    BY <1>3, AsideIs
  <2>3. FreeOf(L[0]) \cup O \cup Aside(lo, 0) = FreeOf(bfree) \cup O
    BY <2>1, <2>2
  <2> HIDE DEF Aside
  <2> QED BY <2>1, <2>3
<1>6. ASSUME NEW m \in Nat, m \in S, m < f PROVE m + 1 \in S
  <2>1. PICK F : F = L[m]
    OBVIOUS
  <2>2. ListsFit(F) /\ Tiles(FreeOf(F) \cup O \cup Aside(lo, m))
    BY <1>6, <2>1
  <2>3. PICK u \in Arena : u = lo + m
    BY <1>2, <1>3, <1>6 DEF Arena
  <2>4. L[m + 1] = TakeUnit(F, u)
    <3>1. m + 1 \in 0 .. n /\ m + 1 # 0 /\ (m + 1) - 1 = m /\ lo + (m + 1) - 1 = u
      BY <1>2, <1>3, <1>6, <2>3
    <3> QED BY <1>4, <2>1, <3>1
  <2>5. Around(bfree, u) # {}
    BY <1>2, <1>6, <2>3
  <2>6. PICK p \in FreeOf(bfree) : Covers(p, u)
    BY <2>3, <2>5, AroundFree
  <2>7. \A q \in O : ~Covers(q, u)
    <3>1. SUFFICES ASSUME NEW q \in O, Covers(q, u) PROVE FALSE
      OBVIOUS
    <3>2. q = p
      BY <2>6, <3>1 DEF Tiles
    <3> QED BY <3>2, FreeFree DEF NotFree
  <2>8. \A q \in Aside(lo, m) : ~Covers(q, u)
    BY <1>3, <2>3, AsideIs DEF Arena
  <2>9. \E q \in FreeOf(F) : Covers(q, u)
    BY <2>2, <2>7, <2>8 DEF Tiles
  <2>10. Around(F, u) # {}
    BY <2>2, <2>9, AroundFree
  <2>11. PICK Q : Q = O \cup Aside(lo, m)
    OBVIOUS
  <2>12. NotFree(Q) /\ Tiles(FreeOf(F) \cup Q)
    <3>1. \A q \in Aside(lo, m) : q[1] = "lost"
      BY <1>3, AsideIs
    <3>2. NotFree(Q)
      BY <2>11, <3>1 DEF NotFree
    <3>3. FreeOf(F) \cup Q = FreeOf(F) \cup O \cup Aside(lo, m)
      BY <2>11, Zenon
    <3> QED BY <2>2, <3>2, <3>3
  <2>13. ListsFit(TakeUnit(F, u)) /\ Tiles(FreeOf(TakeUnit(F, u)) \cup Q \cup {<<"lost", u, 1>>})
    BY <2>2, <2>10, <2>12, TilesTake
  <2>14. Aside(lo, m + 1) = Aside(lo, m) \cup {<<"lost", u, 1>>}
    BY <1>3, <2>3, AsideIs
  <2>15. FreeOf(L[m + 1]) \cup O \cup Aside(lo, m + 1)
           = FreeOf(TakeUnit(F, u)) \cup Q \cup {<<"lost", u, 1>>}
    BY <2>4, <2>11, <2>14, Zenon
  <2>16. ListsFit(L[m + 1])
    BY <2>4, <2>13
  <2>17. Tiles(FreeOf(L[m + 1]) \cup O \cup Aside(lo, m + 1))
    BY <2>13, <2>15
  <2> QED BY <2>16, <2>17
<1>7. i \in 0 .. f
  BY <1>2
<1>8. i \in S
  <2>1. \A m \in 0 .. f : m \in S
    <3> HIDE DEF S
    <3> QED BY <1>3, <1>5, <1>6, UpTo
  <2> QED BY <1>7, <2>1
<1> QED BY <1>1, <1>8
(* Units one after the other are the range they make up. *)
OneByOne(y, lo, n) == {<<y, u, 1>> : u \in lo .. lo + n - 1}
LEMMA RangeCut ==
  ASSUME NEW lo \in Arena, NEW n \in Nat, NEW x, NEW y
  PROVE  Cut(<<x, lo, n>>, OneByOne(y, lo, n))
<1> DEFINE A == {<<y, u, 1>> : u \in lo .. lo + n - 1}
<1> SUFFICES ASSUME NEW u \in Arena
             PROVE  /\ Covers(<<x, lo, n>>, u) <=> \E q \in A : Covers(q, u)
                    /\ \A q, r \in A : Covers(q, u) /\ Covers(r, u) => q = r
  BY DEF Cut, OneByOne
<1>1. u \in Nat /\ lo \in Nat
  BY DEF Arena
<1>2. ASSUME NEW q \in A, Covers(q, u) PROVE q = <<y, u, 1>> /\ lo <= u /\ u < lo + n
  <2>1. PICK w \in lo .. lo + n - 1 : q = <<y, w, 1>>
    OBVIOUS
  <2>2. w <= u /\ u < w + 1
    BY <1>2, <2>1 DEF Covers
  <2>3. w = u
    BY <1>1, <2>2
  <2> QED BY <1>1, <2>1, <2>3
<1>3. ASSUME lo <= u, u < lo + n PROVE <<y, u, 1>> \in A /\ Covers(<<y, u, 1>>, u)
  BY <1>1, <1>3 DEF Covers
<1>4. Covers(<<x, lo, n>>, u) <=> lo <= u /\ u < lo + n
  BY DEF Covers
<1> HIDE DEF A
<1> QED BY <1>2, <1>3, <1>4

LEMMA ReserveKeeps == ASSUME BuddyCore, ReserveRange PROVE BuddyCore'
<1>0. PICK lo \in Arena : \E n \in 1 .. Units - lo :
        /\ res = {} /\ rel = {} /\ lost = {}
        /\ bfree' = Taken(lo, n).lists
        /\ IF Taken(lo, n).n = n THEN res' = {<<lo, n>>} /\ lost' = lost
           ELSE lost' = lo .. lo + Taken(lo, n).n - 1 /\ res' = res
        /\ hdr' = hdr /\ own' = own /\ rel' = rel
  BY DEF ReserveRange
<1>n. PICK n \in 1 .. Units - lo :
        /\ res = {} /\ rel = {} /\ lost = {}
        /\ bfree' = Taken(lo, n).lists
        /\ IF Taken(lo, n).n = n THEN res' = {<<lo, n>>} /\ lost' = lost
           ELSE lost' = lo .. lo + Taken(lo, n).n - 1 /\ res' = res
        /\ hdr' = hdr /\ own' = own /\ rel' = rel
  BY <1>0
<1>1. /\ res = {} /\ rel = {} /\ lost = {}
      /\ bfree' = TakenUpTo(lo, n)[FoundFree(lo, n)]
      /\ FoundFree(lo, n) = n => res' = {<<lo, n>>} /\ lost' = lost
      /\ FoundFree(lo, n) # n => lost' = lo .. lo + FoundFree(lo, n) - 1 /\ res' = res
      /\ hdr' = hdr /\ own' = own /\ rel' = rel
  <2>1. Taken(lo, n).lists = TakenUpTo(lo, n)[FoundFree(lo, n)] /\ Taken(lo, n).n = FoundFree(lo, n)
    BY DEF Taken
  <2> QED BY <1>n, <2>1
<1>2. PICK f \in 0 .. n : f = FoundFree(lo, n)
  <2>1. n \in Nat
    BY DEF Arena
  <2> QED BY <2>1, FoundIs
<1>3. PICK O : O = OwnedOf(own, hdr)
  OBVIOUS
<1>4. NotFree(O) /\ \A p \in O : p[1] \in BClients
  <2>1. \A p \in O : p[1] \in BClients
    BY <1>3, Tags
  <2> QED BY <2>1, BuddyAssumption DEF NotFree
<1>5. Tiles(FreeOf(bfree) \cup O) /\ ListsFit(bfree)
  <2>1. Rest = {}
    BY <1>1 DEF Rest, RestOf
  <2>2. Pieces = FreeOf(bfree) \cup O
    BY <1>3, <2>1, PiecesNow
  <2> QED BY <2>2 DEF BuddyCore, Partition
<1>6. f \in 0 .. FoundFree(lo, n) /\ lo \in Nat /\ n \in Nat /\ n # 0 /\ f \in Nat /\ f <= n
      /\ lo + n <= Units
  BY <1>2 DEF Arena
<1>7. ListsFit(bfree') /\ Tiles(FreeOf(bfree') \cup O \cup Aside(lo, f))
  BY <1>1, <1>2, <1>4, <1>5, <1>6, TakenTiles
<1>8. OwnedOf(own', hdr') = O
  BY <1>1, <1>3
<1>9. Partition'
  <2>1. CASE f = n
    <3>1. res' = {<<lo, n>>} /\ rel' = {} /\ lost' = {}
      BY <1>1, <1>2, <2>1
    <3>2. PICK p : p = <<"image", lo, n>>
      OBVIOUS
    <3>3. Rest' = {p}
      BY <3>1, <3>2 DEF Rest, RestOf
    <3>4. Cut(p, Aside(lo, n))
      <4>1. Cut(<<"image", lo, n>>, OneByOne("lost", lo, n))
        BY <1>6, RangeCut
      <4> QED BY <3>2, <4>1 DEF Aside, OneByOne
    <3>5. Aside(lo, n) \cap O = {} /\ Aside(lo, n) \cap FreeOf(bfree') = {}
      <4>1. \A q \in Aside(lo, n) : q[1] = "lost"
        BY <1>6, AsideIs
      <4>2. "lost" \notin BClients
        BY BuddyAssumption
      <4>3. \A q \in FreeOf(bfree') : q[1] = "free"
        BY FreeFree
      <4> QED BY <1>4, <4>1, <4>2, <4>3
    <3>6. PICK P : P = FreeOf(bfree') \cup O \cup Aside(lo, n)
      OBVIOUS
    <3>7. Aside(lo, n) \subseteq P /\ Tiles(P)
      BY <1>7, <2>1, <3>6
    <3>8. FreeOf(bfree') \cup O \cup {p} = (P \ Aside(lo, n)) \cup {p}
      BY <3>5, <3>6, Zenon
    <3>9. Tiles(FreeOf(bfree') \cup O \cup {p})
      BY <3>4, <3>7, <3>8, JoinTiles
    <3>10. Pieces' = FreeOf(bfree') \cup O \cup {p}
      BY <1>8, <3>3, PiecesNow
    <3> QED BY <3>9, <3>10 DEF Partition
  <2>2. CASE f # n
    <3>1. res' = {} /\ rel' = {} /\ lost' = lo .. lo + f - 1
      BY <1>1, <1>2, <2>2
    <3>2. Rest' = Aside(lo, f)
      BY <3>1 DEF Rest, RestOf, Aside
    <3>3. Pieces' = FreeOf(bfree') \cup O \cup Aside(lo, f)
      BY <1>8, <3>2, PiecesNow
    <3> QED BY <1>7, <3>3 DEF Partition
  <2> QED BY <2>1, <2>2
<1>10. /\ res' \subseteq Nat \X Nat /\ rel' \subseteq Arena /\ lost' \subseteq Arena
       /\ OneSlot'
  <2>1. CASE f = n
    BY <1>1, <1>2, <1>6, <2>1 DEF OneSlot
  <2>2. CASE f # n
    BY <1>1, <1>2, <1>6, <2>2 DEF OneSlot, Arena
  <2> QED BY <2>1, <2>2
<1>11. OwnFit'
  BY <1>1 DEF OwnFit, BuddyCore
<1> QED BY <1>1, <1>7, <1>9, <1>10, <1>11 DEF BuddyCore
LEMMA ReleaseKeeps == ASSUME BuddyCore, ReleaseRange PROVE BuddyCore'
<1>1. PICK r \in res : /\ rel' = r[1] .. r[1] + r[2] - 1 /\ res' = {}
                       /\ bfree' = bfree /\ hdr' = hdr /\ own' = own /\ lost' = lost
  BY DEF ReleaseRange
<1>2. /\ r \in Nat \X Nat /\ r[1] + r[2] <= Units /\ res = {r} /\ rel = {}
      /\ lost \subseteq Arena
  BY DEF BuddyCore, OneSlot
<1>3. PICK lo \in Nat, n \in Nat : lo = r[1] /\ n = r[2]
  BY <1>2
<1>4. rel' = lo .. lo + n - 1 /\ rel' \subseteq Arena
  BY <1>1, <1>2, <1>3 DEF Arena
<1>5. PICK O : O = OwnedOf(own, hdr)
  OBVIOUS
<1>6. PICK L : L = {<<"lost", u, 1>> : u \in lost}
  OBVIOUS
<1>7. PICK A : A = {<<"releasing", u, 1>> : u \in lo .. lo + n - 1}
  OBVIOUS
<1>8. PICK p : p = <<"image", lo, n>>
  OBVIOUS
<1>9. Rest = {p} \cup L
  BY <1>2, <1>3, <1>6, <1>8 DEF Rest, RestOf
<1>10. Rest' = A \cup L
  BY <1>1, <1>4, <1>6, <1>7 DEF Rest, RestOf
<1>11. Pieces = FreeOf(bfree) \cup O \cup ({p} \cup L) /\ Pieces' = FreeOf(bfree) \cup O \cup (A \cup L)
  BY <1>1, <1>5, <1>9, <1>10, PiecesNow
<1>12. p \notin FreeOf(bfree) /\ p \notin O /\ p \notin L
  <2>1. "image" # "free" /\ "image" # "lost" /\ "image" \notin BClients
    BY BuddyAssumption
  <2>2. p[1] = "image"
    BY <1>8
  <2>3. \A q \in FreeOf(bfree) : q[1] = "free"
    BY FreeFree
  <2>4. \A q \in O : q[1] \in BClients
    BY <1>5, Tags
  <2>5. \A q \in L : q[1] = "lost"
    BY <1>6
  <2> QED BY <2>1, <2>2, <2>3, <2>4, <2>5
<1>13. Pieces' = (Pieces \ {p}) \cup A /\ p \in Pieces
  BY <1>11, <1>12, Zenon
<1>14. Cut(p, A)
  <2>1. CASE lo \in Arena
    <3>1. Cut(<<"image", lo, n>>, OneByOne("releasing", lo, n))
      BY <2>1, RangeCut
    <3> QED BY <1>7, <1>8, <3>1 DEF OneByOne
  <2>2. CASE lo \notin Arena
    <3>1. n = 0
      BY <1>2, <1>3, <2>2 DEF Arena
    <3>2. A = {}
      BY <1>7, <3>1
    <3>3. \A u \in Arena : ~Covers(p, u)
      BY <1>8, <3>1 DEF Covers, Arena
    <3> QED BY <3>2, <3>3 DEF Cut
  <2> QED BY <2>1, <2>2
<1>15. Tiles(Pieces)
  BY DEF BuddyCore, Partition
<1>16. PICK P, Q : P = Pieces /\ Q = Pieces'
  OBVIOUS
<1>17. Tiles(Q)
  BY <1>13, <1>14, <1>15, <1>16, CutTiles
<1>18. Partition'
  BY <1>16, <1>17 DEF Partition
<1>19. OneSlot' /\ OwnFit' /\ res' \subseteq Nat \X Nat
  BY <1>1 DEF OneSlot, OwnFit, BuddyCore
<1> QED BY <1>1, <1>4, <1>18, <1>19 DEF BuddyCore
LEMMA UnitKeeps == ASSUME BuddyCore, ReleaseUnit PROVE BuddyCore'
<1>1. PICK u \in rel : /\ hdr' = [hdr EXCEPT ![u] = 0] /\ bfree' = FreeLocked(bfree, u, 0)
                       /\ rel' = rel \ {u} /\ own' = own /\ res' = res /\ lost' = lost
  BY DEF ReleaseUnit
<1>2. /\ u \in Arena /\ rel \subseteq Arena /\ ListsFit(bfree) /\ hdr \in [Arena -> Orders]
      /\ own \in [BClients -> SUBSET Arena]
  BY DEF BuddyCore
<1>3. PICK p : p = <<"releasing", u, 1>>
  OBVIOUS
<1>4. PICK O : O = OwnedOf(own, hdr) \cup RestOf(res, rel \ {u}, lost)
  OBVIOUS
<1>5. 0 \in Orders /\ Size[0] = 1 /\ 0 \in 0 .. MaxOrder
  BY Sizes, MaxOrderIs DEF Orders
<1>6. Fitting(u, 0)
  BY <1>2, <1>5 DEF Fitting, Arena
<1>7. Rest = RestOf(res, rel \ {u}, lost) \cup {p}
  BY <1>3 DEF Rest, RestOf
<1>8. Pieces = FreeOf(bfree) \cup O \cup {p}
  BY <1>4, <1>7, PiecesNow, Zenon
<1>9. NotFree(O) /\ p \notin O
  <2>1. \A q \in OwnedOf(own, hdr) : q[1] \in BClients
    BY Tags
  <2>2. \A q \in RestOf(res, rel \ {u}, lost) : q[1] \in {"image", "releasing", "lost"}
    BY Tags
  <2>3. p \notin RestOf(res, rel \ {u}, lost)
    BY <1>3 DEF RestOf
  <2>4. "releasing" \notin BClients /\ "free" \notin BClients
    BY BuddyAssumption
  <2>5. p[1] = "releasing"
    BY <1>3
  <2> QED BY <1>4, <2>1, <2>2, <2>3, <2>4, <2>5 DEF NotFree
<1>10. ListsFit(bfree') /\ Tiles(FreeOf(bfree') \cup O)
  <2>1. Tiles(FreeOf(bfree) \cup O \cup {<<"releasing", u, Size[0]>>})
    BY <1>3, <1>5, <1>8 DEF BuddyCore, Partition
  <2>2. <<"releasing", u, Size[0]>> \notin O
    BY <1>3, <1>5, <1>9
  <2> QED BY <1>1, <1>2, <1>6, <1>9, <2>1, <2>2, TilesMerge
<1>11. \A d \in BClients : u \notin own[d]
  BY OneHolder
<1>12. \A x \in Arena : x # u => hdr'[x] = hdr[x]
  BY <1>1, <1>2
<1>13. OwnedOf(own', hdr') = OwnedOf(own, hdr)
  <2> DEFINE Z == {x \in BClients \X Arena : x[2] \in own[x[1]]}
  <2>1. \A x \in Z : hdr'[x[2]] = hdr[x[2]]
    BY <1>11, <1>12
  <2>2. OwnedOf(own, hdr) = {<<b[1], b[2], Size[hdr[b[2]]]>> : b \in Z}
        /\ OwnedOf(own', hdr') = {<<b[1], b[2], Size[hdr'[b[2]]]>> : b \in Z}
    BY <1>1 DEF OwnedOf
  <2> HIDE DEF Z
  <2> QED BY <2>1, <2>2
<1>14. Rest' = RestOf(res, rel \ {u}, lost)
  BY <1>1 DEF Rest
<1>15. Pieces' = FreeOf(bfree') \cup O
  BY <1>4, <1>13, <1>14, PiecesNow, Zenon
<1>16. Partition'
  BY <1>10, <1>15 DEF Partition
<1>17. OwnFit'
  <2>1. ASSUME NEW d \in BClients, NEW x \in own[d] PROVE Fitting(x, hdr'[x])
    BY <1>11, <1>12, OneHolder
  <2> QED BY <1>1, <2>1 DEF OwnFit
<1>18. hdr' \in [Arena -> Orders]
  BY <1>1, <1>2, <1>5
<1>19. OneSlot' /\ res' \subseteq Nat \X Nat /\ rel' \subseteq Arena /\ lost' \subseteq Arena
  BY <1>1, <1>2 DEF OneSlot, BuddyCore
<1> QED BY <1>1, <1>2, <1>10, <1>16, <1>17, <1>18, <1>19 DEF BuddyCore

LEMMA BuddyStarts == BInit => BuddyInv
<1> SUFFICES ASSUME BInit PROVE BuddyInv
  OBVIOUS
<1>1. /\ bfree = [k \in Orders |-> {r[1] : r \in {s \in Seed[0] : s[2] = k}}]
      /\ hdr = [u \in Arena |-> 0] /\ own = [c \in BClients |-> {}] /\ mv = [c \in BClients |-> {}]
      /\ res = {} /\ rel = {} /\ lost = {}
  BY DEF BInit
<1>2. RootsFrom(0) /\ \A r \in Seed[0] : r \in Arena \X Orders /\ r[2] <= MaxOrder
  BY Roots, MaxOrderIs DEF RootsFrom
<1>3. ASSUME NEW k \in Orders, NEW o \in Arena PROVE o \in bfree[k] <=> <<o, k>> \in Seed[0]
  <2>1. ASSUME o \in bfree[k] PROVE <<o, k>> \in Seed[0]
    <3>1. PICK r \in Seed[0] : r[2] = k /\ r[1] = o
      BY <1>1, <2>1
    <3>2. r = <<o, k>>
      BY <1>2, <3>1
    <3> QED BY <3>1, <3>2
  <2>2. ASSUME <<o, k>> \in Seed[0] PROVE o \in bfree[k]
    <3>1. PICK r : r = <<o, k>>
      OBVIOUS
    <3>2. r \in Seed[0] /\ r[1] = o /\ r[2] = k
      BY <2>2, <3>1
    <3> QED BY <1>1, <3>2
  <2> QED BY <2>1, <2>2
<1>4. ASSUME NEW k \in Orders, NEW o \in bfree[k] PROVE Fitting(o, k)
  <2>1. PICK r \in Seed[0] : r[2] = k /\ r[1] = o
    BY <1>1
  <2>2. r[1] \in Arena /\ r[1] % Size[r[2]] = 0 /\ r[1] + Size[r[2]] <= Units /\ r[2] <= MaxOrder
    BY <1>2 DEF RootsFrom
  <2> QED BY <2>1, <2>2, MaxOrderIs DEF Fitting, Orders
<1>5. ListsFit(bfree)
  <2>1. \A k \in Orders : bfree[k] \subseteq Arena
    BY <1>4 DEF Fitting
  <2>2. bfree = [k \in Orders |-> bfree[k]]
    BY <1>1
  <2>3. bfree \in Lists
    BY <2>1, <2>2 DEF Lists
  <2> QED BY <1>4, <2>3 DEF ListsFit
<1>6. Pieces = FreeOf(bfree)
  <2>1. Rest = {}
    BY <1>1 DEF Rest, RestOf
  <2>2. OwnedOf(own, hdr) = {}
    BY <1>1 DEF OwnedOf
  <2> QED BY <2>1, <2>2, PiecesNow
<1>7. \A x \in Arena \X Orders : x[1] \in bfree[x[2]] <=> x \in Seed[0]
  <2> SUFFICES ASSUME NEW x \in Arena \X Orders PROVE x[1] \in bfree[x[2]] <=> x \in Seed[0]
    OBVIOUS
  <2>1. x[1] \in Arena /\ x[2] \in Orders /\ x = <<x[1], x[2]>>
    OBVIOUS
  <2> QED BY <1>3, <2>1
<1>8. {x \in Arena \X Orders : x[1] \in bfree[x[2]]} = Seed[0]
  BY <1>2, <1>7
<1>9. FreeOf(bfree) = Named(Seed[0])
  BY <1>8 DEF FreeOf
<1>10. Partition
  <2> SUFFICES ASSUME NEW u \in Arena
               PROVE  \E p \in Named(Seed[0]) :
                        Covers(p, u) /\ \A q \in Named(Seed[0]) : Covers(q, u) => q = p
    BY <1>6, <1>9 DEF Partition, Tiles
  <2>1. PICK r \in Seed[0] : /\ r[1] <= u /\ u < r[1] + Size[r[2]]
                             /\ \A s \in Seed[0] : s[1] <= u /\ u < s[1] + Size[s[2]] => s = r
    BY <1>2 DEF RootsFrom, Arena
  <2>2. PICK p : p = <<"free", r[1], Size[r[2]]>>
    OBVIOUS
  <2>3. p \in Named(Seed[0]) /\ Covers(p, u)
    BY <2>1, <2>2 DEF Named, Covers
  <2>4. ASSUME NEW q \in Named(Seed[0]), Covers(q, u) PROVE q = p
    <3>1. PICK s \in Seed[0] : q = <<"free", s[1], Size[s[2]]>>
      BY DEF Named
    <3>2. s[1] <= u /\ u < s[1] + Size[s[2]]
      BY <2>4, <3>1 DEF Covers
    <3>3. s = r
      BY <2>1, <3>2
    <3> QED BY <2>2, <3>1, <3>3
  <2> QED BY <2>3, <2>4
<1>11. BuddyTypes
  BY <1>1 DEF BuddyTypes, Orders
<1>12. OwnFit /\ MovesOwn /\ OneSlot
  BY <1>1 DEF OwnFit, MovesOwn, OneSlot
<1> QED BY <1>5, <1>10, <1>11, <1>12 DEF BuddyInv
LEMMA BuddyKeeps == BuddyInv /\ [BNext]_bvars => BuddyInv'
<1> SUFFICES ASSUME BuddyInv, [BNext]_bvars PROVE BuddyInv'
  OBVIOUS
<1>0. BuddyCore /\ MvType /\ MovesOwn
  BY InvIs
<1>1. ASSUME NEW c \in BClients,
             BuddyAlloc(c) \/ BuddyFree(c) \/ ReallocShrink(c) \/ ReallocGrow(c) \/ ReallocMove(c)
      PROVE  BuddyInv'
  BY <1>1, CallsKeep
<1>2. CASE ReserveRange \/ ReleaseRange \/ ReleaseUnit
  <2>1. BuddyCore'
    BY <1>0, <1>2, ReserveKeeps, ReleaseKeeps, UnitKeeps
  <2>2. own' = own /\ mv' = mv
    BY <1>2 DEF ReserveRange, ReleaseRange, ReleaseUnit
  <2>3. \A d \in BClients : own[d] \subseteq own'[d]
    BY <2>2
  <2> QED BY <1>0, <2>1, <2>2, <2>3, MovesStay, InvNext
<1>3. CASE UNCHANGED bvars
  <2>1. Pieces' = Pieces /\ Rest' = Rest
    BY <1>3 DEF bvars, Pieces, Rest
  <2> QED BY <1>3, <2>1 DEF bvars, BuddyInv, BuddyTypes, OwnFit, MovesOwn, OneSlot, Partition
<1> QED BY <1>1, <1>2, <1>3 DEF BNext

----------------------------------------------------------------------------
(* The buddy allocator: no two free blocks that could be one.               *)
LEMMA SameBlock ==
  ASSUME NEW x \in Nat, NEW o \in Nat, NEW i \in Orders, x % Size[i] = 0, Idx(x, i) = Idx(o, i)
  PROVE  x = Al(o, i)
<1>1. Al(x, i) = x
  BY AlSelf
<1> QED BY <1>1 DEF Al, Idx
(* The sibling's sibling is the block itself. *)
LEMMA SibSib ==
  ASSUME NEW o \in Nat, NEW i \in Orders
  PROVE  /\ Sib(Sib(o, i), i) = Al(o, i)
         /\ \A x \in Nat : x % Size[i] = 0 /\ Sib(x, i) = Sib(o, i) => x = Al(o, i)
<1>1. PICK q \in Nat : q = Idx(o, i)
  BY IdxUp
<1>2. PICK y \in Nat : y = Sib(o, i) /\ Idx(y, i) = IF q % 2 = 0 THEN q + 1 ELSE q - 1
  BY <1>1, SibIs
<1>3. PICK r \in Nat : r = Idx(y, i)
  BY IdxUp
<1>4. Sib(y, i) \in Nat /\ Sib(y, i) % Size[i] = 0
      /\ Idx(Sib(y, i), i) = IF r % 2 = 0 THEN r + 1 ELSE r - 1
  BY <1>3, SibIs
<1>5. Idx(Sib(y, i), i) = q
  BY <1>1, <1>2, <1>3, <1>4
<1>6. Sib(y, i) = Al(o, i)
  BY <1>1, <1>4, <1>5, SameBlock
<1>7. ASSUME NEW x \in Nat, x % Size[i] = 0, Sib(x, i) = y PROVE x = Al(o, i)
  <2>1. PICK t \in Nat : t = Idx(x, i)
    BY IdxUp
  <2>2. Idx(y, i) = IF t % 2 = 0 THEN t + 1 ELSE t - 1
    BY <1>7, <2>1, SibIs
  <2>3. t = q
    BY <1>1, <1>2, <2>1, <2>2
  <2> QED BY <1>1, <1>7, <2>1, <2>3, SameBlock
<1> QED BY <1>2, <1>6, <1>7

NoBuddies(F) == \A k \in 0 .. MaxOrder - 1, o \in Arena : o \in F[k] => Sib(o, k) \notin F[k]
(* Lists that only gained siblings of a unit that is not free. *)
LEMMA SibsWhole ==
  ASSUME NEW F, NoBuddies(F), NEW G, ListsFit(G), NEW o \in Arena, Around(G, o) = {},
         \A i \in Orders : G[i] \subseteq F[i] \cup {Sib(o, i)}
  PROVE  NoBuddies(G)
<1> SUFFICES ASSUME NEW i \in 0 .. MaxOrder - 1, NEW x \in Arena, x \in G[i], Sib(x, i) \in G[i]
             PROVE  FALSE
  BY DEF NoBuddies
<1>1. i \in Orders /\ o \in Nat /\ x \in Nat /\ x % Size[i] = 0
  BY MaxOrderIs DEF Orders, Arena, ListsFit, Fitting
<1>2. Al(o, i) \notin G[i]
  BY <1>1 DEF Around
<1>3. CASE x = Sib(o, i)
  BY <1>1, <1>2, <1>3, SibSib
<1>4. CASE Sib(x, i) = Sib(o, i)
  BY <1>1, <1>2, <1>4, SibSib
<1>5. CASE x # Sib(o, i) /\ Sib(x, i) # Sib(o, i)
  BY <1>1, <1>5 DEF NoBuddies
<1> QED BY <1>3, <1>4, <1>5
(* A block merged as far as it meets free siblings. *)
LEMMA MergeWhole ==
  ASSUME NEW F, ListsFit(F), NoBuddies(F), NEW o, NEW k, Fitting(o, k), ListsFit(FreeLocked(F, o, k))
  PROVE  NoBuddies(FreeLocked(F, o, k))
<1>1. PICK j : j = MergeTo(F, o, k)
  OBVIOUS
<1>2. PICK G : G = FreeLocked(F, o, k)
  OBVIOUS
<1>3. j \in 0 .. MaxOrder /\ k \in 0 .. MaxOrder /\ j \in Orders /\ o \in Nat
      /\ (j = MaxOrder \/ Sib(o, j) \notin F[j])
  BY <1>1, MergeIs, MaxOrderIs DEF Fitting, Arena, Orders
<1>4. \A i \in Orders : G[i] \subseteq IF i = j THEN F[i] \cup {Al(o, j)} ELSE F[i]
  BY <1>1, <1>2 DEF FreeLocked
<1>5. PICK a \in Nat : a = Al(o, j) /\ a % Size[j] = 0 /\ Idx(a, j) = Idx(o, j)
  BY <1>3, AlIs
<1> SUFFICES ASSUME NEW i \in 0 .. MaxOrder - 1, NEW x \in Arena, x \in G[i], Sib(x, i) \in G[i]
             PROVE  FALSE
  BY <1>2 DEF NoBuddies
<1>6. i \in Orders /\ x \in Nat /\ x % Size[i] = 0
  BY <1>2, MaxOrderIs DEF Orders, Arena, ListsFit, Fitting
<1>7. CASE i # j
  BY <1>4, <1>6, <1>7 DEF NoBuddies
<1>8. CASE i = j
  <2>1. Sib(o, j) \notin F[j] /\ j # MaxOrder
    BY <1>3, <1>8 DEF Orders
  <2>2. Sib(a, j) = Sib(o, j) /\ Sib(a, j) # a
    <3>1. PICK s \in Nat \ {0} : s = Size[j]
      BY <1>3, Sizes
    <3>2. PICK q \in Nat : q = o \div s /\ a \div s = q
      BY <1>3, <1>5, <3>1 DEF Idx
    <3>3. Al(a, j) = a
      BY <1>3, <1>5, AlSelf
    <3> QED BY <1>5, <3>1, <3>2, <3>3 DEF Sib
  <2>3. CASE x = a
    BY <1>4, <1>5, <1>6, <1>8, <2>1, <2>2, <2>3
  <2>4. CASE Sib(x, i) = a
    <3>1. Sib(Sib(x, j), j) = Al(x, j) /\ Al(x, j) = x
      BY <1>6, <1>8, SibSib, AlSelf
    <3>2. Sib(a, j) = x
      BY <1>8, <2>4, <3>1
    <3> QED BY <1>4, <1>5, <1>6, <1>8, <2>1, <2>2, <3>2
  <2>5. CASE x # a /\ Sib(x, i) # a
    BY <1>4, <1>5, <1>6, <1>8, <2>5 DEF NoBuddies
  <2> QED BY <2>3, <2>4, <2>5
<1> QED BY <1>7, <1>8

(* What is held is not free, nor is what has been set aside. *)
LEMMA NoneAround ==
  ASSUME NEW F, ListsFit(F), NEW O, NotFree(O), Tiles(FreeOf(F) \cup O),
         NEW p \in O, NEW u \in Arena, Covers(p, u)
  PROVE  Around(F, u) = {}
<1> SUFFICES ASSUME Around(F, u) # {} PROVE FALSE
  OBVIOUS
<1>1. PICK q \in FreeOf(F) : Covers(q, u)
  BY AroundFree
<1>2. q = p
  BY <1>1 DEF Tiles
<1> QED BY <1>2, FreeFree DEF NotFree
LEMMA HeldAround ==
  ASSUME BuddyCore', NEW c \in BClients, NEW o, o \in own'[c]
  PROVE  Around(bfree', o) = {} /\ ListsFit(bfree') /\ o \in Arena
<1>1. ListsFit(bfree') /\ own' \in [BClients -> SUBSET Arena] /\ hdr' \in [Arena -> Orders] /\ Partition'
  BY DEF BuddyCore
<1>2. o \in Arena /\ hdr'[o] \in Orders
  BY <1>1
<1>3. PICK w, hd, F, R : w = own' /\ hd = hdr' /\ F = bfree' /\ R = Rest'
  OBVIOUS
<1>4. Tiles(FreeOf(F) \cup (OwnedOf(w, hd) \cup R))
  <2>1. FreeOf(F) \cup (OwnedOf(w, hd) \cup R) = FreeOf(F) \cup OwnedOf(w, hd) \cup R
    BY Zenon
  <2> QED BY <1>1, <1>3, <2>1, PiecesNow DEF Partition
<1>5. NotFree(OwnedOf(w, hd) \cup R)
  <2>1. \A p \in R : p[1] \in {"image", "releasing", "lost"}
    BY <1>3, Tags DEF Rest
  <2>2. \A p \in OwnedOf(w, hd) : p[1] \in BClients
    BY Tags
  <2> QED BY <2>1, <2>2, BuddyAssumption DEF NotFree
<1>6. <<c, o, Size[hd[o]]>> \in OwnedOf(w, hd)
  BY <1>2, <1>3, OwnedIn
<1>7. Covers(<<c, o, Size[hd[o]]>>, o)
  <2>1. Size[hd[o]] \in Nat \ {0}
    BY <1>2, <1>3, Sizes
  <2> QED BY <1>2, <2>1 DEF Covers, Arena
<1>8. Around(F, o) = {}
  BY <1>1, <1>2, <1>3, <1>4, <1>5, <1>6, <1>7, NoneAround
<1> QED BY <1>1, <1>2, <1>3, <1>8
LEMMA AllocWhole ==
  ASSUME BuddyCore, Coalesced, NEW c \in BClients, NEW want \in 0 .. MaxOrder, Alloc(c, want), BuddyCore'
  PROVE  Coalesced'
<1>1. PICK k \in Serving(want) : \E o \in bfree[k] :
        /\ bfree' = SplitDown(bfree, o, k, want) /\ own' = [own EXCEPT ![c] = @ \cup {o}]
  BY DEF Alloc
<1>2. PICK o \in bfree[k] :
        /\ bfree' = SplitDown(bfree, o, k, want) /\ own' = [own EXCEPT ![c] = @ \cup {o}]
  BY <1>1
<1>3. k \in Orders /\ Fitting(o, k) /\ own \in [BClients -> SUBSET Arena]
  BY MaxOrderIs DEF Serving, Orders, BuddyCore, ListsFit
<1>4. o \in own'[c]
  BY <1>2, <1>3
<1>5. Around(bfree', o) = {} /\ ListsFit(bfree') /\ o \in Arena
  BY <1>4, HeldAround
<1>6. ASSUME NEW i \in Orders PROVE bfree'[i] \subseteq bfree[i] \cup {Sib(o, i)}
  <2>1. i < k => Sib(o, i) = o + Size[i]
    <3>1. i < k => i <= k
      BY <1>3 DEF Orders
    <3> QED BY <1>3, <3>1, HalvesAre
  <2> QED BY <1>2, <2>1 DEF SplitDown
<1>7. NoBuddies(bfree')
  <2>1. NoBuddies(bfree)
    BY DEF Coalesced, NoBuddies
  <2> QED BY <1>5, <1>6, <2>1, SibsWhole
<1> QED BY <1>7 DEF Coalesced, NoBuddies
LEMMA FreeWhole ==
  ASSUME BuddyCore, Coalesced, BuddyCore', NEW o, NEW k, Fitting(o, k), bfree' = FreeLocked(bfree, o, k)
  PROVE  Coalesced'
<1>1. ListsFit(bfree) /\ ListsFit(bfree') /\ NoBuddies(bfree)
  BY DEF BuddyCore, Coalesced, NoBuddies
<1>2. NoBuddies(bfree')
  BY <1>1, MergeWhole
<1> QED BY <1>2 DEF Coalesced, NoBuddies
LEMMA CallsWhole ==
  ASSUME BuddyInv, Coalesced, BuddyInv', NEW c \in BClients,
         BuddyAlloc(c) \/ BuddyFree(c) \/ ReallocShrink(c) \/ ReallocGrow(c) \/ ReallocMove(c)
  PROVE  Coalesced'
<1>0. BuddyCore /\ MvType /\ MovesOwn /\ BuddyCore'
  BY InvIs DEF BuddyInv, BuddyCore, BuddyTypes
<1>1. CASE BuddyAlloc(c)
  BY <1>0, <1>1, AllocWhole DEF BuddyAlloc
<1>2. CASE BuddyFree(c)
  <2>1. PICK o \in own[c] : bfree' = FreeLocked(bfree, o, hdr[o])
    BY <1>2 DEF BuddyFree
  <2> QED BY <1>0, <2>1, OneHolder, FreeWhole
<1>3. CASE ReallocShrink(c)
  <2>1. PICK o \in own[c], want \in Orders :
          /\ want < hdr[o] /\ bfree' = Halved(bfree, o, hdr[o], want) /\ own' = own
    BY <1>3, Zenon DEF ReallocShrink, Halved
  <2>2. hdr[o] \in Orders /\ Fitting(o, hdr[o]) /\ o \in own'[c]
    BY <1>0, <2>1, OneHolder
  <2>3. Around(bfree', o) = {} /\ ListsFit(bfree') /\ o \in Arena
    BY <1>0, <2>2, HeldAround
  <2>4. ASSUME NEW i \in Orders PROVE bfree'[i] \subseteq bfree[i] \cup {Sib(o, i)}
    <3>1. i < hdr[o] => Sib(o, i) = o + Size[i]
      <4>1. i < hdr[o] => i <= hdr[o]
        BY <2>2 DEF Orders
      <4> QED BY <2>2, <4>1, HalvesAre
    <3> QED BY <2>1, <3>1 DEF Halved
  <2>5. NoBuddies(bfree)
    BY DEF Coalesced, NoBuddies
  <2>6. NoBuddies(bfree')
    BY <2>3, <2>4, <2>5, SibsWhole
  <2> QED BY <2>6 DEF Coalesced, NoBuddies
<1>4. CASE ReallocGrow(c)
  <2>1. PICK o \in own[c], want \in Orders : bfree' = Absorbed(bfree, o, hdr[o], GrowTo(o, hdr[o], want))
    BY <1>4, Zenon DEF ReallocGrow, Absorbed
  <2>2. \A i \in Orders : bfree'[i] \subseteq bfree[i]
    BY <2>1 DEF Absorbed
  <2>3. \A k \in 0 .. MaxOrder - 1 : k \in Orders
    BY MaxOrderIs DEF Orders
  <2> QED BY <2>2, <2>3 DEF Coalesced
<1>5. CASE ReallocMove(c)
  <2>1. PICK m \in mv[c] : \/ Alloc(c, m.want)
                           \/ bfree' = bfree
                           \/ bfree' = FreeLocked(bfree, m.o, hdr[m.o])
    BY <1>5, Zenon DEF ReallocMove
  <2>2. m \in [o : Arena, want : Orders] /\ m.o \in own[c] /\ m.want \in Orders
    BY <1>0 DEF MvType, MovesOwn
  <2>3. CASE Alloc(c, m.want)
    <3>1. m.want \in 0 .. MaxOrder
      <4>1. PICK k \in Serving(m.want) : TRUE
        BY <2>3 DEF Alloc
      <4> QED BY <2>2, <4>1, MaxOrderIs DEF Serving, Orders
    <3> QED BY <1>0, <2>3, <3>1, AllocWhole
  <2>4. CASE bfree' = bfree
    BY <2>4 DEF Coalesced
  <2>5. CASE bfree' = FreeLocked(bfree, m.o, hdr[m.o])
    BY <1>0, <2>2, <2>5, OneHolder, FreeWhole
  <2> QED BY <2>1, <2>3, <2>4, <2>5
<1> QED BY <1>1, <1>2, <1>3, <1>4, <1>5
LEMMA TakenWhole ==
  ASSUME ListsFit(bfree), NoBuddies(bfree), NEW O, NotFree(O), Tiles(FreeOf(bfree) \cup O),
         NEW lo \in Arena, NEW n \in 1 .. Units - lo, NEW i \in 0 .. FoundFree(lo, n)
  PROVE  NoBuddies(TakenUpTo(lo, n)[i])
<1>1. PICK L : L = TakenUpTo(lo, n)
  OBVIOUS
<1>2. PICK f \in 0 .. n : f = FoundFree(lo, n)
  <2>1. n \in Nat
    BY DEF Arena
  <2> QED BY <2>1, FoundIs
<1>3. lo \in Nat /\ n \in Nat /\ f \in Nat /\ f <= n /\ lo + n <= Units
  BY DEF Arena
<1>4. L = [j \in 0 .. n |-> IF j = 0 THEN bfree ELSE TakeUnit(L[j - 1], lo + j - 1)]
  BY <1>1, <1>3, TakenIs
<1> DEFINE S == {m \in Nat : NoBuddies(L[m])}
<1>5. 0 \in S
  <2>1. L[0] = bfree
    BY <1>3, <1>4
  <2> QED BY <2>1
<1>6. ASSUME NEW m \in Nat, m \in S, m < f PROVE m + 1 \in S
  <2>1. PICK F : F = L[m]
    OBVIOUS
  <2>2. PICK u \in Arena : u = lo + m
    BY <1>2, <1>3, <1>6 DEF Arena
  <2>3. L[m + 1] = TakeUnit(F, u)
    <3>1. m + 1 \in 0 .. n /\ m + 1 # 0 /\ (m + 1) - 1 = m /\ lo + (m + 1) - 1 = u
      BY <1>2, <1>3, <1>6, <2>2
    <3> QED BY <1>4, <2>1, <3>1
  <2>4. PICK G : G = L[m + 1]
    OBVIOUS
  <2>5. ListsFit(G) /\ Tiles(FreeOf(G) \cup O \cup Aside(lo, m + 1))
    <3>1. m + 1 \in 0 .. FoundFree(lo, n)
      BY <1>2, <1>3, <1>6
    <3> QED BY <1>1, <2>4, <3>1, TakenTiles
  <2>6. PICK Q : Q = O \cup Aside(lo, m + 1)
    OBVIOUS
  <2>7. NotFree(Q) /\ Tiles(FreeOf(G) \cup Q) /\ <<"lost", u, 1>> \in Q
    <3>1. \A q \in Aside(lo, m + 1) : q[1] = "lost"
      BY <1>3, AsideIs
    <3>2. <<"lost", u, 1>> \in Aside(lo, m + 1)
      <4>1. Aside(lo, m + 1) = Aside(lo, m) \cup {<<"lost", u, 1>>}
        BY <1>3, <2>2, AsideIs
      <4> QED BY <4>1
    <3>3. FreeOf(G) \cup Q = FreeOf(G) \cup O \cup Aside(lo, m + 1)
      BY <2>6, Zenon
    <3>4. NotFree(Q)
      BY <2>6, <3>1 DEF NotFree
    <3> QED BY <2>5, <2>6, <3>2, <3>3, <3>4
  <2>8. Covers(<<"lost", u, 1>>, u)
    BY DEF Covers, Arena
  <2>9. Around(G, u) = {}
    BY <2>5, <2>7, <2>8, NoneAround
  <2>10. \A j \in Orders : G[j] \subseteq F[j] \cup {Sib(u, j)}
    BY <2>3, <2>4 DEF TakeUnit
  <2>11. NoBuddies(G)
    BY <1>6, <2>1, <2>5, <2>9, <2>10, SibsWhole
  <2> QED BY <2>4, <2>11
<1>7. \A m \in 0 .. f : m \in S
  <2> HIDE DEF S
  <2> QED BY <1>3, <1>5, <1>6, UpTo
<1> QED BY <1>1, <1>2, <1>7
LEMMA RangesWhole ==
  ASSUME BuddyCore, Coalesced, BuddyCore', ReserveRange \/ ReleaseRange \/ ReleaseUnit
  PROVE  Coalesced'
<1>0. ListsFit(bfree) /\ NoBuddies(bfree) /\ rel \subseteq Arena
  BY DEF BuddyCore, Coalesced, NoBuddies
<1>1. CASE ReserveRange
  <2>1. PICK lo \in Arena : \E n \in 1 .. Units - lo : bfree' = Taken(lo, n).lists
    BY <1>1 DEF ReserveRange
  <2>2. PICK n \in 1 .. Units - lo : bfree' = Taken(lo, n).lists
    BY <2>1
  <2>3. bfree' = TakenUpTo(lo, n)[FoundFree(lo, n)]
    BY <2>2 DEF Taken
  <2>4. PICK O : O = OwnedOf(own, hdr) \cup Rest
    OBVIOUS
  <2>5. NotFree(O)
    <3>1. \A p \in OwnedOf(own, hdr) : p[1] \in BClients
      BY Tags
    <3> QED BY <2>4, <3>1, RestTags, BuddyAssumption DEF NotFree
  <2>6. Tiles(FreeOf(bfree) \cup O)
    <3>1. Pieces = FreeOf(bfree) \cup O
      BY <2>4, PiecesNow, Zenon
    <3> QED BY <3>1 DEF BuddyCore, Partition
  <2>7. FoundFree(lo, n) \in 0 .. FoundFree(lo, n)
    <3>1. n \in Nat
      BY DEF Arena
    <3>2. FoundFree(lo, n) \in 0 .. n
      BY <3>1, FoundIs
    <3> QED BY <3>2
  <2>8. NoBuddies(bfree')
    BY <1>0, <2>3, <2>5, <2>6, <2>7, TakenWhole
  <2> QED BY <2>8 DEF Coalesced, NoBuddies
<1>2. CASE ReleaseRange
  BY <1>2 DEF ReleaseRange, Coalesced
<1>3. CASE ReleaseUnit
  <2>1. PICK u \in rel : bfree' = FreeLocked(bfree, u, 0)
    BY <1>3 DEF ReleaseUnit
  <2>2. Fitting(u, 0)
    <3>1. u \in Arena /\ Size[0] = 1 /\ 0 \in 0 .. MaxOrder
      BY <1>0, Sizes, MaxOrderIs DEF Orders
    <3> QED BY <3>1 DEF Fitting, Arena
  <2> QED BY <2>1, <2>2, FreeWhole
<1> QED BY <1>1, <1>2, <1>3

(* A root is the largest block that fits where it begins, so the root after *)
(* it is not its sibling.                                                   *)
LEMMA RootsLargest == \A r \in Seed[0] : r \in Arena \X Orders /\ r[2] = RootOrder(r[1])
<1> DEFINE Largest(m) == \A r \in Seed[m] : r[2] = RootOrder(r[1])
           S == {d \in Nat : d <= Units => \A m \in Units - d .. Units : Largest(m)}
<1>1. 0 \in S
  <2>1. Seed[Units] = {}
    BY SeedIs
  <2> QED BY <2>1
<1>2. ASSUME NEW d \in Nat, d \in S, d < Units PROVE d + 1 \in S
  <2>1. PICK m \in Arena : m = Units - (d + 1)
    BY <1>2 DEF Arena
  <2>2. \A n \in m + 1 .. Units : Largest(n)
    BY <1>2, <2>1 DEF Arena
  <2>3. m + Size[RootOrder(m)] \in m + 1 .. Units
    BY RootFits
  <2>4. Seed[m] = {<<m, RootOrder(m)>>} \cup Seed[m + Size[RootOrder(m)]]
    <3>1. m \in 0 .. Units /\ m # Units
      BY DEF Arena
    <3>2. PICK f : f = Seed
      OBVIOUS
    <3>3. f[m] = IF m = Units THEN {} ELSE {<<m, RootOrder(m)>>} \cup f[m + Size[RootOrder(m)]]
      BY <3>1, <3>2, SeedIs
    <3> QED BY <3>1, <3>2, <3>3
  <2>5. Largest(m)
    BY <2>2, <2>3, <2>4
  <2>6. \A n \in Units - (d + 1) .. Units : Largest(n)
    <3> HIDE DEF Largest
    <3> QED BY <2>1, <2>2, <2>5 DEF Arena
  <2> QED BY <2>6
<1>3. Units \in S
  <2> HIDE DEF S
  <2> QED BY <1>1, <1>2, UpTo
<1>4. Largest(0)
  BY <1>3
<1>5. RootsFrom(0)
  BY Roots
<1> QED BY <1>4, <1>5 DEF RootsFrom
LEMMA RootsWhole == BInit => Coalesced
<1> SUFFICES ASSUME BInit, NEW k \in 0 .. MaxOrder - 1, NEW o \in Arena, o \in bfree[k],
                    Sib(o, k) \in bfree[k]
             PROVE  FALSE
  BY DEF Coalesced
<1>1. k \in Orders /\ k + 1 \in Orders /\ o \in Nat
  BY MaxOrderIs DEF Orders, Arena
<1>2. ASSUME NEW x \in bfree[k] PROVE Fitting(x, k) /\ RootOrder(x) = k
  <2>1. PICK r \in Seed[0] : r[2] = k /\ r[1] = x
    BY <1>1, <1>2 DEF BInit
  <2>2. RootOrder(x) = k
    BY <2>1, RootsLargest
  <2>3. ListsFit(bfree)
    BY BuddyStarts DEF BuddyInv
  <2> QED BY <1>1, <1>2, <2>2, <2>3 DEF ListsFit
(* whichever of the two is lower would have been larger *)
<1>3. ASSUME NEW x \in Nat, Fitting(x, k), RootOrder(x) = k, Sib(x, k) = x + Size[k], Fitting(x + Size[k], k)
      PROVE  FALSE
  <2>1. x % Size[k + 1] = 0 /\ Size[k + 1] = 2 * Size[k] /\ Size[k] \in Nat
    BY <1>1, <1>3, HighHalf, Sizes DEF Fitting
  <2>2. x \in Arena /\ x + Size[k] + Size[k] <= Units
    BY <1>3 DEF Fitting
  <2>3. Fits(x, k + 1)
    BY <2>1, <2>2 DEF Fits, Arena
  <2>4. ~Fits(x, k + 1)
    <3>1. \A j \in Orders : j > RootOrder(x) => ~Fits(x, j)
      BY <2>2, RootFits
    <3> QED BY <1>1, <1>3, <3>1 DEF Orders
  <2> QED BY <2>3, <2>4
<1>4. PICK y \in Arena : y = Sib(o, k) /\ Fitting(y, k) /\ RootOrder(y) = k
  BY <1>2 DEF Fitting
<1>5. Fitting(o, k) /\ RootOrder(o) = k /\ o % Size[k] = 0
  BY <1>2 DEF Fitting
<1>6. Sib(y, k) = o /\ y \in Nat
  BY <1>1, <1>4, <1>5, SibSib, AlSelf DEF Arena
<1>7. Sib(o, k) = o + Size[k] \/ Sib(y, k) = y + Size[k]
  <2>1. PICK s \in Nat \ {0} : s = Size[k]
    BY <1>1, Sizes
  <2>2. Al(o, k) = o
    BY <1>1, <1>5, AlSelf
  <2>3. Sib(o, k) = o + s \/ Sib(o, k) = o - s
    BY <2>1, <2>2 DEF Sib
  <2> QED BY <1>1, <1>4, <1>6, <2>1, <2>3
<1> QED BY <1>1, <1>3, <1>4, <1>5, <1>6, <1>7

WholeInv == BuddyInv /\ Coalesced
LEMMA WholeKeeps == WholeInv /\ [BNext]_bvars => WholeInv'
<1> SUFFICES ASSUME BuddyInv, Coalesced, [BNext]_bvars PROVE BuddyInv' /\ Coalesced'
  BY DEF WholeInv
<1>1. BuddyInv'
  BY BuddyKeeps
<1>2. BuddyCore /\ BuddyCore'
  BY <1>1, CoreIs DEF BuddyInv, BuddyCore, BuddyTypes
<1>3. ASSUME NEW c \in BClients,
             BuddyAlloc(c) \/ BuddyFree(c) \/ ReallocShrink(c) \/ ReallocGrow(c) \/ ReallocMove(c)
      PROVE  Coalesced'
  BY <1>1, <1>3, CallsWhole
<1>4. CASE ReserveRange \/ ReleaseRange \/ ReleaseUnit
  BY <1>1, <1>2, <1>4, RangesWhole
<1>5. CASE UNCHANGED bvars
  <2>1. Coalesced'
    BY <1>5 DEF bvars, Coalesced
  <2> QED BY <1>1, <2>1
<1> QED BY <1>1, <1>3, <1>4, <1>5 DEF BNext
(* Any arena, any number of callers, any sequence of calls: each unit of    *)
(* the arena is in one piece, free or held by one caller or set aside (no   *)
(* block is handed out twice, no unit is forgotten), and no two free blocks *)
(* are buddies that a merge has missed.                                     *)
THEOREM ArenaTiled == BSpec => []WellTiled
<1>1. BInit => WholeInv
  BY BuddyStarts, RootsWhole DEF WholeInv
<1>2. WholeInv /\ [BNext]_bvars => WholeInv'
  BY WholeKeeps
<1>3. WholeInv => WellTiled
  BY DEF WholeInv, BuddyInv, WellTiled
<1> QED BY <1>1, <1>2, <1>3, PTL DEF BSpec
=============================================================================

--------------------------- MODULE ServiceProofs ---------------------------
(***************************************************************************)
(* Theorems about four small components of the services around the         *)
(* runtime: the memory actor, one run of qosp, the interrupt controller    *)
(* and the timer of the virt board.  Each has an inductive invariant of    *)
(* its own.                                                                *)
(***************************************************************************)
EXTENDS MemActor, QosBoot, Interrupts, FiniteSetTheorems, SequenceTheorems, TLAPS

-----------------------------------------------------------------------------
(* The memory actor: every block has one holder. *)
USE MemAssumption

Keys == Reqs \cup {HartKey}
Requests == Blocks \cup {"take"}
Replies == Blocks \cup {MemDenied}
Stops == {"idle", "pend", "direct", "check", "cas", "blk", "parked", "left", "gone"}

MemTypes ==
  /\ mfree \subseteq Blocks /\ held \in [Reqs -> SUBSET Blocks]
  /\ reply \in [Reqs -> Replies \cup {MemPending}]
  /\ mq \in [Keys -> Seq(Requests)] /\ mscan \in Seq(Keys)
  /\ msrv = <<>> \/ msrv \in {"got", "stored"} \X Reqs \X Replies
  /\ mst \in [Reqs -> {"ready", "blocked", "dead"}] /\ mpc \in [Reqs -> Stops]

(* What a queue holds, and how often. *)
Holds(q, m) == \E i \in 1 .. Len(q) : q[i] = m
Singly(q) == \A i, j \in 1 .. Len(q) : q[i] = q[j] => i = j
Queues == \A k \in Keys : Singly(mq[k]) /\ Len(mq[k]) <= MemRing

Asked(a) == mpc[a] \in Waiting \cup {"left"}
Serves(a, b) == msrv # <<>> /\ msrv[1] = "got" /\ msrv[2] = a /\ msrv[3] = b

(* A request under way is of an actor that waits and has not been answered;  *)
(* nobody has two under way.                                                 *)
UnderWay(a) == Holds(mq[a], "take") \/ \E b \in Replies : Serves(a, b)
Pended ==
  /\ ~Holds(mq[HartKey], "take")
  /\ \A a \in Reqs : /\ UnderWay(a) => Asked(a) /\ reply[a] = MemPending
                     /\ Holds(mq[a], "take") => \A b \in Replies : ~Serves(a, b)
                     /\ mpc[a] = "pend" => reply[a] = MemPending

(* Who has a block. *)
Has(k, x, b) ==
  \/ k = "free" /\ x = HartKey /\ b \in mfree
  \/ k = "held" /\ x \in Reqs /\ b \in held[x]
  \/ k = "asked" /\ x \in Keys /\ Holds(mq[x], b)
  \/ k = "served" /\ x \in Reqs /\ Serves(x, b)
  \/ k = "reply" /\ x \in Reqs /\ Asked(x) /\ reply[x] = b
OneHolder ==
  \A b \in Blocks :
    /\ \E k, x : Has(k, x, b)
    /\ \A k, l, x, y : Has(k, x, b) /\ Has(l, y, b) => k = l /\ x = y
MemInv == MemTypes /\ Queues /\ Pended /\ OneHolder

(* The queues. *)
LEMMA PutLast ==
  ASSUME NEW S, NEW q \in Seq(S), NEW m \in S
  PROVE  /\ Append(q, m) \in Seq(S) /\ Len(Append(q, m)) = Len(q) + 1
         /\ \A n : Holds(Append(q, m), n) <=> Holds(q, n) \/ n = m
         /\ Singly(q) /\ ~Holds(q, m) => Singly(Append(q, m))
<1>1. PICK t : t = Append(q, m)
  OBVIOUS
<1>2. /\ t \in Seq(S) /\ Len(t) = Len(q) + 1 /\ Len(q) \in Nat
      /\ \A i \in 1 .. Len(q) : t[i] = q[i]
      /\ t[Len(q) + 1] = m
  <2>1. /\ Append(q, m) \in Seq(S) /\ Len(Append(q, m)) = Len(q) + 1
        /\ \A i \in 1 .. Len(q) : Append(q, m)[i] = q[i]
        /\ Append(q, m)[Len(q) + 1] = m
    BY ONLY q \in Seq(S), m \in S, AppendProperties
  <2> QED BY <1>1, <2>1
<1>3. \A n : Holds(t, n) <=> Holds(q, n) \/ n = m
  BY ONLY <1>2 DEF Holds
<1>4. Singly(q) /\ ~Holds(q, m) => Singly(t)
  BY ONLY <1>2 DEF Holds, Singly
<1> QED BY <1>1, <1>2, <1>3, <1>4

LEMMA TakeFirst ==
  ASSUME NEW S, NEW q \in Seq(S), q # <<>>, Singly(q)
  PROVE  /\ Head(q) \in S /\ Tail(q) \in Seq(S) /\ Len(Tail(q)) = Len(q) - 1
         /\ Holds(q, Head(q)) /\ Singly(Tail(q))
         /\ \A n : Holds(Tail(q), n) <=> Holds(q, n) /\ n # Head(q)
<1>1. PICK t, h : t = Tail(q) /\ h = Head(q)
  OBVIOUS
<1>2. /\ t \in Seq(S) /\ Len(t) = Len(q) - 1 /\ Len(q) \in Nat /\ Len(q) >= 1
      /\ \A i \in 1 .. Len(t) : t[i] = q[i + 1]
      /\ h = q[1] /\ h \in S
  <2>1. /\ Tail(q) \in Seq(S) /\ Len(Tail(q)) = Len(q) - 1 /\ Head(q) = q[1] /\ Head(q) \in S
        /\ \A i \in 1 .. Len(Tail(q)) : Tail(q)[i] = q[i + 1]
    BY HeadTailProperties
  <2>2. Len(q) \in Nat /\ Len(q) >= 1
    OBVIOUS
  <2> QED BY <1>1, <2>1, <2>2
<1>3. Holds(q, h)
  BY ONLY <1>2 DEF Holds
<1>4. Singly(t)
  BY ONLY <1>2, Singly(q) DEF Singly
<1>5. ASSUME NEW n PROVE Holds(t, n) <=> Holds(q, n) /\ n # h
  <2>1. ASSUME Holds(t, n) PROVE Holds(q, n) /\ n # h
    <3>1. PICK i \in 1 .. Len(t) : t[i] = n
      BY <2>1 DEF Holds
    <3>2. i + 1 \in 1 .. Len(q) /\ 1 \in 1 .. Len(q) /\ i + 1 # 1 /\ q[i + 1] = n
      <4>1. t[i] = q[i + 1]
        BY <1>2
      <4> QED BY <1>2, <3>1, <4>1
    <3>3. n # q[1]
      BY ONLY <3>2, Singly(q) DEF Singly
    <3> QED BY <1>2, <3>2, <3>3 DEF Holds
  <2>2. ASSUME Holds(q, n), n # h PROVE Holds(t, n)
    <3>1. PICK i \in 1 .. Len(q) : q[i] = n
      BY <2>2 DEF Holds
    <3>2. i # 1
      BY <1>2, <2>2, <3>1
    <3>3. i - 1 \in 1 .. Len(t) /\ t[i - 1] = q[(i - 1) + 1] /\ (i - 1) + 1 = i
      BY ONLY <1>2, <3>1, <3>2
    <3>4. t[i - 1] = n
      BY ONLY <3>1, <3>3
    <3> QED BY <3>3, <3>4 DEF Holds
  <2> QED BY <2>1, <2>2
<1> QED BY <1>1, <1>2, <1>3, <1>4, <1>5

(* Blocks move one at a time. *)
Moves(c, l, y) ==
  \A b \in Blocks : \A k, x : Has(k, x, b)' <=> IF b = c THEN k = l /\ x = y ELSE Has(k, x, b)
LEMMA Moved == ASSUME OneHolder, NEW c, NEW l, NEW y, Moves(c, l, y) PROVE OneHolder'
<1> SUFFICES ASSUME NEW b \in Blocks
             PROVE  /\ \E k, x : Has(k, x, b)'
                    /\ \A k, m, x, z : Has(k, x, b)' /\ Has(m, z, b)' => k = m /\ x = z
  BY DEF OneHolder
<1>1. /\ \E k, x : Has(k, x, b)
      /\ \A k, m, x, z : Has(k, x, b) /\ Has(m, z, b) => k = m /\ x = z
  BY DEF OneHolder
<1>2. \A k, x : Has(k, x, b)' <=> IF b = c THEN k = l /\ x = y ELSE Has(k, x, b)
  BY DEF Moves
<1> QED BY <1>1, <1>2

Stays == \A b \in Blocks : \A k, x : Has(k, x, b)' <=> Has(k, x, b)
LEMMA Kept == ASSUME OneHolder, Stays PROVE OneHolder'
<1> SUFFICES ASSUME NEW b \in Blocks
             PROVE  /\ \E k, x : Has(k, x, b)'
                    /\ \A k, m, x, z : Has(k, x, b)' /\ Has(m, z, b)' => k = m /\ x = z
  BY DEF OneHolder
<1>1. /\ \E k, x : Has(k, x, b)
      /\ \A k, m, x, z : Has(k, x, b) /\ Has(m, z, b) => k = m /\ x = z
  BY DEF OneHolder
<1>2. \A k, x : Has(k, x, b)' <=> Has(k, x, b)
  BY DEF Stays
<1> QED BY <1>1, <1>2

(* A block has the one holder it is known to have. *)
LEMMA Only ==
  ASSUME OneHolder, NEW b \in Blocks, NEW k, NEW x, Has(k, x, b)
  PROVE  \A l, y : Has(l, y, b) => l = k /\ y = x
BY DEF OneHolder

LEMMA Types ==
  MemTypes => /\ mfree \subseteq Blocks /\ held \in [Reqs -> SUBSET Blocks]
              /\ reply \in [Reqs -> Replies \cup {MemPending}]
              /\ mq \in [Keys -> Seq(Requests)] /\ mscan \in Seq(Keys)
              /\ (msrv = <<>> \/ msrv \in {"got", "stored"} \X Reqs \X Replies)
              /\ mst \in [Reqs -> {"ready", "blocked", "dead"}] /\ mpc \in [Reqs -> Stops]
BY DEF MemTypes

(* Who waits changes, or nobody does: nothing moves. *)
Still == UNCHANGED <<mfree, held, reply, mq, mscan, msrv>>
TurnTypes == mst' \in [Reqs -> {"ready", "blocked", "dead"}] /\ mpc' \in [Reqs -> Stops]
SameAsked == \A x \in Reqs : (Asked(x)' <=> Asked(x)) /\ (mpc'[x] = "pend" => mpc[x] = "pend")
LEMMA QuietInv == ASSUME MemInv, Still, TurnTypes, SameAsked PROVE MemInv'
<1> USE DEF MemInv
<1>1. MemTypes'
  BY DEF MemTypes, Still, TurnTypes
<1>2. Queues'
  BY DEF Queues, Still
<1>3. /\ \A x, b : Serves(x, b)' <=> Serves(x, b)
      /\ \A k, m : Holds(mq[k], m)' <=> Holds(mq[k], m)
  BY DEF Serves, Still, Holds
<1>4. \A x : UnderWay(x)' <=> UnderWay(x)
  BY <1>3 DEF UnderWay
<1>5. Pended'
  BY <1>3, <1>4 DEF Pended, Still, SameAsked
<1>6. Stays
  BY <1>3 DEF Stays, Has, Still, SameAsked
<1> QED BY <1>1, <1>2, <1>5, <1>6, Kept

(* The places of a requester, and where it goes. *)
Goes(a, s) == mpc' \in [Reqs -> Stops] /\ \A x \in Reqs : mpc'[x] = IF x = a THEN s ELSE mpc[x]
LEMMA WentTo == ASSUME mpc \in [Reqs -> Stops], NEW a \in Reqs, NEW s \in Stops, Go(a, s) PROVE Goes(a, s)
BY DEF Go, Goes

LEMMA TurnInv ==
  ASSUME MemInv, NEW a \in Reqs,
         MemBlockCas(a) \/ RescanReply(a) \/ Unparked(a) \/ KillReq(a) \/ StopDead(a)
  PROVE  MemInv'
<1> USE DEF MemInv
<1>1. mpc \in [Reqs -> Stops] /\ mst \in [Reqs -> {"ready", "blocked", "dead"}]
  BY Types
<1>2. Still
  BY DEF Still, MemBlockCas, RescanReply, Unparked, KillReq, StopDead
<1>3. mst' \in [Reqs -> {"ready", "blocked", "dead"}]
  BY <1>1 DEF MemBlockCas, RescanReply, Unparked, KillReq, StopDead
<1>4. CASE KillReq(a)
  <2>1. TurnTypes /\ SameAsked
    BY <1>1, <1>3, <1>4 DEF KillReq, TurnTypes, SameAsked, Asked
  <2> QED BY <1>2, <2>1, QuietInv
<1>5. CASE StopDead(a)
  <2>1. Goes(a, "gone") /\ mpc[a] = "idle"
    BY <1>1, <1>5, WentTo DEF StopDead, In, Stops
  <2>2. TurnTypes /\ SameAsked
    BY <1>3, <2>1 DEF Goes, TurnTypes, SameAsked, Asked, Waiting
  <2> QED BY <1>2, <2>2, QuietInv
<1>6. CASE MemBlockCas(a) \/ RescanReply(a) \/ Unparked(a)
  <2>1. PICK s \in {"left", "blk", "check", "parked"} : Go(a, s)
    BY <1>6 DEF MemBlockCas, RescanReply, Unparked
  <2>2. Goes(a, s) /\ mpc[a] \in Waiting
    BY <1>1, <1>6, <2>1, WentTo DEF MemBlockCas, RescanReply, Unparked, In, Stops, Waiting
  <2>3. TurnTypes /\ SameAsked
    BY <1>3, <2>2 DEF Goes, TurnTypes, SameAsked, Asked, Waiting
  <2> QED BY <1>2, <2>3, QuietInv
<1> QED BY <1>4, <1>5, <1>6

(* What a has grows or shrinks. *)
Holding(a, S) == held' \in [Reqs -> SUBSET Blocks] /\ \A x \in Reqs : held'[x] = IF x = a THEN S ELSE held[x]
LEMMA HeldBy ==
  ASSUME held \in [Reqs -> SUBSET Blocks], NEW a \in Reqs, NEW S \in SUBSET Blocks,
         held' = [held EXCEPT ![a] = S]
  PROVE  Holding(a, S)
BY DEF Holding

LEMMA HeldMore ==
  ASSUME held \in [Reqs -> SUBSET Blocks], NEW a \in Reqs, NEW b \in Blocks,
         held' = [held EXCEPT ![a] = @ \cup {b}]
  PROVE  Holding(a, held[a] \cup {b})
BY DEF Holding

LEMMA HeldLess ==
  ASSUME held \in [Reqs -> SUBSET Blocks], NEW a \in Reqs, NEW b \in Blocks,
         held' = [held EXCEPT ![a] = @ \ {b}]
  PROVE  Holding(a, held[a] \ {b})
BY DEF Holding

(* A block of the buddy becomes the actor's. *)
LEMMA GotInv ==
  ASSUME MemInv, TurnTypes, SameAsked, NEW a \in Reqs, NEW b \in mfree,
         mfree' = mfree \ {b}, held' = [held EXCEPT ![a] = @ \cup {b}],
         UNCHANGED <<reply, mq, mscan, msrv>>
  PROVE  MemInv'
<1> USE DEF MemInv
<1>1. b \in Blocks /\ Holding(a, held[a] \cup {b})
  BY Types, HeldMore
<1>2. MemTypes'
  BY <1>1 DEF MemTypes, Holding, TurnTypes
<1>3. Queues'
  BY DEF Queues
<1>4. /\ \A x, c : Serves(x, c)' <=> Serves(x, c)
      /\ \A k, m : Holds(mq[k], m)' <=> Holds(mq[k], m)
  BY DEF Serves, Holds
<1>5. \A x : UnderWay(x)' <=> UnderWay(x)
  BY <1>4 DEF UnderWay
<1>6. Pended'
  BY <1>4, <1>5 DEF Pended, SameAsked
<1>7. Has("free", HartKey, b)
  BY DEF Has
<1>8. \A l, y : Has(l, y, b) => l = "free" /\ y = HartKey
  BY <1>1, <1>7, Only
<1>9. Moves(b, "held", a)
  <2> SUFFICES ASSUME NEW c \in Blocks, NEW k, NEW x
               PROVE  Has(k, x, c)' <=> IF c = b THEN k = "held" /\ x = a ELSE Has(k, x, c)
    BY DEF Moves
  <2>1. Has("free", x, c)' <=> Has("free", x, c) /\ c # b
    BY DEF Has
  <2>2. Has("held", x, c)' <=> Has("held", x, c) \/ (x = a /\ c = b)
    BY <1>1 DEF Has, Holding
  <2>3. Has("asked", x, c)' <=> Has("asked", x, c)
    BY <1>4 DEF Has
  <2>4. Has("served", x, c)' <=> Has("served", x, c)
    BY <1>4 DEF Has
  <2>5. Has("reply", x, c)' <=> Has("reply", x, c)
    BY DEF Has, SameAsked
  <2>6. k \notin {"free", "held", "asked", "served", "reply"} => ~Has(k, x, c) /\ ~Has(k, x, c)'
    BY DEF Has
  <2> QED BY <1>8, <2>1, <2>2, <2>3, <2>4, <2>5, <2>6
<1> QED BY <1>2, <1>3, <1>6, <1>9, Moved

LEMMA TakesInv == ASSUME MemInv, NEW a \in Reqs, TakeInline(a) \/ TakeDirect(a) PROVE MemInv'
<1> USE DEF MemInv
<1>1. mpc \in [Reqs -> Stops] /\ mst \in [Reqs -> {"ready", "blocked", "dead"}]
  BY Types
<1>2. UNCHANGED <<reply, mq, mscan, msrv>> /\ mst' = mst
  BY DEF TakeInline, TakeDirect
<1>3. TurnTypes /\ SameAsked
  <2>1. CASE TakeInline(a)
    BY <1>1, <1>2, <2>1 DEF TakeInline, TurnTypes, SameAsked, Asked
  <2>2. CASE TakeDirect(a)
    <3>1. Goes(a, "idle") /\ mpc[a] = "direct"
      BY <1>1, <2>2, WentTo DEF TakeDirect, In, Stops
    <3> QED BY <1>1, <1>2, <3>1 DEF Goes, TurnTypes, SameAsked, Asked, Waiting
  <2> QED BY <2>1, <2>2
<1>4. CASE \E b \in mfree : mfree' = mfree \ {b} /\ held' = [held EXCEPT ![a] = @ \cup {b}]
  BY <1>2, <1>3, <1>4, GotInv
<1>5. CASE mfree = {} /\ UNCHANGED <<mfree, held>>
  <2>1. Still
    BY <1>2, <1>5 DEF Still
  <2> QED BY <1>3, <2>1, QuietInv
<1> QED BY <1>4, <1>5 DEF TakeInline, TakeDirect

(* A request is queued behind the others. *)
Posted(k, m) ==
  /\ mq' \in [Keys -> Seq(Requests)] /\ Queues'
  /\ \A h \in Keys : \A n : Holds(mq'[h], n) <=> Holds(mq[h], n) \/ (h = k /\ n = m)
LEMMA PostFacts ==
  ASSUME mq \in [Keys -> Seq(Requests)], Queues, NEW k \in Keys, NEW m \in Requests,
         CanPost(k), Post(k, m), ~Holds(mq[k], m)
  PROVE  Posted(k, m)
<1>1. PICK q \in Seq(Requests) : q = mq[k]
  OBVIOUS
<1>2. PICK r : r = Append(q, m)
  OBVIOUS
<1>3. /\ r \in Seq(Requests) /\ Len(r) = Len(q) + 1
      /\ \A n : Holds(r, n) <=> Holds(q, n) \/ n = m
      /\ Singly(r)
  <2>1. Singly(q) /\ ~Holds(q, m)
    BY <1>1 DEF Queues
  <2> QED BY <1>2, <2>1, PutLast
<1>4. mq' \in [Keys -> Seq(Requests)] /\ \A h \in Keys : mq'[h] = IF h = k THEN r ELSE mq[h]
  BY <1>1, <1>2, <1>3 DEF Post
<1>5. Len(r) <= MemRing
  <2>1. Len(q) \in Nat /\ Len(q) < MemRing
    BY <1>1 DEF CanPost
  <2> QED BY <1>3, <2>1
<1>6. Queues'
  <2> SUFFICES ASSUME NEW h \in Keys PROVE Singly(mq'[h]) /\ Len(mq'[h]) <= MemRing
    BY DEF Queues, Singly
  <2>1. CASE h = k
    BY <1>3, <1>4, <1>5, <2>1
  <2>2. CASE h # k
    BY <1>4, <2>2 DEF Queues
  <2> QED BY <2>1, <2>2
<1>7. ASSUME NEW h \in Keys, NEW n
      PROVE  Holds(mq'[h], n) <=> Holds(mq[h], n) \/ (h = k /\ n = m)
  BY <1>1, <1>3, <1>4
<1> QED BY <1>4, <1>6, <1>7 DEF Posted

(* A block goes to the buddy, or into a queue to it. *)
LEMMA GaveInv ==
  ASSUME MemInv, NEW a \in Reqs, NEW k \in Keys, NEW b \in held[a], GiveAs(k, b),
         held' = [held EXCEPT ![a] = @ \ {b}], UNCHANGED <<reply, mscan, msrv, mst, mpc>>
  PROVE  MemInv'
<1> USE DEF MemInv
<1>1. b \in Blocks /\ Holding(a, held[a] \ {b}) /\ b \in Requests /\ b # "take"
  BY Types, HeldLess DEF Requests
<1>2. \A x, c : Serves(x, c)' <=> Serves(x, c)
  BY DEF Serves
<1>3. \A x : Asked(x)' <=> Asked(x)
  BY DEF Asked
<1>4. Has("held", a, b)
  BY DEF Has
<1>5. \A l, y : Has(l, y, b) => l = "held" /\ y = a
  BY <1>1, <1>4, Only
<1>6. \A c \in Blocks : \A x : /\ Has("held", x, c)' <=> Has("held", x, c) /\ ~(x = a /\ c = b)
                               /\ Has("served", x, c)' <=> Has("served", x, c)
                               /\ Has("reply", x, c)' <=> Has("reply", x, c)
  <2> SUFFICES ASSUME NEW c \in Blocks, NEW x
               PROVE  /\ Has("held", x, c)' <=> Has("held", x, c) /\ ~(x = a /\ c = b)
                      /\ Has("served", x, c)' <=> Has("served", x, c)
                      /\ Has("reply", x, c)' <=> Has("reply", x, c)
    OBVIOUS
  <2>1. Has("held", x, c)' <=> Has("held", x, c) /\ ~(x = a /\ c = b)
    BY <1>1 DEF Has, Holding
  <2>2. Has("served", x, c)' <=> Has("served", x, c)
    BY <1>2 DEF Has
  <2>3. Has("reply", x, c)' <=> Has("reply", x, c)
    BY <1>3 DEF Has
  <2> QED BY <2>1, <2>2, <2>3
<1>7. CASE mfree' = mfree \cup {b} /\ UNCHANGED mq
  <2>1. MemTypes' /\ Queues'
    BY <1>1, <1>7 DEF MemTypes, Holding, Queues
  <2>2. \A h, m : Holds(mq[h], m)' <=> Holds(mq[h], m)
    BY <1>7 DEF Holds
  <2>3. \A x : UnderWay(x)' <=> UnderWay(x)
    BY <1>2, <2>2 DEF UnderWay
  <2>4. Pended'
    BY <1>2, <1>3, <2>2, <2>3 DEF Pended
  <2>5. Moves(b, "free", HartKey)
    <3> SUFFICES ASSUME NEW c \in Blocks, NEW l, NEW x
                 PROVE  Has(l, x, c)' <=> IF c = b THEN l = "free" /\ x = HartKey ELSE Has(l, x, c)
      BY DEF Moves
    <3>1. Has("free", x, c)' <=> Has("free", x, c) \/ (x = HartKey /\ c = b)
      BY <1>7 DEF Has
    <3>2. Has("asked", x, c)' <=> Has("asked", x, c)
      BY <2>2 DEF Has
    <3>3. l \notin {"free", "held", "asked", "served", "reply"} => ~Has(l, x, c) /\ ~Has(l, x, c)'
      BY DEF Has
    <3> QED BY <1>5, <1>6, <3>1, <3>2, <3>3
  <2> QED BY <2>1, <2>4, <2>5, Moved
<1>8. CASE CanPost(k) /\ Post(k, b) /\ UNCHANGED mfree
  <2>1. ~Has("asked", k, b)
    BY <1>5
  <2>2. ~Holds(mq[k], b)
    BY <2>1 DEF Has
  <2>3. Posted(k, b)
    BY <1>1, <1>8, <2>2, Types, PostFacts
  <2>4. MemTypes'
    BY <1>1, <1>8, <2>3 DEF MemTypes, Holding, Posted
  <2>5. \A h \in Keys : Holds(mq[h], "take")' <=> Holds(mq[h], "take")
    BY <1>1, <2>3 DEF Posted
  <2>6. \A x \in Reqs : UnderWay(x)' <=> UnderWay(x)
    BY <1>2, <2>5 DEF UnderWay, Keys
  <2>7. Pended'
    BY <1>2, <1>3, <2>5, <2>6 DEF Pended, Keys
  <2>8. Moves(b, "asked", k)
    <3> SUFFICES ASSUME NEW c \in Blocks, NEW l, NEW x
                 PROVE  Has(l, x, c)' <=> IF c = b THEN l = "asked" /\ x = k ELSE Has(l, x, c)
      BY DEF Moves
    <3>1. Has("free", x, c)' <=> Has("free", x, c)
      BY <1>8 DEF Has
    <3>2. Has("asked", x, c)' <=> Has("asked", x, c) \/ (x = k /\ c = b)
      BY <2>3 DEF Has, Posted
    <3>3. l \notin {"free", "held", "asked", "served", "reply"} => ~Has(l, x, c) /\ ~Has(l, x, c)'
      BY DEF Has
    <3> QED BY <1>5, <1>6, <3>1, <3>2, <3>3
  <2> QED BY <2>3, <2>4, <2>7, <2>8, Moved DEF Posted
<1> QED BY <1>7, <1>8 DEF GiveAs

LEMMA GivesInv == ASSUME MemInv, NEW a \in Reqs, Give(a) \/ ReapReq(a) PROVE MemInv'
<1>1. a \in Keys /\ HartKey \in Keys
  BY DEF Keys
<1>2. CASE Give(a)
  BY <1>1, <1>2, GaveInv DEF Give
<1>3. CASE ReapReq(a)
  BY <1>1, <1>3, GaveInv DEF ReapReq
<1> QED BY <1>2, <1>3

(* The answer is read. *)
LEMMA CheckInv == ASSUME MemInv, NEW a \in Reqs, CheckReply(a) PROVE MemInv'
<1> USE DEF MemInv
<1>1. /\ mpc \in [Reqs -> Stops] /\ mst' = mst /\ mpc[a] = "check"
      /\ mst \in [Reqs -> {"ready", "blocked", "dead"}] /\ UNCHANGED <<mfree, reply, mq, mscan, msrv>>
  BY Types DEF CheckReply, In
<1>2. CASE reply[a] = MemPending
  <2>1. Goes(a, "cas") /\ UNCHANGED held
    BY <1>1, <1>2, WentTo DEF CheckReply, Stops
  <2>2. Still /\ TurnTypes /\ SameAsked
    BY <1>1, <2>1 DEF Goes, Still, TurnTypes, SameAsked, Asked, Waiting
  <2> QED BY <2>2, QuietInv
<1>3. CASE reply[a] # MemPending
  <2>1. Goes(a, "idle") /\ held' = [held EXCEPT ![a] = @ \cup ({reply[a]} \ {MemDenied})]
    BY <1>1, <1>3, WentTo DEF CheckReply, Stops
  <2>2. PICK c \in Replies : c = reply[a]
    BY <1>3, Types
  <2>3. Holding(a, held[a] \cup ({c} \ {MemDenied}))
    <3>1. held[a] \cup ({c} \ {MemDenied}) \in SUBSET Blocks /\ held \in [Reqs -> SUBSET Blocks]
      BY <2>2, Types DEF Replies
    <3>2. held' = [held EXCEPT ![a] = held[a] \cup ({c} \ {MemDenied})]
      BY <2>1, <2>2
    <3> QED BY <3>1, <3>2, HeldBy
  <2>4. MemTypes' /\ Queues'
    BY <1>1, <2>1, <2>3 DEF MemTypes, Goes, Holding, Queues
  <2>5. /\ \A x, b : Serves(x, b)' <=> Serves(x, b)
        /\ \A k, m : Holds(mq[k], m)' <=> Holds(mq[k], m)
    BY <1>1 DEF Serves, Holds
  <2>6. \A x : UnderWay(x)' <=> UnderWay(x)
    BY <2>5 DEF UnderWay
  <2>7. Asked(a) /\ ~Asked(a)' /\ \A x \in Reqs \ {a} : Asked(x)' <=> Asked(x)
    BY <1>1, <2>1 DEF Asked, Goes, Waiting
  <2>8. ~UnderWay(a)
    BY <1>3 DEF Pended
  <2>9. Pended'
    <3>1. \A x \in Reqs : mpc'[x] = "pend" => mpc[x] = "pend"
      BY <2>1 DEF Goes
    <3> QED BY <1>1, <2>5, <2>6, <2>7, <2>8, <3>1 DEF Pended
  <2>10. \A b \in Blocks : \A x : /\ Has("free", x, b)' <=> Has("free", x, b)
                                  /\ Has("asked", x, b)' <=> Has("asked", x, b)
                                  /\ Has("served", x, b)' <=> Has("served", x, b)
    BY <1>1, <2>5 DEF Has
  <2>11. \A b \in Blocks : \A x : Has("reply", x, b)' <=> Has("reply", x, b) /\ ~(x = a /\ b = c)
    <3> SUFFICES ASSUME NEW b \in Blocks, NEW x
                 PROVE  Has("reply", x, b)' <=> Has("reply", x, b) /\ ~(x = a /\ b = c)
      OBVIOUS
    <3> QED BY <1>1, <2>2, <2>7 DEF Has
  <2>12. \A b, l, x : l \notin {"free", "held", "asked", "served", "reply"} => ~Has(l, x, b) /\ ~Has(l, x, b)'
    BY DEF Has
  <2>13. CASE c = MemDenied
    <3>1. Stays
      <4> SUFFICES ASSUME NEW b \in Blocks, NEW l, NEW x PROVE Has(l, x, b)' <=> Has(l, x, b)
        BY DEF Stays
      <4>1. Has("held", x, b)' <=> Has("held", x, b)
        BY <2>3, <2>13 DEF Has, Holding
      <4>2. b # c
        BY <2>13
      <4> QED BY <2>10, <2>11, <2>12, <4>1, <4>2
    <3> QED BY <2>4, <2>9, <3>1, Kept
  <2>14. CASE c # MemDenied
    <3>1. c \in Blocks /\ Has("reply", a, c)
      BY <2>2, <2>7, <2>14 DEF Replies, Has
    <3>2. \A l, y : Has(l, y, c) => l = "reply" /\ y = a
      BY <3>1, Only
    <3>3. Moves(c, "held", a)
      <4> SUFFICES ASSUME NEW b \in Blocks, NEW l, NEW x
                   PROVE  Has(l, x, b)' <=> IF b = c THEN l = "held" /\ x = a ELSE Has(l, x, b)
        BY DEF Moves
      <4>1. Has("held", x, b)' <=> Has("held", x, b) \/ (x = a /\ b = c)
        BY <2>3, <2>14 DEF Has, Holding
      <4> QED BY <2>10, <2>11, <2>12, <3>2, <4>1
    <3> QED BY <2>4, <2>9, <3>3, Moved
  <2> QED BY <2>13, <2>14
<1> QED BY <1>2, <1>3

(* A request begins, and is posted. *)
LEMMA MissInv == ASSUME MemInv, NEW a \in Reqs, TakeMiss(a) PROVE MemInv'
<1> USE DEF MemInv
<1>1. /\ mpc[a] = "idle" /\ Goes(a, "pend") /\ UNCHANGED <<mfree, held, mq, mscan, msrv, mst>>
  BY Types, WentTo DEF TakeMiss, In, Stops
<1>2. /\ reply' \in [Reqs -> Replies \cup {MemPending}]
      /\ \A x \in Reqs : reply'[x] = IF x = a THEN MemPending ELSE reply[x]
  BY Types DEF TakeMiss
<1>3. MemTypes' /\ Queues'
  BY <1>1, <1>2 DEF MemTypes, Goes, Queues
<1>4. /\ \A x, b : Serves(x, b)' <=> Serves(x, b)
      /\ \A k, m : Holds(mq[k], m)' <=> Holds(mq[k], m)
  BY <1>1 DEF Serves, Holds
<1>5. \A x : UnderWay(x)' <=> UnderWay(x)
  BY <1>4 DEF UnderWay
<1>6. ~Asked(a) /\ \A x \in Reqs : Asked(x)' <=> Asked(x)
  BY <1>1 DEF Asked, Goes, Waiting
<1>7. ~UnderWay(a)
  BY <1>6 DEF Pended
<1>8. Pended'
  <2>1. \A x \in Reqs : mpc'[x] = "pend" => mpc[x] = "pend" \/ x = a
    BY <1>1 DEF Goes
  <2> QED BY <1>2, <1>4, <1>5, <1>6, <1>7, <2>1 DEF Pended
<1>9. Stays
  <2> SUFFICES ASSUME NEW b \in Blocks, NEW l, NEW x PROVE Has(l, x, b)' <=> Has(l, x, b)
    BY DEF Stays
  <2>1. Has("reply", x, b)' <=> Has("reply", x, b)
    BY <1>2, <1>6 DEF Has
  <2>2. l # "reply" => (Has(l, x, b)' <=> Has(l, x, b))
    BY <1>1, <1>4 DEF Has
  <2> QED BY <2>1, <2>2
<1> QED BY <1>3, <1>8, <1>9, Kept

LEMMA PostInv == ASSUME MemInv, NEW a \in Reqs, PostTake(a) PROVE MemInv'
<1> USE DEF MemInv
<1>1. /\ mpc[a] = "pend" /\ mpc \in [Reqs -> Stops] /\ mst' = mst
      /\ UNCHANGED <<mfree, held, reply, mscan, msrv>> /\ reply[a] = MemPending
  BY Types DEF PostTake, In, Pended
<1>2. ~Asked(a) /\ ~UnderWay(a)
  BY <1>1 DEF Asked, Waiting, Pended
<1>3. CASE CanPost(a) /\ Post(a, "take") /\ Go(a, "check")
  <2>1. Goes(a, "check")
    BY <1>1, <1>3, WentTo DEF Stops
  <2>2. Posted(a, "take")
    <3>1. ~Holds(mq[a], "take") /\ a \in Keys /\ "take" \in Requests
      BY <1>2 DEF UnderWay, Keys, Requests
    <3> QED BY <1>3, <3>1, Types, PostFacts
  <2>3. MemTypes' /\ Queues'
    BY <1>1, <2>1, <2>2 DEF MemTypes, Goes, Posted
  <2>4. /\ \A x, b : Serves(x, b)' <=> Serves(x, b)
        /\ \A h \in Keys : Holds(mq[h], "take")' <=> Holds(mq[h], "take") \/ h = a
        /\ \A h \in Keys : \A b \in Blocks : Holds(mq[h], b)' <=> Holds(mq[h], b)
    <3>1. \A x, b : Serves(x, b)' <=> Serves(x, b)
      BY <1>1 DEF Serves
    <3>2. \A b \in Blocks : b # "take"
      OBVIOUS
    <3> QED BY <2>2, <3>1, <3>2 DEF Posted
  <2>5. \A x \in Reqs : UnderWay(x)' <=> UnderWay(x) \/ x = a
    <3> SUFFICES ASSUME NEW x \in Reqs PROVE UnderWay(x)' <=> UnderWay(x) \/ x = a
      OBVIOUS
    <3>1. (\E b \in Replies : Serves(x, b))' <=> \E b \in Replies : Serves(x, b)
      BY <2>4
    <3>2. Holds(mq[x], "take")' <=> Holds(mq[x], "take") \/ x = a
      BY <2>4 DEF Keys
    <3> QED BY <3>1, <3>2 DEF UnderWay
  <2>6. Asked(a)' /\ \A x \in Reqs \ {a} : Asked(x)' <=> Asked(x)
    BY <2>1 DEF Asked, Goes, Waiting
  <2>7. Pended'
    <3>1. ~Holds(mq[HartKey], "take")'
      BY <2>4 DEF Pended, Keys
    <3>2. ASSUME NEW x \in Reqs
          PROVE  /\ UnderWay(x)' => Asked(x)' /\ reply'[x] = MemPending
                 /\ Holds(mq[x], "take")' => \A b \in Replies : ~Serves(x, b)'
                 /\ mpc'[x] = "pend" => reply'[x] = MemPending
      <4>1. CASE x = a
        <5>1. \A b \in Replies : ~Serves(x, b)'
          BY <1>2, <2>4, <4>1 DEF UnderWay
        <5> QED BY <1>1, <2>6, <4>1, <5>1
      <4>2. CASE x # a
        <5>1. mpc'[x] = mpc[x] /\ (Asked(x)' <=> Asked(x)) /\ (UnderWay(x)' <=> UnderWay(x))
              /\ (Holds(mq[x], "take")' <=> Holds(mq[x], "take"))
          BY <2>1, <2>4, <2>5, <2>6, <4>2 DEF Goes, Keys
        <5> QED BY <1>1, <2>4, <5>1 DEF Pended
      <4> QED BY <4>1, <4>2
    <3> QED BY <3>1, <3>2 DEF Pended
  <2>8. Stays
    <3> SUFFICES ASSUME NEW b \in Blocks, NEW l, NEW x PROVE Has(l, x, b)' <=> Has(l, x, b)
      BY DEF Stays
    <3>1. Has("reply", x, b)' <=> Has("reply", x, b)
      BY <1>1, <2>6 DEF Has
    <3>2. Has("asked", x, b)' <=> Has("asked", x, b)
      BY <2>4 DEF Has
    <3>3. l # "reply" /\ l # "asked" => (Has(l, x, b)' <=> Has(l, x, b))
      BY <1>1, <2>4 DEF Has
    <3> QED BY <3>1, <3>2, <3>3
  <2> QED BY <2>3, <2>7, <2>8, Kept
<1>4. CASE UNCHANGED mq /\ Go(a, "direct")
  <2>1. Goes(a, "direct")
    BY <1>1, <1>4, WentTo DEF Stops
  <2>2. Still /\ TurnTypes /\ SameAsked
    BY <1>1, <1>4, <2>1, Types DEF Goes, Still, TurnTypes, SameAsked, Asked, Waiting
  <2> QED BY <2>2, QuietInv
<1> QED BY <1>3, <1>4 DEF PostTake

(* The memory actor. *)
LEMMA LeastOf ==
  ASSUME NEW S \in SUBSET Nat, S # {}
  PROVE  \E x \in S : \A y \in S : x <= y
<1>1. PICK x \in S : \A y \in S : ~(<<y, x>> \in OpToRel(<, Nat))
  BY WFMin, NatLessThanWellFounded
<1>2. ASSUME NEW y \in S PROVE ~(y < x)
  <2>1. ~(<<y, x>> \in OpToRel(<, Nat))
    BY <1>1
  <2>2. ~(<<y, x>> \in {ss \in Nat \X Nat : ss[1] < ss[2]})
    BY ONLY <2>1, Zenon DEF OpToRel
  <2> QED BY <2>2
<1> QED BY <1>2

LEMMA NextIsHeard ==
  ASSUME mscan \in Seq(Keys), \E i \in DOMAIN mscan : mq[mscan[i]] # <<>>
  PROVE  NextChan \in 1 .. Len(mscan) /\ mq[mscan[NextChan]] # <<>>
<1> DEFINE S == {i \in 1 .. Len(mscan) : mq[mscan[i]] # <<>>}
<1>1. DOMAIN mscan = 1 .. Len(mscan) /\ Len(mscan) \in Nat
  OBVIOUS
<1>2. S \in SUBSET Nat /\ S # {}
  BY <1>1
<1>3. PICK i \in S : \A j \in S : i <= j
  <2> HIDE DEF S
  <2> QED BY <1>2, LeastOf
<1>4. i \in DOMAIN mscan /\ mq[mscan[i]] # <<>> /\ \A j \in 1 .. i - 1 : mq[mscan[j]] = <<>>
  <2>1. i \in 1 .. Len(mscan) /\ mq[mscan[i]] # <<>>
    OBVIOUS
  <2>2. ASSUME NEW j \in 1 .. i - 1 PROVE mq[mscan[j]] = <<>>
    <3>1. j \in 1 .. Len(mscan) /\ ~(i <= j)
      BY <1>1, <2>1
    <3>2. j \notin S
      BY <1>3, <3>1
    <3> QED BY <3>1, <3>2
  <2> QED BY <1>1, <2>1, <2>2
<1> HIDE DEF S
<1>5. NextChan \in DOMAIN mscan /\ mq[mscan[NextChan]] # <<>>
  BY <1>4 DEF NextChan
<1> QED BY <1>1, <1>5

LEMMA RotatedKeys == ASSUME mscan \in Seq(Keys), NEW i \in 1 .. Len(mscan) PROVE Rotated(i) \in Seq(Keys)
<1>1. SubSeq(mscan, i + 1, Len(mscan)) \in Seq(Keys)
  OBVIOUS
<1>2. SubSeq(mscan, 1, i) \in Seq(Keys)
  OBVIOUS
<1> QED BY <1>1, <1>2, ConcatProperties DEF Rotated

(* The first request of a queue is taken out. *)
Taken(k, m) ==
  /\ mq' \in [Keys -> Seq(Requests)] /\ Queues' /\ m \in Requests /\ Holds(mq[k], m)
  /\ \A h \in Keys : \A n : Holds(mq'[h], n) <=> Holds(mq[h], n) /\ ~(h = k /\ n = m)
LEMMA TakeFacts ==
  ASSUME mq \in [Keys -> Seq(Requests)], Queues, NEW k \in Keys, mq[k] # <<>>,
         mq' = [mq EXCEPT ![k] = Tail(@)]
  PROVE  Taken(k, Head(mq[k]))
<1>1. PICK q \in Seq(Requests) : q = mq[k]
  OBVIOUS
<1>2. PICK r : r = Tail(q)
  OBVIOUS
<1>3. PICK m : m = Head(q)
  OBVIOUS
<1>4. /\ r \in Seq(Requests) /\ Len(r) = Len(q) - 1 /\ m \in Requests
      /\ \A n : Holds(r, n) <=> Holds(q, n) /\ n # m
      /\ Singly(r) /\ Holds(q, m)
  <2>1. Singly(q) /\ q # <<>>
    BY <1>1 DEF Queues
  <2> QED BY <1>2, <1>3, <2>1, TakeFirst
<1>5. mq' \in [Keys -> Seq(Requests)] /\ \A h \in Keys : mq'[h] = IF h = k THEN r ELSE mq[h]
  BY <1>1, <1>2, <1>4
<1>6. Len(r) <= MemRing
  <2>1. Len(q) \in Nat /\ Len(q) <= MemRing
    BY <1>1 DEF Queues
  <2> QED BY <1>4, <2>1
<1>7. Queues'
  <2> SUFFICES ASSUME NEW h \in Keys PROVE Singly(mq'[h]) /\ Len(mq'[h]) <= MemRing
    BY DEF Queues, Singly
  <2>1. CASE h = k
    BY <1>4, <1>5, <1>6, <2>1
  <2>2. CASE h # k
    BY <1>5, <2>2 DEF Queues
  <2> QED BY <2>1, <2>2
<1>8. ASSUME NEW h \in Keys, NEW n
      PROVE  Holds(mq'[h], n) <=> Holds(mq[h], n) /\ ~(h = k /\ n = m)
  BY <1>1, <1>4, <1>5
<1>9. Taken(k, m)
  BY <1>1, <1>4, <1>5, <1>7, <1>8 DEF Taken
<1> QED BY <1>1, <1>3, <1>9

(* What the memory actor takes out of a queue is a block, or a request its  *)
(* requester waits for.                                                     *)
LEMMA ServeInv == ASSUME MemInv, MemNext PROVE MemInv'
<1> USE DEF MemInv
<1>1. PICK k \in Keys : k = mscan[NextChan] /\ mq[k] # <<>> /\ mscan' \in Seq(Keys)
  <2>1. mscan \in Seq(Keys) /\ \E i \in DOMAIN mscan : mq[mscan[i]] # <<>>
    BY Types DEF MemNext
  <2>2. PICK i \in 1 .. Len(mscan) : i = NextChan /\ mq[mscan[i]] # <<>>
    BY <2>1, NextIsHeard
  <2>3. mscan' \in Seq(Keys) /\ mscan[i] \in Keys
    BY <2>1, <2>2, RotatedKeys DEF MemNext
  <2> QED BY <2>2, <2>3
<1>2. PICK m : m = Head(mq[k])
  OBVIOUS
<1>3. Taken(k, m) /\ msrv = <<>> /\ UNCHANGED <<held, reply, mst, mpc>>
  <2>1. mq' = [mq EXCEPT ![k] = Tail(@)]
    BY <1>1 DEF MemNext
  <2> QED BY <1>1, <1>2, <2>1, Types, TakeFacts DEF MemNext
<1>4. /\ Queues' /\ mq' \in [Keys -> Seq(Requests)] /\ m \in Requests /\ Holds(mq[k], m)
      /\ \A h \in Keys : \A n : Holds(mq[h], n)' <=> Holds(mq[h], n) /\ ~(h = k /\ n = m)
  BY <1>3 DEF Taken
<1>5. \A x, b : ~Serves(x, b)
  BY <1>3 DEF Serves
<1>6. \A x : Asked(x)' <=> Asked(x)
  BY <1>3 DEF Asked
<1>7. \A c \in Blocks : \A x : /\ Has("held", x, c)' <=> Has("held", x, c)
                               /\ Has("asked", x, c)' <=> Has("asked", x, c) /\ ~(x = k /\ c = m)
                               /\ Has("reply", x, c)' <=> Has("reply", x, c)
                               /\ ~Has("served", x, c)
  <2> SUFFICES ASSUME NEW c \in Blocks, NEW x
               PROVE  /\ Has("held", x, c)' <=> Has("held", x, c)
                      /\ Has("asked", x, c)' <=> Has("asked", x, c) /\ ~(x = k /\ c = m)
                      /\ Has("reply", x, c)' <=> Has("reply", x, c)
                      /\ ~Has("served", x, c)
    OBVIOUS
  <2>1. Has("held", x, c)' <=> Has("held", x, c)
    BY <1>3 DEF Has
  <2>2. Has("asked", x, c)' <=> Has("asked", x, c) /\ ~(x = k /\ c = m)
    BY <1>4 DEF Has
  <2>3. Has("reply", x, c)' <=> Has("reply", x, c)
    BY <1>3, <1>6 DEF Has
  <2>4. ~Has("served", x, c)
    BY <1>5 DEF Has
  <2> QED BY <2>1, <2>2, <2>3, <2>4
<1>8. \A b, l, x : l \notin {"free", "held", "asked", "served", "reply"} => ~Has(l, x, b) /\ ~Has(l, x, b)'
  BY DEF Has
<1>9. CASE m # "take"
  <2>1. mfree' = mfree \cup {m} /\ msrv' = msrv /\ m \in Blocks
    BY <1>1, <1>2, <1>4, <1>9 DEF MemNext, Requests
  <2>2. MemTypes'
    BY <1>1, <1>3, <1>4, <2>1 DEF MemTypes
  <2>3. \A x, b : Serves(x, b)' <=> Serves(x, b)
    BY <2>1 DEF Serves
  <2>4. \A h \in Keys : Holds(mq[h], "take")' <=> Holds(mq[h], "take")
    BY <1>4, <1>9
  <2>5. \A x \in Reqs : UnderWay(x)' <=> UnderWay(x)
    BY <2>3, <2>4 DEF UnderWay, Keys
  <2>6. Pended'
    BY <1>3, <1>6, <2>3, <2>4, <2>5 DEF Pended, Keys
  <2>7. Has("asked", k, m)
    BY <1>4 DEF Has
  <2>8. \A l, y : Has(l, y, m) => l = "asked" /\ y = k
    BY <2>1, <2>7, Only
  <2>9. Moves(m, "free", HartKey)
    <3> SUFFICES ASSUME NEW c \in Blocks, NEW l, NEW x
                 PROVE  Has(l, x, c)' <=> IF c = m THEN l = "free" /\ x = HartKey ELSE Has(l, x, c)
      BY DEF Moves
    <3>1. Has("free", x, c)' <=> Has("free", x, c) \/ (x = HartKey /\ c = m)
      BY <2>1 DEF Has
    <3>2. ~Has("served", x, c)'
      BY <1>5, <2>3 DEF Has
    <3> QED BY <1>7, <1>8, <2>8, <3>1, <3>2
  <2> QED BY <1>4, <2>2, <2>6, <2>9, Moved
<1>10. CASE m = "take"
  <2>1. k \in Reqs /\ UnderWay(k)
    <3>1. k # HartKey
      BY <1>4, <1>10 DEF Pended
    <3> QED BY <1>4, <1>10, <3>1 DEF Keys, UnderWay
  <2>2. PICK r \in Replies : /\ msrv' = <<"got", k, r>>
                             /\ IF r \in Blocks THEN r \in mfree /\ mfree' = mfree \ {r} ELSE mfree' = mfree
    <3>1. \/ \E b \in mfree : mfree' = mfree \ {b} /\ msrv' = <<"got", k, b>>
          \/ mfree = {} /\ msrv' = <<"got", k, MemDenied>> /\ UNCHANGED mfree
      BY <1>1, <1>2, <1>10 DEF MemNext
    <3>2. CASE \E b \in mfree : mfree' = mfree \ {b} /\ msrv' = <<"got", k, b>>
      BY <3>2, Types DEF Replies
    <3>3. CASE mfree = {} /\ msrv' = <<"got", k, MemDenied>> /\ UNCHANGED mfree
      BY <3>3 DEF Replies
    <3> QED BY <3>1, <3>2, <3>3
  <2>3. \A x, b : Serves(x, b)' <=> x = k /\ b = r
    BY <2>2 DEF Serves
  <2>4. MemTypes'
    <3>1. msrv' \in {"got", "stored"} \X Reqs \X Replies
      BY <2>1, <2>2
    <3>2. mfree' \subseteq Blocks
      BY <2>2, Types
    <3> QED BY <1>1, <1>3, <1>4, <3>1, <3>2 DEF MemTypes
  <2>5. \A h \in Keys : /\ Holds(mq[h], "take")' <=> Holds(mq[h], "take") /\ h # k
                        /\ \A b \in Blocks : Holds(mq[h], b)' <=> Holds(mq[h], b)
    BY <1>4, <1>10
  <2>6. \A x \in Reqs : UnderWay(x)' <=> UnderWay(x)
    <3> SUFFICES ASSUME NEW x \in Reqs PROVE UnderWay(x)' <=> UnderWay(x)
      OBVIOUS
    <3>1. (\E b \in Replies : Serves(x, b))' <=> x = k
      BY <2>3
    <3>2. Holds(mq[x], "take")' <=> Holds(mq[x], "take") /\ x # k
      BY <2>5 DEF Keys
    <3>3. ~ \E b \in Replies : Serves(x, b)
      BY <1>5
    <3> QED BY <2>1, <3>1, <3>2, <3>3 DEF UnderWay
  <2>7. Pended'
    <3>1. ~Holds(mq[HartKey], "take")'
      BY <2>5 DEF Pended, Keys
    <3>2. ASSUME NEW x \in Reqs
          PROVE  /\ UnderWay(x)' => Asked(x)' /\ reply'[x] = MemPending
                 /\ Holds(mq[x], "take")' => \A b \in Replies : ~Serves(x, b)'
                 /\ mpc'[x] = "pend" => reply'[x] = MemPending
      <4>1. Holds(mq[x], "take")' => x # k
        BY <2>5 DEF Keys
      <4> QED BY <1>3, <1>6, <2>3, <2>6, <4>1 DEF Pended
    <3> QED BY <3>1, <3>2 DEF Pended
  <2>8. \A c \in Blocks : \A x : Has("served", x, c)' <=> x = k /\ c = r
    BY <2>1, <2>3 DEF Has
  <2>9. \A c \in Blocks : c # m
    BY <1>10
  <2>10. CASE r \in Blocks
    <3>1. Has("free", HartKey, r)
      BY <2>2, <2>10 DEF Has
    <3>2. \A l, y : Has(l, y, r) => l = "free" /\ y = HartKey
      BY <2>10, <3>1, Only
    <3>3. Moves(r, "served", k)
      <4> SUFFICES ASSUME NEW c \in Blocks, NEW l, NEW x
                   PROVE  Has(l, x, c)' <=> IF c = r THEN l = "served" /\ x = k ELSE Has(l, x, c)
        BY DEF Moves
      <4>1. Has("free", x, c)' <=> Has("free", x, c) /\ c # r
        BY <2>2, <2>10 DEF Has
      <4> QED BY <1>7, <1>8, <2>8, <2>9, <3>2, <4>1
    <3> QED BY <1>4, <2>4, <2>7, <3>3, Moved
  <2>11. CASE r \notin Blocks
    <3>1. Stays
      <4> SUFFICES ASSUME NEW c \in Blocks, NEW l, NEW x PROVE Has(l, x, c)' <=> Has(l, x, c)
        BY DEF Stays
      <4>1. Has("free", x, c)' <=> Has("free", x, c)
        BY <2>2, <2>11 DEF Has
      <4> QED BY <1>7, <1>8, <2>8, <2>9, <2>11, <4>1
    <3> QED BY <1>4, <2>4, <2>7, <3>1, Kept
  <2> QED BY <2>10, <2>11
<1> QED BY <1>9, <1>10

(* The answer is stored. *)
LEMMA ReplyInv == ASSUME MemInv, MemReply PROVE MemInv'
<1> USE DEF MemInv
<1>1. PICK a \in Reqs, r \in Replies : msrv = <<"got", a, r>>
  BY Types DEF MemReply
<1>2. /\ msrv' = <<"stored", a, r>> /\ UNCHANGED <<mfree, held, mq, mscan, mst, mpc>>
      /\ reply' = [reply EXCEPT ![a] = r]
  BY <1>1 DEF MemReply
<1>3. /\ reply' \in [Reqs -> Replies \cup {MemPending}]
      /\ \A x \in Reqs : reply'[x] = IF x = a THEN r ELSE reply[x]
  BY <1>2, Types
<1>4. Serves(a, r) /\ \A x, b : Serves(x, b) => x = a /\ b = r
  BY <1>1 DEF Serves
<1>5. \A x, b : ~Serves(x, b)'
  BY <1>2 DEF Serves
<1>6. UnderWay(a) /\ Asked(a) /\ reply[a] = MemPending /\ ~Holds(mq[a], "take")
  <2>1. UnderWay(a)
    BY <1>4 DEF UnderWay
  <2> QED BY <1>4, <2>1 DEF Pended
<1>7. MemTypes' /\ Queues'
  <2>1. msrv' \in {"got", "stored"} \X Reqs \X Replies
    BY <1>2
  <2> QED BY <1>2, <1>3, <2>1 DEF MemTypes, Queues
<1>8. \A h, n : Holds(mq[h], n)' <=> Holds(mq[h], n)
  BY <1>2 DEF Holds
<1>9. \A x : Asked(x)' <=> Asked(x)
  BY <1>2 DEF Asked
<1>10. Pended'
  <2>1. ASSUME NEW x \in Reqs
        PROVE  /\ UnderWay(x)' => Asked(x)' /\ reply'[x] = MemPending
               /\ mpc'[x] = "pend" => reply'[x] = MemPending
    <3>1. UnderWay(x)' => Holds(mq[x], "take")
      BY <1>5, <1>8 DEF UnderWay
    <3>2. CASE x = a
      BY <1>2, <1>6, <3>1, <3>2 DEF Asked, Waiting
    <3>3. CASE x # a
      BY <1>2, <1>3, <1>9, <3>1, <3>3 DEF Pended, UnderWay
    <3> QED BY <3>2, <3>3
  <2> QED BY <1>5, <1>8, <2>1 DEF Pended
<1>11. \A b \in Blocks : \A x : /\ Has("free", x, b)' <=> Has("free", x, b)
                                /\ Has("held", x, b)' <=> Has("held", x, b)
                                /\ Has("asked", x, b)' <=> Has("asked", x, b)
                                /\ Has("served", x, b) <=> x = a /\ b = r
                                /\ ~Has("served", x, b)'
                                /\ Has("reply", x, b)' <=> Has("reply", x, b) \/ (x = a /\ b = r)
  <2> SUFFICES ASSUME NEW b \in Blocks, NEW x
               PROVE  /\ Has("free", x, b)' <=> Has("free", x, b)
                      /\ Has("held", x, b)' <=> Has("held", x, b)
                      /\ Has("asked", x, b)' <=> Has("asked", x, b)
                      /\ Has("served", x, b) <=> x = a /\ b = r
                      /\ ~Has("served", x, b)'
                      /\ Has("reply", x, b)' <=> Has("reply", x, b) \/ (x = a /\ b = r)
    OBVIOUS
  <2>1. /\ Has("free", x, b)' <=> Has("free", x, b)
        /\ Has("held", x, b)' <=> Has("held", x, b)
        /\ Has("asked", x, b)' <=> Has("asked", x, b)
    BY <1>2, <1>8 DEF Has
  <2>2. (Has("served", x, b) <=> x = a /\ b = r) /\ ~Has("served", x, b)'
    BY <1>4, <1>5 DEF Has
  <2>3. Has("reply", x, b)' <=> Has("reply", x, b) \/ (x = a /\ b = r)
    BY <1>3, <1>6, <1>9 DEF Has
  <2> QED BY <2>1, <2>2, <2>3
<1>12. \A b, l, x : l \notin {"free", "held", "asked", "served", "reply"} => ~Has(l, x, b) /\ ~Has(l, x, b)'
  BY DEF Has
<1>13. CASE r \in Blocks
  <2>1. Has("served", a, r)
    BY <1>11, <1>13
  <2>2. \A l, y : Has(l, y, r) => l = "served" /\ y = a
    BY <1>13, <2>1, Only
  <2>3. Moves(r, "reply", a)
    <3> SUFFICES ASSUME NEW b \in Blocks, NEW l, NEW x
                 PROVE  Has(l, x, b)' <=> IF b = r THEN l = "reply" /\ x = a ELSE Has(l, x, b)
      BY DEF Moves
    <3> QED BY <1>11, <1>12, <2>2
  <2> QED BY <1>7, <1>10, <2>3, Moved
<1>14. CASE r \notin Blocks
  <2>1. Stays
    BY <1>11, <1>12, <1>14 DEF Stays
  <2> QED BY <1>7, <1>10, <2>1, Kept
<1> QED BY <1>13, <1>14

LEMMA WakeInv == ASSUME MemInv, MemWake PROVE MemInv'
<1> USE DEF MemInv
<1>1. /\ \A x, b : ~Serves(x, b) /\ ~Serves(x, b)'
      /\ msrv' = <<>> /\ UNCHANGED <<mfree, held, reply, mq, mscan, mpc>>
  BY DEF MemWake, Serves
<1>2. mst' \in [Reqs -> {"ready", "blocked", "dead"}]
  BY Types DEF MemWake
<1>3. MemTypes' /\ Queues'
  BY <1>1, <1>2 DEF MemTypes, Queues
<1>4. /\ \A h, n : Holds(mq[h], n)' <=> Holds(mq[h], n)
      /\ \A x : Asked(x)' <=> Asked(x)
  BY <1>1 DEF Holds, Asked
<1>5. \A x : UnderWay(x)' <=> UnderWay(x)
  BY <1>1, <1>4 DEF UnderWay
<1>6. Pended'
  BY <1>1, <1>4, <1>5 DEF Pended
<1>7. Stays
  BY <1>1, <1>4 DEF Stays, Has
<1> QED BY <1>3, <1>6, <1>7, Kept

(* The actors' channels, in some order. *)
LEMMA KeysListed == SetToSeq(Keys) \in Seq(Keys)
<1>1. IsFiniteSet(Keys)
  BY FS_Singleton, FS_Union DEF Keys
<1>2. Cardinality(Keys) \in Nat /\ ExistsBijection(1 .. Cardinality(Keys), Keys)
  BY <1>1, FS_CardinalityType
<1>3. PICK f \in [1 .. Cardinality(Keys) -> Keys] : IsInjective(f)
  BY <1>2 DEF ExistsBijection, Bijection, Injection, IsInjective
<1>4. SetToSeq(Keys) \in [1 .. Cardinality(Keys) -> Keys]
  BY <1>3 DEF SetToSeq
<1> QED BY <1>2, <1>4

LEMMA MemInitInv == MInit => MemInv
<1> SUFFICES ASSUME MInit PROVE MemInv
  OBVIOUS
<1>1. MemTypes
  <2>1. mq \in [Keys -> Seq(Requests)] /\ mscan \in Seq(Keys)
    BY KeysListed DEF MInit, Keys
  <2> QED BY <2>1 DEF MInit, MemTypes, Replies, Stops
<1>2. \A k \in Keys : mq[k] = <<>>
  BY DEF MInit, Keys
<1>3. \A k \in Keys : \A m : ~Holds(mq[k], m)
  BY <1>2 DEF Holds
<1>4. Queues
  BY <1>2 DEF Queues, Singly
<1>5. \A x, b : ~Serves(x, b)
  BY DEF MInit, Serves
<1>6. \A x \in Reqs : ~Asked(x) /\ mpc[x] = "idle" /\ held[x] = {}
  BY DEF MInit, Asked, Waiting
<1>7. Pended
  BY <1>3, <1>5, <1>6 DEF Pended, UnderWay, Keys
<1>8. OneHolder
  <2>1. \A b \in Blocks : \A k, x : Has(k, x, b) <=> k = "free" /\ x = HartKey
    BY <1>3, <1>5, <1>6 DEF Has, MInit
  <2> QED BY <2>1 DEF OneHolder
<1> QED BY <1>1, <1>4, <1>7, <1>8 DEF MemInv

LEMMA MemNextInv == MemInv /\ [MNext]_mvars => MemInv'
<1> SUFFICES ASSUME MemInv, [MNext]_mvars PROVE MemInv'
  OBVIOUS
<1>1. ASSUME NEW a \in Reqs,
             \/ TakeInline(a) \/ TakeMiss(a) \/ TakeStep(a) \/ Give(a)
             \/ KillReq(a) \/ StopDead(a) \/ ReapReq(a)
      PROVE  MemInv'
  BY <1>1, TakesInv, MissInv, PostInv, CheckInv, TurnInv, GivesInv DEF TakeStep
<1>2. CASE MemStep
  BY <1>2, ServeInv, ReplyInv, WakeInv DEF MemStep
<1>3. CASE UNCHANGED mvars
  <2>1. Still /\ TurnTypes /\ SameAsked
    BY <1>3, Types DEF mvars, Still, TurnTypes, SameAsked, Asked, MemInv
  <2> QED BY <2>1, QuietInv
<1> QED BY <1>1, <1>2, <1>3 DEF MNext

(* One holder is one place. *)
LEMMA PlacesFound ==
  ASSUME MemInv, NEW b \in Blocks
  PROVE  /\ <<"free">> \in Places(b) <=> Has("free", HartKey, b)
         /\ \A a \in Reqs : <<"held", a>> \in Places(b) <=> Has("held", a, b)
         /\ \A k \in Keys, i \in 1 .. MemRing :
              <<"asked", <<k, i>>>> \in Places(b) <=> i <= Len(mq[k]) /\ mq[k][i] = b
         /\ <<"served", msrv>> \in Places(b) <=> \E a \in Reqs : Has("served", a, b)
         /\ \A a \in Reqs : <<"reply", a>> \in Places(b) <=> Has("reply", a, b)
         /\ \A p \in Places(b) :
              \/ p = <<"free">> \/ p = <<"served", msrv>>
              \/ \E a \in Reqs : p = <<"held", a>> \/ p = <<"reply", a>>
              \/ \E k \in Keys, i \in 1 .. MemRing : p = <<"asked", <<k, i>>>>
<1> DEFINE F == {<<"free">> : f \in mfree \cap {b}}
           H == {<<"held", a>> : a \in {x \in Reqs : b \in held[x]}}
           Q == {<<"asked", q>> : q \in {x \in Keys \X (1 .. MemRing) :
                                          x[2] <= Len(mq[x[1]]) /\ mq[x[1]][x[2]] = b}}
           S == {<<"served", s>> : s \in {msrv} \cap ({"got"} \X Reqs \X {b})}
           R == {<<"reply", a>> : a \in {x \in Reqs : reply[x] = b /\ mpc[x] \in Waiting \cup {"left"}}}
<1>1. Places(b) = F \cup H \cup Q \cup S \cup R
  <2>1. DOMAIN mq = Keys
    BY Types DEF MemInv
  <2> QED BY <2>1 DEF Places
<1>2. \A p : p \in F <=> p = <<"free">> /\ Has("free", HartKey, b)
  BY DEF Has
<1>3. \A p : p \in H <=> \E a \in Reqs : p = <<"held", a>> /\ Has("held", a, b)
  BY DEF Has
<1>4. \A p : p \in Q <=> \E k \in Keys, i \in 1 .. MemRing :
                            p = <<"asked", <<k, i>>>> /\ i <= Len(mq[k]) /\ mq[k][i] = b
  <2> SUFFICES ASSUME NEW p
               PROVE  p \in Q <=> \E k \in Keys, i \in 1 .. MemRing :
                            p = <<"asked", <<k, i>>>> /\ i <= Len(mq[k]) /\ mq[k][i] = b
    OBVIOUS
  <2>1. ASSUME p \in Q
        PROVE  \E k \in Keys, i \in 1 .. MemRing :
                            p = <<"asked", <<k, i>>>> /\ i <= Len(mq[k]) /\ mq[k][i] = b
    <3>1. PICK x \in Keys \X (1 .. MemRing) : p = <<"asked", x>> /\ x[2] <= Len(mq[x[1]]) /\ mq[x[1]][x[2]] = b
      BY <2>1
    <3>2. x = <<x[1], x[2]>> /\ x[1] \in Keys /\ x[2] \in 1 .. MemRing
      OBVIOUS
    <3> QED BY <3>1, <3>2
  <2>2. ASSUME NEW k \in Keys, NEW i \in 1 .. MemRing,
               p = <<"asked", <<k, i>>>>, i <= Len(mq[k]), mq[k][i] = b
        PROVE  p \in Q
    <3>1. <<k, i>> \in Keys \X (1 .. MemRing) /\ <<k, i>>[1] = k /\ <<k, i>>[2] = i
      OBVIOUS
    <3> QED BY <2>2, <3>1
  <2> QED BY <2>1, <2>2
<1>5. \A p : p \in S <=> p = <<"served", msrv>> /\ \E a \in Reqs : Has("served", a, b)
  <2>1. msrv \in {"got"} \X Reqs \X {b} <=> \E a \in Reqs : Serves(a, b)
    <3>1. msrv = <<>> => msrv \notin {"got"} \X Reqs \X {b}
      OBVIOUS
    <3>2. msrv \in {"got", "stored"} \X Reqs \X Replies =>
            (msrv \in {"got"} \X Reqs \X {b} <=> \E a \in Reqs : Serves(a, b))
      BY DEF Serves
    <3>3. msrv = <<>> => ~ \E a \in Reqs : Serves(a, b)
      BY DEF Serves
    <3> QED BY <3>1, <3>2, <3>3, Types DEF MemInv
  <2>2. \A a \in Reqs : Has("served", a, b) <=> Serves(a, b)
    BY DEF Has
  <2> QED BY <2>1, <2>2
<1>6. \A p : p \in R <=> \E a \in Reqs : p = <<"reply", a>> /\ Has("reply", a, b)
  BY DEF Has, Asked
<1> HIDE DEF F, H, Q, S, R
<1>7. \A p : p \in Places(b) <=> p \in F \/ p \in H \/ p \in Q \/ p \in S \/ p \in R
  BY <1>1
<1>8. <<"free">> \in Places(b) <=> Has("free", HartKey, b)
  BY <1>2, <1>3, <1>4, <1>5, <1>6, <1>7
<1>9. \A a \in Reqs : <<"held", a>> \in Places(b) <=> Has("held", a, b)
  BY <1>2, <1>3, <1>4, <1>5, <1>6, <1>7
<1>10. \A a \in Reqs : <<"reply", a>> \in Places(b) <=> Has("reply", a, b)
  BY <1>2, <1>3, <1>4, <1>5, <1>6, <1>7
<1>11. <<"served", msrv>> \in Places(b) <=> \E a \in Reqs : Has("served", a, b)
  BY <1>2, <1>3, <1>4, <1>5, <1>6, <1>7
<1>12. \A k \in Keys, i \in 1 .. MemRing :
         <<"asked", <<k, i>>>> \in Places(b) <=> i <= Len(mq[k]) /\ mq[k][i] = b
  <2> SUFFICES ASSUME NEW k \in Keys, NEW i \in 1 .. MemRing
               PROVE  <<"asked", <<k, i>>>> \in Places(b) <=> i <= Len(mq[k]) /\ mq[k][i] = b
    OBVIOUS
  <2>1. <<"asked", <<k, i>>>> \in Places(b) <=> <<"asked", <<k, i>>>> \in Q
    BY <1>2, <1>3, <1>5, <1>6, <1>7
  <2>2. \A h, j : <<"asked", <<k, i>>>> = <<"asked", <<h, j>>>> => h = k /\ j = i
    OBVIOUS
  <2> QED BY <1>4, <2>1, <2>2
<1>13. \A p \in Places(b) :
         \/ p = <<"free">> \/ p = <<"served", msrv>>
         \/ \E a \in Reqs : p = <<"held", a>> \/ p = <<"reply", a>>
         \/ \E k \in Keys, i \in 1 .. MemRing : p = <<"asked", <<k, i>>>>
  BY <1>2, <1>3, <1>4, <1>5, <1>6, <1>7
<1> QED BY <1>8, <1>9, <1>10, <1>11, <1>12, <1>13

(* The kind and the holder of a place. *)
LEMMA PlaceHas ==
  ASSUME MemInv, NEW b \in Blocks, NEW p \in Places(b)
  PROVE  \/ p = <<"free">> /\ Has("free", HartKey, b)
         \/ p = <<"served", msrv>> /\ \E a : Has("served", a, b)
         \/ \E a : p = <<"held", a>> /\ Has("held", a, b)
         \/ \E a : p = <<"reply", a>> /\ Has("reply", a, b)
         \/ \E k, i : /\ p = <<"asked", <<k, i>>>> /\ Has("asked", k, b)
                      /\ k \in Keys /\ i \in 1 .. Len(mq[k]) /\ mq[k][i] = b
<1>1. \/ p = <<"free">> \/ p = <<"served", msrv>>
      \/ \E a \in Reqs : p = <<"held", a>> \/ p = <<"reply", a>>
      \/ \E k \in Keys, i \in 1 .. MemRing : p = <<"asked", <<k, i>>>>
  BY PlacesFound
<1>2. CASE \E k \in Keys, i \in 1 .. MemRing : p = <<"asked", <<k, i>>>>
  <2>1. PICK k \in Keys, i \in 1 .. MemRing : p = <<"asked", <<k, i>>>>
    BY <1>2
  <2>2. i <= Len(mq[k]) /\ mq[k][i] = b
    BY <2>1, PlacesFound
  <2>3. i \in 1 .. Len(mq[k])
    <3>1. Len(mq[k]) \in Nat
      BY Types DEF MemInv
    <3> QED BY <2>2, <3>1
  <2>4. Has("asked", k, b)
    BY <2>2, <2>3 DEF Has, Holds
  <2> QED BY <2>1, <2>2, <2>3, <2>4
<1>3. CASE p = <<"free">> \/ p = <<"served", msrv>>
  BY <1>3, PlacesFound
<1>4. CASE \E a \in Reqs : p = <<"held", a>> \/ p = <<"reply", a>>
  BY <1>4, PlacesFound
<1> QED BY <1>1, <1>2, <1>3, <1>4

LEMMA HasPlace == ASSUME MemInv, NEW b \in Blocks PROVE Places(b) # {}
<1>1. PICK k, x : Has(k, x, b)
  BY DEF MemInv, OneHolder
<1>2. CASE k = "free"
  <2>1. Has("free", HartKey, b)
    BY <1>1, <1>2 DEF Has
  <2> QED BY <2>1, PlacesFound
<1>3. CASE k = "held" \/ k = "reply"
  <2>1. x \in Reqs
    BY <1>1, <1>3 DEF Has
  <2> QED BY <1>1, <1>3, <2>1, PlacesFound
<1>4. CASE k = "served"
  <2>1. x \in Reqs
    BY <1>1, <1>4 DEF Has
  <2> QED BY <1>1, <1>4, <2>1, PlacesFound
<1>5. CASE k = "asked"
  <2>1. x \in Keys /\ Holds(mq[x], b)
    BY <1>1, <1>5 DEF Has
  <2>2. PICK i \in 1 .. Len(mq[x]) : mq[x][i] = b
    BY <2>1 DEF Holds
  <2>3. Len(mq[x]) \in Nat /\ Len(mq[x]) <= MemRing
    BY <2>1, Types DEF MemInv, Queues
  <2>4. i \in 1 .. MemRing /\ i <= Len(mq[x])
    BY <2>3
  <2> QED BY <2>1, <2>2, <2>4, PlacesFound
<1> QED BY <1>1, <1>2, <1>3, <1>4, <1>5 DEF Has

LEMMA HolderIsPlace == MemInv => OnePlace
<1> SUFFICES ASSUME MemInv, NEW b \in Blocks PROVE Cardinality(Places(b)) = 1
  BY DEF OnePlace
<1>1. PICK p : p \in Places(b)
  BY HasPlace
<1>2. ASSUME NEW q \in Places(b) PROVE q = p
  <2>1. PICK k, x : /\ Has(k, x, b)
                    /\ \A l, y : Has(l, y, b) => l = k /\ y = x
    BY <1>1, PlaceHas DEF MemInv, OneHolder
  <2>2. \A r \in Places(b) :
          \/ k = "free" /\ r = <<"free">>
          \/ k = "served" /\ r = <<"served", msrv>>
          \/ k = "held" /\ r = <<"held", x>>
          \/ k = "reply" /\ r = <<"reply", x>>
          \/ k = "asked" /\ \E i \in 1 .. Len(mq[x]) : r = <<"asked", <<x, i>>>> /\ mq[x][i] = b /\ x \in Keys
    BY <2>1, PlaceHas
  <2>3. CASE k # "asked"
    BY <1>1, <2>2, <2>3
  <2>4. CASE k = "asked"
    <3>1. PICK i \in 1 .. Len(mq[x]) : p = <<"asked", <<x, i>>>> /\ mq[x][i] = b /\ x \in Keys
      BY <1>1, <2>2, <2>4
    <3>2. PICK j \in 1 .. Len(mq[x]) : q = <<"asked", <<x, j>>>> /\ mq[x][j] = b
      BY <2>2, <2>4
    <3>3. Singly(mq[x])
      BY <3>1 DEF MemInv, Queues
    <3>4. i = j
      BY <3>1, <3>2, <3>3 DEF Singly
    <3> QED BY <3>1, <3>2, <3>4
  <2> QED BY <2>3, <2>4
<1>3. Places(b) = {p}
  BY <1>1, <1>2
<1> QED BY <1>3, FS_Singleton

(* For any number of requesters, blocks and slots of a ring, and a kill at   *)
(* any point: a block is free with the memory actor, with one requester, in  *)
(* one queue, or in one answer, and never in two of these (actors.c,         *)
(* fpr_mem_take and mem_body).                                               *)
THEOREM MemBlocksOnePlace == MSpec => []OnePlace
<1>1. MInit => MemInv
  BY MemInitInv
<1>2. MemInv /\ [MNext]_mvars => MemInv'
  BY MemNextInv
<1>3. MemInv => OnePlace
  BY HolderIsPlace
<1> QED BY <1>1, <1>2, <1>3, PTL DEF MSpec

HIDE MemAssumption

-----------------------------------------------------------------------------
(* One run of qosp. *)
USE BootAssumption

(* What each stage of main has established about the run. *)
Launched == {"start", "run", "join", "exit"}
Entering == {"enter"} \cup Launched
Handing == {"caps"} \cup Entering
Imaging == {"image"} \cup Handing
Checked == {"gate", "ask"} \cup Imaging
Established ==
  /\ stage \in {"load", "refused"} \cup Checked /\ qa \in Archives
  /\ stage \in Checked => qa.sha # "bad"
  /\ stage \in Imaging => \A i \in DOMAIN qa.perms : qa.perms[i].required => granted[i]
  /\ stage \in Handing => Separate(qa) /\ prot = 0 .. Pages(qa.xend) - 1
  /\ stage \in Entering => \A i \in caps : granted[i]
  /\ stage \in Launched => qa.built = Abi

(* A byte below the end of the code is in a page of the prefix, one from the *)
(* end of the prefix on is not.                                              *)
LEMMA PageOf ==
  ASSUME NEW b \in Nat
  PROVE  /\ b \div HostPage \in Nat
         /\ (b \div HostPage) * HostPage <= b /\ b < (b \div HostPage) * HostPage + HostPage
  OBVIOUS

LEMMA PrefixPages ==
  ASSUME NEW b \in Nat, NEW x \in Nat, x > 0
  PROVE  /\ Pages(x) \in Nat
         /\ b < x => b \div HostPage \in 0 .. Pages(x) - 1
         /\ b >= Pages(x) * HostPage => b \div HostPage \notin 0 .. Pages(x) - 1
<1>1. Pages(x) \in Nat /\ Pages(x) * HostPage <= x + HostPage - 1 /\ x + HostPage - 1 < Pages(x) * HostPage + HostPage
  BY PageOf DEF Pages
<1>2. PICK q \in Nat : q = b \div HostPage
  BY PageOf
<1>3. q * HostPage <= b /\ b < q * HostPage + HostPage
  BY <1>2, PageOf
<1>4. PICK p \in Nat : p = Pages(x)
  BY <1>1
<1>5. p * HostPage <= x + HostPage - 1 /\ x + HostPage - 1 < p * HostPage + HostPage
  BY <1>1, <1>4
<1>6. ASSUME b < x PROVE q < p
  <2>1. SUFFICES ASSUME q >= p PROVE FALSE
    OBVIOUS
  <2>2. q * HostPage >= p * HostPage
    BY <2>1
  <2> QED BY <1>3, <1>5, <1>6, <2>2
<1>7. ASSUME b >= p * HostPage PROVE ~(q < p)
  <2>1. SUFFICES ASSUME q + 1 <= p PROVE FALSE
    OBVIOUS
  <2>2. (q + 1) * HostPage <= p * HostPage
    BY <2>1
  <2>3. (q + 1) * HostPage = q * HostPage + HostPage
    OBVIOUS
  <2> QED BY <1>3, <1>7, <2>2, <2>3
<1> QED BY <1>1, <1>2, <1>4, <1>6, <1>7

LEMMA EstablishedInit == BInit => Established
BY DEF BInit, Established, Checked, Imaging, Handing, Entering, Launched

LEMMA EstablishedStep == Established /\ [BootNext]_bootvars => Established'
<1> SUFFICES ASSUME Established, [BootNext]_bootvars PROVE Established'
  OBVIOUS
<1> USE DEF Established, Checked, Imaging, Handing, Entering, Launched, hosted, early, Refuse
<1>1. CASE QaLoad
  BY <1>1 DEF QaLoad, WellFormed
<1>2. CASE AbiGate
  BY <1>2 DEF AbiGate
<1>3. CASE PermGate
  BY <1>3 DEF PermGate, Denies
<1>4. CASE Protect
  BY <1>4 DEF Protect, Separate
<1>5. CASE Serialize
  BY <1>5 DEF Serialize, CapsLines
<1>6. CASE EnterApp
  BY <1>6 DEF EnterApp
<1>7. CASE StartHart \/ StartFails \/ Join
  BY <1>7 DEF StartHart, StartFails, Join
<1>8. CASE \E h \in BHarts : LoopTurn(h) \/ Push(h) \/ SliceEnds(h) \/ \E g \in BHarts : BeginPush(h, g)
  <2>1. PICK h \in BHarts : LoopTurn(h) \/ Push(h) \/ SliceEnds(h) \/ \E g \in BHarts : BeginPush(h, g)
    BY <1>8
  <2>2. CASE LoopTurn(h)
    BY <2>2 DEF LoopTurn
  <2>3. CASE Push(h)
    BY <2>3 DEF Push
  <2>4. CASE SliceEnds(h)
    BY <2>4 DEF SliceEnds
  <2>5. CASE \E g \in BHarts : BeginPush(h, g)
    BY <2>5 DEF BeginPush
  <2> QED BY <2>1, <2>2, <2>3, <2>4, <2>5
<1>9. CASE UNCHANGED bootvars
  BY <1>9 DEF bootvars
<1> QED BY <1>1, <1>2, <1>3, <1>4, <1>5, <1>6, <1>7, <1>8, <1>9 DEF BootNext

LEMMA EstablishedConsents == Established => OnlyConsented
<1> SUFFICES ASSUME Established, Running PROVE OnlyConsented
  BY DEF OnlyConsented
<1>1. stage \in Launched /\ stage \in Entering /\ stage \in Handing /\ stage \in Imaging /\ stage \in Checked
  BY DEF Running, Checked, Imaging, Handing, Entering, Launched
<1>2. /\ qa.sha # "bad" /\ \A i \in DOMAIN qa.perms : qa.perms[i].required => granted[i]
      /\ (\A i \in caps : granted[i]) /\ qa.built = Abi
  BY <1>1 DEF Established
<1>3. /\ qa.xend \in Nat /\ qa.rw \in Nat /\ qa.memsz \in Nat /\ qa.xend > 0
      /\ Pages(qa.xend) * HostPage <= qa.rw /\ prot = 0 .. Pages(qa.xend) - 1
  BY <1>1 DEF Established, Separate
<1>4. ASSUME NEW b \in 0 .. qa.memsz - 1
      PROVE  /\ b < qa.xend => b \div HostPage \in prot
             /\ b >= qa.rw => b \div HostPage \notin prot
  <2>1. PICK x \in Nat : x = qa.xend
    BY <1>3
  <2>2. b \in Nat /\ x > 0 /\ Pages(x) \in Nat
    <3>1. b \in Nat /\ x > 0
      BY <1>3, <2>1
    <3> QED BY <3>1, PrefixPages
  <2>3. PICK e \in Int : e = Pages(x) * HostPage
    BY <2>2
  <2>4. e <= qa.rw
    BY <1>3, <2>1, <2>3
  <2>5. b >= qa.rw => b >= e
    BY <1>3, <2>2, <2>4
  <2> QED BY <1>3, <2>1, <2>2, <2>3, <2>5, PrefixPages
<1> QED BY <1>2, <1>4 DEF OnlyConsented

(* Whatever archive, permissions, answers and hart counts: where qosp lets   *)
(* an application run, its hash was not wrong, every permission it requires  *)
(* was granted and none is passed on that was not, its ABI is the launcher's,*)
(* and its pages are executable up to the code's last byte and nowhere in    *)
(* its data (qosp's main.c, qa.c).                                           *)
THEOREM RunsOnlyConsented == BootSpec => []OnlyConsented
<1>1. BInit => Established
  BY EstablishedInit
<1>2. Established /\ [BootNext]_bootvars => Established'
  BY EstablishedStep
<1>3. Established => OnlyConsented
  BY EstablishedConsents
<1> QED BY <1>1, <1>2, <1>3, PTL DEF BootSpec

HIDE BootAssumption

-----------------------------------------------------------------------------
(* Device interrupts: the deliveries of a source, and who writes its word. *)
USE PlicAssumption

Words == {WordOf[s] : s \in Srcs}
Doings == [op : {"idle", "set", "clear"}, src : Srcs \cup {Resting.src}, word : SUBSET Srcs]
PlicTypes ==
  /\ irqAct \subseteq Srcs /\ busy \subseteq irqAct
  /\ enabled \in [Words -> SUBSET Srcs] /\ mail \in [Srcs -> Nat]
  /\ doing \in [PlicHarts -> Doings]
  /\ masksUndone \in [Srcs -> Nat] /\ armsUndone \in [Srcs -> Nat]

Armed(s) == s \in enabled[WordOf[s]]
(* Only the irq hart claims; a source is armed from a hart of its actor, by *)
(* one hart at a time, for an actor that serves it; and what was never      *)
(* bound is in no word.                                                     *)
BoundOnly ==
  /\ \A w \in Words : enabled[w] \subseteq irqAct
  /\ \A s \in Srcs \ irqAct : mail[s] = 0
  /\ \A h \in PlicHarts : doing[h].op # "idle" =>
       /\ doing[h].src \in irqAct /\ doing[h].word \subseteq irqAct
       /\ doing[h].op = "clear" => h = IrqHart
       /\ doing[h].op = "set" => h \in RunsOn[doing[h].src] /\ doing[h].src \in busy
  /\ \A g, h \in PlicHarts :
       doing[g].op = "set" /\ doing[h].op = "set" /\ doing[g].src = doing[h].src => g = h
(* What is under way, and what was undone by the stores for others. *)
Balanced ==
  \A s \in irqAct : /\ Deliveries(s) <= 1 + masksUndone[s]
                    /\ armsUndone[s] = 0 => Deliveries(s) >= 1
(* The word of a source that is apart: whoever has it loaded for another    *)
(* source is the irq hart, and has this source's bit as it is.              *)
HeldApart ==
  \A s \in Srcs : Apart(s) =>
    /\ masksUndone[s] = 0 /\ armsUndone[s] = 0
    /\ \A h \in PlicHarts : doing[h].op # "idle" /\ doing[h].src \in Others(s) =>
         h = IrqHart /\ (s \in doing[h].word <=> Armed(s))
PlicInv == PlicTypes /\ BoundOnly /\ Balanced /\ HeldApart

LEMMA PTypes ==
  PlicInv => /\ irqAct \subseteq Srcs /\ busy \subseteq irqAct
             /\ enabled \in [Words -> SUBSET Srcs] /\ mail \in [Srcs -> Nat]
             /\ doing \in [PlicHarts -> Doings]
             /\ masksUndone \in [Srcs -> Nat] /\ armsUndone \in [Srcs -> Nat]
BY DEF PlicInv, PlicTypes

(* Hart h begins, or ends. *)
Turns(h, d) == doing' \in [PlicHarts -> Doings] /\ \A g \in PlicHarts : doing'[g] = IF g = h THEN d ELSE doing[g]
LEMMA TurnedTo ==
  ASSUME doing \in [PlicHarts -> Doings], NEW h \in PlicHarts, NEW d \in Doings, doing' = [doing EXCEPT ![h] = d]
  PROVE  Turns(h, d)
BY DEF Turns

LEMMA Begun ==
  ASSUME PlicInv, NEW s \in Srcs, NEW op \in {"set", "clear"}, NEW h \in PlicHarts, Begin(h, op, s)
  PROVE  /\ doing' \in [PlicHarts -> Doings] /\ doing[h].op = "idle"
         /\ doing'[h].op = op /\ doing'[h].src = s /\ doing'[h].word = enabled[WordOf[s]]
         /\ \A g \in PlicHarts \ {h} : doing'[g] = doing[g]
<1>1. PICK w \in SUBSET Srcs : w = enabled[WordOf[s]]
  BY PTypes DEF Words
<1>2. PICK d \in Doings : d.op = op /\ d.src = s /\ d.word = w /\ d = [op |-> op, src |-> s, word |-> w]
  BY DEF Doings
<1>3. Turns(h, d)
  BY <1>1, <1>2, PTypes, TurnedTo DEF Begin
<1> QED BY <1>1, <1>2, <1>3 DEF Turns, Begin

(* Who writes the word of a source that is apart, for it or for another. *)
LEMMA WritesApart ==
  ASSUME NEW s \in Srcs, Apart(s), NEW t \in Others(s), NEW h \in PlicHarts,
         h \in RunsOn[s] \cup RunsOn[t] \cup {IrqHart}
  PROVE  h = IrqHart
BY DEF Apart

(* A hart loads a word, to claim an armed source or to arm one. *)
LEMMA LoadInv ==
  ASSUME PlicInv, NEW s \in Srcs, NEW op \in {"set", "clear"}, NEW h \in PlicHarts, Begin(h, op, s),
         irqAct' = irqAct \cup {s}, busy' = IF op = "set" THEN busy \cup {s} ELSE busy,
         op = "set" => h \in RunsOn[s] /\ ~Arming(s),
         op = "clear" => h = IrqHart,
         UNCHANGED <<enabled, mail, undone>>
  PROVE  PlicTypes' /\ BoundOnly' /\ HeldApart'
<1>1. /\ doing' \in [PlicHarts -> Doings] /\ doing[h].op = "idle"
      /\ doing'[h].op = op /\ doing'[h].src = s /\ doing'[h].word = enabled[WordOf[s]]
      /\ \A g \in PlicHarts \ {h} : doing'[g] = doing[g]
  BY Begun
<1>2. masksUndone' = masksUndone /\ armsUndone' = armsUndone /\ enabled' = enabled /\ mail' = mail
  BY DEF undone
<1>3. PlicTypes'
  <2>1. busy' \subseteq irqAct'
    <3>1. op = "clear" => busy' = busy
      OBVIOUS
    <3> QED BY <3>1, PTypes
  <2> QED BY <1>1, <1>2, <2>1, PTypes DEF PlicTypes
<1>4. enabled[WordOf[s]] \subseteq irqAct
  BY DEF PlicInv, BoundOnly, Words
<1>5. BoundOnly'
  <2>1. /\ \A w \in Words : enabled'[w] \subseteq irqAct'
        /\ \A t \in Srcs \ irqAct' : mail'[t] = 0
    BY <1>2 DEF PlicInv, BoundOnly
  <2>2. ASSUME NEW g \in PlicHarts, doing'[g].op # "idle"
        PROVE  /\ doing'[g].src \in irqAct' /\ doing'[g].word \subseteq irqAct'
               /\ doing'[g].op = "clear" => g = IrqHart
               /\ doing'[g].op = "set" => g \in RunsOn[doing'[g].src] /\ doing'[g].src \in busy'
    <3>1. CASE g = h
      BY <1>1, <1>4, <3>1
    <3>2. CASE g # h
      <4>1. doing'[g] = doing[g]
        BY <1>1, <3>2
      <4>2. /\ doing[g].src \in irqAct /\ doing[g].word \subseteq irqAct
            /\ doing[g].op = "clear" => g = IrqHart
            /\ doing[g].op = "set" => g \in RunsOn[doing[g].src] /\ doing[g].src \in busy
        BY <2>2, <4>1 DEF PlicInv, BoundOnly
      <4> QED BY <4>1, <4>2
    <3> QED BY <3>1, <3>2
  <2>3. ASSUME NEW g \in PlicHarts, NEW k \in PlicHarts, doing'[g].op = "set", doing'[k].op = "set",
               doing'[g].src = doing'[k].src
        PROVE  g = k
    <3>1. CASE g # h /\ k # h
      BY <1>1, <2>3, <3>1 DEF PlicInv, BoundOnly
    <3>2. CASE g = h \/ k = h
      BY <1>1, <2>3, <3>2 DEF Arming
    <3> QED BY <3>1, <3>2
  <2> QED BY <2>1, <2>2, <2>3 DEF BoundOnly
<1>6. HeldApart'
  <2> SUFFICES ASSUME NEW t \in Srcs, Apart(t), NEW g \in PlicHarts
               PROVE  /\ masksUndone'[t] = 0 /\ armsUndone'[t] = 0
                      /\ doing'[g].op # "idle" /\ doing'[g].src \in Others(t) =>
                           g = IrqHart /\ (t \in doing'[g].word <=> t \in enabled'[WordOf[t]])
    BY DEF HeldApart, Armed, Apart, Others
  <2>1. CASE g # h
    BY <1>1, <1>2, <2>1 DEF PlicInv, HeldApart, Armed
  <2>2. CASE g = h /\ s \in Others(t)
    <3>1. g = IrqHart
      BY <2>2, WritesApart
    <3>2. WordOf[s] = WordOf[t]
      BY <2>2 DEF Others
    <3> QED BY <1>1, <1>2, <2>2, <3>1, <3>2 DEF PlicInv, HeldApart
  <2>3. CASE g = h /\ s \notin Others(t)
    BY <1>1, <1>2, <2>3 DEF PlicInv, HeldApart
  <2> QED BY <2>1, <2>2, <2>3
<1> QED BY <1>3, <1>5, <1>6

(* The deliveries of a source count what they are made of. *)
LEMMA SameDeliveries ==
  ASSUME PlicInv, NEW s \in Srcs, mail'[s] = mail[s], s \in busy' <=> s \in busy,
         Claimed(s)' \/ Armed(s)' <=> Claimed(s) \/ Armed(s)
  PROVE  Deliveries(s)' = Deliveries(s)
BY DEF Deliveries, Claimed, Armed

LEMMA RaiseInv == ASSUME PlicInv, NEW s \in Srcs, Raise(s) PROVE PlicInv'
<1>1. /\ irqAct' = irqAct /\ enabled' = enabled /\ mail' = mail /\ doing' = doing /\ busy' = busy
      /\ masksUndone' = masksUndone /\ armsUndone' = armsUndone
  BY DEF Raise, undone
<1>2. \A t \in irqAct : Deliveries(t)' = Deliveries(t)
  BY <1>1, PTypes DEF Deliveries, Claimed
<1> QED BY <1>1, <1>2 DEF PlicInv, PlicTypes, BoundOnly, Balanced, HeldApart, Armed

LEMMA BindInv == ASSUME PlicInv, NEW s \in Srcs, NEW h \in PlicHarts, Bind(h, s) PROVE PlicInv'
<1>1. /\ h \in RunsOn[s] /\ s \notin irqAct /\ irqAct' = irqAct \cup {s} /\ busy' = busy \cup {s}
      /\ Begin(h, "set", s) /\ UNCHANGED <<enabled, mail, undone>>
  BY DEF Bind
<1>2. ~Arming(s)
  BY <1>1 DEF Arming, PlicInv, BoundOnly
<1>3. PlicTypes' /\ BoundOnly' /\ HeldApart'
  BY <1>1, <1>2, LoadInv
<1>4. /\ doing[h].op = "idle" /\ doing'[h].op = "set"
      /\ \A g \in PlicHarts \ {h} : doing'[g] = doing[g]
  BY <1>1, Begun
<1>5. \A t \in Srcs : (Claimed(t)' <=> Claimed(t)) /\ (Armed(t)' <=> Armed(t))
  BY <1>1, <1>4 DEF Claimed, Armed
<1>6. masksUndone' = masksUndone /\ armsUndone' = armsUndone /\ mail' = mail
  BY <1>1 DEF undone
<1>7. ASSUME NEW t \in irqAct' PROVE Deliveries(t)' <= 1 + masksUndone'[t] /\ (armsUndone'[t] = 0 => Deliveries(t)' >= 1)
  <2>1. CASE t = s
    <3>1. ~Claimed(s) /\ ~Armed(s) /\ mail[s] = 0 /\ s \in busy'
      BY <1>1 DEF PlicInv, BoundOnly, Claimed, Armed, Words
    <3>2. Deliveries(s)' = 1
      BY <1>5, <1>6, <3>1 DEF Deliveries, Claimed, Armed
    <3> QED BY <1>6, <2>1, <3>2, PTypes
  <2>2. CASE t # s
    <3>1. t \in Srcs /\ t \in irqAct
      BY <1>1, <2>2, PTypes
    <3>2. Deliveries(t)' = Deliveries(t)
      BY <1>1, <1>5, <1>6, <2>2, <3>1, SameDeliveries
    <3> QED BY <1>6, <3>1, <3>2 DEF PlicInv, Balanced
  <2> QED BY <2>1, <2>2
<1> QED BY <1>3, <1>7 DEF PlicInv, Balanced

LEMMA ClaimInv == ASSUME PlicInv, NEW s \in Srcs, Claim(s) PROVE PlicInv'
<1>1. Armed(s) /\ Begin(IrqHart, "clear", s) /\ UNCHANGED <<irqAct, enabled, mail, busy, undone>>
  BY DEF Claim, Pending, Armed
<1>2. s \in irqAct
  BY <1>1 DEF PlicInv, BoundOnly, Armed, Words
<1>3. PlicTypes' /\ BoundOnly' /\ HeldApart'
  <2>1. irqAct' = irqAct \cup {s}
    BY <1>1, <1>2
  <2> QED BY <1>1, <2>1, LoadInv
<1>4. doing[IrqHart].op = "idle" /\ doing'[IrqHart].op = "clear" /\ doing'[IrqHart].src = s
  BY <1>1, Begun
<1>5. \A t \in Srcs : Claimed(t)' \/ Armed(t)' <=> Claimed(t) \/ Armed(t)
  BY <1>1, <1>4 DEF Claimed, Armed
<1>6. \A t \in irqAct : Deliveries(t)' = Deliveries(t)
  BY <1>1, <1>5, SameDeliveries, PTypes
<1>7. masksUndone' = masksUndone /\ armsUndone' = armsUndone
  BY <1>1 DEF undone
<1> QED BY <1>1, <1>3, <1>6, <1>7 DEF PlicInv, Balanced

LEMMA ServiceInv == ASSUME PlicInv, NEW s \in Srcs, NEW h \in PlicHarts, Service(h, s) PROVE PlicInv'
<1>1. /\ mail[s] > 0 /\ s \notin busy /\ busy' = busy \cup {s} /\ mail' = [mail EXCEPT ![s] = @ - 1]
      /\ irqAct' = irqAct /\ enabled' = enabled /\ doing' = doing
      /\ masksUndone' = masksUndone /\ armsUndone' = armsUndone
  BY DEF Service, undone
<1>2. s \in irqAct /\ mail[s] \in Nat
  BY <1>1, PTypes DEF PlicInv, BoundOnly
<1>3. mail' \in [Srcs -> Nat] /\ \A t \in Srcs : mail'[t] = IF t = s THEN mail[s] - 1 ELSE mail[t]
  BY <1>1, <1>2, PTypes
<1>4. PlicTypes'
  BY <1>1, <1>2, <1>3, PTypes DEF PlicTypes
<1>5. BoundOnly' /\ HeldApart'
  BY <1>1, <1>2, <1>3 DEF PlicInv, BoundOnly, HeldApart, Armed
<1>6. ASSUME NEW t \in irqAct PROVE Deliveries(t)' = Deliveries(t)
  <2>1. t \in Srcs /\ (Claimed(t)' <=> Claimed(t)) /\ (Armed(t)' <=> Armed(t))
    BY <1>1, PTypes DEF Claimed, Armed
  <2>2. CASE t = s
    <3>1. mail'[s] = mail[s] - 1 /\ s \in busy'
      BY <1>1, <1>3
    <3> QED BY <1>1, <1>2, <2>1, <2>2, <3>1 DEF Deliveries, Claimed, Armed
  <2>3. CASE t # s
    BY <1>1, <1>3, <2>1, <2>3, SameDeliveries
  <2> QED BY <2>2, <2>3
<1> QED BY <1>1, <1>4, <1>5, <1>6 DEF PlicInv, Balanced

LEMMA AckInv == ASSUME PlicInv, NEW s \in Srcs, NEW h \in PlicHarts, Ack(h, s) PROVE PlicInv'
<1>1. /\ h \in RunsOn[s] /\ s \in busy /\ ~Arming(s) /\ Begin(h, "set", s)
      /\ UNCHANGED <<irqAct, enabled, mail, busy, undone>>
  BY DEF Ack
<1>2. s \in irqAct /\ irqAct' = irqAct \cup {s} /\ busy' = busy \cup {s}
  BY <1>1, PTypes
<1>3. PlicTypes' /\ BoundOnly' /\ HeldApart'
  BY <1>1, <1>2, LoadInv
<1>4. /\ doing[h].op = "idle" /\ doing'[h].op = "set"
      /\ \A g \in PlicHarts \ {h} : doing'[g] = doing[g]
  BY <1>1, Begun
<1>5. \A t \in Srcs : (Claimed(t)' <=> Claimed(t)) /\ (Armed(t)' <=> Armed(t))
  BY <1>1, <1>4 DEF Claimed, Armed
<1>6. \A t \in irqAct : Deliveries(t)' = Deliveries(t)
  BY <1>1, <1>5, SameDeliveries, PTypes
<1>7. masksUndone' = masksUndone /\ armsUndone' = armsUndone
  BY <1>1 DEF undone
<1> QED BY <1>1, <1>3, <1>6, <1>7 DEF PlicInv, Balanced

(* A word is stored: the source it was loaded for goes on by one step, and  *)
(* the bits of the others become those of the load.                         *)
LEMMA StoreInv == ASSUME PlicInv, NEW h \in PlicHarts, Store(h) PROVE PlicInv'
<1>1. PICK s \in Srcs, op \in {"set", "clear"}, w \in SUBSET Srcs :
        s = doing[h].src /\ op = doing[h].op /\ w = doing[h].word
  BY PTypes DEF Store, PlicInv, BoundOnly, Doings
<1>2. WordOf[s] \in Words /\ enabled[WordOf[s]] \in SUBSET Srcs /\ Resting \in Doings
  BY PTypes DEF Words, Resting, Doings
<1>3. PICK v \in SUBSET Srcs : v = IF op = "set" THEN w \cup {s} ELSE w \ {s}
  OBVIOUS
<1>4. /\ s \in irqAct /\ w \subseteq irqAct
      /\ op = "clear" => h = IrqHart
      /\ op = "set" => h \in RunsOn[s] /\ s \in busy
  BY <1>1 DEF PlicInv, BoundOnly
<1>5. /\ irqAct' = irqAct
      /\ doing' = [doing EXCEPT ![h] = Resting]
      /\ enabled' = [enabled EXCEPT ![WordOf[s]] = v]
      /\ mail' = IF op = "clear" THEN [mail EXCEPT ![s] = @ + 1] ELSE mail
      /\ busy' = IF op = "set" THEN busy \ {s} ELSE busy
      /\ masksUndone' = Counted(masksUndone, Others(s) \cap (w \ enabled[WordOf[s]]))
      /\ armsUndone' = Counted(armsUndone, Others(s) \cap (enabled[WordOf[s]] \ w))
  BY <1>1, <1>3, <1>4 DEF Store, Masked
<1>6. Turns(h, Resting) /\ Resting.op = "idle"
  BY <1>2, <1>5, PTypes, TurnedTo DEF Resting
<1>7. /\ enabled' \in [Words -> SUBSET Srcs]
      /\ \A x \in Words : enabled'[x] = IF x = WordOf[s] THEN v ELSE enabled[x]
  BY <1>2, <1>5, PTypes
<1>8. /\ mail' \in [Srcs -> Nat]
      /\ \A t \in Srcs : mail'[t] = IF t = s /\ op = "clear" THEN mail[t] + 1 ELSE mail[t]
  BY <1>5, PTypes
<1>9. /\ masksUndone' \in [Srcs -> Nat] /\ armsUndone' \in [Srcs -> Nat]
      /\ \A t \in Srcs : masksUndone'[t] = IF t \in Others(s) /\ t \in w /\ ~Armed(t)
                                           THEN masksUndone[t] + 1 ELSE masksUndone[t]
      /\ \A t \in Srcs : armsUndone'[t] = IF t \in Others(s) /\ t \notin w /\ Armed(t)
                                          THEN armsUndone[t] + 1 ELSE armsUndone[t]
  BY <1>5, PTypes DEF Counted, Others, Armed
<1>10. PlicTypes'
  <2>1. busy' \subseteq irqAct'
    BY <1>5, PTypes
  <2> QED BY <1>5, <1>6, <1>7, <1>8, <1>9, <2>1, PTypes DEF PlicTypes, Turns
<1>11. \A t \in Srcs : Armed(t)' <=> IF t = s THEN op = "set" ELSE IF t \in Others(s) THEN t \in w ELSE Armed(t)
  <2> SUFFICES ASSUME NEW t \in Srcs
               PROVE  Armed(t)' <=> IF t = s THEN op = "set" ELSE IF t \in Others(s) THEN t \in w ELSE Armed(t)
    OBVIOUS
  <2>1. WordOf[t] \in Words
    BY DEF Words
  <2>2. CASE WordOf[t] = WordOf[s]
    BY <1>3, <1>7, <2>1, <2>2 DEF Armed, Others
  <2>3. CASE WordOf[t] # WordOf[s]
    BY <1>7, <2>1, <2>3 DEF Armed, Others
  <2> QED BY <2>2, <2>3
<1>12. BoundOnly'
  <2>1. \A x \in Words : enabled'[x] \subseteq irqAct'
    BY <1>3, <1>4, <1>5, <1>7 DEF PlicInv, BoundOnly
  <2>2. \A t \in Srcs \ irqAct' : mail'[t] = 0
    BY <1>4, <1>5, <1>8 DEF PlicInv, BoundOnly
  <2>3. ASSUME NEW g \in PlicHarts, doing'[g].op # "idle"
        PROVE  g # h /\ doing'[g] = doing[g]
    BY <1>6, <2>3 DEF Turns
  <2>4. ASSUME NEW g \in PlicHarts, doing'[g].op # "idle"
        PROVE  /\ doing'[g].src \in irqAct' /\ doing'[g].word \subseteq irqAct'
               /\ doing'[g].op = "clear" => g = IrqHart
               /\ doing'[g].op = "set" => g \in RunsOn[doing'[g].src] /\ doing'[g].src \in busy'
    <3>1. g # h /\ doing'[g] = doing[g]
      BY <2>3, <2>4
    <3>2. /\ doing[g].src \in irqAct /\ doing[g].word \subseteq irqAct
          /\ doing[g].op = "clear" => g = IrqHart
          /\ doing[g].op = "set" => g \in RunsOn[doing[g].src] /\ doing[g].src \in busy
      BY <2>4, <3>1 DEF PlicInv, BoundOnly
    <3>3. doing[g].op = "set" /\ op = "set" => doing[g].src # s
      BY <1>1, <3>1 DEF PlicInv, BoundOnly
    <3> QED BY <1>5, <3>1, <3>2, <3>3
  <2>5. \A g, k \in PlicHarts :
          doing'[g].op = "set" /\ doing'[k].op = "set" /\ doing'[g].src = doing'[k].src => g = k
    BY <2>3 DEF PlicInv, BoundOnly
  <2> QED BY <2>1, <2>2, <2>4, <2>5 DEF BoundOnly
<1>13. \A t \in Srcs : t # s => (Claimed(t)' <=> Claimed(t))
  BY <1>1, <1>6 DEF Claimed, Turns
<1>14. Balanced'
  <2> SUFFICES ASSUME NEW t \in irqAct
               PROVE  /\ Deliveries(t)' <= 1 + masksUndone'[t]
                      /\ armsUndone'[t] = 0 => Deliveries(t)' >= 1
    BY <1>5 DEF Balanced
  <2>1. t \in Srcs /\ mail[t] \in Nat /\ masksUndone[t] \in Nat /\ armsUndone[t] \in Nat
    BY PTypes
  <2>2. Deliveries(t) <= 1 + masksUndone[t] /\ (armsUndone[t] = 0 => Deliveries(t) >= 1)
    BY DEF PlicInv, Balanced
  <2>3. CASE t = s /\ op = "clear"
    <3>1. Claimed(s) /\ ~Claimed(s)' /\ ~Armed(s)'
      BY <1>1, <1>4, <1>6, <1>11, <2>3 DEF Claimed, Turns
    <3>2. mail'[s] = mail[s] + 1 /\ busy' = busy /\ masksUndone'[s] = masksUndone[s] /\ armsUndone'[s] = armsUndone[s]
      BY <1>5, <1>8, <1>9, <2>3 DEF Others
    <3>3. Deliveries(s)' = Deliveries(s)
      BY <2>1, <2>3, <3>1, <3>2 DEF Deliveries, Claimed, Armed
    <3> QED BY <2>2, <2>3, <3>2, <3>3
  <2>4. CASE t = s /\ op = "set"
    <3>1. Armed(s)' /\ s \in busy /\ s \notin busy' /\ mail'[s] = mail[s]
      BY <1>4, <1>5, <1>8, <1>11, <2>4
    <3>2. masksUndone'[s] = masksUndone[s]
      BY <1>9 DEF Others
    <3>3. Deliveries(s)' = mail[s] + 1
      BY <2>1, <2>4, <3>1 DEF Deliveries, Claimed, Armed
    <3>4. Deliveries(s) >= mail[s] + 1
      BY <2>1, <2>4, <3>1 DEF Deliveries
    <3> QED BY <2>1, <2>2, <2>4, <3>2, <3>3, <3>4 DEF Deliveries
  <2>5. CASE t # s
    <3>1. mail'[t] = mail[t] /\ (t \in busy' <=> t \in busy) /\ (Claimed(t)' <=> Claimed(t))
      BY <1>5, <1>8, <1>13, <2>1, <2>5
    <3>2. Armed(t)' <=> IF t \in Others(s) THEN t \in w ELSE Armed(t)
      BY <1>11, <2>1, <2>5
    <3>3. CASE t \in Others(s) /\ t \in w /\ ~Armed(t)
      <4>1. masksUndone'[t] = masksUndone[t] + 1 /\ armsUndone'[t] = armsUndone[t]
        BY <1>9, <2>1, <3>3
      <4>2. Deliveries(t)' >= Deliveries(t) /\ Deliveries(t)' <= Deliveries(t) + 1
        BY <2>1, <3>1, <3>2, <3>3 DEF Deliveries, Claimed, Armed
      <4>3. Deliveries(t) \in Int /\ Deliveries(t)' \in Int
        BY <2>1, <3>1 DEF Deliveries
      <4> QED BY <2>1, <2>2, <4>1, <4>2, <4>3
    <3>4. CASE t \in Others(s) /\ t \notin w /\ Armed(t)
      <4>1. masksUndone'[t] = masksUndone[t] /\ armsUndone'[t] = armsUndone[t] + 1
        BY <1>9, <2>1, <3>4
      <4>2. Deliveries(t)' <= Deliveries(t)
        BY <2>1, <3>1, <3>2, <3>4 DEF Deliveries, Claimed, Armed
      <4>3. Deliveries(t) \in Int /\ Deliveries(t)' \in Int
        BY <2>1, <3>1 DEF Deliveries
      <4> QED BY <2>1, <2>2, <4>1, <4>2, <4>3
    <3>5. CASE ~(t \in Others(s) /\ (t \in w <=> ~Armed(t)))
      <4>1. masksUndone'[t] = masksUndone[t] /\ armsUndone'[t] = armsUndone[t]
        BY <1>9, <2>1, <3>5
      <4>2. Deliveries(t)' = Deliveries(t)
        BY <2>1, <3>1, <3>2, <3>5, SameDeliveries
      <4> QED BY <2>2, <4>1, <4>2
    <3> QED BY <3>3, <3>4, <3>5
  <2> QED BY <2>3, <2>4, <2>5
<1>15. HeldApart'
  <2> SUFFICES ASSUME NEW t \in Srcs, Apart(t)
               PROVE  /\ masksUndone'[t] = 0 /\ armsUndone'[t] = 0
                      /\ \A g \in PlicHarts : doing'[g].op # "idle" /\ doing'[g].src \in Others(t) =>
                           g = IrqHart /\ (t \in doing'[g].word <=> Armed(t)')
    BY DEF HeldApart, Armed, Apart, Others
  <2>1. /\ masksUndone[t] = 0 /\ armsUndone[t] = 0
        /\ \A g \in PlicHarts : doing[g].op # "idle" /\ doing[g].src \in Others(t) =>
             g = IrqHart /\ (t \in doing[g].word <=> Armed(t))
    BY DEF PlicInv, HeldApart
  <2>2. t \in Others(s) <=> s \in Others(t)
    BY DEF Others
  <2>3. masksUndone'[t] = 0 /\ armsUndone'[t] = 0
    BY <1>1, <1>9, <2>1, <2>2
  <2>4. ASSUME NEW g \in PlicHarts, doing'[g].op # "idle", doing'[g].src \in Others(t)
        PROVE  g = IrqHart /\ (t \in doing'[g].word <=> Armed(t)')
    <3>1. g # h /\ doing'[g] = doing[g]
      BY <1>6, <2>4 DEF Turns
    <3>2. g = IrqHart /\ (t \in doing[g].word <=> Armed(t))
      BY <2>1, <2>4, <3>1
    <3>3. h # IrqHart
      BY <3>1, <3>2
    <3>4. s # t
      BY <1>4, <2>4, <3>1, <3>3, WritesApart
    <3>5. s \notin Others(t)
      BY <1>1, <2>1, <3>3
    <3>6. Armed(t)' <=> Armed(t)
      BY <1>11, <2>2, <3>4, <3>5
    <3> QED BY <3>1, <3>2, <3>6
  <2> QED BY <2>3, <2>4
<1> QED BY <1>10, <1>12, <1>14, <1>15 DEF PlicInv

LEMMA PlicInitInv == PInit => PlicInv
<1> SUFFICES ASSUME PInit PROVE PlicInv
  OBVIOUS
<1>1. Resting \in Doings /\ Resting.op = "idle"
  BY DEF Resting, Doings
<1>2. /\ irqAct = {} /\ busy = {} /\ mail = [s \in Srcs |-> 0]
      /\ enabled = [x \in Words |-> {}] /\ doing = [h \in PlicHarts |-> Resting]
      /\ masksUndone = [s \in Srcs |-> 0] /\ armsUndone = [s \in Srcs |-> 0]
  BY DEF PInit, Words
<1>3. PlicTypes
  BY <1>1, <1>2 DEF PlicTypes
<1>4. BoundOnly /\ Balanced /\ HeldApart
  BY <1>1, <1>2 DEF BoundOnly, Balanced, HeldApart
<1> QED BY <1>3, <1>4 DEF PlicInv

LEMMA PlicNextInv == PlicInv /\ [PNext]_pvars => PlicInv'
<1> SUFFICES ASSUME PlicInv, [PNext]_pvars PROVE PlicInv'
  OBVIOUS
<1>1. CASE UNCHANGED pvars
  BY <1>1 DEF pvars, PlicInv, PlicTypes, BoundOnly, Balanced, HeldApart, Deliveries, Claimed, Armed
<1> QED BY <1>1, RaiseInv, BindInv, ClaimInv, ServiceInv, AckInv, StoreInv DEF PNext

(* For any number of harts and sources, any division of the sources into     *)
(* enable words and any harts their actors run on: a bound source has one    *)
(* delivery under way or to come, more only by as many as the masks that a   *)
(* store for another source undid, none only after such a store undid its    *)
(* arming; and no store does either to a source whose word is written on     *)
(* the irq hart alone, or for it alone (plic.c: "Exactly-once per ack, no    *)
(* storms", and its unlocked plic_set_enable).                               *)
THEOREM InterruptsOncePerAck == PSpec => []OncePerAck
<1>1. PInit => PlicInv
  BY PlicInitInv
<1>2. PlicInv /\ [PNext]_pvars => PlicInv'
  BY PlicNextInv
<1>3. PlicInv => OncePerAck
  BY DEF PlicInv, PlicTypes, Balanced, HeldApart, OncePerAck
<1> QED BY <1>1, <1>2, <1>3, PTL DEF PSpec

HIDE PlicAssumption

-----------------------------------------------------------------------------
(* The timer: where the halves of a number stand. *)
USE ClintAssumption

(* A number of two words is its high and its low one. *)
LEMMA Halves ==
  ASSUME NEW v \in Nat
  PROVE  /\ Hi(v) \in Nat /\ Lo(v) \in 0 .. Word - 1 /\ With(Hi(v), Lo(v)) = v
         /\ v <= With(Hi(v), Word - 1)
BY DEF Hi, Lo, With

LEMMA HalvesOf ==
  ASSUME NEW h \in Nat, NEW l \in 0 .. Word - 1
  PROVE  With(h, l) \in Nat /\ Hi(With(h, l)) = h /\ Lo(With(h, l)) = l
BY DEF Hi, Lo, With

LEMMA HighGrows ==
  ASSUME NEW v \in Nat, NEW w \in Nat, v <= w
  PROVE  Hi(v) <= Hi(w)
BY DEF Hi

(* How far the writer and the reader are. *)
ClockTypes ==
  /\ now \in Nat /\ cmp \in Nat /\ was \in Nat /\ want \in Nat /\ since \in Nat
  /\ hi \in Nat /\ lo \in 0 .. Word - 1 /\ clock \in Int
  /\ pc \in {"idle", "lo", "hi", "last"} /\ rstep \in {"idle", "lo", "again"}
(* All ones in the low word: no lower than the old deadline with its high   *)
(* word, no lower than the new one with the new.                            *)
Written ==
  /\ pc = "idle" => cmp = want
  /\ pc = "lo" => cmp = was
  /\ pc = "hi" => cmp = With(Hi(was), Word - 1)
  /\ pc = "last" => cmp = With(Hi(want), Word - 1)
(* The low word was the clock's when the high one was read before it, or    *)
(* the high one has changed since.                                          *)
ReadSo ==
  /\ since <= now
  /\ rstep # "idle" => hi = Hi(since)
  /\ rstep = "again" => \E t \in Nat : since <= t /\ t <= now /\ lo = Lo(t)
ClockInv == ClockTypes /\ Written /\ ReadSo /\ NoSpurious /\ ClockWithin

LEMMA HighParked == Parked \in Nat
BY DEF Parked

LEMMA TickInv == ClockInv /\ Tick => ClockInv'
<1> SUFFICES ASSUME ClockInv, Tick PROVE ClockInv'
  OBVIOUS
<1>1. /\ now' = now + 1 /\ cmp' = cmp /\ pc' = pc /\ was' = was /\ want' = want
      /\ rstep' = rstep /\ hi' = hi /\ lo' = lo /\ since' = since /\ clock' = clock
  BY DEF Tick, writevars, readvars
<1>2. ClockTypes'
  BY <1>1 DEF ClockInv, ClockTypes
<1>3. Written'
  BY <1>1 DEF ClockInv, Written
<1>4. ReadSo'
  <2>1. rstep = "again" => \E t \in Nat : since <= t /\ t <= now' /\ lo = Lo(t)
    <3> HAVE rstep = "again"
    <3>1. PICK t \in Nat : since <= t /\ t <= now /\ lo = Lo(t)
      BY DEF ClockInv, ReadSo
    <3>2. t <= now'
      BY <1>1, <3>1 DEF ClockInv, ClockTypes
    <3> QED BY <3>1, <3>2
  <2>2. since <= now'
    BY <1>1 DEF ClockInv, ClockTypes, ReadSo
  <2> QED BY <1>1, <2>1, <2>2 DEF ClockInv, ReadSo
<1>5. NoSpurious'
  <2>1. cmp >= was \/ cmp >= want
    <3>1. With(Hi(was), Word - 1) >= was /\ With(Hi(want), Word - 1) >= want
      <4>1. \A v \in Nat : v <= With(Hi(v), Word - 1) /\ With(Hi(v), Word - 1) \in Int
        BY Halves, HalvesOf
      <4> QED BY <4>1 DEF ClockInv, ClockTypes
    <3> QED BY <3>1 DEF ClockInv, ClockTypes, Written
  <2> QED BY <1>1, <2>1 DEF ClockInv, ClockTypes, NoSpurious
<1>6. ClockWithin'
  BY <1>1 DEF ClockInv, ClockTypes, ClockWithin
<1> QED BY <1>2, <1>3, <1>4, <1>5, <1>6 DEF ClockInv

(* A step of the writer: where the compare register lands is at or past a   *)
(* deadline it is for.                                                      *)
LEMMA WriterInv ==
  ASSUME ClockInv, NEW v \in Nat, StoreOnes \/ StoreHi \/ StoreLo \/ Arm(v)
  PROVE  ClockInv'
<1>1. /\ now' = now /\ rstep' = rstep /\ hi' = hi /\ lo' = lo /\ since' = since /\ clock' = clock
  BY DEF StoreOnes, StoreHi, StoreLo, Arm, readvars
<1>2. ReadSo' /\ ClockWithin'
  BY <1>1 DEF ClockInv, ReadSo, ClockWithin
<1>3. \A x \in Nat : /\ Hi(x) \in Nat /\ Lo(x) \in 0 .. Word - 1 /\ With(Hi(x), Lo(x)) = x
                     /\ x <= With(Hi(x), Word - 1)
  BY Halves
<1>4. \A h \in Nat, l \in 0 .. Word - 1 : With(h, l) \in Nat /\ Hi(With(h, l)) = h /\ Lo(With(h, l)) = l
  BY HalvesOf
<1>5. Word - 1 \in 0 .. Word - 1
  OBVIOUS
<1>6. cmp \in Nat /\ was \in Nat /\ want \in Nat
  BY DEF ClockInv, ClockTypes
<1>7. Written' /\ cmp' \in Nat /\ was' \in Nat /\ want' \in Nat /\ pc' \in {"idle", "lo", "hi", "last"}
  <2>1. CASE Arm(v)
    BY <1>6, <2>1 DEF Arm, Written, ClockInv
  <2>2. CASE StoreOnes
    <3>1. cmp = was /\ cmp' = With(Hi(cmp), Word - 1) /\ pc' = "hi" /\ was' = was /\ want' = want
      BY <2>2 DEF StoreOnes, Guarded, ClockInv, Written
    <3>2. With(Hi(cmp), Word - 1) \in Nat
      BY <1>3, <1>4, <1>5, <1>6
    <3> QED BY <1>6, <3>1, <3>2 DEF Written
  <2>3. CASE StoreHi
    <3>1. /\ cmp = With(Hi(was), Word - 1) /\ cmp' = With(Hi(want), Lo(cmp))
          /\ pc' = "last" /\ was' = was /\ want' = want
      BY <2>3 DEF StoreHi, ClockInv, Written
    <3>2. Lo(cmp) = Word - 1
      BY <1>3, <1>4, <1>5, <1>6, <3>1
    <3>3. With(Hi(want), Word - 1) \in Nat
      BY <1>3, <1>4, <1>5, <1>6
    <3> QED BY <1>6, <3>1, <3>2, <3>3 DEF Written
  <2>4. CASE StoreLo
    <3>1. /\ cmp = With(Hi(want), Word - 1) /\ cmp' = With(Hi(cmp), Lo(want))
          /\ pc' = "idle" /\ was' = was /\ want' = want
      BY <2>4 DEF StoreLo, ClockInv, Written
    <3>2. Hi(cmp) = Hi(want)
      BY <1>3, <1>4, <1>5, <1>6, <3>1
    <3>3. cmp' = want
      BY <1>3, <1>6, <3>1, <3>2
    <3> QED BY <1>6, <3>1, <3>3 DEF Written
  <2> QED BY <2>1, <2>2, <2>3, <2>4
<1>8. ClockTypes'
  BY <1>1, <1>7 DEF ClockInv, ClockTypes
<1>9. NoSpurious'
  <2>1. cmp' >= was' \/ cmp' >= want'
    <3>1. With(Hi(was'), Word - 1) >= was' /\ With(Hi(want'), Word - 1) >= want'
      <4>1. PICK a \in Nat, b \in Nat : a = was' /\ b = want'
        BY <1>7
      <4>2. With(Hi(a), Word - 1) \in Nat /\ With(Hi(b), Word - 1) \in Nat
        BY <1>3, <1>4, <1>5
      <4>3. a <= With(Hi(a), Word - 1) /\ b <= With(Hi(b), Word - 1)
        BY <1>3
      <4> QED BY <4>1, <4>2, <4>3
    <3>2. CASE pc' \in {"idle", "lo"}
      BY <1>7, <3>2 DEF Written
    <3>3. CASE pc' \in {"hi", "last"}
      BY <1>7, <3>1, <3>3 DEF Written, With, Hi
    <3> QED BY <1>7, <3>2, <3>3
  <2>2. now' \in Nat
    BY <1>8 DEF ClockTypes
  <2> QED BY <1>7, <2>1, <2>2 DEF NoSpurious
<1> QED BY <1>2, <1>7, <1>8, <1>9 DEF ClockInv

LEMMA ReaderInv == ClockInv /\ (ReadHi \/ ReadLo \/ ReadAgain) => ClockInv'
<1> SUFFICES ASSUME ClockInv, ReadHi \/ ReadLo \/ ReadAgain PROVE ClockInv'
  OBVIOUS
<1>1. now' = now /\ cmp' = cmp /\ pc' = pc /\ was' = was /\ want' = want
  BY DEF ReadHi, ReadLo, ReadAgain, writevars
<1>2. now \in Nat /\ Hi(now) \in Nat /\ Lo(now) \in 0 .. Word - 1
  BY Halves DEF ClockInv, ClockTypes
<1>3. Written' /\ NoSpurious'
  BY <1>1 DEF ClockInv, Written, NoSpurious
<1>4. CASE ReadHi
  <2>1. hi' = Hi(now) /\ since' = now /\ clock' = -1 /\ rstep' = "lo" /\ lo' = lo
    BY <1>4 DEF ReadHi
  <2>2. ClockTypes' /\ ReadSo' /\ ClockWithin'
    BY <1>1, <1>2, <2>1 DEF ClockInv, ClockTypes, ReadSo, ClockWithin
  <2> QED BY <1>3, <2>2 DEF ClockInv
<1>5. CASE ReadLo
  <2>1. rstep = "lo" /\ lo' = Lo(now) /\ rstep' = "again" /\ hi' = hi /\ since' = since /\ clock' = clock
    BY <1>5 DEF ReadLo
  <2>2. ClockTypes' /\ ReadSo' /\ ClockWithin'
    BY <1>1, <1>2, <2>1 DEF ClockInv, ClockTypes, ReadSo, ClockWithin
  <2> QED BY <1>3, <2>2 DEF ClockInv
<1>6. CASE ReadAgain
  <2>1. /\ rstep = "again" /\ rstep' = "idle" /\ hi' = hi /\ lo' = lo /\ since' = since
        /\ clock' = IF Hi(now) = hi THEN With(hi, lo) ELSE -1
    BY <1>6 DEF ReadAgain, Stable
  <2>2. PICK t \in Nat : since <= t /\ t <= now /\ lo = Lo(t)
    BY <2>1 DEF ClockInv, ReadSo
  <2>3. hi = Hi(since) /\ since \in Nat /\ hi \in Nat
    BY <2>1 DEF ClockInv, ReadSo, ClockTypes
  <2>4. Hi(now) = hi => With(hi, lo) = t
    <3> HAVE Hi(now) = hi
    <3>1. Hi(since) <= Hi(t) /\ Hi(t) <= Hi(now)
      BY <1>2, <2>2, <2>3, HighGrows
    <3>2. Hi(t) \in Nat /\ With(Hi(t), Lo(t)) = t
      BY Halves
    <3>3. Hi(t) = hi
      BY <2>3, <3>1, <3>2
    <3> QED BY <2>2, <3>2, <3>3
  <2>5. clock' = -1 \/ clock' = t
    BY <2>1, <2>4
  <2>6. ClockTypes' /\ ReadSo' /\ ClockWithin'
    <3>1. ClockTypes'
      BY <1>1, <2>1, <2>5 DEF ClockInv, ClockTypes
    <3>2. ReadSo'
      BY <1>1, <2>1 DEF ClockInv, ReadSo
    <3>3. ClockWithin'
      BY <1>1, <2>1, <2>2, <2>5 DEF ClockWithin
    <3> QED BY <3>1, <3>2, <3>3
  <2> QED BY <1>3, <2>6 DEF ClockInv
<1> QED BY <1>4, <1>5, <1>6

LEMMA ClockInitInv == TInit => ClockInv
<1> SUFFICES ASSUME TInit PROVE ClockInv
  OBVIOUS
<1>1. ClockTypes /\ Written /\ ReadSo
  BY HighParked DEF TInit, ClockTypes, Written, ReadSo
<1> QED BY <1>1 DEF ClockInv, ClockTypes, TInit, NoSpurious, ClockWithin

LEMMA ClockNextInv == ClockInv /\ [TNext]_tvars => ClockInv'
<1> SUFFICES ASSUME ClockInv, [TNext]_tvars PROVE ClockInv'
  OBVIOUS
<1>1. CASE UNCHANGED tvars
  BY <1>1 DEF tvars, ClockInv, ClockTypes, Written, ReadSo, NoSpurious, ClockWithin
<1>2. ASSUME NEW v \in {Parked} \cup now..(now + Word), Arm(v) PROVE ClockInv'
  <2>1. v \in Nat
    BY HighParked DEF ClockInv, ClockTypes
  <2> QED BY <1>2, <2>1, WriterInv
<1>3. CASE StoreOnes \/ StoreHi \/ StoreLo
  <2>1. \E v \in Nat : StoreOnes \/ StoreHi \/ StoreLo \/ Arm(v)
    BY <1>3
  <2> QED BY <2>1, WriterInv
<1> QED BY <1>1, <1>2, <1>3, TickInv, ReaderInv DEF TNext

(* For any width of a word: whatever the clock does between the stores of    *)
(* mtimecmp_write, the timer's interrupt is not pending before both the old  *)
(* and the new deadline, and hal_mtime's answer is a tick of the clock       *)
(* between its first and its last read (virt/hal.c).                         *)
THEOREM TimerExact == TSpec => []ClockExact
<1>1. ClockInv => ClockExact
  BY DEF ClockInv, ClockExact
<1> QED BY <1>1, ClockInitInv, ClockNextInv, PTL DEF TSpec

HIDE ClintAssumption
=============================================================================

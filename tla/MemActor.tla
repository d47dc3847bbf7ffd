------------------------------ MODULE MemActor ------------------------------
(***************************************************************************)
(* hal/core/actors.c: the memory actor.  An actor that needs a block tries *)
(* the buddy; when the lock is taken or nothing fits it sends the memory   *)
(* actor an Int, parks on its own mem_reply and is woken.  Frees are one-  *)
(* way; contexts without an actor free through a key of their hart.  The   *)
(* rings the requests travel in are Mailbox's, here one queue per key.     *)
(***************************************************************************)
EXTENDS Integers, FiniteSets, SequencesExt

CONSTANTS
  Reqs,      \* the actors that take and give
  HartKey,   \* mem_hart_key of the hart loop that reaps them
  Blocks,    \* the buddy's blocks
  MemPending, MemDenied,  \* the two values of mem_reply that are no block
  MemRing    \* BOUND: RING_MAX of the memory actor's rings

ASSUME MemAssumption ==
  /\ MemRing \in Nat \ {0} /\ IsFiniteSet(Reqs) /\ HartKey \notin Reqs
  /\ {"take", MemPending, MemDenied} \cap Blocks = {}

VARIABLES
  mfree,   \* blocks the buddy has
  held,    \* actor -> blocks it uses
  reply,   \* acb.mem_reply
  mq,      \* key -> requests queued: "take", or a block to free
  mscan,   \* the memory actor's channels by key, from acb.scan on
  msrv,    \* what the memory actor does: <<>>, <<"got" | "stored", requester, block>>
  mst,     \* acb.var: "ready", "blocked", "dead"
  mpc      \* where the actor is in fpr_mem_take
mvars == <<mfree, held, reply, mq, mscan, msrv, mst, mpc>>

Waiting == {"check", "cas", "blk", "parked"}
In(a, s) == mpc[a] = s
Go(a, s) == mpc' = [mpc EXCEPT ![a] = s]

MInit ==
  /\ mfree = Blocks
  /\ held = [a \in Reqs |-> {}]
  /\ reply = [a \in Reqs |-> MemDenied]
  /\ mq = [k \in Reqs \cup {HartKey} |-> <<>>]
  /\ mscan = SetToSeq(Reqs \cup {HartKey})
  /\ msrv = <<>>
  /\ mst = [a \in Reqs |-> "ready"]
  /\ mpc = [a \in Reqs |-> "idle"]

(* mem_post: 0 when the key's ring is full at its ceiling. *)
CanPost(k) == Len(mq[k]) < MemRing
Post(k, m) == mq' = [mq EXCEPT ![k] = Append(@, m)]

(* fpr_mem_take.  buddy_alloc_try misses when the lock is busy or nothing fits. *)
TakeInline(a) ==
  /\ In(a, "idle")
  /\ \E b \in mfree : mfree' = mfree \ {b} /\ held' = [held EXCEPT ![a] = @ \cup {b}]
  /\ UNCHANGED <<reply, mq, mscan, msrv, mst, mpc>>
(* mutant: keeps the last answer *)
StaleReply(a) ==
  /\ In(a, "idle") /\ Go(a, "pend") /\ UNCHANGED <<mfree, held, reply, mq, mscan, msrv, mst>>
TakeMiss(a) ==
  /\ In(a, "idle") /\ Go(a, "pend")
  /\ reply' = [reply EXCEPT ![a] = MemPending]
  /\ UNCHANGED <<mfree, held, mq, mscan, msrv, mst>>
PostTake(a) ==
  /\ In(a, "pend")
  /\ IF CanPost(a) THEN Post(a, "take") /\ Go(a, "check")
                   ELSE UNCHANGED mq /\ Go(a, "direct")
  /\ UNCHANGED <<mfree, held, reply, mscan, msrv, mst>>
TakeDirect(a) ==
  /\ In(a, "direct") /\ Go(a, "idle")
  /\ \/ \E b \in mfree : mfree' = mfree \ {b} /\ held' = [held EXCEPT ![a] = @ \cup {b}]
     \/ mfree = {} /\ UNCHANGED <<mfree, held>>
  /\ UNCHANGED <<reply, mq, mscan, msrv, mst>>
(* while (!p_mem) block_unless: look, CAS to BLOCKED, look again, park. *)
CheckReply(a) ==
  /\ In(a, "check")
  /\ IF reply[a] = MemPending THEN Go(a, "cas") /\ UNCHANGED held
     ELSE Go(a, "idle") /\ held' = [held EXCEPT ![a] = @ \cup ({reply[a]} \ {MemDenied})]
  /\ UNCHANGED <<mfree, reply, mq, mscan, msrv, mst>>
MemBlockCas(a) ==
  /\ In(a, "cas")
  /\ IF mst[a] = "dead" THEN Go(a, "left") /\ UNCHANGED mst
     ELSE Go(a, "blk") /\ mst' = [mst EXCEPT ![a] = "blocked"]
  /\ UNCHANGED <<mfree, held, reply, mq, mscan, msrv>>
(* mutant: parks without the second look *)
ParkBlind(a) ==
  /\ In(a, "blk") /\ Go(a, IF mst[a] = "dead" THEN "left" ELSE "parked")
  /\ UNCHANGED <<mfree, held, reply, mq, mscan, msrv, mst>>
RescanReply(a) ==
  /\ In(a, "blk")
  /\ IF reply[a] # MemPending
     THEN /\ Go(a, "check")
          /\ mst' = [mst EXCEPT ![a] = IF @ = "blocked" THEN "ready" ELSE @]
     ELSE /\ Go(a, IF mst[a] = "dead" THEN "left" ELSE "parked") /\ UNCHANGED mst
  /\ UNCHANGED <<mfree, held, reply, mq, mscan, msrv>>
Unparked(a) ==
  /\ In(a, "parked") /\ mst[a] # "blocked"
  /\ Go(a, IF mst[a] = "dead" THEN "left" ELSE "check")
  /\ UNCHANGED <<mfree, held, reply, mq, mscan, msrv, mst>>

(* fpr_mem_give: on the spot when the lock is free, else queued, else direct. *)
GiveAs(k, b) == \/ mfree' = mfree \cup {b} /\ UNCHANGED mq
                \/ CanPost(k) /\ Post(k, b) /\ UNCHANGED mfree
Give(a) ==
  /\ In(a, "idle")
  /\ \E b \in held[a] : GiveAs(a, b) /\ held' = [held EXCEPT ![a] = @ \ {b}]
  /\ UNCHANGED <<reply, mscan, msrv, mst, mpc>>

(* mem_next: the first channel from scan on that has a message, and scan    *)
(* moves past it; mem_body serves one request, a step at a time.             *)
(* mutant: scans from the first channel every time *)
ScanFromFirst(i) == mscan
Rotated(i) == SubSeq(mscan, i + 1, Len(mscan)) \o SubSeq(mscan, 1, i)
NextChan == CHOOSE i \in DOMAIN mscan : /\ mq[mscan[i]] # <<>>
                                        /\ \A j \in 1 .. i - 1 : mq[mscan[j]] = <<>>
MemNext ==
  /\ msrv = <<>> /\ \E i \in DOMAIN mscan : mq[mscan[i]] # <<>>
  /\ mscan' = Rotated(NextChan)
  /\ LET k == mscan[NextChan] IN
     /\ mq' = [mq EXCEPT ![k] = Tail(@)]
     /\ IF Head(mq[k]) # "take"
        THEN mfree' = mfree \cup {Head(mq[k])} /\ UNCHANGED msrv
        ELSE \/ \E b \in mfree : mfree' = mfree \ {b} /\ msrv' = <<"got", k, b>>
             \/ mfree = {} /\ msrv' = <<"got", k, MemDenied>> /\ UNCHANGED mfree
  /\ UNCHANGED <<held, reply, mst, mpc>>
MemReply ==
  /\ msrv # <<>> /\ msrv[1] = "got"
  /\ reply' = [reply EXCEPT ![msrv[2]] = msrv[3]]
  /\ msrv' = <<"stored", msrv[2], msrv[3]>>
  /\ UNCHANGED <<mfree, held, mq, mscan, mst, mpc>>
MemWake ==
  /\ msrv # <<>> /\ msrv[1] = "stored"
  /\ mst' = [mst EXCEPT ![msrv[2]] = IF @ = "blocked" THEN "ready" ELSE @]
  /\ msrv' = <<>> /\ UNCHANGED <<mfree, held, reply, mq, mscan, mpc>>

(* kill marks; the victim runs on to where it would park, and is reaped then: *)
(* what its pool holds goes home under the hart's key.                        *)
KillReq(a) ==
  /\ mst[a] # "dead" /\ mst' = [mst EXCEPT ![a] = "dead"]
  /\ UNCHANGED <<mfree, held, reply, mq, mscan, msrv, mpc>>
StopDead(a) ==
  /\ mst[a] = "dead" /\ In(a, "idle") /\ Go(a, "gone")
  /\ UNCHANGED <<mfree, held, reply, mq, mscan, msrv, mst>>
ReapReq(a) ==
  /\ mpc[a] \in {"gone", "left"}
  /\ \E b \in held[a] : GiveAs(HartKey, b) /\ held' = [held EXCEPT ![a] = @ \ {b}]
  /\ UNCHANGED <<reply, mscan, msrv, mst, mpc>>

TakeStep(a) == \/ PostTake(a) \/ TakeDirect(a) \/ CheckReply(a) \/ MemBlockCas(a) \/ RescanReply(a) \/ Unparked(a)
MemStep == MemNext \/ MemReply \/ MemWake
MNext == \/ \E a \in Reqs : \/ TakeInline(a) \/ TakeMiss(a) \/ TakeStep(a) \/ Give(a)
                            \/ KillReq(a) \/ StopDead(a) \/ ReapReq(a)
         \/ MemStep
MSpec == MInit /\ [][MNext]_mvars

(* Where a block is; the answer in a mem_reply counts while nobody has read it. *)
Places(b) ==
  {<<"free">> : f \in mfree \cap {b}}
  \cup {<<"held", a>> : a \in {x \in Reqs : b \in held[x]}}
  \cup {<<"asked", q>> : q \in {x \in (DOMAIN mq) \X (1 .. MemRing) :
                                x[2] <= Len(mq[x[1]]) /\ mq[x[1]][x[2]] = b}}
  \cup {<<"served", s>> : s \in {msrv} \cap ({"got"} \X Reqs \X {b})}
  \cup {<<"reply", a>> : a \in {x \in Reqs : reply[x] = b /\ mpc[x] \in Waiting \cup {"left"}}}
(* No block is given to two, freed while it is used or forgotten on the way,  *)
(* whatever the requests, answers, wakes, frees and kills interleave to.  (An  *)
(* answer to a requester killed meanwhile stays in its mem_reply for good.)    *)
OnePlace == \A b \in Blocks : Cardinality(Places(b)) = 1

(* A take always comes back, granted or denied, unless its actor is killed:    *)
(* the answer and the wake cannot slip between the requester's look and its    *)
(* parking.  Every actor and the memory actor get their turns (Sched).         *)
MFair == /\ \A a \in Reqs : WF_mvars(TakeStep(a))
         /\ WF_mvars(MemStep)
MFairSpec == MSpec /\ MFair
TakeReturns == \A a \in Reqs : mpc[a] = "pend" ~> mpc[a] \in {"idle", "left"}
=============================================================================

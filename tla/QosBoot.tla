------------------------------ MODULE QosBoot ------------------------------
(* One run of qosp (qos/portable/main.c): the archive is read and checked,  *)
(* the user is asked, the image is put into the slot and protected, the app *)
(* takes over its arena (qos/appside/entry.c), a thread per hart joins its  *)
(* scheduler, and when main's actor returns every thread is joined.         *)
EXTENDS Integers, Sequences, SequencesExt, FiniteSets

CONSTANTS
  Archives,   \* what may be named on the command line (records, see below)
  Abi,        \* the stamp this shell expects
  HostPage,   \* getpagesize, in units of the image's segments
  CapsRoom,   \* sizeof caps
  BHarts,     \* 0 .. n: hart threads
  XCap,       \* XCAP: entries of a wake ring
  MaxWakes    \* BOUND: wakes across harts in a run
(* An archive: magic, sha ("none", "good", "bad"), id, mode, abi, perms (a *)
(* sequence of [url, required]), built (the ABI its image was compiled     *)
(* with, which the stamp may not name), xend and rw (the ends of code and  *)
(* start of data, in bytes), memsz.                                        *)
ASSUME BootAssumption ==
  /\ HostPage \in Nat \ {0}
  /\ \A a \in Archives : a.xend \in Nat /\ a.rw \in Nat /\ a.memsz \in Nat

VARIABLES
  stage,    \* where main is
  qa,       \* the archive read
  granted,  \* permission -> the user's answer
  prot,     \* pages of the slot that are r-x
  caps,     \* the permissions the app is told of
  thr,      \* hart -> "none", "loop", "slice", "push", "gone"
  wakes,    \* <<from, to>> -> entries in the wake ring
  pushTo,   \* hart -> the hart it pushes to
  pushed, finished  \* wakes so far; fpr_process_done
bootvars == <<stage, qa, granted, prot, caps, thr, wakes, pushTo, pushed, finished>>
early == <<thr, wakes, pushTo, pushed, finished>>
hosted == <<qa, granted, prot, caps>>

BInit ==
  /\ stage = "load" /\ qa \in Archives
  /\ granted = [i \in DOMAIN qa.perms |-> FALSE] /\ prot = {} /\ caps = {}
  /\ thr = [h \in BHarts |-> "none"] /\ wakes = [p \in BHarts \X BHarts |-> 0]
  /\ pushTo = [h \in BHarts |-> 0] /\ pushed = 0 /\ finished = FALSE

Refuse == stage' = "refused" /\ UNCHANGED <<hosted, early>>

(* qa_parse_owned: a section table that holds together, an image that has  *)
(* the sha the archive names, a manifest with an id.  An archive without a *)
(* sha line claims nothing.                                                *)
WellFormedNoSha(a) == a.magic /\ a.id # ""
WellFormed(a) == a.magic /\ a.sha # "bad" /\ a.id # ""
QaLoad ==
  /\ stage = "load"
  /\ IF WellFormed(qa) THEN stage' = "gate" /\ UNCHANGED <<hosted, early>> ELSE Refuse
(* abi_gate: an archive without a stamp passes, with a warning. *)
AbiFits(a) == a.abi \in {"", Abi}
ModeRuns(a) == a.mode \in {"", "process"}
AbiGate ==
  /\ stage = "gate"
  /\ IF ModeRuns(qa) /\ AbiFits(qa) THEN stage' = "ask" /\ UNCHANGED <<hosted, early>> ELSE Refuse

(* perm_gate: one question after the other; a required permission that is  *)
(* denied ends the run, an optional one is not granted.                    *)
DeniesLast(yes) == qa.perms # <<>> /\ Last(qa.perms).required /\ ~yes[Len(qa.perms)]
Denies(yes) == \E i \in DOMAIN qa.perms : qa.perms[i].required /\ ~yes[i]
PermGate ==
  /\ stage = "ask"
  /\ \E yes \in [DOMAIN qa.perms -> BOOLEAN] :
       IF Denies(yes) THEN Refuse
       ELSE granted' = yes /\ stage' = "image" /\ UNCHANGED <<qa, prot, caps, early>>

(* main's stage 2: the executable prefix, rounded up to a host page, is    *)
(* made r-x unless that would take a writable byte along.                  *)
PagesWithin(bytes) == bytes \div HostPage
Pages(bytes) == (bytes + HostPage - 1) \div HostPage
Separate(a) == a.xend > 0 /\ Pages(a.xend) * HostPage <= a.rw
Protect ==
  /\ stage = "image"
  /\ IF qa.memsz > 0 /\ Separate(qa)
     THEN prot' = 0 .. Pages(qa.xend) - 1 /\ stage' = "caps" /\ UNCHANGED <<qa, granted, caps, early>>
     ELSE Refuse

(* qa_caps_serialize: the granted permissions, as far as they fit. *)
GrantedBefore(i) == {j \in DOMAIN qa.perms : j < i /\ granted[j]}
CapsLines == {i \in DOMAIN qa.perms : granted[i] /\ Cardinality(GrantedBefore(i)) < CapsRoom}
Serialize ==
  /\ stage = "caps" /\ caps' = CapsLines /\ stage' = "enter"
  /\ UNCHANGED <<qa, granted, prot, early>>

(* qos_app_entry compares the boot record's ABI with its own before it     *)
(* trusts anything, then carves its arena and becomes hart 0 on main's own *)
(* thread; the other harts are started one by one.                         *)
EnterApp ==
  /\ stage = "enter"
  /\ IF qa.built # Abi THEN Refuse
     ELSE /\ stage' = "start" /\ thr' = [thr EXCEPT ![0] = "loop"]
          /\ UNCHANGED <<hosted, wakes, pushTo, pushed, finished>>
Unstarted == {h \in BHarts : thr[h] = "none"}
StartHart ==
  /\ stage = "start"
  /\ IF Unstarted = {} THEN stage' = "run" /\ thr' = thr
     ELSE /\ \E h \in Unstarted : /\ \A g \in Unstarted : h <= g
                                  /\ thr' = [thr EXCEPT ![h] = "loop"]
          /\ stage' = stage
  /\ UNCHANGED <<hosted, wakes, pushTo, pushed, finished>>
(* start_hart_cb fails: fpr_cpanic ends the whole host. *)
StartFails ==
  /\ stage = "start" /\ Unstarted # {} /\ stage' = "refused"
  /\ thr' = [h \in BHarts |-> "none"] /\ UNCHANGED <<hosted, wakes, pushTo, pushed, finished>>

(* hart_loop: drains its wake rings, runs an actor, and leaves once        *)
(* fpr_process_done is set.  Hart 0 runs only after it started the others. *)
MayLoop(h) == thr[h] = "loop" /\ (h = 0 => stage = "run") /\ stage \in {"start", "run", "join"}
LeavesNever(h) == finished /\ h = 0
Leaves(h) == finished
LoopTurn(h) ==
  /\ MayLoop(h)
  /\ thr' = [thr EXCEPT ![h] = IF Leaves(h) THEN "gone" ELSE "slice"]
  /\ wakes' = [p \in DOMAIN wakes |-> IF p[2] = h /\ ~finished THEN 0 ELSE wakes[p]]
  /\ UNCHANGED <<stage, hosted, pushTo, pushed, finished>>
(* xpush: spins while the ring is full, whether or not the other hart is   *)
(* still there to drain it.                                                *)
BeginPush(h, g) ==
  /\ thr[h] = "slice" /\ h # g /\ pushed < MaxWakes
  /\ thr' = [thr EXCEPT ![h] = "push"] /\ pushTo' = [pushTo EXCEPT ![h] = g]
  /\ pushed' = pushed + 1 /\ UNCHANGED <<stage, hosted, wakes, finished>>
Full(h) == wakes[<<h, pushTo[h]>>] = XCap
Push(h) ==
  /\ thr[h] = "push" /\ ~Full(h) /\ thr' = [thr EXCEPT ![h] = "slice"]
  /\ wakes' = [wakes EXCEPT ![<<h, pushTo[h]>>] = @ + 1]
  /\ UNCHANGED <<stage, hosted, pushTo, pushed, finished>>
SliceEnds(h) ==
  /\ thr[h] = "slice" /\ thr' = [thr EXCEPT ![h] = "loop"]
  /\ finished' \in (IF h = 0 THEN {finished, TRUE} ELSE {finished})
  /\ UNCHANGED <<stage, hosted, wakes, pushTo, pushed>>

(* hart 0's loop returned: the result is rendered and the threads joined. *)
Join ==
  /\ stage \in {"run", "join"} /\ thr[0] = "gone"
  /\ stage' = IF \A h \in BHarts : thr[h] = "gone" THEN "exit" ELSE "join"
  /\ stage' # stage
  /\ UNCHANGED <<hosted, early>>

BootNext ==
  \/ QaLoad \/ AbiGate \/ PermGate \/ Protect \/ Serialize \/ EnterApp
  \/ StartHart \/ StartFails \/ Join
  \/ \E h \in BHarts : LoopTurn(h) \/ Push(h) \/ SliceEnds(h) \/ (\E g \in BHarts : BeginPush(h, g))
BootSpec == BInit /\ [][BootNext]_bootvars
(* A thread runs; a slice ends, by fuel if not by itself. *)
BootFair == WF_bootvars(Join) /\ \A h \in BHarts : 
  WF_bootvars(LoopTurn(h)) /\ WF_bootvars(SliceEnds(h)) /\ WF_bootvars(Push(h))
BootFairSpec == BootSpec /\ BootFair

-----------------------------------------------------------------------------
Running == stage \in {"start", "run", "join", "exit"}
(* Whatever order the checks of three files come in: code that runs came   *)
(* from an archive that holds together, with every required permission     *)
(* granted, was compiled for this host's ABI, and is told of the granted   *)
(* permissions alone; no byte the app may write is in a page it may        *)
(* execute, and all its code is.                                           *)
OnlyConsented ==
  Running =>
    /\ qa.sha # "bad" /\ \A i \in DOMAIN qa.perms : qa.perms[i].required => granted[i]
    /\ (\A i \in caps : granted[i]) /\ qa.built = Abi
    /\ \A b \in 0 .. qa.memsz - 1 :
         /\ b < qa.xend => b \div HostPage \in prot
         /\ b >= qa.rw => b \div HostPage \notin prot
(* Once main's actor returned, every hart thread is joined and qosp ends,  *)
(* unless a hart spins in xpush on the full ring of a hart that is gone.   *)
Stuck == \E h \in BHarts : thr[h] = "push" /\ Full(h) /\ thr[pushTo[h]] = "gone"
HostReturns == finished ~> (stage = "exit" \/ Stuck)
=============================================================================

# The QOS actor machine in TLA+

QOS is a small actor machine: programs in FP-RISC (and its scripting profile
Sol) are compiled by a Haskell compiler and run on a C runtime, on bare RISC-V
(`hal/virt`), on a host (`hal/unix`, `qos/portable`) or as loaded processes
(`qos/appside`, `qos/native`).  The densest part is `hal/core/actors.c`:
lock-free mailboxes, a multi-hart scheduler with work donation, harts that
sleep and are woken by doorbells, a deadlock detector.  Around it stand the
memory the actors live in (`buddy.c`, `runtime.c`, `vec.c`), what is loaded
into it (`process.c`, `mod.c`, `loader.fpr`), and the devices of both tiers.

Contents: [inventory](#1-inventory), [modules](#2-modules-and-code),
[runs](#3-runs), [proofs](#4-proofs), [disagreements](#5-where-the-code-and-its-statements-disagree),
[limits](#6-what-the-modules-leave-out), [not modelled](#7-not-modelled), [plan](#8-plan).
Line numbers are those of `hal/core/actors.c` unless a file is named.

## 1. Inventory

### 1.1 The actor runtime (`hal/core/actors.c`)

| part | state | operations |
|---|---|---|
| Mailbox | per actor a channel block `ch[MAXSND]`: `SHIDX` dedicated slots (`sender`, `rh`, `rt`, `rv`) and one shared overflow ring with sender tags; `shlock`; `scan`; status word `var` | `chan_for` (claim a slot), `ring_push` with `ring_install` (publish, grow), `a_receive`, `a_receive_from`, `a_receive_res`, `take_at`, `block_unless`, `wake` |
| Scheduler plane | per hart a backlog (`bl_head`..`bl_len`, flags `in_bl`, `in_rq`), a run queue of `RQ_CAP`, `current`; between harts the wake rings `xr[src][dst]` and the steal FIFO | `hart_loop`: `drain`, `refill`, `deq`, `steal`; `backlog_add` with `donate`; `ship`, `xpush`; `spawn*`, `a_yield`, fuel preemption, `a_kill`, return of a body, `reap` |
| Admission | the machine-wide clock `g_adm`, the stamps `ready_at`, `g_tau`, `g_max_wait`, weights, priority | `backlog_add` stamps, `select_backlog` chooses, `refill` admits and measures |
| Sleep | per hart `idle`, the doorbell `msip`, the comparator `mtimecmp`, the sleeper list; `tmr_deadline` | clear-and-look-again, idle-and-look-again, `tmr_drain`, `slp_drain`, `tmr_wfi_arm`, `slp_wfi_arm`, `wfi`; `a_sleep_us`, `a_timer_arm`, `irq_drain` |
| Deadlock detector | `g_blocked`, `g_sleepers`, `g_activity`, the window | a sample per turn of hart 0's loop, `deadlock_dump` and stop |
| Channel-block limbo | `chb_limbo` with a stamp of every hart's `epoch` | `chb_limbo_put` at the reap, `chb_take` at a spawn, `chb_matured` |
| Memory actor | the buddy behind a mailbox of its own, `mem_reply` per requester | `fpr_mem_take` (inline try, request, parked wait), `fpr_mem_give`, `mem_body` |
| Borrow windows | `dp[DP_N]`, `msg_slab` | `fpr_drop_park`, `drop_drain` |

How the parts meet.  A `send` claims or finds a channel of the target, copies
the message (which may park the sender in the memory actor), publishes it, and
tries the CAS `BLOCKED -> READY` on the target's status word; the winner ships
the target, which is either `backlog_add` on the same hart or `xpush` and a
doorbell for another.  The target's hart drains its wake rings into its
backlog, admits from there into the run queue, and switches to it.
`backlog_add` past `DONATE_HI` publishes an entry in the steal FIFO and rings
an idle hart, whose loop takes it when it has nothing of its own.  A hart with
nothing at all goes to `wfi`; a `receive` with nothing to take does the
opposite CAS and gives the hart back.  Deadlines enter through the comparator.

What is hard: every one of these steps races with steps on other harts.  Two
store-then-load handshakes (park against publish, idle against donate), one
clear-then-look (doorbell), free-running indices that wrap, a ring that is
replaced while it is read, a lock that must never be held across a park,
status read before and used after a park, an actor that moves between harts
while somebody is about to ship it, kills at any of these points, and a
detector that samples all of it without stopping anything.

What makes each part correct:

* Mailbox: a message answered Ok is queued once and received once; a sender's
  messages stay in order; a ring has one writer and never more than its
  capacity; a parked owner with something to take is about to be woken; a send
  always returns.
* Scheduler: an actor runs on one hart, has one list entry, is never runnable
  and nowhere, is freed only when it is gone; pinned actors do not move.
* Admission: nobody waits beyond a bound; the statistic tells the truth.
* Sleep and detector: no hart sleeps on work; deadlines are met; the detector
  stops exactly the machines that are dead.

### 1.2 Memory and values (`hal/core/buddy.c`, `runtime.c`, `vec.c`)

| part | state | operations | hard part | correct when |
|---|---|---|---|---|
| Buddy | free lists per order, one lock | alloc, try, free, realloc (shrink, in place, move), reserve_range, release_range | realloc over the upper siblings; a reservation that fails half-way | the pieces tile the arena |
| Slabs | `escaped`, `holds`, owner of a slab; the borrow windows `dp[DP_N]` | msg_copy, promote_share, incref/decref, drop_park, pool reset, teardown | the last drop against a sender still packing | a slab goes home once, when nobody uses it |
| ARC table | open addressing, tombstones | probe, insert, delete, grow | growth decided before the lock | it is a map from objects to counts |
| Pools | current slab, a list per size, bigfree | alloc, free from any hart, sort, carve | a foreign free against the owner's exchange | a cell is handed out once |
| Deep copy | the message's slab, kept values | dc_size, dc_dup, kp_dup, dc_release, arenas | lists built by primitives | a copy refers to nothing outside itself |
| Values | | applyN, == | depth of comparison | spine = one by one; equal = the same |
| Grow ledger, log rings | tickets and slots; rings per severity | grow_counted, growLog; logput, logSnap | readers against writers | what is listed was written |
| Vectors | columns with kinds | the operations of vec.c, each using its operands up | in-place reuse, layouts | what was written is read back |

### 1.3 Loading and running programs

| part | state | operations | hard part | correct when |
|---|---|---|---|---|
| Live set | attach table, plugin window, the manifest on the disk | load, gate, launch, replay, detach (`loader.fpr`, `mod.c`, `qosp_load_plugin_bytes`) | pages shared by two plugins; a chain replayed at boot | a name resolves to the newest of the chain, no page is code and writable, the replay repeats what was live |
| Process slot | the slot, `g_shared_live`, pids | bind, load, gate, enter, root ends, storage calls | one address for all images | the image is that of whoever runs |
| Launcher (`qosp`) | the archive, grants, protections, hart threads | read, verify, ask, place, boot, join | every way to refuse; the end of all harts | only what was consented to runs; it comes back |
| Syscall channel, store | `store_mu`, the kv file, `g_sysout` | read, append, refuse, compile, plugin | deaths while a record is written | an answered record is read back |

### 1.4 Devices and services

| part | state | operations | hard part | correct when |
|---|---|---|---|---|
| Sockets (`net_raw.c`) | slots, kernel buffers, unsent tails | poll, read, write, close | partial writes, half-close, reuse of ids | streams keep their order; records name the right peer |
| TCP (`net.c`) | four connections, one receive ring | pump, poll, read, close | lost, repeated, reordered segments | the stream is a prefix; poll rotates |
| Virtqueues (`net.c`) | descriptors, 16-bit indices | post, pump, transmit | wrap; one transmit buffer | each frame once, unmixed |
| Disk log (`qlog.fpr`, `blk*.c`) | superblock, pages | append, delete, compact, boot | a crash at any page | records survive |
| Terminal, keyboard | byte and record buffers, modifiers | poll | pieces of sequences | what is typed is heard |
| Sound (`snd_raw.c`) | voices, the lock, one mixer | play, music, mix | first call against the mixer | every tone is mixed once |
| Scenes (`gfx.c`) | mesh table, static buffers, staging, the item array | render a scene, with an overlay; register a mesh | what a frame leaves behind for the next; see-through items of all meshes and text in one order | a frame is its scene |
| UART service (`uart.fpr`) | queues, owner, flusher | requests and the interrupt | a flush parked on an interrupt | bytes in order, flushes answered |
| PLIC, CLINT | enable words; 64-bit registers in halves | bind, claim, ack; arm, read | read-change-write; halves | once per ack; no early alarm |
| Host log (`hostlog.c`) | the window, the sink | log, register, replay | replay outside the mutex | each line once |
| Time service (`mods/timer.fpr`) | the pending list, one armed deadline or sleeper children | after, poke, fire, re-arm | the clock and `tmr_drain` run between its steps | everybody is told, nobody early |
| Sol's commit (`Sol/Txn.hs`) | read set, effect log, lock directories, journal, done marks | snapshot, lock, validate, journal, replay, clear; recovery and reclaim by another process | a death at any step, a redo beside live commits | commits happen one after another, each whole |

`docs/VERIFICATION.md` names the protocols its authors think worth checking;
the channel, the wake handshake, the scheduler plane, the limbo, the log and
Sol's transactions are here.

## 2. Modules and code

| module | models | state to code |
|---|---|---|
| `Mailbox` | the mailbox, step by step | `key`, `rh`, `rt`, `rv`, `ring` are the fields of `chan_t`; `lock` is `shlock`; `status`/`dead` the status words; `snd[s]` the locals of `fpr_send_as`, `chan_for`, `ring_push`; `rcv` those of the receives; `on` who runs on a hart |
| `FifoBox` | what a mailbox promises, a queue per sender; `Inbox` in `Mailbox` is the refinement mapping | a queue is the set of what waits in it, since a sender numbers its messages |
| `Sched` | the scheduler plane | `bl`, `rq`, `xr`, `ring`, `inbl`, `inrq`, `var`, `hart`, `current` under their names; `hpc` the hart's place in its loop, `pc`/`to`/`dst` the actor's place and the target of its wake |
| `Admission` | the order inside a hart | `stamp` is `ready_at`, `adm` is `g_adm`, `clk` the clock as a scan read it |
| `HartSleep` | the loop between work and `wfi`, deadlines, detector | `at` the place in `hart_loop`, `pass` before or after the doorbell was cleared, `idle`, `msip`, `mtimecmp`, `timer` as in the code; `slp` how often a hart's sleeper list has an actor; `inPark` is what `g_blocked` counts |
| `MemActor` | take, give, the memory actor's loop | `mq` the requests per key, `reply` is `mem_reply`, `mfree` the buddy |
| `ChanBlocks` | acbs, blocks, limbo, epochs, the send that races | stamps are kept as passes made since |
| `Interrupts` | device interrupts as messages; the timer and the clock in halves | the enable words, `irq_bound`; `mtime`, `mtimecmp` |
| `Buddy` | `buddy.c` | free lists are sets; a block is `<<offset, order>>` |
| `Arc`, `ArcTable`, `CountMap`, `Pool` | slabs; the table and what it promises; cells | `escaped`, `holds`, the slots, the lists under their names |
| `DeepCopy`, `Values`, `LogRings` | `runtime.c` by subject | addresses and cells; spines; the severity rings and the growth ledger |
| `Vec` | `vec.c` | columns of words with their kind; `ref` is the reference on rows |
| `LiveSet`, `Slot` | loaded modules; the process slot | the window is pages with rights; the slot holds cells of an image |
| `QosBoot`, `HostStore` | one run of `qosp`; the syscall channel and the store file | `stage`, the threads `thr`; the file as cells |
| `NetRaw`, `NetTcp`, `Virtq`, `Disk`, `Input`, `Snd`, `HostLog`, `Uart`, `TimerSvc` | the devices and services of 1.4 | each file's statics under their names; in `TimerSvc` `pend` is the list, `armed` is `tmr_deadline` |
| `Gfx` | which instances and glyphs a frame of `gfx.c` is made of | `G` is the static struct; an entity is a mesh, a depth and whether it is opaque |
| `Txn` | Sol's commit by several processes | `disk`, `lock`, `journal`, `marks` are the files; `sol[p]` is a process: its `pc`, read set `snap`, locks `held`, log and index |
| `MailboxMC`, `SchedMC`, `HartSleepMC`, `LiveMC`, `RuntimeMC`, `HostMC` | instances | placements, starting states, inputs |
| `MailboxProofs`, `MailboxOrderProofs`, `SchedProofs`, `QueueProofs`, `HartSleepProofs`, `BlockProofs`, `PoolProofs`, `ServiceProofs` | theorems | |

Atomicity.  A step makes at most one access that another hart can race with;
what the C does between two such accesses is local and folded into the step.  A
critical section of a lock is one step, with the private steps around it.
Harts are never preempted inside the runtime, so an actor gives its hart up
only where the code can park.  In `Mailbox` that is inside the message copy and
the ring allocation (`MsgCopy`, `Resume`), at the park, and between operations;
in `Sched` each access to a status word, wake ring, the steal FIFO or `a->hart`
is a step of its own; lists and flags belong to the hart that runs the step.
In `Txn` a step is one change another process can see, in `Disk` a page write, in `HostStore` a byte group of a record, in
`Interrupts` one 32-bit access of a register, in `Virtq` an index update.

Operators carrying the comment "mutant" are variants of the next definition
with one plausible bug.  Nothing in a specification uses them: substituting one
for its original must break the property it is listed with, which is how we
know that the property depends on that line of the code.

### How the modules divide the work

`Mailbox` follows one mailbox exactly and knows of the scheduler only that a
ready owner is run again.  `Sched` reduces a mailbox to the number of its
messages and leaves the choice of the next resident open; `Admission` keeps
the choice and drops the status word and the wake rings.  `HartSleep` takes
the result of both (a receive parks or not, a send wins its CAS or not, in one
step) and follows the loop's places instead.  `ChanBlocks` looks at the same
send from the side of the memory it writes to, `MemActor` at the park inside
it, `Arc` at the slab its message travels in, `DeepCopy` at what is in there,
`ArcTable` and `Pool` at the two structures that count and store it, and
`Buddy` at where all of it comes from.  Each abstraction is an
over-approximation of the module it stands for: `Sched` admits any resident,
`Admission` lets an idle actor become ready at any moment, a deadline in
`HartSleep` may pass at any moment after it is set, and an allocation in
`LogRings` or `Mailbox` may always find the buddy busy.

## 3. Runs

Each run is `tlc -config <run>.cfg <MC module>`.

### Worlds

`Mailbox`, `Sched` and `HartSleep` are large and have runs of their own.  The
other components are small, and share no variable: `SchedMC`, `LiveMC`,
`RuntimeMC` and `HostMC` put several of them side by side and choose in `world`
which one a behaviour is about; the others rest in their initial state.  The
state space is the sum of the parts, not the product.  A property of such a run
is the statement of the component's own module where it holds of the component at rest
too, and otherwise that statement in its world, so a reader finds it, and its
reason, in the component's module.  In `RuntimeMC` and `HostMC` the worlds of an
instance are the constant `Worlds`.

### Runs that pass

| run | instance | properties |
|---|---|---|
| `mb_core` | two senders on one hart, the owner on another, one dedicated slot and the shared ring, rings of one that grow to two, two sends each, the second a Result, all three receives | `TypeOK`, `OkMeansQueuedOnce`, `NoLostWakeup`, `TakesTheOldest`, `ImplementsFifo` |
| `mb_live` | two senders, one with a slot and mortal, fairness | `OneWriter`, `Delivered`, `SendReturns` |
| `sc_parts` | *plain*: three pinned actors on two harts; send, receive, yield, kill, exit. *donate*: a pinned parent and three movable actors, backlog of one before donation, steal FIFO of one, a second hart with nothing of its own. *doorbell*: a movable and a pinned actor on hart 0, an empty hart on its way to sleep. *shared*: `Mailbox` with four senders on two harts at one shared ring that grows | `TypeOK`, `OneHart`, `PinnedStay`, `ListsKeep`, `DonatedRuns`, `SharedRing` |
| `hs_wake` | an actor that sends, sleeps or arms the timer on hart 0, one that receives and kills on the irq hart, and a third that is donated or ends; fairness | `DoorbellPending`, `TimerHeard`, `WokenRuns`, `DeadlockFound` |
| `live_parts` | *blocks*: two requesters, one block, a hart's own key, a request ring of one. *boot*: 27 archives that each fall short in one way or in none, three harts, a wake ring of one. *sleepers*: two actors on two harts that sleep, send and exit. *timers*: two clients of the time service, both backends, a clock of three ticks. *table*: three objects of which two collide in every table, a table of two that doubles twice, two sharers | `OnePlace`, `TimersKept`, `OnlyConsented`, `ImplementsCountMap`, `TakeReturns`, `HostReturns`, `WaitsEnd` |
| `rt_parts` | *admission*: one hart, three actors, tau 0, run queue of two, a kill, seven admissions. *buddy*: six units, orders to three, a caller that holds three. *slabs*: two actors, three slabs, two roots. *channels*: two tasks on two harts, three acbs, two blocks. *pool*, *vectors*, *copy*, *grow*, *logs*, *values* | `WaitBound`, `AgedBound`, `CellOnce`, `WellTiled`, `HomeWhenUnused`, `BlocksOfChannels`, `WrittenIsRead` |
| `host_parts` | *store*: two callers, two records, a death. *sockets*: two peers, one slot, buffers of one. *terminal*, *keyboard*: four keys in pieces. *modules*: four modules, three boots. *slot*: three processes. *tcp*: two peers, streams of three, losses and repetitions. *disk*: nine pages, two crashes. *sound*, *uart*, *irqs*: two sources of one word whose actors run on either of two harts, two of another whose actors stay on the claiming one. *virtq* (indices modulo 4), *hostlog*, *clint* (words of base 3). *scripts*: two `sol` processes, two scripts that read and write two files and queue a command, one killed anywhere. *scenes*: two mesh names, two statics lists, five frames with solid and see-through cubes, labels and clips | `StoredIsKept`, `StreamsKeepOrder`, `NobodyForgotten`, `ImagesSound`, `DevicesExact`, `OncePerAck`, `ClockExact`, `SceneDrawn` |

What they show: within these instances no interleaving loses, duplicates or
reorders a message, lets two producers into a ring, loses a wake, a runnable
actor or a doorbell, lists or runs an actor twice, or lets an aged actor be
passed more than once by each other; no block, slab, cell or count is in two
places or none; a vector and a copied message are what was put into them; and
every device hands on what it was given, once and in order, within the
conditions section 5 names.

Bounds, all constants of the modules or marked BOUND there.

* `Sends`, `Ops`, `MaxAdm`, `MaxMsgs`, `MaxRecords` and the like bound how much
  happens; the properties are about one message, one wake, one list entry, one
  record, and two of each actor's operations are enough for "the old one and
  the new one" to meet.
* Rings, queues and buffers of one to three make full rings, growth, refusal
  and the middle take happen within two messages; the index moduli of `Virtq`
  and `Mailbox` make the wrap happen too.  The code's sizes only lengthen the
  way there.
* One dedicated slot and a shared ring: the second sender overflows.  Two
  dedicated slots add no new pair of accesses.
* `RQCap`, `DonateHi`, `SCap`, `XCap` of 1 to 3 make full and empty both
  reachable.
* Two harts: every race in the code is between two of them except the choice
  of the hart `donate` rings, see 5.
* `Quiet` is 1 for `DETECT_QUIET` 8: the number of quiet samples matters only
  together with the window.
* Two crashes in `Disk`: the second one hits the recovery of the first.
* Six units in `Buddy` are not a power of two: the arena starts as two pieces,
  as any real one does.
* One death in `Txn`: the survivor's recovery and reclaim meet everything a
  dead process can leave behind; two of three processes dead is an entry of 5.
* Base 3 words in `Interrupts` have a carry, a smallest and a largest low half.

Deadlock is not checked by TLC: an actor that has used up its operations, a
machine stopped by the detector, and a bounded client all stop by design.  That
nobody waits in vain is what `NoLostWakeup`, `ListsKeep`, `Delivered`,
`SendReturns`, `WokenRuns`, `DeadlockFound`, `TakeReturns`, `HostReturns`,
`WaitsEnd` and `NobodyForgotten` say.

Fairness.  `HartSleep` assumes weak fairness of every hart's step and of the
passing of time: a hart executes its loop for ever.  `MemActor` assumes it of
each requester's steps and of the memory actor, `QosBoot` of the main thread,
of every hart thread and of the actors that run, which the host's scheduler
grants.  `TimerSvc` assumes it of the clock, the service, the irq hart's drain
(`TimerHeard` in `HartSleep` is why) and the sleepers.  `Mailbox` assumes strong fairness of each actor's steps, because there
a hart is shared and "free" only now and then; that a hart runs again whoever
it has listed is what `Sched` and `Admission` are about (`ListsKeep`,
`AgedBound`).  No fairness is assumed of starting an operation, of the buddy
granting a block, of a device, or of a kill; `Delivered` assumes that the owner
keeps receiving, as its name says.

### Runs that show a disagreement

`mb_fresh_reset`, `sc_migrates`, `hs_sleeper_alarm`, `dc_nil`, `tx_reclaim`: see 5.

## 4. Proofs

TLC checks the instances above; the following hold for all values of the
constants that the modules' `ASSUME`s allow, and are checked by TLAPS.

| theorem | statement | inductive invariant |
|---|---|---|
| `MailboxProofs!TypeCorrect` | `Spec => []TypeOK` | `TypeOK`: it is inductive because it says that a sender at the CAS has found a slot, and that every program point has its registers in range |
| `MailboxProofs!RingsHaveOneWriter` | `KillIsLocal => (Spec => []OneWriter)` | `WriterInv` |
| `MailboxProofs!NoWakeupLost` | `Kinds \subseteq {"any"} \/ Calm => (Spec => []NoLostWakeup)` | `KeyInv`, `Orderly`, `Noticed` |
| `MailboxOrderProofs!OkMeansQueued` | `Calm => (Spec /\ []Unwrapped => []OkMeansQueuedOnce)` | `Orderly`, `Stocked` |
| `MailboxOrderProofs!TakesOldestFirst` | `Calm /\ Mortal = {} => (Spec /\ []Unwrapped => TakesTheOldest)` | `Orderly`, `Stocked`, `Placed` |
| `MailboxOrderProofs!RingsImplementQueues` | `Calm /\ Mortal = {} => (Spec /\ []Unwrapped => ImplementsFifo)` | `Orderly`, `Stocked`, `Placed` |
| `SchedProofs!SchedTypeCorrect` | `Spec => []TypeOK` | `SchedInv` |
| `SchedProofs!PinnedNeverMigrate` | `Spec => []PinnedStay` | `SchedInv` |
| `SchedProofs!PinnedRunOnOneHart` | `Pin = Actors => (Spec => []OneHart)` | from `PinnedStay` |
| `SchedProofs!ListedOnce` | `Spec => []OneEntry` | `SchedInv`, `OneListed` |
| `SchedProofs!PinnedListsKeep` | `Pin = Actors => (Spec => []ListsKeep)` | `SchedInv`, `OneListed`, `Sound` |
| `SchedProofs!WaitFreeListsKeep` | `"receive" \notin Does /\ Parked = {} => (Spec => [](OneHart /\ ListsKeep))` | the same with `NobodyWaits`, `Solo` |
| `QueueProofs!AgedPassedOnce` | `Prio = {} => (Spec => []AgedBound)` | `AInv` |
| `HartSleepProofs!SleepTypeCorrect` | `Spec => []TypeOK` | `TypeInv` |
| `HartSleepProofs!NoSleepOnWork` | `Spec => []DoorbellPending` | `DoorInv` |
| `HartSleepProofs!DeadlineHeard` | `SleepersElsewhere => (Spec => []TimerHeard)` | `TimerInv` |
| `HartSleepProofs!TwoHartsDonate` | `NHarts = 2 => (Spec => []DonatedSeen)` | `DonateInv` |
| `HartSleepProofs!TimersNeverEarly` | `TimerSizes => (TimerSpec => []TimersKept)` | `ServiceInv` |
| `BlockProofs!BlocksInOnePlace` | `CSpec => []NoBlockLost` | `ChanInv` |
| `BlockProofs!SendsReachTheirTarget` | `~ParkInSend => (CSpec => []BlocksOfChannels)` | `ChanInv`, `Held` |
| `BlockProofs!ArenaTiled` | `BSpec => []WellTiled` | `WholeInv` |
| `PoolProofs!CellsOnce` | `PoolSpec => []CellOnce` | `PoolInv` |
| `PoolProofs!SlabsGoHome` | `MaxDrops <= DPN => (ASpec => []HomeWhenUnused)` | `ArcInv` |
| `PoolProofs!TableIsMap` | `TableSizes => (TableSpec => ImplementsCountMap)` | `Table` |
| `ServiceProofs!MemBlocksOnePlace` | `MSpec => []OnePlace` | `MemInv` |
| `ServiceProofs!RunsOnlyConsented` | `BootSpec => []OnlyConsented` | `Established` |
| `ServiceProofs!InterruptsOncePerAck` | `PSpec => []OncePerAck` | `PlicInv` |
| `ServiceProofs!TimerExact` | `TSpec => []ClockExact` | `ClockInv` |
| `QueueProofs!FramesOnce` | `QueueSizes => (VSpec => [](RxExact /\ (Patient => TxTrue)))` | `RxInv`, `TxInv` |
| `QueueProofs!EventsWhole` | `LogSizes /\ ~Lapped => (GrowSpec => []ListedWhole)` | `GrowInv` |
| `QueueProofs!SnapshotsExact` | `LogSizes => (LogSpec => []SnapExact)` | `SnapInv` |
| `QueueProofs!WaitIsBounded` | `Solo /\ Prio = {} => (Spec => []WaitBound)` | `WInv` |

*One writer.*  `OneWriter` alone says nothing about why two senders cannot
claim one slot.  `WriterInv` adds: a slot's key names whoever is between its
claim and its publication (`SlotHeld`), the lock names whoever is between
taking and releasing it (`LockHeld`), and a claim that is under way was seen on
a free slot or one of a dead sender (`StealsDead`).  The CAS then only replaces
the key of somebody who no longer writes.  That needs the hypothesis
`KillIsLocal`: either nobody is killed, or all senders share a hart, so that a
killed sender is not running when another one is.  Without it the theorem is
false (entry 4 of section 5).

*Wakeups.*  The argument has two halves.  One is the handshake: while the owner's
status word says BLOCKED, whatever channel its second look has passed and finds
ready by now is one whose sender has stored `rt` and is at its CAS (`Noticed`).
The other is that nothing except the store of `rt` makes a channel ready.  For
plain `receive` that takes little: a slot without a key is empty (`Fresh`), who
works on a channel works on one that has a key (`Named`, `Asked`), and a sender
leaves its hart only while it waits for the memory actor (`OnHart`); it holds
even where messages are lost (entry 1 of section 5).  `receiveFrom` and `receiveRes` look at one
sender's key, or through a ring, and a ring is also changed by the reset of a
slot, the growth and `take_at`.  That these keep what is queued where it is needs to
know that no ring overflows (`AllFit`), that a writer's private copies of `rt` and `rv`
are current (`Loaded`), that a grown ring is larger and complete (`Growing`,
`Copied`), and that what `chan_for` saw of a slot still holds at its CAS (`Seen`): `Orderly`.
It is inductive under `Calm`: the senders share a hart, or every slot has its
sender and keeps it (otherwise `Seen` is false: entry 1); and every
capacity divides the width of the counters, as powers of two do.  The
instance of `mb_core` satisfies it.

*Contents.*  `OkMeansQueuedOnce` counts a message's copies in the rings and in
`got`.  What is inductive says it by position (`Stock`): everything queued was
published, no two positions of one channel or of two hold the same message, each
channel has a sender's messages in order, what was received is queued nowhere, and what was
published is in one of the two places.  With it go the number of a sender's next message
(`Numbered`), the message between the store into the slot and the store of `rt`
(`Written`), and that what the owner chose is still where it saw it (`Chosen`).
A sender's steps leave every queue as it is except for the store of `rt`, which
appends; the owner's, except for the store of `rh` or the end of `take_at`,
which remove one.  Growth is the case with work in it: positions are
counters modulo `CW`, slots are counters modulo the width, and `RingCopy` has to carry the one over to the
other.

For the order, `Placed` says where a sender's messages are: a dedicated ring holds
only those of its key (`Owned`), a sender has one slot at most (`OwnKeys`), one
whose messages are in the shared ring has no slot and finds none (`Homes`), and
what the owner picked is the first it asked for (`Picked`).  So the
oldest of a sender in the mailbox is the oldest in its one channel.

The conditions are those the code needs.  `Calm`, as above: else a reset wipes a
published message (entry 1).  `Unwrapped`: only plain `receive` is used, or no
ring's counters wrap between its head and its tail; `take_at` compares the
counters as they are and shifts nothing past the wrap (entry 7).  It is a condition on
the behaviour: `rh` and `rt` of 32 bits wrap after 2^32 messages through
one ring.  In `mb_core` no ring gets as far as the wrap; the world *shared* of `sc_parts` wraps, with
plain `receive` alone.  `Mortal = {}` for the order: after a
death a slot changes hands, and an older message may wait behind it in the
shared ring, or under a key that is no longer its sender's (entries 5 and 6).
`OkMeansQueued` does not need it.

*Refinement.*  `Inbox` is computed from the rings, and by `Stock` equals what was
published and not received, for each sender (`InboxIs`).  The abstract `Put` is then the
store of `rt` (`PublishIsPut`), the abstract `Receive` the step that extends `got`
(`TakeIsReceive`, by `TakesOldest`), and every other step, growth and
shift included, leaves both histories and so the queues alone (`FifoStep`).

*Scheduler.*  `blocked \in Nat` in `TypeOK` is not inductive: that the counter
never goes below zero needs that it counts the parked (`Counted`), and
`PinnedStay` needs that a pinned actor's `hart` and a wake on its way agree
with its home at every point of `wake`, `ship` and `xpush` (`AtHome`).
`SchedInv` is the conjunction.

`OneEntry` counts entries; what is inductive names positions (`OnceIn`): what is
in a queue is flagged, sits at one place of one hart, and what is flagged sits
somewhere.  It needs nothing of where actors run, so it holds of migrating ones.
`NobodyLost` looks only at actors that do not run, and is not inductive: an actor
that parks is off its hart one step after the re-scan, so the same is said of it
from the CAS on (`Kept`, `Mailed`), and of who yields from its listing on; and who
does not run is at a label where nothing is pending (`Resting`).  `Sound` is their
conjunction with `ReapedAreGone`.  Two of its steps need that an actor runs on one
hart (`SwitchOut`) and that a hart looking for work has nobody on its lists that
runs (`Lonely`, for `Unlink` and `Deq`): that is what pinning gives, and what run
`sc_migrates` takes away.

Pinning is not the only way to it.  `Solo` is what actors keep that are spawned,
donated, stolen, sent to and killed at will, and never wait: an actor is at one
place, running, listed, in the steal FIFO, in one slot of one wake ring, or about to be
shipped by one hart (`OnePlace`, `Apart`, `OneShipper`); only the actor that has just yielded
is listed while it runs, on the hart that runs it (`Leaving`), which takes nothing
from a list before the switch.  A send to such an actor finds it not BLOCKED and
wakes nobody, so only a spawn ships, and it ships who is nowhere yet.  A wait breaks
this at one step: the CAS of the waker says whose the listing is, the target's own
re-scan may keep it running, and then `ship` is under way for an actor that has a place.

*Sleep.*  `DoorbellPending` speaks of a hart that waits; what is inductive is the
same of a hart from the moment it has taken its last look at the wake ring
(`Announced`): a message that comes later has rung, or its sender is at the bell,
and only `Clear` takes a bell down, which sends the hart around again.  The
timer needs more: the comparator has one value, and `slp_wfi_arm` sets it after
`tmr_wfi_arm`.  So `TimerHeard` is proved where who uses `Sys.sleepUs` is pinned to
another hart than the irq hart (`SleepersElsewhere`, which the instance of
`hs_wake` satisfies); otherwise it is false (entry 12 of section 5).  That pinned
actors stay where they are (`PinnedHome`) then keeps the irq hart's list empty.
`DonatedSeen` needs that the idle flag is up before a hart looks at the steal FIFO
(`FlagUp`) and that a donor's scan has not passed a hart that rests
(`DonorScans`); with three harts the scan may stop at one that was rung already
(entry 9), and the invariant breaks there.

*Virtqueues.*  The four indices are counts modulo 2^16: buffers made available, filled, handled
(`Indices`), which is a statement about the counts only because no two of them are more than
`QSZ` apart and `QSZ` divides the modulus (`QueueSizes`; the C relies on both).  A
buffer is posted, filled or with the handler, and once (`BufferOnce`), so a frame that
arrives overwrites none that waits (`FramesKept`).  On the transmit side `TxInv` says that the one
descriptor is given away only while `nic_tx` watches the used index; that its spin outlasts the device
is `Patient`, and entry 28 of section 5 is what happens otherwise.

*Growth ledger.*  A slot is valid under a number only if both fields hold what the
event of that number wrote and no writer is at work under it (`Published`); a slot with a writer
in it is invalid from its second step on (`HalfWritten`), and two writers are never in one slot
(`WritersApart`, from `~Lapped`).  The reader has seen the number before it
copies, so every writer that comes later comes with another number: what was copied in between
may be torn, but then the second look sees another number for ever (`ReadTrue`).

*Snapshots.*  `RingTrue` says where the newest `LOG_N` lines are, `Locking` that exactly the actor between the
first and the last step of a snapshot has `log_lock`, so no line comes while it copies or
waits for memory, and `Copying` how far it is.  The same `Locking` is why `LogLockFree` fails
(entry 24): the proof that a snapshot is exact is the proof that the lock is held across a wait.

*Channel blocks.*  `NoBlockLost` counts where an acb and a block are; `ChanInv` names the
places and says that no two hold the same (`AcbsOnce`, `BlocksOnce`), that a spawn between
`acb_block` and `chb_take` has an acb of its own that nobody can send to yet (`Carved`), and
that who was shipped has a block until its reap (`ShippedOwn`).  It needs nothing of the
epochs.  The epochs matter for a send between its look at the channels and its push: `Held` says that
the block it found is its target's still, or lies in limbo with no pass of the
sender's hart.  Only the loop of that hart could count a pass, and it does not run while
the send does, which is where `~ParkInSend` enters; a matured block has two passes of every
hart, so `chb_take` gives away another one.  With parking sends `Held` is false, and so is the property (entry
18 of section 5).

*Arena.*  Every step replaces a piece of the arena by a cut of it, or a cut by the piece: a
block of order k is one of its blocks of order i and the siblings of that block on the way up
(`Levels`), which is what a split, a shrink, `take_unit`, a growth and a merge have in common
(`CutTiles`, `JoinTiles`).  The provers know nothing of powers of two, so `Size` is a recursive
function, and what is true of divisions by it is shown order by order.  The length of a held
block is only in the word in front of it: `OwnFit` says that the word is an order and the block
aligned to it, and `OwnAfter` that a step changes one such word.  `reserve_range` is an
induction over the units of the range (`TakenTiles`), which also gives what a reservation that fails
half-way keeps.  `Coalesced` leans on the tiling: a split lists only siblings of a unit that is held, and
no free block lies over a held unit, so a listed sibling never meets its other half (`SibsWhole`,
`HeldAround`).  A merge stops only where the sibling is not free (`MergeWhole`), and the roots of
`buddy_init` are the largest that fit, so no two of them are halves of one (`RootsLargest`).

*Cells.*  `CellOnce` counts the referrers of a cell; `OneReferrer` names them and says
that the name is unique, so a step is two renamings at most (`Moves`): the exchange of a
list moves its first cell to the owner's chain, sorting moves one cell to its user or to a
push and the next to the chain, a push that succeeds puts its cell at the head and the old head
behind it.  That last step is where a stale read could lose a cell: the push stores a link before its
compare-and-swap, and `Seen` says that the link is still what the swap compares with.
A head that was taken away and came back in between does no harm: it is the same cell, and
whoever it refers to has followed it.  `Uncut` keeps memory that is not handed out free of cells, so a new
one has no referrer, and `Bare` the links of cells in use.

*Table.*  An open-addressing table is right when every object has one slot and the walk from
its hash meets no vacant slot before it (`Table`).  A probe answers by the first slot of a kind on
that walk, so the proof needs least elements, and that the walk visits every slot (`Walk`).  An
insert into the slot a miss answers breaks no other walk and completes its own (`Written`), a
tombstone breaks none (`BuriedIn`); a vacant slot in its place would, which is the mutant.  For
`arc_grow` the same is shown of each old slot in turn, together with the number of live slots so
far, which is what leaves room for the next (`Refill`).  That is an induction over the loop; the
library's induction theorems take an operator, which the installed provers cannot instantiate, so
`LeastNat` and `UpTo` state it about a set of numbers, from the library's theorem that `<` on the
naturals is well-founded.

*Slabs.*  `HomeWhenUnused` compares a slab's place with everything that may still touch it; the
code compares two counters of its header.  `Headers` says what the counters count: `holds` the
windows over the slab and the senders that pack into it, `escaped` its counted roots and closures, and
that a slab out of the buddy's hands has an owner, a count, or a copy that nobody has counted
yet.  So a step has to preserve sums: one more reference, one count less and one window more, or
all windows of an actor at once.  There are never more references to a root than its count
says (`References`), so the last count that goes is the last reference.  The case with work in it is the
copy between the store of its bytes and its first count: no counter knows it.  It is its sender's alone, and that
sender packs into the slab still, or had a slab made for it with nothing else in it
(`Sending`); so whoever gives back the last hold finds no such copy.  The hypothesis
`MaxDrops <= DPN` keeps an actor within the entries of `dp` between two receives: one more
retires the oldest window early, and the theorem is false (entry 22 of section 5).

*Memory actor.*  `OnePlace` counts where a block is; `OneHolder` names the place and its
actor.  A requester that gives up a request or dies leaves what is under way for it, so the
invariant has to say that a request in a queue or at the memory actor belongs to an actor that
still waits, has no answer yet, and has no second one (`Pended`): else the answer would overwrite a
block that is in `mem_reply` already.  That a queue holds a request or a block once (`Queues`) makes taking the
first of it a renaming.

*Launcher.*  `Established` says for each stage of `main` what the stages before it have decided, down
to the pages: a byte below the end of the code lies in the prefix of whole pages that is made
executable, and the gate has refused images whose data begins in it (`PrefixPages`).

*Interrupts.*  A source is masked and armed by a read, a change and a write of a word that other sources
share, on whatever hart its actor runs, so what was done for one source may be undone by the
store for another (entry 33 of section 5), and `OncePerAck` says what is left.  Its history
variables count, when a store writes a bit that is not what the word has by then, a mask or
an arming that is undone.  `Balanced` is the accounting: with `BoundOnly` (only the irq hart
claims, one hart at a time arms a source, and while its actor serves it) every step moves a delivery
from armed to claimed to the mailbox to the actor's hands to armed, and the only steps that
make one more or one less are the stores that are counted.  `HeldApart` is why nothing is counted
for a source whose word is changed on the irq hart alone: the word that hart has loaded
still has the source's bit as it is.  The theorem has no hypothesis; the repository's programs bind
one source, the UART, which is apart.

*Timer.*  With all ones in its low word the comparator is no lower than a deadline with the same high
word (`Written`), so the three stores pass from "at or past the old deadline" to "at or past the new
one".  A clock read keeps the tick at which its low word was true (`ReadSo`); if the high
word reads the same again, it did not change in between, and the answer is that tick.

*Time service.*  `TimersKept` compares how often a client was told with how many of its requests
are due, and nothing in the service numbers the requests: deadlines are computed when a
request is taken, may stand in another order than the requests came in, and are compared with the low word
of a clock.  `HeldBack` is the counting: at every tick to come, no more of the requests taken
are still not due than stand on the list under a deadline the low word will not have shown by then.  Taking a
request adds one to both sides, because the low word is never faster than the clock
(`LowWordSlow`) and a request that waited in the mailbox is due no later than one made now
(`Lag`); telling one takes an entry that no longer counts.  The wrap of the low word
therefore keeps answers back (entry 37 of section 5) and never makes one early.

*Admission.*  Both bounds are counting arguments.  `Ahead(h, a)` are the
entries of `a`'s backlog whose stamp is not later than `a`'s.  While `a` is
aged, each admission of its hart takes one of them, and whoever comes back is
stamped later; so `passed[a] + |Ahead(h, a)| <= N - 1` is preserved (`Passing`),
given that an actor is in one backlog (`Apart`) and that stamps are not in the
future (`Past`).  On one hart the clock advances only by admissions of that
hart, so until `a` ages `adm - stamp[a] <= tau`, and afterwards
`adm - stamp[a] + |Ahead(h, a)| <= tau + N - 1` (`Waiting`), which at the
admission gives the bound on the measured wait.  Priority actors break both:
they are aged at once and are stamped 0.

`ListsKeep` of actors that both migrate and wait is not proved because it is not
true (run `sc_migrates`); the *plain* world of `sc_parts` is an instance of
`PinnedListsKeep` and its *donate* world one of `WaitFreeListsKeep`, which allows sends and
kills as well.

Only model-checked: of `HartSleep` the detector and
the waits (`DeadlockFound`, `WokenRuns`, `WaitsEnd`, `NoFalseAlarm`), the
other components of the worlds of `RuntimeMC` and `HostMC` (of `LogRings` the console's account, `EchoAccounted`), and all liveness, which is out of the prover's reach
together with `ENABLED`.  `DeepCopy` and `Values` are built from RECURSIVE
operators over data, which the prover does not accept.

## 5. Where the code and its statements disagree

Five of these are runs.  The others show with the constants named, in an
instance otherwise like the run named, or were found in reading for the models.

| | what happens | shown by |
|---|---|---|
| 1 | `chan_for` resets a free slot's counters before it has won the slot; the loser of the race may reset those of the winner, whose published message is lost. "Ok means queued" (docs/MAILBOX.md:43) | run `mb_fresh_reset` |
| 2 | `ship` reads `a->hart` after the CAS; in between the target's own re-scan may have kept it running, it yields, is donated and stolen, and the late ship lists it on the hart it left: it runs on two. "an actor runs on exactly one hart at a time and never migrates" (actors.c:9-10) | run `sc_migrates` |
| 3 | The detector compares the numbers of blocked and sleeping actors: one more actor, that waits for the sleeper, and the machine is stopped. "a sleeper is not a deadlock" (actors.c:1060) | run `hs_sleeper_alarm` |
| 4 | A kill from another hart hits a sender inside `ring_push`; its slot looks dead and drained and is given away: two producers on one ring | `mb_core` with `SendersApart`, one send each, `Mortal` {s1}: `OneWriter` |
| 5 | A sender that overflowed continues in a dedicated slot when one falls free (its owner died); `receive` looks there first. "one sender's messages arrive in order" (fp-risc/docs/PATHS.md:93) | `mb_core` with `Mortal` {s1}, `Kinds` any: `PerSenderFifo` |
| 6 | `receiveFrom` takes from a slot it looked up before the slot changed owner | `mb_core` with one send each, `Kinds` any and from, `Mortal` {s1}: `SelectiveTakes` |
| 7 | `take_at` shifts while `j > rh`, false across the wrap of the counters: one message is lost, one is queued twice | `mb_core` with one sender, `BoundToFirst`, `Cap0` 2, `CW` 8, `Start` 7, `Kinds` res: `OkMeansQueuedOnce` |
| 8 | Two harts that wake over full wake rings towards each other spin in `xpush` for ever | `sc_migrates` with five pinned actors besides main, a1 to a4 parked, `XCap` 1, `CrossHarts`, `MainAndFive`, `TwoOps`, send and receive: `NoCrossSpin` |
| 9 | With three harts `donate` may ring one whose idle flag is still up although it was rung already, while another sleeps on | `hs_wake` with three harts, three actors, a1 and a3 pinned, `FirstTwo`, send, receive, yield: `DonatedSeen` |
| 10 | `sleepUs` may notice its deadline before `slp_drain` does, return and be called again: the actor is linked twice and the list is a cycle | `hs_sleeper_alarm` with `Ops` 2, sleep and receive: `SleepersOnce` |
| 11 | A timer deadline further off than the detector's window is called a deadlock | `hs_sleeper_alarm` with `TimerActor` a2, timer, receive, send: `NoFalseAlarm` |
| 12 | On the irq hart a sleeper's later deadline overwrites the timer's sooner one | `hs_wake` with `sleep` given to a2: `TimerHeard` |
| 13 | A stolen actor is stamped anew. "migration never resets aging" (docsdata.fpr:640) | `Admission` with two harts, `Tau`, `RQCap`, `DonateHi` 1, nobody pinned: `KeepsAge` |
| 14 | The steal FIFO is read only by a hart with nothing else: a donated actor may wait without bound | the same on one hart: `DonatedBound` |
| 15 | A priority actor is stamped 0 and its first admission books the machine's age as a wait | `Admission` with `Prio` {a3}: `MaxWaitObserved` |
| 16 | `g_adm` counts the admissions of all harts: with two, the measured wait exceeds tau + residents | `Admission` with two harts, the actors apart: `WaitBound` |
| 17 | An actor killed while parked never leaves `g_blocked`; and, being in no list, it is never reaped | reading |
| 18 | The limbo's argument is that a send is over when its hart turns; a send that parks in its copy is not, and may write into a block that is another actor's by then | `ChanBlocks` with `ParkInSend` TRUE (`NeverAnothers`) |
| 19 | The block granted to a requester that was killed while it waited is lost | reading |
| 20 | `dc_size` ends a list at the static nil; a nil that a primitive built in the heap (`Vec.toList`, vec.c:445) makes it call itself for ever. "nil (static: 0)" (runtime.c:646) | run `dc_nil` |
| 21 | `==` answers yes at depth 64, and a list is as deep as it is long. "DEEP over the fields" (runtime.c:1592) | `rt_parts` with `EqDepth` 2 (`WrittenIsRead`) |
| 22 | `fpr_drop_park` past its sixteenth entry retires the oldest hold while what was borrowed through it may still be in use (198) | `Arc` with more drops than `DPN` (`HomeOnce`) |
| 23 | A writer of the grow ledger that is lapped by a ring of others fills a slot together with another | `LogRings` with `Lapped` TRUE (`ListedWhole`) |
| 24 | `Sys.logSnap` allocates, and may park, under `log_lock` (runtime.c:1833) | `LogRings` (`LogLockFree`) |
| 25 | A store call's answer lies in the one `g_sysout`, read after the lock is free: two harts may read each other's (qos/appside/entry.c:67) | `HostStore` (`OwnReply`) |
| 26 | The slot is loaded before `g_shared_live` is looked at: a second launch overwrites the running image and is then refused. "the slot must not be reloaded under them" (process.c:92) | `Slot` with the image demanded of `SlotKept` until the root has ended, its result taken or not |
| 27 | `ensureCk` looks at one of the superblock's flags: a crash inside the compaction's sweep is not seen at boot, and the old head is used over moved pages (qlog.fpr:194) | `Disk` with `SweepStops` TRUE (`Durable`) |
| 28 | `nic_tx` gives up waiting after a fixed number of turns; the next frame is built in the buffer the device has not read (net.c:219) | `Virtq` with `Patient` FALSE (`TxTrue`) |
| 29 | A segment past the room of the buffer is acknowledged whole (net.c:384) | reading; `Peers` in `NetTcp` keep to the window |
| 30 | A write to a peer that has gone raises SIGPIPE, which nobody ignores (net_raw.c:63) | `NetRaw` (`HostSurvives`) |
| 31 | Two bytes of an arrow's three are decoded as keys (tty_raw.c:143-165) | `Input` with `SplitEnd` TRUE (`TtyHeard`) |
| 32 | Two flushes of a shared UART: the second overwrites the parked first (uart.fpr:229-240) | `Uart` with `Shares` TRUE (`FlushAnswered`) |
| 33 | Two sources in one enable word, changed by two harts, lose an update (plic.c:38-43): a mask that is undone lets a second delivery come before the acknowledgement, an arming that is undone stops the source for good. "Exactly-once per ack, no storms" (plic.c:18) | `host_parts`, sources m1 and m2: `Deliveries(s) <= 1` is false, and `Deliveries(s) >= 1`, so `OncePerAck` counts what was undone |
| 34 | A wake ring to a hart that has left its loop fills and is never drained: `xpush` spins | `QosBoot`, excluded from `HostReturns` by `Stuck` |
| 35 | A panic under `log_lock` logs, and waits for itself; `in_panic` is not atomic (runtime.c:1376) | reading |
| 36 | A hart in `wfi` does not pass its loop, so blocks in limbo do not mature while one sleeps (353) | reading |
| 37 | `timer.fpr` compares deadlines with the clock's low word, whose 2^32 ticks are 429 s: what is due past the wrap is never due. "When the deadline passes, Timer.qa sends TFire" (timer.fpr:17) | `live_parts` with `LowWord` 2 (`WaitsEnd`) |
| 38 | Lane operations on a vector whose layout is not fixed read a column that is not there; an archive's permissions past the table are dropped (qos/portable/qa.c:147); the disk's request and page are static and have no lock (virt/blk.c:113) | reading |
| 39 | `tryReclaim` renames the dead owner's lock away before it redoes the journal, and holds nothing during the redo: a third process commits in between and is overwritten. "the dead owner's remaining lock dirs still fence other sol processes off" (Txn.hs:716) - the renamed one does not | run `tx_reclaim` |
| 40 | A reclaimer that dies during its redo leaves the renamed lock free over a half-applied commit, until the script runs again | `tx_reclaim` with three processes and two deaths (`Landed`) |
| 41 | Two reclaimers that have both probed the dead owner: the second may rename the lock the first has taken meanwhile. "Exactly one reclaimer wins the atomic rename" (Txn.hs:638) | `Claim` takes whatever lock is there |
| 42 | A process killed between `mkdir` and the owner file leaves a lock nobody reclaims. "a crashed sol no longer wedges every future run" (Txn.hs:562) | `GiveUp` on a lock that is not named |
| 43 | A death between the two removals of `clearJournal` leaves the done file: a later redo of that script skips commands it has not run | `Txn` with a script run again after it |
| 44 | `std.timer`'s `after` says a dropped request is checked again by the caller's sleep loop; `sleep` waits for the answer to its one send (std/timer.fpr:31,38) | reading |
| 45 | `draw_opaque_dyn` returns before it sets `nopaque` when a mesh has nothing staged, so `draw_translucent` subtracts the count of an earlier frame: text is lost, or more items are laid out than there is room for. "both come out right whatever mesh they use" (gfx.c:950) | `Gfx` with `Steady` FALSE (`FrameTrue`) |
| 46 | A statics list is known by its address. "a freed-and-recycled address cannot still be handed in" (gfx.c:1264): the graphics service drops each message after the frame | `Gfx` with `Retains` FALSE (`FrameTrue`) |
| 47 | Registering a mesh again that has statics marks nothing compiled, so the next list does not clear the other meshes' static buffers (gfx.c:891) | `Gfx` with `Careful` FALSE (`FrameTrue`) |
| 48 | `UClose` is answered whoever sends it: the device is released under its owner, and a flush that is parked is never answered (uart.fpr:241-245); `USub` likewise moves the bytes to any caller (uart.fpr:93). "any caller may move data (never reconfigure)" (uart.fpr:111). `std/uart.fpr`'s linear handle keeps a program to it | `Uart` without the owner in `Request` (`FlushAnswered`) |

## 6. What the modules leave out

* Memory is sequentially consistent.  The fences and the acquire/release pairs
  of the code are taken to do what their comments say; a module with store
  buffers is planned for the two Dekker handshakes.
* `Mailbox`: message contents, slabs and reference counts.  The key of a slot
  and the status of its sender are read in one step where `chan_for` reads one
  after the other.  The counters wrap at `CW`, a multiple of every capacity as
  2^32 is.
* `Sched`: a mailbox is a count.  `refill`'s scan takes one entry per step, so
  that a status may change behind it.  `reap` is the set `reaped`.
* `Admission`: the weighted reservoir is any choice.
* `HartSleep`: lists are sets, the wake rings to a hart are one set, a hart's
  own wakes go through it, an `msip` once set is seen by the next `wfi`.  The
  detector's sample is one step; what a spread sample could see besides is
  covered by the activity counter, which is part of it.  `DETECT_WINDOW` (two
  seconds) is modelled by what it gives a hart that is not asleep: the time to
  get once round its loop (`Settled`).  On a host whose threads are starved for
  longer than that the detector proves less.  Hart 0 sleeps no longer than to
  its next sample.  Interrupts (`irq_drain`) are delivered as the timer is.
* `kill` and the death of a body are the status word; the ARC side of a death
  is in `Arc` (`Reaped`).
* `Buddy`: free lists are sets, since which block is the head depends on
  history only.  `Arc` and `Pool`: objects have one size per list.
* `DeepCopy`: a cell has up to two fields; strings and closures are cells.
* `Vec`: the scalar bodies; words are small integers with a tag, floats are
  patterns that differ from every tagged integer.
* `NetTcp`: sequence numbers are an incarnation and an offset; checksums, ARP
  and windows other than the advertised one are left out.
* `HostStore`, `Disk`: a record or page is atomic to the extent the code writes
  it in one call; a page is never torn by itself.
* `QosBoot`: hashes are good or bad, permissions are names.
* `TimerSvc`: no message of the service is refused by a full mailbox, and what
  lies past the last tick of the clock is due there.
* `Txn`: files hold numbers; removals and directories are effects like writes;
  validation, under all the locks, is one step; a script is tried again without
  limit where `runTxLoop` gives up after twelve conflicts.  A lock whose owner
  lives is given up at any time, as after 5000 turns.
* `Uart`: the divisor (`UParams`) and the budget (`UBuf`) are fixed.  Anybody may send
  any request at any time, except that only who may use the device closes it: `close` of
  `std/uart.fpr` consumes the handle, which is linear; entry 48 is a close without it.
* `Interrupts`: a source is bound once; in the instance a behaviour uses one of
  its two words (`OneWord`), since words do not touch each other.
* `Slot`: while the launcher has not taken the result of a process that is
  ending, nothing is asked of the image after it has taken it (entry 26).

## 7. Not modelled

* `hal/unix/font_sdf.h` and `minimp3.h` are data and vendored code.
* `hal/unix/gfx.c`'s matrices, shaders and geometry, and `drm_scanout.h`: functions
  from instances to pixels.  Its window and mouse events, and text or see-through
  meshes in a statics list (never drawn, or drawn unblended).
* The compiler and the Sol VM: pure functions of their input.
* `runtime.c`'s arithmetic, floats, strings, rendering and printing: functions
  of their arguments inside one actor.
* `elfload.c`, the byte layout of archives and SHA-256: parsing.
* The simulated pins, bit arrays and linear strings: single-actor data with one
  assignment per operation.
* `svc.fpr`, `liveview.fpr` and the applications: actors that answer one request
  at a time.

## 8. Plan

Done: the mailbox with its refinement, proved, the scheduler, admission, sleep; the
memory under the actors; vectors; loading and booting; the devices; the time
service; Sol's commit; proofs as in section 4.

Next:

1. `Wake`: park against publish and idle against donate with store buffers;
   abstract specification: a flag and a value are never both missed.
2. Directories in `Txn`: listings are validated too, and the locks create them.
3. Proofs: the invariants of the other components of the worlds (`NetTcp`,
   `NetRaw`, `HostStore` first).

----------------------------- MODULE Interrupts -----------------------------
(* The two sources of interrupts of the virt board.                         *)
(*                                                                          *)
(* Device interrupts as messages (actors.c Sys.irqBind, Sys.irqAck and      *)
(* irq_drain; virt/plic.c): the last hart claims a source, masks it and     *)
(* sends to the actor bound; that actor services the device and arms the    *)
(* source again, from whatever hart it runs on.  The mask is a bit of a     *)
(* word that is read, changed and written back.                             *)
(*                                                                          *)
(* The timer (virt/hal.c) on a 32-bit hart: the 64-bit clock is read and a  *)
(* hart's compare register is written one word at a time while the clock    *)
(* runs.                                                                    *)
EXTENDS Integers, FiniteSets

CONSTANTS
  Srcs, PlicHarts, IrqHart,
  RunsOn,      \* source -> the harts the scheduler may run its actor on
  WordOf,      \* source -> the ENABLE word its bit is in
  MaxRaised,   \* BOUND: source -> times its device raises its line
  Word,        \* 2^32
  TMax         \* BOUND: the last tick of the clock
ASSUME PlicAssumption == /\ IrqHart \in PlicHarts /\ RunsOn \in [Srcs -> SUBSET PlicHarts]
                         /\ MaxRaised \in [Srcs -> Nat]
ASSUME ClintAssumption == Word \in Nat \ {0, 1} /\ TMax \in Nat

VARIABLES
  irqAct,   \* irq_act: the sources bound
  enabled,  \* ENABLE words: word -> the sources set in it
  lineUp,   \* the devices that hold their line up
  raised,   \* source -> times
  mail,     \* source -> deliveries its actor has not taken up
  doing,    \* hart -> what it is in the middle of: [op, src, word]
  busy,     \* sources whose actor services the device, or is about to arm
  masksUndone, armsUndone   \* history, source -> times a store for another source of its word
                            \* wrote back the bit from before its last mask, its last arm
pvars == <<irqAct, enabled, lineUp, raised, mail, doing, busy, masksUndone, armsUndone>>
undone == <<masksUndone, armsUndone>>
Resting == [op |-> "idle", src |-> CHOOSE s \in Srcs : TRUE, word |-> {}]
PInit ==
  /\ irqAct = {} /\ enabled = [w \in {WordOf[s] : s \in Srcs} |-> {}] /\ lineUp = {} /\ busy = {}
  /\ raised = [s \in Srcs |-> 0] /\ mail = [s \in Srcs |-> 0] /\ doing = [h \in PlicHarts |-> Resting]
  /\ masksUndone = [s \in Srcs |-> 0] /\ armsUndone = [s \in Srcs |-> 0]

Raise(s) == /\ s \notin lineUp /\ raised[s] < MaxRaised[s] /\ lineUp' = lineUp \cup {s}
            /\ raised' = [raised EXCEPT ![s] = @ + 1]
            /\ UNCHANGED <<irqAct, enabled, mail, doing, busy, undone>>
Begin(h, op, s) ==      \* plic_set_enable loads the word
  /\ doing[h].op = "idle" /\ doing' = [doing EXCEPT ![h] = [op |-> op, src |-> s, word |-> enabled[WordOf[s]]]]
Bind(h, s) == /\ h \in RunsOn[s] /\ s \notin irqAct /\ irqAct' = irqAct \cup {s} /\ Begin(h, "set", s)
              /\ busy' = busy \cup {s} /\ UNCHANGED <<enabled, lineUp, raised, mail, undone>>
Pending == {s \in lineUp : s \in enabled[WordOf[s]]}
Claim(s) == /\ irqAct # {} /\ s \in Pending /\ Begin(IrqHart, "clear", s)
            /\ UNCHANGED <<irqAct, enabled, lineUp, raised, mail, busy, undone>>
(* The word is stored, and what follows it: the send after a mask.  The     *)
(* bits of the other sources are those that were loaded.                    *)
Unmasked(w, s) == w
Masked(w, s) == w \ {s}
Others(s) == {t \in Srcs \ {s} : WordOf[t] = WordOf[s]}
Counted(f, C) == [t \in Srcs |-> IF t \in C THEN f[t] + 1 ELSE f[t]]
Store(h) ==
  LET d == doing[h]
      now_set == enabled[WordOf[d.src]] IN
  /\ d.op # "idle" /\ doing' = [doing EXCEPT ![h] = Resting]
  /\ enabled' = [enabled EXCEPT ![WordOf[d.src]] = IF d.op = "set" THEN d.word \cup {d.src} ELSE Masked(d.word, d.src)]
  /\ mail' = IF d.op = "clear" /\ d.src \in irqAct THEN [mail EXCEPT ![d.src] = @ + 1] ELSE mail
  /\ busy' = IF d.op = "set" THEN busy \ {d.src} ELSE busy
  /\ masksUndone' = Counted(masksUndone, Others(d.src) \cap (d.word \ now_set))
  /\ armsUndone' = Counted(armsUndone, Others(d.src) \cap (now_set \ d.word))
  /\ UNCHANGED <<irqAct, lineUp, raised>>
(* The actor takes its message and services the device, then irqAck: each   *)
(* on whatever hart the scheduler has put it by then.                       *)
Service(h, s) == /\ h \in RunsOn[s] /\ mail[s] > 0 /\ s \notin busy /\ doing[h].op = "idle"
                 /\ busy' = busy \cup {s} /\ mail' = [mail EXCEPT ![s] = @ - 1] /\ lineUp' = lineUp \ {s}
                 /\ UNCHANGED <<irqAct, enabled, raised, doing, undone>>
Arming(s) == \E h \in PlicHarts : doing[h].op = "set" /\ doing[h].src = s
Ack(h, s) == /\ h \in RunsOn[s] /\ s \in busy /\ ~Arming(s) /\ Begin(h, "set", s)
             /\ UNCHANGED <<irqAct, enabled, lineUp, raised, mail, busy, undone>>
PNext == \/ \E s \in Srcs : Raise(s) \/ Claim(s)
         \/ \E h \in PlicHarts, s \in Srcs : Bind(h, s) \/ Service(h, s) \/ Ack(h, s)
         \/ \E h \in PlicHarts : Store(h)
PSpec == PInit /\ [][PNext]_pvars
-----------------------------------------------------------------------------
(* The deliveries of a source that are under way or may begin: in its       *)
(* actor's mailbox, in its hands, and one more when it is being claimed or  *)
(* is armed.                                                                *)
Claimed(s) == doing[IrqHart].op = "clear" /\ doing[IrqHart].src = s
Deliveries(s) == mail[s] + (IF s \in busy THEN 1 ELSE 0)
                 + (IF Claimed(s) \/ s \in enabled[WordOf[s]] THEN 1 ELSE 0)
(* Whoever changes the word of s for another source does it on the irq      *)
(* hart, and so does the actor of s.                                        *)
Apart(s) == \A t \in Others(s) : RunsOn[s] \cup RunsOn[t] \subseteq {IrqHart}
(* plic.c: "Exactly-once per ack, no storms", and what the unlocked read,   *)
(* change and write of an ENABLE word leaves of it when bound actors run    *)
(* wherever the scheduler puts them: a source has one delivery, and one     *)
(* more at the most for each time a store for another source undid its      *)
(* mask; none comes only after a store for another source undid its arming; *)
(* and neither happens to a source that shares its word with nobody, or     *)
(* shares it on the claiming hart alone.                                    *)
OncePerAck ==
  \A s \in irqAct :
    /\ Deliveries(s) <= 1 + masksUndone[s]
    /\ armsUndone[s] = 0 => Deliveries(s) >= 1
    /\ Apart(s) => masksUndone[s] = 0 /\ armsUndone[s] = 0
-----------------------------------------------------------------------------
(* The timer *)
Parked == Word * Word - 1        \* hal_timer_park: ~0
VARIABLES
  now, cmp,         \* mtime, mtimecmp
  pc, was, want,    \* the step of the writer, the deadlines before and after it
  rstep, hi, lo, since, clock   \* the reader's step and words, the tick it began at, its answer (-1: none)
tvars == <<now, cmp, pc, was, want, rstep, hi, lo, since, clock>>
writevars == <<cmp, pc, was, want>>
readvars == <<rstep, hi, lo, since, clock>>

TInit == /\ now = 0 /\ cmp = Parked /\ pc = "idle" /\ was = Parked /\ want = Parked
         /\ rstep = "idle" /\ hi = 0 /\ lo = 0 /\ since = 0 /\ clock = -1
Tick == now < TMax /\ now' = now + 1 /\ UNCHANGED <<writevars, readvars>>

Hi(v) == v \div Word
Lo(v) == v % Word
With(h, l) == h * Word + l
(* hal_timer_arm and hal_timer_park: mtimecmp_write's three stores *)
Arm(v) == /\ pc = "idle" /\ want' = v /\ was' = cmp /\ pc' = "lo" /\ UNCHANGED <<now, cmp, readvars>>
Unguarded == cmp
Guarded == With(Hi(cmp), Word - 1)
StoreOnes == pc = "lo" /\ cmp' = Guarded /\ pc' = "hi" /\ UNCHANGED <<now, was, want, readvars>>
StoreHi == pc = "hi" /\ cmp' = With(Hi(want), Lo(cmp)) /\ pc' = "last" /\ UNCHANGED <<now, was, want, readvars>>
StoreLo == pc = "last" /\ cmp' = With(Hi(cmp), Lo(want)) /\ pc' = "idle" /\ UNCHANGED <<now, was, want, readvars>>

(* hal_mtime: high, low, and high again *)
ReadHi == rstep = "idle" /\ hi' = Hi(now) /\ since' = now /\ clock' = -1 /\ rstep' = "lo" /\ UNCHANGED <<now, writevars, lo>>
ReadLo == rstep = "lo" /\ lo' = Lo(now) /\ rstep' = "again" /\ UNCHANGED <<now, writevars, hi, since, clock>>
Assumed == TRUE
Stable == Hi(now) = hi
ReadAgain == /\ rstep = "again" /\ rstep' = "idle" /\ clock' = (IF Stable THEN With(hi, lo) ELSE -1)
             /\ UNCHANGED <<now, writevars, hi, lo, since>>     \* -1: the loop begins again
TNext == \/ Tick \/ StoreOnes \/ StoreHi \/ StoreLo \/ ReadHi \/ ReadLo \/ ReadAgain
         \/ \E v \in {Parked} \cup now..(now + Word) : Arm(v)
TSpec == TInit /\ [][TNext]_tvars

(* The timer's interrupt is pending (the clock has reached the compare      *)
(* register) only when it was for the old deadline, or is for the new one:  *)
(* hal.c: "no spurious match while the halves are split".                   *)
NoSpurious == now >= cmp => now >= was \/ now >= want

(* A clock read lies between the ticks at which it began and ended.         *)
ClockWithin == clock # -1 => since <= clock /\ clock <= now
ClockExact == NoSpurious /\ ClockWithin
=============================================================================

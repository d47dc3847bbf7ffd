------------------------------ MODULE LogRings ------------------------------
(* The severity rings behind log, logWarn, logErr and Sys.logSnap           *)
(* (runtime.c fpr_logput, g_logSnap): a line is written and its echo        *)
(* decided under log_lock, printed under the console lock; a snapshot       *)
(* copies the ring, newest first, into its caller's pool, still under       *)
(* log_lock, and a copy may find the buddy busy and wait.  And the ledger    *)
(* of arena growth (growlog): every hart that grows takes a ticket and      *)
(* fills the ticket's slot without a lock; Sys.growLog copies the slots and *)
(* skips one whose sequence number moved.  Memory is sequentially           *)
(* consistent here.                                                         *)
EXTENDS Integers, Sequences, FiniteSets, SequencesExt

CONSTANTS
  Writers, NoOne,
  HomeOf,      \* actor -> hart; an actor that spins keeps its hart
  LOG_N, ECHO_WIN, ECHO_ALLOW,
  MaxLines,    \* BOUND: lines logged
  Growers,     \* the harts
  GROWLOG_N,
  Lapped,      \* a grower may stay in its slot while GROWLOG_N others pass it
  MaxGrows     \* BOUND: events
LogSizes == /\ NoOne \notin Writers /\ {LOG_N, GROWLOG_N} \subseteq Nat \ {0}
            /\ {ECHO_WIN, ECHO_ALLOW, MaxLines, MaxGrows} \subseteq Nat

VARIABLES
  logged,     \* lines ever put in this severity's ring: its log_seq
  cells,      \* log_ring: index -> line
  lockedBy,   \* log_lock
  conBy,      \* fpr_con_lock
  winBase, echoUsed, suppressed,   \* echo_win_base, echo_used, echo_suppressed
  actor,      \* actor -> [at, line, note, i, have, copy]
  onHart,     \* hart -> the actor it runs
  echoed,     \* lines the console has
  noted,      \* lines its summaries own up to
  snaps       \* [copy, seq] of the snapshots taken
lvars == <<logged, cells, lockedBy, conBy, winBase, echoUsed, suppressed, actor, onHart, echoed, noted, snaps>>
Resting == [at |-> "idle", line |-> 0, note |-> 0, i |-> 0, have |-> 0, copy |-> <<>>]
Idx == 0 .. LOG_N - 1
LogInit ==
  /\ logged = 0 /\ cells = [i \in Idx |-> 0] /\ lockedBy = NoOne /\ conBy = NoOne
  /\ winBase = 0 /\ echoUsed = 0 /\ suppressed = 0
  /\ actor = [a \in Writers |-> Resting] /\ onHart = [h \in {HomeOf[a] : a \in Writers} |-> NoOne]
  /\ echoed = {} /\ noted = 0 /\ snaps = {}

Runs(a) == onHart[HomeOf[a]] = a
Go(a, at) == actor' = [actor EXCEPT ![a].at = at]
Off(a) == onHart' = [onHart EXCEPT ![HomeOf[a]] = NoOne]
Dispatch(a) == /\ onHart[HomeOf[a]] = NoOne /\ actor[a].at # "parked"
               /\ onHart' = [onHart EXCEPT ![HomeOf[a]] = a]
               /\ actor[a].at = "idle" => logged < MaxLines
               /\ \E at \in (IF actor[a].at = "idle" THEN {"put", "snap"} ELSE {actor[a].at}) : Go(a, at)
               /\ UNCHANGED <<logged, cells, lockedBy, conBy, winBase, echoUsed, suppressed, echoed, noted, snaps>>

(* fpr_logput *)
Window == IF logged + 1 - winBase >= ECHO_WIN THEN [base |-> logged + 1, used |-> 0] ELSE [base |-> winBase, used |-> echoUsed]
OwedAgain == 0
Owed == suppressed
LogPut(a) ==
  /\ Runs(a) /\ actor[a].at = "put" /\ lockedBy = NoOne
  /\ cells' = [cells EXCEPT ![logged % LOG_N] = logged + 1] /\ logged' = logged + 1
  /\ LET echo == Window.used < ECHO_ALLOW IN
     /\ winBase' = Window.base /\ echoUsed' = Window.used + (IF echo THEN 1 ELSE 0)
     /\ suppressed' = IF echo THEN suppressed - Owed ELSE suppressed + 1
     /\ actor' = [actor EXCEPT ![a] = IF echo THEN [Resting EXCEPT !.at = "con", !.line = logged + 1, !.note = suppressed] ELSE Resting]
     /\ IF echo THEN UNCHANGED onHart ELSE Off(a)
  /\ UNCHANGED <<lockedBy, conBy, echoed, noted, snaps>>
Echo(a) ==
  /\ Runs(a) /\ actor[a].at = "con" /\ conBy = NoOne
  /\ echoed' = echoed \cup {actor[a].line} /\ noted' = noted + actor[a].note
  /\ actor' = [actor EXCEPT ![a] = Resting] /\ Off(a)
  /\ UNCHANGED <<logged, cells, lockedBy, conBy, winBase, echoUsed, suppressed, snaps>>

(* g_logSnap: oldest to newest, each consed in front; each copy allocates. *)
NotTaken(a) == lockedBy' = lockedBy
Taken(a) == lockedBy' = a
SnapBegin(a) ==
  /\ Runs(a) /\ actor[a].at = "snap" /\ lockedBy = NoOne /\ Taken(a)
  /\ LET have == IF logged < LOG_N THEN logged ELSE LOG_N IN
     IF have = 0 THEN Go(a, "done")
     ELSE actor' = [actor EXCEPT ![a] = [Resting EXCEPT !.at = "copy", !.have = have]]
  /\ UNCHANGED <<logged, cells, conBy, winBase, echoUsed, suppressed, onHart, echoed, noted, snaps>>
SnapCopy(a) ==
  /\ Runs(a) /\ actor[a].at = "copy"
  /\ LET c == actor[a] IN
     actor' = [actor EXCEPT ![a].i = c.i + 1, ![a].at = IF c.i + 1 = c.have THEN "done" ELSE "copy",
                            ![a].copy = <<cells[(logged - c.have + c.i) % LOG_N]>> \o @]
  /\ UNCHANGED <<logged, cells, lockedBy, conBy, winBase, echoUsed, suppressed, onHart, echoed, noted, snaps>>
(* a copy finds no room and the buddy busy: the actor waits for its block *)
SnapWait(a) ==
  /\ Runs(a) /\ actor[a].at = "copy" /\ Go(a, "parked") /\ Off(a)
  /\ UNCHANGED <<logged, cells, lockedBy, conBy, winBase, echoUsed, suppressed, echoed, noted, snaps>>
SnapWoken(a) ==
  /\ actor[a].at = "parked" /\ Go(a, "copy")
  /\ UNCHANGED <<logged, cells, lockedBy, conBy, winBase, echoUsed, suppressed, onHart, echoed, noted, snaps>>
SnapEnd(a) ==
  /\ Runs(a) /\ actor[a].at = "done" /\ lockedBy' = NoOne
  /\ snaps' = snaps \cup {[copy |-> actor[a].copy, seq |-> logged]}
  /\ actor' = [actor EXCEPT ![a] = Resting] /\ Off(a)
  /\ UNCHANGED <<logged, cells, conBy, winBase, echoUsed, suppressed, echoed, noted>>
LogNext == \E a \in Writers : Dispatch(a) \/ LogPut(a) \/ Echo(a) \/ SnapBegin(a) \/ SnapCopy(a) \/ SnapWait(a) \/ SnapWoken(a) \/ SnapEnd(a)
LogSpec == LogInit /\ [][LogNext]_lvars
-----------------------------------------------------------------------------
(* A snapshot is the newest LOG_N lines as they stood at one moment, newest *)
(* first, whatever is logged while it copies.                               *)
SnapExact ==
  \A s \in snaps : /\ Len(s.copy) = (IF s.seq < LOG_N THEN s.seq ELSE LOG_N)
                   /\ \A i \in DOMAIN s.copy : s.copy[i] = s.seq - i + 1
(* The console owns up to every line it does not show: shown, about to be   *)
(* shown, in a summary or counted for the next one (runtime.c: "one honest  *)
(* summary line").                                                          *)
EchoAccounted ==
  LET printing == {a \in Writers : actor[a].at = "con"}
      owing == FoldFunction(+, 0, [a \in Writers |-> IF a \in printing THEN actor[a].note ELSE 0])
  IN logged = Cardinality(echoed) + Cardinality(printing) + noted + owing + suppressed
(* No hart spins for log_lock while its holder waits to run on that hart    *)
(* (runtime.c: "no spinlock is held across a wait").                        *)
LogLockFree ==
  \A a \in Writers : Runs(a) /\ actor[a].at \in {"put", "snap"} /\ lockedBy # NoOne
    => HomeOf[lockedBy] # HomeOf[a]
-----------------------------------------------------------------------------
(* The growth ledger. *)
VARIABLES
  nextSeq,  \* growlog_seq
  grows,    \* slot -> [seq, want, got]; an event writes its ticket into both
  grower,   \* hart -> [at, s]
  reader,   \* [at, s, newest, want, got]: Sys.growLog
  list      \* the seqs it lists, newest first, with what it copied
gvars == <<nextSeq, grows, grower, reader, list>>
Free == [at |-> "idle", s |-> 0]
GrowInit ==
  /\ nextSeq = 0 /\ grows = [i \in 0 .. GROWLOG_N - 1 |-> [seq |-> 0, want |-> 0, got |-> 0]]
  /\ grower = [h \in Growers |-> Free]
  /\ reader = [at |-> "idle", s |-> 0, newest |-> 0, want |-> 0, got |-> 0] /\ list = <<>>

Slot(s) == s % GROWLOG_N
To(h, at) == grower' = [grower EXCEPT ![h].at = at]
Ticket(h) ==
  /\ grower[h].at = "idle" /\ nextSeq < MaxGrows
  /\ ~Lapped => \A g \in Growers : grower[g].at # "idle" => Slot(grower[g].s) # Slot(nextSeq)
  /\ grower' = [grower EXCEPT ![h] = [at |-> "invalidate", s |-> nextSeq]] /\ nextSeq' = nextSeq + 1
  /\ UNCHANGED <<grows, reader, list>>
KeptValid(e) == e
Invalid(e) == [e EXCEPT !.seq = 0]
Write(h) ==
  LET s == grower[h].s IN
  /\ \/ grower[h].at = "invalidate" /\ To(h, "want") /\ grows' = [grows EXCEPT ![Slot(s)] = Invalid(@)]
     \/ grower[h].at = "want" /\ To(h, "got") /\ grows' = [grows EXCEPT ![Slot(s)].want = s + 1]
     \/ grower[h].at = "got" /\ To(h, "publish") /\ grows' = [grows EXCEPT ![Slot(s)].got = s + 1]
     \/ grower[h].at = "publish" /\ To(h, "idle") /\ grows' = [grows EXCEPT ![Slot(s)].seq = s + 1]
  /\ UNCHANGED <<nextSeq, reader, list>>

Have(n) == IF n < GROWLOG_N THEN n ELSE GROWLOG_N
(* seq1, the copy, seq2; then the next older ... newest slot *)
Read ==
  LET e == grows[Slot(reader.s)]
      step(at) == [reader EXCEPT !.at = at]
      over == [reader EXCEPT !.s = @ + 1, !.at = IF reader.s + 1 = reader.newest THEN "idle" ELSE "seq1"] IN
  /\ \/ /\ reader.at = "idle" /\ nextSeq > 0 /\ list' = <<>>
        /\ reader' = [reader EXCEPT !.at = "seq1", !.newest = nextSeq, !.s = nextSeq - Have(nextSeq)]
     \/ reader.at = "seq1" /\ reader' = (IF e.seq = reader.s + 1 THEN step("want") ELSE over) /\ UNCHANGED list
     \/ reader.at = "want" /\ reader' = [step("got") EXCEPT !.want = e.want] /\ UNCHANGED list
     \/ reader.at = "got" /\ reader' = [step("seq2") EXCEPT !.got = e.got] /\ UNCHANGED list
     \/ /\ reader.at = "seq2" /\ reader' = over
        /\ list' = IF e.seq = reader.s + 1
                   THEN <<[s |-> reader.s + 1, want |-> reader.want, got |-> reader.got]>> \o list ELSE list
  /\ UNCHANGED <<nextSeq, grows, grower>>
GrowNext == Read \/ \E h \in Growers : Ticket(h) \/ Write(h)
GrowSpec == GrowInit /\ [][GrowNext]_gvars
(* Sys.growLog lists whole events, newest first: what was copied under a    *)
(* sequence number is what its event wrote (runtime.c: "A torn slot ... is  *)
(* skipped rather than lied about").                                        *)
ListedWhole ==
  /\ \A i \in DOMAIN list : list[i].want = list[i].s /\ list[i].got = list[i].s
  /\ \A i, j \in DOMAIN list : i < j => list[i].s > list[j].s
=============================================================================

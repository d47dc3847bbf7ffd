-------------------------------- MODULE Txn --------------------------------
(***************************************************************************)
(* The commit of a Sol script, fp-risc/compiler/Sol/Txn.hs, by several     *)
(* processes that may be killed at any step: lock what was touched, in     *)
(* order, validate the reads, write the journal, apply the effects, clear  *)
(* the journal, unlock; and what a later process does about a dead one's   *)
(* locks and journal.                                                      *)
(*                                                                         *)
(* A step is one change another process can see: a mkdir or rename of a    *)
(* lock, the owner file, one renamed file, one line of the done file.      *)
(* The validation, under all the locks, is one step.  Files hold numbers   *)
(* and a script writes one more than it has read.                          *)
(***************************************************************************)
EXTENDS Integers, Sequences, FiniteSets, SequencesExt

CONSTANTS
  Sols,       \* the processes
  NoSol,
  Paths,      \* file names, numbers so that they sort
  Scripts,    \* [name -> [reads, effs]]; the name is that of the journal too
  Runs,       \* the ways the processes run scripts: a set of [Sols -> DOMAIN Scripts]
  MaxKills    \* BOUND: processes that are killed

Shell == 0    \* a deferred command among the effects

TxnSizes ==
  /\ Paths \subseteq Nat \ {Shell} /\ MaxKills \in Nat /\ NoSol \notin Sols
  /\ Runs \subseteq [Sols -> DOMAIN Scripts]

VARIABLES
  disk,     \* the files
  lock,     \* <path>.sol-lock: who made it, and whether the owner file is there
  journal,  \* <script>.soljournal
  marks,    \* <script>.soljournal.done
  sol,      \* each process's registers
  truth,    \* history: the files as the commit points leave them, atomically
  owed      \* history: the deferred commands of a commit that have not run

tvars == <<disk, lock, journal, marks, sol, truth, owed>>

Unlocked == [by |-> NoSol, named |-> FALSE]
NoJournal == <<>>
Own(p) == sol[p].own
Script(p) == Scripts[Own(p)]
Start(s) == [own |-> s, pc |-> "exists", goal |-> "recover", j |-> s, log |-> <<>>, i |-> 1,
             rec |-> FALSE, done |-> {}, failed |-> FALSE, snap |-> <<>>, todo |-> <<>>,
             held |-> <<>>, seen |-> NoSol]

TxnInit ==
  /\ disk = [x \in Paths |-> 0] /\ truth = disk
  /\ lock = [x \in Paths |-> Unlocked]
  /\ journal = [s \in DOMAIN Scripts |-> NoJournal]
  /\ marks = [s \in DOMAIN Scripts |-> {}]
  /\ owed = [s \in DOMAIN Scripts |-> {}]
  /\ \E run \in Runs : sol = [p \in Sols |-> Start(run[p])]

At(p, pc) == sol[p].pc = pc
Goto(p, pc) == sol' = [sol EXCEPT ![p].pc = pc]
Sorted(S) == SetToSortSeq(S, <)
Files(log) == {log[i][1] : i \in DOMAIN log} \ {Shell}
Want(p) == Head(sol[p].todo)
Dead(p) == sol[p].pc = "dead"

(* withLocks is left: everything held is released, in reverse order. *)
Leave(p, goal) == sol' = [sol EXCEPT ![p].pc = "release", ![p].goal = goal]
(* A recovery is over: at startup the locks go, in tryReclaim the lock is   *)
(* tried again.                                                             *)
Recovered(p) == Goto(p, IF sol[p].goal = "recover" THEN "release" ELSE "lock")

----------------------------------------------------------------------------
(* recoverJournal: doesFileExist, then readFile', which fails if the journal *)
(* went in between; at startup the locks are taken around the redo, under    *)
(* tryReclaim they are not.                                                  *)
Exists(p) ==
  /\ At(p, "exists")
  /\ IF journal[sol[p].j] # NoJournal THEN Goto(p, "found") ELSE Recovered(p)
  /\ UNCHANGED <<disk, lock, journal, marks, truth, owed>>
Found(p) ==
  LET log == journal[sol[p].j] IN
  /\ At(p, "found")
  /\ IF log = NoJournal THEN Leave(p, "fail")
     ELSE sol' = [sol EXCEPT ![p].log = log,
                    ![p].todo = IF @ = <<>> THEN Sorted(Files(log)) ELSE @,
                    ![p].pc = IF sol[p].goal = "recover" /\ Files(log) # {} THEN "lock"
                              ELSE "still"]
  /\ UNCHANGED <<disk, lock, journal, marks, truth, owed>>
Still(p) ==
  LET j == sol[p].j IN
  /\ At(p, "still")
  /\ IF journal[j] = NoJournal THEN Recovered(p)
     ELSE sol' = [sol EXCEPT ![p].pc = "apply", ![p].rec = TRUE, ![p].i = 1,
                             ![p].done = marks[j], ![p].failed = FALSE]
  /\ UNCHANGED <<disk, lock, journal, marks, truth, owed>>

----------------------------------------------------------------------------
(* The script: each path is read once, into the read set (snapshot). *)
Snapshot(p) ==
  /\ At(p, "run")
  /\ \E x \in Script(p).reads \ DOMAIN sol[p].snap :
       sol' = [sol EXCEPT ![p].snap = [y \in DOMAIN @ \cup {x} |->
                                         IF y = x THEN disk[x] ELSE @[y]]]
  /\ UNCHANGED <<disk, lock, journal, marks, truth, owed>>
(* commit, up to withLocks *)
Effects(p) ==
  [i \in DOMAIN Script(p).effs |->
     LET x == Script(p).effs[i] IN
     <<x, IF x \in DOMAIN sol[p].snap THEN sol[p].snap[x] + 1 ELSE 1>>]
Seal(p) ==
  LET touched == Script(p).reads \cup Files(Effects(p)) IN
  /\ At(p, "run") /\ DOMAIN sol[p].snap = Script(p).reads
  /\ sol' = [sol EXCEPT ![p].goal = "commit", ![p].j = Own(p), ![p].todo = Sorted(touched),
                        ![p].pc = IF touched = {} THEN "validate" ELSE "lock"]
  /\ UNCHANGED <<disk, lock, journal, marks, truth, owed>>

----------------------------------------------------------------------------
(* acquireGo: mkdir, then the owner file.  It gives up after 5000 turns, on *)
(* a lock whose owner lives or is not named yet: every 250th turn looks for *)
(* a dead one.                                                              *)
Mkdir(p) ==
  /\ At(p, "lock") /\ lock[Want(p)] = Unlocked
  /\ lock' = [lock EXCEPT ![Want(p)] = [by |-> p, named |-> FALSE]]
  /\ Goto(p, "name")
  /\ UNCHANGED <<disk, journal, marks, truth, owed>>
Name(p) ==
  /\ At(p, "name")
  /\ IF lock[Want(p)] = Unlocked
     THEN Leave(p, "fail") /\ UNCHANGED lock
     ELSE /\ lock' = [lock EXCEPT ![Want(p)] = [by |-> p, named |-> TRUE]]
          /\ sol' = [sol EXCEPT ![p].todo = Tail(@), ![p].held = Append(@, Want(p)),
                       ![p].pc = IF Tail(sol[p].todo) # <<>> THEN "lock"
                                 ELSE IF sol[p].goal = "recover" THEN "still" ELSE "validate"]
  /\ UNCHANGED <<disk, journal, marks, truth, owed>>
GiveUp(p) ==
  /\ At(p, "lock") /\ lock[Want(p)] # Unlocked
  /\ lock[Want(p)].named => ~Dead(lock[Want(p)].by)
  /\ Leave(p, "fail")
  /\ UNCHANGED <<disk, lock, journal, marks, truth, owed>>

(* tryReclaim: read the owner and probe it, then rename whatever lock is    *)
(* there by now; who wins finishes the dead owner's journal first, unless   *)
(* it is recovering one already.                                            *)
Probe(p) ==
  LET l == lock[Want(p)] IN
  /\ At(p, "lock") /\ l.named /\ Dead(l.by)
  /\ sol' = [sol EXCEPT ![p].seen = l.by, ![p].pc = "claim"]
  /\ UNCHANGED <<disk, lock, journal, marks, truth, owed>>
(* mutant: the reclaimed lock is taken, the journal left alone *)
ClaimOnly(p) ==
  /\ At(p, "claim")
  /\ lock' = [lock EXCEPT ![Want(p)] = Unlocked]
  /\ Goto(p, "lock")
  /\ UNCHANGED <<disk, journal, marks, truth, owed>>
Claim(p) ==
  /\ At(p, "claim")
  /\ lock' = [lock EXCEPT ![Want(p)] = Unlocked]
  /\ IF lock[Want(p)] = Unlocked \/ sol[p].goal = "recover" THEN Goto(p, "lock")
     ELSE sol' = [sol EXCEPT ![p].pc = "exists", ![p].j = Own(sol[p].seen)]
  /\ UNCHANGED <<disk, journal, marks, truth, owed>>

----------------------------------------------------------------------------
(* mutant: nothing is compared *)
FreshAlways(p) == TRUE
Fresh(p) == \A x \in DOMAIN sol[p].snap : disk[x] = sol[p].snap[x]
Validate(p) ==
  /\ At(p, "validate")
  /\ IF ~Fresh(p) THEN Leave(p, "retry")
     ELSE IF Script(p).effs = <<>> THEN Leave(p, "done") ELSE Goto(p, "journal")
  /\ UNCHANGED <<disk, lock, journal, marks, truth, owed>>
(* The commit point. *)
WriteJournal(p) ==
  LET log == Effects(p) IN
  /\ At(p, "journal")
  /\ journal' = [journal EXCEPT ![Own(p)] = log]
  /\ truth' = [x \in Paths |-> IF x \in Files(log)
                               THEN (CHOOSE e \in Range(log) : e[1] = x)[2] ELSE truth[x]]
  /\ owed' = [owed EXCEPT ![Own(p)] = {i \in DOMAIN log : log[i][1] = Shell}]
  /\ sol' = [sol EXCEPT ![p].pc = "apply", ![p].log = log, ![p].i = 1, ![p].j = Own(p),
                        ![p].rec = FALSE, ![p].failed = FALSE]
  /\ UNCHANGED <<disk, lock, marks>>

(* replayEffs, one effect a step; a command that failed keeps the later     *)
(* ones from running.                                                       *)
Apply(p) ==
  LET s == sol[p] IN
  /\ At(p, "apply") /\ s.i <= Len(s.log) /\ s.log[s.i][1] # Shell
  /\ disk' = [disk EXCEPT ![s.log[s.i][1]] = s.log[s.i][2]]
  /\ sol' = [sol EXCEPT ![p].i = @ + 1]
  /\ UNCHANGED <<lock, journal, marks, truth, owed>>
Skips(p) == sol[p].failed \/ (sol[p].rec /\ sol[p].i \in sol[p].done)
SkipShell(p) ==
  LET s == sol[p] IN
  /\ At(p, "apply") /\ s.i <= Len(s.log) /\ s.log[s.i][1] = Shell /\ Skips(p)
  /\ sol' = [sol EXCEPT ![p].i = @ + 1]
  /\ owed' = [owed EXCEPT ![s.j] = IF s.failed THEN @ \ {s.i} ELSE @]
  /\ UNCHANGED <<disk, lock, journal, marks, truth>>
RunShell(p) ==
  LET s == sol[p] IN
  /\ At(p, "apply") /\ s.i <= Len(s.log) /\ s.log[s.i][1] = Shell /\ ~Skips(p)
  /\ \E ok \in BOOLEAN : sol' = [sol EXCEPT ![p].pc = "mark", ![p].failed = ~ok]
  /\ owed' = [owed EXCEPT ![s.j] = @ \ {s.i}]
  /\ UNCHANGED <<disk, lock, journal, marks, truth>>
MarkDone(p) ==
  /\ At(p, "mark")
  /\ marks' = [marks EXCEPT ![sol[p].j] = @ \cup {sol[p].i}]
  /\ sol' = [sol EXCEPT ![p].pc = "apply", ![p].i = @ + 1]
  /\ UNCHANGED <<disk, lock, journal, truth, owed>>

(* clearJournal: the journal, then the done file *)
Clear(p) ==
  /\ At(p, "apply") /\ sol[p].i > Len(sol[p].log)
  /\ journal' = [journal EXCEPT ![sol[p].j] = NoJournal]
  /\ Goto(p, "cleared")
  /\ UNCHANGED <<disk, lock, marks, truth, owed>>
ClearDone(p) ==
  /\ At(p, "cleared")
  /\ marks' = [marks EXCEPT ![sol[p].j] = {}]
  /\ IF sol[p].rec THEN Recovered(p) ELSE Leave(p, "done")
  /\ UNCHANGED <<disk, lock, journal, truth, owed>>

(* forM_ (reverse acquired) release; then the script runs, for the first    *)
(* time or again, or the process is over.                                   *)
Release(p) ==
  LET s == sol[p] IN
  /\ At(p, "release") /\ s.held # <<>>
  /\ lock' = [lock EXCEPT ![Last(s.held)] = Unlocked]
  /\ sol' = [sol EXCEPT ![p].held = Front(@)]
  /\ UNCHANGED <<disk, journal, marks, truth, owed>>
Released(p) ==
  /\ At(p, "release") /\ sol[p].held = <<>>
  /\ sol' = [sol EXCEPT ![p] =
       [Start(Own(p)) EXCEPT !.pc = IF sol[p].goal \in {"recover", "retry"} THEN "run" ELSE "end"]]
  /\ UNCHANGED <<disk, lock, journal, marks, truth, owed>>

(* kill -9, at any point *)
Kill(p) ==
  /\ sol[p].pc \notin {"end", "dead"}
  /\ Cardinality({q \in Sols : Dead(q)}) < MaxKills
  /\ Goto(p, "dead")
  /\ UNCHANGED <<disk, lock, journal, marks, truth, owed>>

TxnStep(p) ==
  \/ Exists(p) \/ Found(p) \/ Still(p) \/ Snapshot(p) \/ Seal(p) \/ Mkdir(p) \/ Name(p)
  \/ GiveUp(p) \/ Probe(p) \/ Claim(p) \/ Validate(p) \/ WriteJournal(p) \/ Apply(p)
  \/ SkipShell(p) \/ RunShell(p) \/ MarkDone(p) \/ Clear(p) \/ ClearDone(p)
  \/ Release(p) \/ Released(p)
TxnNext == \E p \in Sols : TxnStep(p) \/ Kill(p)
TxnSpec == TxnInit /\ [][TxnNext]_tvars

----------------------------------------------------------------------------
(* Whoever reaches its commit point has read what the commits before it     *)
(* left: the commits happen one after another (validation under locks).     *)
Serial ==
  \A p \in Sols : At(p, "journal") => \A x \in DOMAIN sol[p].snap : sol[p].snap[x] = truth[x]

(* On the way from a dead owner's lock, which it has renamed away, to the   *)
(* end of the redo.                                                         *)
Redoing(p) ==
  \/ sol[p].goal = "recover" /\ sol[p].log # <<>> /\ sol[p].pc # "dead"
  \/ sol[p].goal = "commit" /\ sol[p].pc \in {"exists", "found", "still"}
  \/ sol[p].goal = "commit" /\ sol[p].rec /\ sol[p].pc \in {"apply", "mark"}
(* A file that nobody has locked, or is about to redo, is as the commits    *)
(* left it, whole: no commit is torn by a death, and none undone by a redo  *)
(* (the journal, tryReclaim).                                               *)
Landed ==
  \A x \in Paths : lock[x] = Unlocked /\ (\A p \in Sols : ~Redoing(p)) => disk[x] = truth[x]

(* When the journal of a commit goes, each of its deferred commands has run, *)
(* or one before it has failed ("at-least-once").                            *)
ShellsRun == \A s \in DOMAIN Scripts : journal[s] = NoJournal => owed[s] = {}

CommitAtomic == Serial /\ Landed /\ ShellsRun
============================================================================

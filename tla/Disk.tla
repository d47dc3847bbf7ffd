------------------------------- MODULE Disk -------------------------------
(* The append-only log on the block device: mods/qlog.fpr over the pages of *)
(* hal/virt/blk.c, or of hal/unix/blk_raw.c behind qos/appside/hal.c.  The  *)
(* storage actor is the log's only writer and a page is written whole, so   *)
(* an action is one page write: the machine may stop between any two.       *)
EXTENDS Naturals, Sequences, SequencesExt, FiniteSets

CONSTANTS
  Urls,
  DPages,      \* pages of the device, the superblock's included
  MinParted,   \* fmtDataEnd: fewer pages than this are not partitioned (16)
  DRecords,    \* what clients append: [tag, urls, np]
  DTop,        \* BOUND: appends and compactions in a run
  DCrashes,    \* BOUND: stops in a run
  SweepStops   \* the machine may stop inside a compaction

VARIABLES
  disk,     \* "off", "none" (the probe found no device), "on"
  pageOf,   \* data page -> <<"zero">>, <<"head", id>>, <<"data", id, k>>
  super,    \* the superblock: [fmt, head, commit, dend]
  job,      \* the actor's request under way and what it has still to write
  done,     \* ids of the records the actor answered Ok for, in order
  recOf,    \* id -> the record
  stops

dskvars == <<disk, pageOf, super, job, done, recOf, stops>>

Data == 1 .. DPages - 1
(* fmtDataEnd: 0, no bound, on a tiny disk.  The last eighth is for swap. *)
DataEnd == IF DPages >= MinParted THEN DPages - DPages \div 8 ELSE 0

NoJob == [kind |-> "none", ws |-> <<>>]
DInit ==
  /\ disk = "off" /\ pageOf = [p \in Data |-> <<"zero">>]
  /\ super = [fmt |-> FALSE, head |-> 1, commit |-> TRUE, dend |-> 0]
  /\ job = NoJob /\ done = <<>> /\ recOf = <<>> /\ stops = 0

(* blk_probe and blk_open_locked: a device, or none, found once. *)
Probe ==
  /\ disk = "off" /\ disk' \in {"none", "on"}
  /\ disk' = "none" => stops = 0
(* ensure: a page 0 it does not know is formatted; a cleared commit flag   *)
(* is set again with the head where it was, which truncates what was being *)
(* written.                                                                *)
Ensured(s) ==
  IF ~s.fmt THEN [fmt |-> TRUE, head |-> 1, commit |-> TRUE, dend |-> DataEnd]
  ELSE [s EXCEPT !.commit = TRUE]
Boot ==
  /\ Probe
  /\ super' = IF disk' = "on" THEN Ensured(super) ELSE super
  /\ UNCHANGED <<pageOf, job, done, recOf, stops>>

(* What a walk from page p reads, up to the head or the first page that is *)
(* no header: sequence of [id, whole], whole when every payload page is    *)
(* the record's own.                                                       *)
Walk(top) ==
  LET w[p \in 1 .. DPages + 4] ==
        IF p >= top \/ p \notin Data THEN <<>>
        ELSE IF pageOf[p][1] # "head" THEN <<>>
        ELSE LET id == pageOf[p][2]
                 np == recOf[id].np
             IN <<[id |-> id, page |-> p,
                   whole |-> \A k \in 1 .. np : /\ p + k \in Data
                                                /\ pageOf[p + k] = <<"data", id, k>>]>>
                \o w[p + 1 + np]
  IN w[1]
Tombstone(id) == recOf[id].tag = "QDEL"
(* replayAll: the chunks of u in order, none before its last tombstone. *)
Replay(log, u) ==
  FoldLeft(LAMBDA acc, e : IF u \notin recOf[e.id].urls THEN acc
                           ELSE IF Tombstone(e.id) THEN <<>>
                           ELSE Append(acc, <<e.id, e.whole>>), <<>>, log)

(* compact: a record lives when a url of it has no later tombstone; a      *)
(* tombstone when a kept record before it still carries its url.           *)
LastDel(log, u) ==
  LET at == {i \in DOMAIN log : Tombstone(log[i].id) /\ u \in recOf[log[i].id].urls}
  IN IF at = {} THEN 0 ELSE CHOOSE i \in at : \A j \in at : j <= i
AnyLive(log, i) == \E u \in recOf[log[i].id].urls : i > LastDel(log, u)
NeverKept(log, i) == FALSE
HasEarlier(log, i) ==
  \E j \in 1 .. i - 1 : /\ ~Tombstone(log[j].id) /\ AnyLive(log, j)
                        /\ recOf[log[j].id].urls \cap recOf[log[i].id].urls # {}
Keeps(log, i) == IF Tombstone(log[i].id) THEN HasEarlier(log, i) ELSE AnyLive(log, i)
Kept(log) ==
  LET live == SetToSortSeq({i \in DOMAIN log : Keeps(log, i)}, <)
  IN [k \in DOMAIN live |-> log[live[k]]]

(* What a job writes, in order: <<page, content>>, page 0 the superblock.  *)
Laid(id, r, p) ==
  <<<<p, <<"head", id>>>>>> \o [k \in 1 .. r.np |-> <<p + k, <<"data", id, k>>>>]
Moved(np) == <<0, [super EXCEPT !.head = @ + 1 + np, !.commit = TRUE]>>
InFlight == <<0, [super EXCEPT !.commit = FALSE]>>
HeadFirst(id, r) == <<Moved(r.np)>> \o Laid(id, r, super.head) \o <<Moved(r.np)>>
(* wrDo: the flag first, the pages, then head and flag together. *)
AppendJob(id, r) == <<InFlight>> \o Laid(id, r, super.head) \o <<Moved(r.np)>>

Idle == disk = "on" /\ job.ws = <<>>
(* A full data partition answers Err and writes nothing. *)
Fits(r) == super.dend > 0 => super.head + 1 + r.np <= super.dend
AppendRes(r) ==
  /\ Idle /\ Len(recOf) < DTop /\ Fits(r)
  /\ recOf' = Append(recOf, r)
  /\ job' = [kind |-> "append", ws |-> AppendJob(Len(recOf) + 1, r)]
  /\ UNCHANGED <<disk, pageOf, super, done, stops>>

(* compact buffers the kept pages, marks the sweep, rewrites them from     *)
(* page 1 and cuts the log.                                                *)
Buffered(kept) ==
  LET from == FlattenSeq([k \in DOMAIN kept |->
                [j \in 1 .. recOf[kept[k].id].np + 1 |-> kept[k].page + j - 1]])
  IN [p \in DOMAIN from |-> <<p, pageOf[from[p]]>>]
CompactJob(kept) ==
  LET ws == Buffered(kept)
  IN <<InFlight>> \o ws \o <<<<0, [super EXCEPT !.head = Len(ws) + 1, !.commit = TRUE]>>>>
Compact ==
  /\ Idle /\ super.head > 1
  /\ job' = [kind |-> "sweep", ws |-> CompactJob(Kept(Walk(super.head)))]
  /\ UNCHANGED <<disk, pageOf, super, done, recOf, stops>>

Down ==
  /\ stops < DCrashes /\ disk' = "off" /\ job' = NoJob /\ stops' = stops + 1
  /\ UNCHANGED <<pageOf, super, done, recOf>>
(* blk_rw: a page of the device, or a panic.  Ok is answered after the     *)
(* last write.                                                             *)
BlkWrite ==
  /\ disk = "on" /\ job.ws # <<>>
  /\ LET w == Head(job.ws) IN
       IF w[1] >= DPages THEN Down
       ELSE /\ super' = IF w[1] = 0 THEN w[2] ELSE super
            /\ pageOf' = [p \in Data |-> IF p = w[1] THEN w[2] ELSE pageOf[p]]
            /\ job' = [job EXCEPT !.ws = Tail(@)]
            /\ done' = IF Len(job.ws) = 1 /\ job.kind = "append"
                       THEN Append(done, Len(recOf)) ELSE done
            /\ UNCHANGED <<disk, recOf, stops>>
Stop ==
  /\ disk = "on" /\ (job.kind = "sweep" /\ job.ws # <<>> => SweepStops)
  /\ Down

DiskNext == Boot \/ (\E r \in DRecords : AppendRes(r)) \/ Compact \/ BlkWrite \/ Stop
DiskSpec == DInit /\ [][DiskNext]_dskvars

-----------------------------------------------------------------------------
(* Every record that was answered Ok is read back whole and in its place,  *)
(* for every url, after any number of appends, stops inside them, restarts *)
(* and compactions.                                                        *)
Durable ==
  Idle => LET answered == [k \in DOMAIN done |-> [id |-> done[k], whole |-> TRUE]]
          IN \A u \in Urls : Replay(Walk(super.head), u) = Replay(answered, u)
=============================================================================

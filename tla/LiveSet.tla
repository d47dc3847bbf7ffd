------------------------------- MODULE LiveSet -------------------------------
(***************************************************************************)
(* Code loaded at run time: the loader actor (std/loader.fpr), the module  *)
(* registry (hal/core/mod.c), the host's plugin window                     *)
(* (qos/portable/main.c: qosp_load_plugin_bytes) and the flat-image loader *)
(* (hal/core/qaimg.c).  A module is an id whose archive lies on the disk;  *)
(* loading it fills its part of the window, protects its code pages,       *)
(* attaches its table, gates it against the table before it and records    *)
(* the chain of live modules, which the next boot replays.                 *)
(***************************************************************************)
EXTENDS Integers, FiniteSets, Sequences, SequencesExt

CONSTANTS
  Mods,        \* ids with an archive on the disk
  Archive,     \* id -> set of archives that may be published under it
  WinPages, PagesOf,  \* the plugin window's pages, and the cells of each
  PlugMax, MaxAttach, \* PLUG_MAX, MOD_MAXATTACH
  MaxBoots, NoMod

Window == 0 .. WinPages * PagesOf - 1
Page(c) == c \div PagesOf
RoundUp(c) == ((c + PagesOf - 1) \div PagesOf) * PagesOf
RoundDown(c) == (c \div PagesOf) * PagesOf

LiveBounds == /\ WinPages \in Nat \ {0} /\ PagesOf \in Nat \ {0}
                     /\ PlugMax \in Nat /\ MaxAttach \in Nat /\ MaxBoots \in Nat

VARIABLES
  published,  \* id -> the archive the disk holds
  liveRec,    \* the sys/live record: a sequence of ids
  chain,      \* the loader's chain, oldest first
  tabs,       \* xtabs: the attached tables, by id, oldest first
  ranges,     \* plug_ranges: the page spans taken, never given back
  cellOf,     \* window cell -> the id whose image is there
  code,       \* cells protected r-x
  lstep,      \* the loader: <<"idle">>, <<"gate" | "record", id>>, ...
  todo,       \* ids a replay has still to attach
  lastAns,    \* the loader's last answer
  boots       \* boots so far
lvars == <<published, liveRec, chain, tabs, ranges, cellOf, code, lstep, todo, lastAns, boots>>

LInit == /\ published \in [Mods -> UNION {Archive[i] : i \in Mods}]
         /\ \A i \in Mods : published[i] \in Archive[i]
         /\ liveRec = <<>> /\ chain = <<>> /\ tabs = <<>> /\ ranges = {}
         /\ cellOf = [c \in Window |-> NoMod] /\ code = {}
         /\ lstep = <<"boot">> /\ todo = <<>> /\ lastAns = "none" /\ boots = 1

(* -- qaimg.c: what fpr_qaimg_load accepts, and what it reports ------------ *)
Placeable(a) ==
  /\ a.whole /\ a.memsz # 0 /\ a.len = a.imagesz
  /\ a.imagesz <= a.memsz /\ a.execsz <= a.imagesz /\ a.entry < a.execsz
  /\ a.base >= 0 /\ a.base + a.memsz <= WinPages * PagesOf
ImageCells(a) == a.base .. a.base + a.memsz - 1
ExecEnd(a) == a.base + a.execsz
RwStart(a) == IF a.rwoff < a.memsz THEN a.base + a.rwoff ELSE WinPages * PagesOf + PagesOf

(* -- main.c: qosp_load_plugin_bytes --------------------------------------- *)
Stamped(a) == a.abi \in {"ok", "none"} /\ a.shell \in {"ok", "none"}
(* mutant: the declared span is compared unrounded *)
SpanExact(a) == <<a.base, a.base + a.memsz>>
Span(a) == <<RoundDown(a.base), RoundUp(a.base + a.memsz)>>
Overlaps(a) == \E r \in ranges : Span(a)[1] < r[2] /\ Span(a)[2] > r[1]
Admissible(a) ==
  /\ Cardinality(ranges) < PlugMax /\ a.qar2 /\ Stamped(a)
  /\ a.whole /\ a.memsz # 0 /\ ~Overlaps(a)
PageSeparated(a) == RwStart(a) >= RoundUp(ExecEnd(a))
CodeCells(a) == RoundDown(a.base) .. RoundUp(ExecEnd(a)) - 1

(* Sys.attachQa: host load, then fpr_mod_attach.  An image refused after the *)
(* copy leaves its bytes in the window and the span unrecorded.              *)
Copied(i) == [c \in Window |-> IF c \in ImageCells(published[i]) THEN i ELSE cellOf[c]]
Refused == /\ lstep' = <<"idle">>
           /\ lastAns' = IF lstep[1] \in {"replay", "regate"} THEN "replay refused" ELSE "refused"
Attach(i, next) ==
  LET a == published[i] IN
  IF Admissible(a) /\ Placeable(a)
  THEN /\ cellOf' = Copied(i)
       /\ IF PageSeparated(a)
          THEN /\ ranges' = ranges \cup {Span(a)} /\ code' = code \cup CodeCells(a)
               /\ IF Len(tabs) < MaxAttach \/ \E k \in DOMAIN tabs : tabs[k] = i
                  THEN tabs' = (IF i \in Range(tabs) THEN tabs ELSE Append(tabs, i))
                       /\ lstep' = next /\ UNCHANGED lastAns
                  ELSE Refused /\ UNCHANGED tabs
          ELSE Refused /\ UNCHANGED <<ranges, code, tabs>>
  ELSE Refused /\ UNCHANGED <<cellOf, ranges, code, tabs>>

(* -- mod.c ---------------------------------------------------------------- *)
ExportsOf(i) == published[i].exports
Exporting(n) == {k \in DOMAIN tabs : n \in DOMAIN ExportsOf(tabs[k])}
ModFind(n) == IF Exporting(n) = {} THEN NoMod      \* newest first
              ELSE tabs[CHOOSE k \in Exporting(n) : \A j \in Exporting(n) : j <= k]
ModFindAt(k, n) == k \in DOMAIN tabs /\ n \in DOMAIN ExportsOf(tabs[k])
CompatAt(old, new) ==                             \* every export, same arity
  /\ {old, new} \subseteq DOMAIN tabs
  /\ \A n \in DOMAIN ExportsOf(tabs[old]) :
       ModFindAt(new, n) /\ ExportsOf(tabs[new])[n] = ExportsOf(tabs[old])[n]
DetachLast == tabs' = (IF tabs = <<>> THEN tabs ELSE Front(tabs))

(* -- loader.fpr ----------------------------------------------------------- *)
LLoad(i) == /\ lstep = <<"idle">> /\ Attach(i, <<"gate", i>>)
            /\ UNCHANGED <<published, liveRec, chain, todo, boots>>
LLaunch(i) == /\ lstep = <<"idle">> /\ Attach(i, <<"start", i>>)
              /\ UNCHANGED <<published, liveRec, chain, todo, boots>>
(* mutant: a launched app's table stays in the registry *)
LStartKept(i) ==
  /\ lstep = <<"start", i>> /\ lstep' = <<"idle">> /\ UNCHANGED tabs
  /\ lastAns' = IF ModFindAt(Len(tabs), "app") THEN "ok" ELSE "refused"
  /\ UNCHANGED <<published, liveRec, chain, ranges, cellOf, code, todo, boots>>
LStart(i) ==
  /\ lstep = <<"start", i>> /\ lstep' = <<"idle">> /\ DetachLast
  /\ lastAns' = IF ModFindAt(Len(tabs), "app") THEN "ok" ELSE "refused"
  /\ UNCHANGED <<published, liveRec, chain, ranges, cellOf, code, todo, boots>>
Gated == Len(tabs) = 1 \/ CompatAt(Len(tabs) - 1, Len(tabs))
LGate(i) ==
  /\ lstep = <<"gate", i>>
  /\ IF Gated THEN chain' = Append(chain, i) /\ lstep' = <<"record">> /\ UNCHANGED <<tabs, lastAns>>
              ELSE DetachLast /\ Refused /\ UNCHANGED chain
  /\ UNCHANGED <<published, liveRec, ranges, cellOf, code, todo, boots>>
(* mutant: the chain goes to the disk newest first, as it is kept in memory *)
LManifestRev ==
  /\ lstep = <<"record">> /\ lstep' = <<"idle">> /\ lastAns' = "ok"
  /\ liveRec' = Reverse(chain) \/ UNCHANGED liveRec
  /\ UNCHANGED <<published, chain, tabs, ranges, cellOf, code, todo, boots>>
LManifest ==                       \* the append's Result is dropped: it may have failed
  /\ lstep = <<"record">> /\ lstep' = <<"idle">> /\ lastAns' = "ok"
  /\ liveRec' = chain \/ UNCHANGED liveRec
  /\ UNCHANGED <<published, chain, tabs, ranges, cellOf, code, todo, boots>>
(* the boot's replay: the record's ids in order, each through the same gates *)
LReplay ==
  /\ lstep = <<"boot">> /\ todo' = liveRec
  /\ lstep' = <<"replay">> /\ UNCHANGED <<published, liveRec, chain, tabs, ranges, cellOf, code, lastAns, boots>>
LRep ==
  /\ lstep = <<"replay">>
  /\ IF todo = <<>> THEN lstep' = <<"idle">> /\ lastAns' = "replayed" /\ UNCHANGED <<cellOf, ranges, code, tabs, todo>>
     ELSE Attach(Head(todo), <<"regate", Head(todo)>>) /\ todo' = Tail(todo)
  /\ UNCHANGED <<published, liveRec, chain, boots>>
LRepGate(i) ==
  /\ lstep = <<"regate", i>>
  /\ IF Gated THEN chain' = Append(chain, i) /\ lstep' = <<"replay">> /\ UNCHANGED <<tabs, lastAns>>
              ELSE DetachLast /\ Refused /\ UNCHANGED chain
  /\ UNCHANGED <<published, liveRec, ranges, cellOf, code, todo, boots>>

(* the machine stops at any point and boots again from the same disk *)
Reboot ==
  /\ boots < MaxBoots /\ boots' = boots + 1
  /\ chain' = <<>> /\ tabs' = <<>> /\ ranges' = {} /\ cellOf' = [c \in Window |-> NoMod]
  /\ code' = {} /\ lstep' = <<"boot">> /\ todo' = <<>> /\ lastAns' = "none"
  /\ UNCHANGED <<published, liveRec>>

LNext == \/ \E i \in Mods : LLoad(i) \/ LLaunch(i) \/ LStart(i) \/ LGate(i) \/ LRepGate(i)
         \/ LManifest \/ LReplay \/ LRep \/ Reboot
LSpec == LInit /\ [][LNext]_lvars

(* While the loader waits for a request every name resolves to the newest     *)
(* module of its chain that exports it: neither a refused swap nor a launched *)
(* app has changed what Mod.find answers (loader.fpr: "the registry is the    *)
(* module chain; an app is a process, not a binding").                        *)
InChain(n) == {k \in DOMAIN chain : n \in DOMAIN ExportsOf(chain[k])}
NewestOfChain ==
  lstep = <<"idle">> =>
    \A n \in UNION {DOMAIN ExportsOf(i) : i \in Mods} :
      ModFind(n) = IF InChain(n) = {} THEN NoMod
                   ELSE chain[CHOOSE k \in InChain(n) : \A j \in InChain(n) : j <= k]
(* A boot from a disk whose archives are those the record was made from gets  *)
(* through the whole chain: the recorded set passes every gate again in its   *)
(* order and finds its part of the window free, whatever launches and refused *)
(* loads took of it in the boot that recorded it.                             *)
ReplayNeverRefused ==
  lstep = <<"idle">> => lastAns # "replay refused" /\ (lastAns = "replayed" => chain = liveRec)
(* An attached module's cells are its own, its code pages are r-x and none of *)
(* its writable cells is.                                                     *)
PlugSound ==
  \A k \in DOMAIN tabs : LET a == published[tabs[k]] IN
    /\ \A c \in ImageCells(a) : cellOf[c] = tabs[k]
    /\ a.base .. ExecEnd(a) - 1 \subseteq code
    /\ \A c \in RwStart(a) .. a.base + a.memsz - 1 : c \notin code
=============================================================================
